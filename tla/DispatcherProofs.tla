--------------------------- MODULE DispatcherProofs ---------------------------
(******************************************************************************)
(* The proofs about Dispatcher, the C layer below it and the rosters that     *)
(* clients see of it: Inv is inductive.                                       *)
(*                                                                            *)
(* First one lemma for each operation of ServerState, that it keeps StateInv  *)
(* under the condition its callers establish; then one for each handler, that *)
(* its ladder of checks establishes that condition and that what it returns   *)
(* is addressed to live clients; then Next.  Last, what a step may do to a    *)
(* channel and what its members are told of it: every step is shown to be one *)
(* of seven kinds (StepKinds); the action properties of Dispatcher and the    *)
(* rosters of RosterView follow kind by kind.                                 *)
(******************************************************************************)
EXTENDS RosterView, FiniteSetTheorems, TLAPS

\* The objects a client or channel starts as are of their types.
LEMMA NewTypes == NewClient \in Client /\ NewChannel \in Channel
BY StateAssumption DEF NewClient, NewChannel, Client, Channel, NoLimit

\* The invariant of the C layer speaks of its five variables only.
LEMMA UnchangedInv == StateInv /\ UNCHANGED stateVars => StateInv'
BY DEF StateInv, stateVars, StateTypeOK, MembershipSync, ChannelsAreInhabited,
       NoDanglingClient, NicknameIndexSync, ChannelRoles, OnlyRegisteredMembers, canRegister

\* A server that has just started satisfies the invariant of the C layer.
LEMMA InitInv == StateInit => StateInv
BY NewTypes, StateAssumption DEF StateInit, NewClient, NewChannel, StateInv, StateTypeOK, MembershipSync, ChannelsAreInhabited,
       NoDanglingClient, NicknameIndexSync, ChannelRoles, OnlyRegisteredMembers, canRegister

\* ServerState::addClient keeps the invariant of the C layer.
LEMMA AddClientInv ==
    ASSUME StateInv, NEW f \in Fd, addClient(f)
    PROVE  StateInv'
<1>1. CASE f \in fdToClient
  BY <1>1, UnchangedInv DEF addClient
<1>2. CASE f \notin fdToClient
  <2> USE DEF StateInv
  <2>1. StateTypeOK'
    BY <1>2, NewTypes DEF addClient, StateTypeOK
  <2>2. \A g \in Fd : client'[g] = IF g = f THEN NewClient ELSE client[g]
    BY <1>2 DEF addClient, StateTypeOK
  <2>3. MembershipSync'
    BY <1>2, <2>2 DEF addClient, MembershipSync, NoDanglingClient, NewClient
  <2>4. ChannelsAreInhabited' /\ NoDanglingClient' /\ ChannelRoles'
    BY <1>2 DEF addClient, ChannelsAreInhabited, NoDanglingClient, ChannelRoles
  <2>5. NicknameIndexSync'
    BY <1>2, <2>2 DEF addClient, NicknameIndexSync, NewClient, StateTypeOK
  <2>6. OnlyRegisteredMembers'
    BY <1>2, <2>2 DEF addClient, OnlyRegisteredMembers, NewClient, canRegister
  <2> QED BY <2>1, <2>3, <2>4, <2>5, <2>6
<1> QED BY <1>1, <1>2

\* ServerState::addClientToChannel does, for a registered client that is there.
LEMMA AddClientToChannelInv ==
    ASSUME StateInv, NEW f \in fdToClient, NEW c \in ChannelName,
           client[f].registered, addClientToChannel(f, c)
    PROVE  StateInv'
<1>1. CASE hasMember(c, f)
  BY <1>1, UnchangedInv DEF addClientToChannel
<1>2. CASE ~hasMember(c, f)
  <2> USE DEF StateInv
  <2> DEFINE old == IF c \in channels THEN channel[c] ELSE NewChannel
             ch  == addMember(old, f)
             new == IF ch.members = {f} THEN setOperator(ch, f, TRUE) ELSE ch
  <2>0. f \in Fd
    BY DEF StateTypeOK
  <2>1. old \in Channel
    BY NewTypes DEF StateTypeOK
  <2>2. /\ new \in Channel
        /\ new.members = old.members \cup {f}
        /\ new.invited = old.invited \ {f}
        /\ new.operators \subseteq old.operators \cup {f}
    <3>1. /\ ch \in Channel
          /\ ch.members = old.members \cup {f}
          /\ ch.invited = old.invited \ {f}
          /\ ch.operators = old.operators \ {f}
      BY <2>0, <2>1, ZenonT(40) DEF Channel, addMember
    <3> HIDE DEF ch
    <3> QED BY <2>0, <3>1 DEF Channel, setOperator
  <2>3. /\ channels' = channels \cup {c}
        /\ channel' = [channel EXCEPT ![c] = new]
        /\ client' = [client EXCEPT ![f].channels = @ \cup {c}]
        /\ UNCHANGED <<fdToClient, nicknameToClient>>
    BY <1>2 DEF addClientToChannel
  <2> HIDE DEF new
  <2>4. /\ \A d \in ChannelName : channel'[d] = IF d = c THEN new ELSE channel[d]
        /\ \A g \in Fd : client'[g] = IF g = f THEN [client[f] EXCEPT !.channels = @ \cup {c}] ELSE client[g]
    BY <2>0, <2>3 DEF StateTypeOK
  <2>5. [client[f] EXCEPT !.channels = @ \cup {c}] \in Client
    BY <2>0 DEF StateTypeOK, Client
  <2>6. old.members = channel[c].members /\ old.invited \subseteq fdToClient /\ old.operators \subseteq old.members
        /\ old.invited \cap old.members = {}
    BY DEF ChannelsAreInhabited, NewChannel, NoDanglingClient, ChannelRoles
  <2> HIDE DEF old
  <2>7. StateTypeOK'
    BY <2>0, <2>2, <2>3, <2>5 DEF StateTypeOK
  <2>8. MembershipSync'
    BY <2>0, <2>2, <2>3, <2>4, <2>6 DEF MembershipSync, StateTypeOK, Client
  <2>9. ChannelsAreInhabited'
    BY <2>2, <2>3, <2>4, <2>6 DEF ChannelsAreInhabited
  <2>10. NoDanglingClient'
    BY <2>2, <2>3, <2>4, <2>6 DEF NoDanglingClient
  <2>11. NicknameIndexSync'
    BY <2>0, <2>3, <2>4 DEF NicknameIndexSync, StateTypeOK, Client
  <2>12. ChannelRoles'
    BY <2>2, <2>3, <2>4, <2>6 DEF ChannelRoles
  <2>13. OnlyRegisteredMembers'
    BY <2>0, <2>3, <2>4 DEF OnlyRegisteredMembers, canRegister, StateTypeOK, Client
  <2> QED BY <2>7, <2>8, <2>9, <2>10, <2>11, <2>12, <2>13
<1> QED BY <1>1, <1>2

\* ServerState::removeClientFromChannel does, the deletion of a channel that
\* becomes empty included.
LEMMA RemoveClientFromChannelInv ==
    ASSUME StateInv, NEW f \in fdToClient, NEW c \in ChannelName,
           removeClientFromChannel(f, c)
    PROVE  StateInv'
<1>1. CASE ~hasMember(c, f)
  BY <1>1, UnchangedInv DEF removeClientFromChannel
<1>2. CASE hasMember(c, f)
  <2> USE DEF StateInv
  <2> DEFINE ch == removeClientState(channel[c], f)
  <2>0. f \in Fd
    BY DEF StateTypeOK
  <2>1. /\ ch \in Channel
        /\ ch.members = channel[c].members \ {f}
        /\ ch.operators = channel[c].operators \ {f}
        /\ ch.invited = channel[c].invited \ {f}
    BY <2>0 DEF StateTypeOK, Channel, removeClientState
  <2>2. /\ channels' = channels \ (IF ch.members = {} THEN {c} ELSE {})
        /\ channel' = [d \in ChannelName |->
                          IF d = c THEN IF ch.members = {} THEN NewChannel ELSE ch
                          ELSE channel[d]]
        /\ client' = [client EXCEPT ![f].channels = @ \ {c}]
        /\ UNCHANGED <<fdToClient, nicknameToClient>>
    <3> DEFINE chs == [channel EXCEPT ![c] = ch]
    <3>1. \A d \in ChannelName : chs[d] = IF d = c THEN ch ELSE channel[d]
      BY DEF StateTypeOK
    <3>2. removeIfEmpty(chs, {c})
      BY <1>2 DEF removeClientFromChannel
    <3> HIDE DEF chs, ch
    <3>3. {d \in {c} : chs[d].members = {}} = IF ch.members = {} THEN {c} ELSE {}
      BY <3>1
    <3>4. channels' = channels \ (IF ch.members = {} THEN {c} ELSE {})
      BY <3>2, <3>3 DEF removeIfEmpty
    <3>5. channel' = [d \in ChannelName |->
              IF d \in (IF ch.members = {} THEN {c} ELSE {}) THEN NewChannel ELSE chs[d]]
      BY <3>2, <3>3 DEF removeIfEmpty
    <3>6. channel' = [d \in ChannelName |->
                          IF d = c THEN IF ch.members = {} THEN NewChannel ELSE ch
                          ELSE channel[d]]
      BY <3>1, <3>5
    <3> QED BY <1>2, <3>4, <3>6 DEF removeClientFromChannel
  <2> HIDE DEF ch
  <2>3. \A g \in Fd : client'[g] = IF g = f THEN [client[f] EXCEPT !.channels = @ \ {c}] ELSE client[g]
    BY <2>0, <2>2 DEF StateTypeOK
  <2>4. [client[f] EXCEPT !.channels = @ \ {c}] \in Client
    BY <2>0 DEF StateTypeOK, Client
  <2>5. StateTypeOK'
    BY <2>0, <2>1, <2>2, <2>4, NewTypes DEF StateTypeOK
  <2>6. MembershipSync'
    BY <2>0, <2>1, <2>2, <2>3 DEF MembershipSync, StateTypeOK, Client, NewChannel
  <2>7. ChannelsAreInhabited'
    BY <2>1, <2>2, <1>2 DEF ChannelsAreInhabited, NewChannel, hasMember
  <2>8. NoDanglingClient'
    BY <2>1, <2>2 DEF NoDanglingClient, NewChannel
  <2>9. NicknameIndexSync'
    BY <2>0, <2>2, <2>3 DEF NicknameIndexSync, StateTypeOK, Client
  <2>10. ChannelRoles'
    BY <2>1, <2>2 DEF ChannelRoles, NewChannel
  <2>11. OnlyRegisteredMembers'
    BY <2>0, <2>2, <2>3 DEF OnlyRegisteredMembers, canRegister, StateTypeOK, Client
  <2> QED BY <2>5, <2>6, <2>7, <2>8, <2>9, <2>10, <2>11
<1> QED BY <1>1, <1>2

\* ServerState::inviteClientToChannel does, for somebody not in the channel.
LEMMA InviteClientToChannelInv ==
    ASSUME StateInv, NEW f \in fdToClient, NEW c \in ChannelName,
           ~hasMember(c, f), c \in channels, inviteClientToChannel(f, c)
    PROVE  StateInv'
<1> USE DEF StateInv
<1> DEFINE ch == [channel[c] EXCEPT !.invited = @ \cup {f}]
<1>1. /\ ch \in Channel
      /\ ch.members = channel[c].members
      /\ ch.operators = channel[c].operators
      /\ ch.invited = channel[c].invited \cup {f}
  BY DEF StateTypeOK, Channel
<1>2. /\ channel' = [channel EXCEPT ![c] = ch]
      /\ UNCHANGED <<fdToClient, client, nicknameToClient, channels>>
  BY StateAssumption DEF inviteClientToChannel, StateTypeOK
<1> HIDE DEF ch
<1>3. \A d \in ChannelName : channel'[d] = IF d = c THEN ch ELSE channel[d]
  BY <1>2 DEF StateTypeOK
<1>4. StateTypeOK'
  BY <1>1, <1>2 DEF StateTypeOK
<1>5. MembershipSync' /\ ChannelsAreInhabited' /\ NoDanglingClient'
  BY <1>1, <1>2, <1>3 DEF MembershipSync, ChannelsAreInhabited, NoDanglingClient
<1>6. NicknameIndexSync' /\ OnlyRegisteredMembers'
  BY <1>2 DEF NicknameIndexSync, OnlyRegisteredMembers, canRegister
<1>7. ChannelRoles'
  BY <1>1, <1>2, <1>3 DEF ChannelRoles, hasMember
<1> QED BY <1>4, <1>5, <1>6, <1>7

\* ServerState::removeClient does: all channels, tickets, nickname and fd go
\* together.
LEMMA RemoveClientInv ==
    ASSUME StateInv, NEW f \in Fd, removeClient(f)
    PROVE  StateInv'
<1> USE DEF StateInv
<1> DEFINE mine == client[f].channels
           left == [c \in ChannelName |-> IF c \in mine THEN removeClientState(channel[c], f)
                                          ELSE channel[c]]
           gone == withoutInvites(left, f)
           empty == {c \in mine : gone[c].members = {}}
<1>0. mine \subseteq ChannelName
  BY DEF StateTypeOK, Client
<1>1. \A c \in ChannelName : /\ gone[c] \in Channel
                             /\ gone[c].members = channel[c].members \ {f}
                             /\ gone[c].operators = channel[c].operators \ {f}
                             /\ gone[c].invited = channel[c].invited \ {f}
  <2> TAKE c \in ChannelName
  <2>1. channel[c] \in Channel
    BY DEF StateTypeOK
  <2>2. /\ left[c] \in Channel
        /\ left[c].members = channel[c].members \ {f}
        /\ left[c].operators = channel[c].operators \ {f}
        /\ left[c].invited \in {channel[c].invited, channel[c].invited \ {f}}
    <3>1. CASE c \in mine
      BY <2>1, <3>1 DEF Channel, removeClientState
    <3>2. CASE c \notin mine
      <4>1. f \notin channel[c].members
        BY <3>2 DEF MembershipSync
      <4>2. f \notin channel[c].operators
        BY <4>1 DEF ChannelRoles
      <4> QED BY <2>1, <3>2, <4>1, <4>2 DEF Channel
    <3> QED BY <3>1, <3>2
  <2>3. gone[c] = [left[c] EXCEPT !.invited = @ \ {f}]
    BY DEF withoutInvites
  <2> HIDE DEF left, gone
  <2> QED BY <2>1, <2>2, <2>3 DEF Channel
<1>2. /\ channels' = channels \ empty
      /\ channel' = [c \in ChannelName |-> IF c \in empty THEN NewChannel ELSE gone[c]]
  BY DEF removeClient, removeIfEmpty
<1> HIDE DEF gone, left
<1>3. /\ fdToClient' = fdToClient \ {f}
      /\ client' = [client EXCEPT ![f] = NewClient]
      /\ nicknameToClient' = [k \in NickKey |->
             IF client[f].nick # None /\ k = Fold[client[f].nick]
             THEN None ELSE nicknameToClient[k]]
  BY DEF removeClient
<1>4. \A g \in Fd : client'[g] = IF g = f THEN NewClient ELSE client[g]
  BY <1>3 DEF StateTypeOK
<1>5. \A c \in ChannelName : /\ channel'[c].members = channel[c].members \ {f}
                             /\ channel'[c].operators \subseteq channel[c].operators \ {f}
                             /\ channel'[c].invited \subseteq channel[c].invited \ {f}
  BY <1>1, <1>2 DEF NewChannel
<1>6. StateTypeOK'
  BY <1>1, <1>2, <1>3, NewTypes DEF StateTypeOK
<1>7. MembershipSync'
  BY <1>4, <1>5 DEF MembershipSync, NewClient
<1>8. ChannelsAreInhabited'
  BY <1>0, <1>1, <1>2, <1>5 DEF ChannelsAreInhabited, MembershipSync
<1>9. NoDanglingClient'
  BY <1>3, <1>5 DEF NoDanglingClient
<1>10. NicknameIndexSync'
  BY <1>3, <1>4, StateAssumption DEF NicknameIndexSync, StateTypeOK, Client, NewClient
<1>11. ChannelRoles'
  BY <1>5, <1>2, <1>1 DEF ChannelRoles, NewChannel
<1>12. OnlyRegisteredMembers'
  BY <1>4 DEF OnlyRegisteredMembers, NewClient, canRegister
<1> QED BY <1>6, <1>7, <1>8, <1>9, <1>10, <1>11, <1>12

\* A change of a client that leaves its nickname and channels alone and does
\* not take back its registration (PASS, USER).
LEMMA ClientUpdateInv ==
    ASSUME StateInv, NEW f \in fdToClient, NEW cl \in Client,
           cl.nick = client[f].nick, cl.channels = client[f].channels,
           client[f].registered => cl.registered,
           cl.registered => canRegister(cl),
           client' = [client EXCEPT ![f] = cl],
           UNCHANGED <<fdToClient, nicknameToClient, channels, channel>>
    PROVE  StateInv'
<1> USE DEF StateInv
<1>1. \A g \in Fd : client'[g] = IF g = f THEN cl ELSE client[g]
  BY DEF StateTypeOK
<1>2. StateTypeOK'
  BY DEF StateTypeOK
<1>3. MembershipSync' /\ ChannelsAreInhabited' /\ NoDanglingClient' /\ ChannelRoles'
  BY <1>1 DEF MembershipSync, ChannelsAreInhabited, NoDanglingClient, ChannelRoles
<1>4. NicknameIndexSync'
  BY <1>1 DEF NicknameIndexSync, StateTypeOK
<1>5. OnlyRegisteredMembers'
  BY <1>1 DEF OnlyRegisteredMembers, canRegister
<1> QED BY <1>2, <1>3, <1>4, <1>5

\* A change of a channel that leaves its members and tickets alone and makes no
\* outsider an operator (TOPIC, MODE).
LEMMA ChannelUpdateInv ==
    ASSUME StateInv, NEW c \in ChannelName, NEW ch \in Channel,
           ch.members = channel[c].members, ch.invited = channel[c].invited,
           ch.operators \subseteq ch.members,
           channel' = [channel EXCEPT ![c] = ch],
           UNCHANGED <<fdToClient, client, nicknameToClient, channels>>
    PROVE  StateInv'
<1> USE DEF StateInv
<1>1. \A d \in ChannelName : channel'[d] = IF d = c THEN ch ELSE channel[d]
  BY DEF StateTypeOK
<1>2. StateTypeOK'
  BY DEF StateTypeOK
<1>3. MembershipSync' /\ ChannelsAreInhabited' /\ NoDanglingClient' /\ ChannelRoles'
  BY <1>1 DEF MembershipSync, ChannelsAreInhabited, NoDanglingClient, ChannelRoles
<1>4. NicknameIndexSync' /\ OnlyRegisteredMembers'
  BY DEF NicknameIndexSync, OnlyRegisteredMembers, canRegister
<1> QED BY <1>2, <1>3, <1>4

\* What getClientByNick finds is a live client.
LEMMA LookupType ==
    ASSUME StateInv, NEW n, getClientByNick(n) # None
    PROVE  getClientByNick(n) \in fdToClient
BY StateAssumption DEF StateInv, StateTypeOK, NicknameIndexSync, getClientByNick

\* ClientRegistry::updateNick keeps both maps in step when nickAvailable let the
\* nickname through, whatever it was before and also if only its case changes.
LEMMA RenameInv ==
    ASSUME StateInv, NEW f \in fdToClient, NEW n \in Nick, NEW cl \in Client,
           nickAvailable(f, n),
           cl.nick = n, cl.channels = client[f].channels,
           client[f].registered => cl.registered,
           cl.registered => canRegister(cl),
           client' = [client EXCEPT ![f] = cl],
           nicknameToClient' = nicknameIndex(f, n),
           UNCHANGED <<fdToClient, channels, channel>>
    PROVE  StateInv'
<1> USE DEF StateInv
<1>0. f \in Fd /\ n # None /\ Fold[n] \in NickKey
  BY StateAssumption DEF StateTypeOK
<1>1. \A g \in Fd : client'[g] = IF g = f THEN cl ELSE client[g]
  BY DEF StateTypeOK
<1>2. \A k \in NickKey : nicknameToClient'[k] =
          IF k = Fold[n] THEN f
          ELSE IF client[f].nick # None /\ k = Fold[client[f].nick] THEN None
          ELSE nicknameToClient[k]
  <2>1. CASE client[f].nick = n
    BY <1>0, <2>1 DEF nicknameIndex, NicknameIndexSync
  <2>2. CASE client[f].nick # n
    <3> DEFINE old    == client[f].nick
               erased == IF old = None THEN nicknameToClient
                         ELSE [nicknameToClient EXCEPT ![Fold[old]] = None]
    <3>1. erased \in [NickKey -> Fd \cup {None}]
      BY DEF StateTypeOK
    <3>2. \A k \in NickKey : erased[k] = IF old # None /\ k = Fold[old] THEN None
                                         ELSE nicknameToClient[k]
      BY StateAssumption DEF StateTypeOK, Client
    <3>3. nicknameToClient[Fold[n]] \in {None, f}
      BY <2>2 DEF nickAvailable, getClientByNick
    <3>4. erased[Fold[n]] = None
      BY <1>0, <3>2, <3>3, StateAssumption DEF NicknameIndexSync
    <3>5. nicknameToClient' = [erased EXCEPT ![Fold[n]] = IF @ = None THEN f ELSE @]
      BY <2>2 DEF nicknameIndex
    <3> HIDE DEF erased
    <3> QED BY <1>0, <3>1, <3>2, <3>4, <3>5
  <2> QED BY <2>1, <2>2
<1>3. nicknameToClient' \in [NickKey -> Fd \cup {None}]
  BY <1>0, StateAssumption DEF nicknameIndex, StateTypeOK, Client
<1>4. StateTypeOK'
  BY <1>3 DEF StateTypeOK
<1>5. MembershipSync' /\ ChannelsAreInhabited' /\ NoDanglingClient' /\ ChannelRoles'
  BY <1>1 DEF MembershipSync, ChannelsAreInhabited, NoDanglingClient, ChannelRoles
<1>6. ASSUME NEW g \in Fd, client'[g].nick # None
      PROVE  nicknameToClient'[Fold[client'[g].nick]] = g
  <2>1. CASE g = f
    BY <1>0, <1>1, <1>2, <2>1
  <2>2. CASE g # f
    <3>1. /\ client'[g].nick = client[g].nick
          /\ client[g].nick \in Nick
          /\ Fold[client[g].nick] \in NickKey
          /\ nicknameToClient[Fold[client[g].nick]] = g
      BY <1>1, <1>6, <2>2, StateAssumption DEF StateTypeOK, Client, NicknameIndexSync
    <3>2. Fold[client[g].nick] # Fold[n]
      <4>1. CASE client[f].nick = n
        BY <1>0, <2>2, <3>1, <4>1 DEF NicknameIndexSync
      <4>2. CASE client[f].nick # n
        BY <2>2, <3>1, <4>2, StateAssumption DEF nickAvailable, getClientByNick
      <4> QED BY <4>1, <4>2
    <3>3. client[f].nick # None => Fold[client[g].nick] # Fold[client[f].nick]
      BY <1>0, <2>2, <3>1 DEF NicknameIndexSync
    <3> QED BY <1>2, <3>1, <3>2, <3>3
  <2> QED BY <2>1, <2>2
<1>7. ASSUME NEW k \in NickKey, nicknameToClient'[k] # None
      PROVE  /\ nicknameToClient'[k] \in fdToClient'
             /\ client'[nicknameToClient'[k]].nick # None
             /\ Fold[client'[nicknameToClient'[k]].nick] = k
  <2>1. CASE k = Fold[n]
    BY <1>0, <1>1, <1>2, <2>1
  <2>2. CASE k # Fold[n]
    <3>1. nicknameToClient'[k] = nicknameToClient[k] /\ nicknameToClient[k] # f
      BY <1>2, <1>7, <2>2 DEF NicknameIndexSync
    <3> QED BY <1>1, <1>7, <3>1 DEF NicknameIndexSync, StateTypeOK
  <2> QED BY <2>1, <2>2
<1>8. NicknameIndexSync'
  BY <1>6, <1>7 DEF NicknameIndexSync
<1>9. OnlyRegisteredMembers'
  BY <1>1 DEF OnlyRegisteredMembers, canRegister
<1> QED BY <1>4, <1>5, <1>8, <1>9

\* Replies built by addReplies go to the given fds.
LEMMA AddRepliesType ==
    ASSUME NEW S \in SUBSET Fd, NEW fds \in SUBSET S, NEW m \in Message
    PROVE  addReplies(fds, m) \in SUBSET [to: S, msg: Message]
BY DEF addReplies

\* About builds messages.
LEMMA AboutType ==
    ASSUME NEW cmd \in Command \cup Numeric, NEW who \in Fd, NEW chan \in ChannelName \cup {None}
    PROVE  About(cmd, who, chan) \in Message
BY DEF About, Message

\* A handler that keeps the C layer in order and addresses live clients keeps
\* the whole invariant.
LEMMA ReturnInv ==
    ASSUME StateInv', NEW f \in Fd \cup {None},
           NEW replies \in SUBSET [to: fdToClient', msg: Message], Return(f, replies)
    PROVE  Inv'
<1>1. fdToClient' \in SUBSET Fd
  BY DEF StateInv, StateTypeOK
<1>2. replies \in SUBSET [to: Fd, msg: Message]
  BY <1>1
<1>3. result' \in CommandResult
  BY <1>2 DEF Return, CommandResult
<1>4. RepliesReachLiveClients'
  BY DEF Return, RepliesReachLiveClients
<1> QED BY <1>3, <1>4 DEF Inv, Return

\* An early return keeps the invariant.
LEMMA RejectInv ==
    ASSUME Inv, NEW f \in fdToClient, NEW numeric \in Numeric, Reject(f, numeric)
    PROVE  Inv'
<1>1. f \in Fd /\ fdToClient \in SUBSET Fd
  BY DEF Inv, StateInv, StateTypeOK
<1>2. StateInv' /\ fdToClient' = fdToClient
  BY UnchangedInv DEF Inv, Reject, stateVars
<1>3. About(numeric, f, None) \in Message
  BY <1>1, AboutType
<1>4. addReplies({f}, About(numeric, f, None)) \in SUBSET [to: fdToClient', msg: Message]
  BY <1>1, <1>2, <1>3, AddRepliesType
<1> QED BY <1>1, <1>2, <1>4, ReturnInv DEF Reject

\* PASS keeps the invariant.
LEMMA PassInv ==
    ASSUME Inv, NEW f \in fdToClient, NEW pass, handlePass(f, pass)
    PROVE  Inv'
<1>0. f \in Fd
  BY DEF Inv, StateInv, StateTypeOK
<1>1. CASE PassError(f, pass) # Ok
  <2>1. PassError(f, pass) \in Numeric
    BY <1>1 DEF PassError, Numeric
  <2> QED BY <1>1, <2>1, RejectInv DEF handlePass
<1>2. CASE PassError(f, pass) = Ok
  <2> DEFINE cl == [client[f] EXCEPT !.passOk = TRUE]
  <2>1. client' = [client EXCEPT ![f] = cl] /\ UNCHANGED <<fdToClient, nicknameToClient, channels, channel>>
    BY <1>2 DEF handlePass
  <2>2. /\ cl \in Client
        /\ cl.nick = client[f].nick /\ cl.channels = client[f].channels
        /\ cl.registered = client[f].registered
        /\ cl.registered => canRegister(cl)
    BY <1>0, ZenonT(40) DEF Inv, StateInv, StateTypeOK, Client, canRegister, OnlyRegisteredMembers
  <2> HIDE DEF cl
  <2>3. StateInv'
    BY <2>1, <2>2, ClientUpdateInv DEF Inv
  <2> QED BY <1>0, <1>2, <2>3, ReturnInv DEF handlePass
<1> QED BY <1>1, <1>2

\* A client registers when, and only when, it has all that canRegister asks for.
LEMMA MaybeRegisterType ==
    ASSUME NEW cl \in Client, cl.registered => canRegister(cl)
    PROVE  LET new == maybeRegister(cl)
           IN  /\ new \in Client
               /\ new.nick = cl.nick /\ new.channels = cl.channels
               /\ cl.registered => new.registered
               /\ new.registered => canRegister(new)
BY DEF Client, maybeRegister, canRegister

\* The welcome goes to the client that registers.
LEMMA WelcomeType ==
    ASSUME NEW S \in SUBSET Fd, NEW f \in S, NEW cl
    PROVE  Welcome(f, cl) \in SUBSET [to: S, msg: Message]
<1>1. About("001", f, None) \in Message
  BY AboutType DEF Command
<1> QED BY <1>1, AddRepliesType DEF Welcome

\* NICK keeps the invariant.
LEMMA NickInv ==
    ASSUME Inv, NEW f \in fdToClient, NEW n \in Nick \cup {Missing, Invalid}, handleNick(f, n)
    PROVE  Inv'
<1>0. f \in Fd /\ fdToClient \in SUBSET Fd
  BY DEF Inv, StateInv, StateTypeOK
<1>1. CASE NickError(f, n) # Ok
  <2>1. NickError(f, n) \in Numeric
    BY <1>1 DEF NickError, Numeric
  <2> QED BY <1>1, <2>1, RejectInv DEF handleNick
<1>2. CASE NickError(f, n) = Ok
  <2> DEFINE cl == [client[f] EXCEPT !.nick = n]
             new == maybeRegister(cl)
  <2>1. n \in Nick /\ n # None /\ nickAvailable(f, n)
    BY <1>2, StateAssumption DEF NickError, Ok
  <2>2. /\ cl \in Client
        /\ cl.nick = n /\ cl.channels = client[f].channels
        /\ cl.registered = client[f].registered
        /\ cl.registered => canRegister(cl)
    BY <1>0, <2>1 DEF Inv, StateInv, StateTypeOK, Client, canRegister, OnlyRegisteredMembers
  <2>3. /\ client' = [client EXCEPT ![f] = new]
        /\ nicknameToClient' = nicknameIndex(f, n)
        /\ UNCHANGED <<fdToClient, channels, channel>>
        /\ Return(f, Welcome(f, cl))
    BY <1>2 DEF handleNick
  <2> HIDE DEF cl
  <2>4. /\ new \in Client
        /\ new.nick = cl.nick /\ new.channels = cl.channels
        /\ cl.registered => new.registered
        /\ new.registered => canRegister(new)
    BY <2>2, MaybeRegisterType
  <2> HIDE DEF new
  <2>5. StateInv'
    BY <2>1, <2>2, <2>3, <2>4, RenameInv DEF Inv
  <2> QED BY <1>0, <2>3, <2>5, WelcomeType, ReturnInv
<1> QED BY <1>1, <1>2

\* USER keeps the invariant; it cannot empty the names of a registered client.
LEMMA UserInv ==
    ASSUME Inv, NEW f \in fdToClient, NEW real, handleUser(f, real)
    PROVE  Inv'
<1>0. f \in Fd /\ fdToClient \in SUBSET Fd
  BY DEF Inv, StateInv, StateTypeOK
<1>1. CASE UserError(f, real) # Ok
  <2>1. UserError(f, real) \in Numeric
    BY <1>1 DEF UserError, Numeric
  <2> QED BY <1>1, <2>1, RejectInv DEF handleUser
<1>2. CASE UserError(f, real) = Ok
  <2> DEFINE cl == [client[f] EXCEPT !.username = TRUE, !.realname = (real # None)]
             new == maybeRegister(cl)
  <2>1. ~client[f].registered
    BY <1>2 DEF UserError, Ok
  <2>2. /\ cl \in Client
        /\ cl.nick = client[f].nick /\ cl.channels = client[f].channels
        /\ cl.registered = client[f].registered
    BY <1>0 DEF Inv, StateInv, StateTypeOK, Client
  <2>3. /\ client' = [client EXCEPT ![f] = new]
        /\ UNCHANGED <<fdToClient, nicknameToClient, channels, channel>>
        /\ Return(f, Welcome(f, cl))
    BY <1>2 DEF handleUser
  <2> HIDE DEF cl
  <2>4. /\ new \in Client
        /\ new.nick = cl.nick /\ new.channels = cl.channels
        /\ new.registered => canRegister(new)
    BY <2>1, <2>2, MaybeRegisterType
  <2> HIDE DEF new
  <2>5. StateInv'
    BY <2>1, <2>2, <2>3, <2>4, ClientUpdateInv DEF Inv
  <2> QED BY <1>0, <2>3, <2>5, WelcomeType, ReturnInv
<1> QED BY <1>1, <1>2

\* What a handler knows once ChannelError let it through: the channel exists and
\* the registered sender is in it.
LEMMA ChannelErrorOk ==
    ASSUME Inv, NEW f \in fdToClient, NEW c
    PROVE  /\ ChannelError(f, c) \in Numeric \cup {Ok}
           /\ ChannelError(f, c) = Ok => /\ c \in channels /\ c \in ChannelName
                                         /\ hasMember(c, f)
                                         /\ channel[c] \in Channel
                                         /\ channel[c].members \in SUBSET fdToClient
<1>1. ChannelError(f, c) \in Numeric \cup {Ok}
  BY DEF ChannelError, Numeric
<1>2. ASSUME ChannelError(f, c) = Ok
      PROVE  c \in channels /\ hasMember(c, f)
  BY <1>2 DEF ChannelError, Ok
<1> QED BY <1>1, <1>2 DEF Inv, StateInv, StateTypeOK, NoDanglingClient

\* Telling a set of live clients one thing, once the C layer is taken care of.
LEMMA TellInv ==
    ASSUME Inv, StateInv', UNCHANGED fdToClient, NEW f \in fdToClient,
           NEW fds \in SUBSET fdToClient,
           NEW cmd \in Command \cup Numeric, NEW who \in fdToClient, NEW chan \in ChannelName \cup {None},
           Return(f, addReplies(fds, About(cmd, who, chan)))
    PROVE  Inv'
<1>1. f \in Fd /\ who \in Fd /\ fdToClient \in SUBSET Fd
  BY DEF Inv, StateInv, StateTypeOK
<1>2. About(cmd, who, chan) \in Message
  BY <1>1, AboutType
<1>3. addReplies(fds, About(cmd, who, chan)) \in SUBSET [to: fdToClient', msg: Message]
  BY <1>1, <1>2, AddRepliesType
<1> QED BY <1>1, <1>3, ReturnInv

\* JOIN keeps the invariant.
LEMMA JoinInv ==
    ASSUME Inv, NEW f \in fdToClient, NEW c, NEW key, handleJoin(f, c, key)
    PROVE  Inv'
<1>0. f \in Fd /\ fdToClient \in SUBSET Fd
  BY DEF Inv, StateInv, StateTypeOK
<1>1. CASE JoinError(f, c, key) # Ok
  <2>1. JoinError(f, c, key) \in Numeric
    BY <1>1 DEF JoinError, EntryError, Numeric
  <2> QED BY <1>1, <2>1, RejectInv DEF handleJoin
<1>2. CASE JoinError(f, c, key) = Ok
  <2> DEFINE ch == channel'[c]
             joined == addReplies(ch.members, About("JOIN", f, c))
             topic  == addReplies({f}, About(TopicReply(ch), f, c))
             names  == addReplies({f}, [cmd |-> "353", chan |-> c,
                                        members |-> ch.members, operators |-> ch.operators])
  <2>1. client[f].registered /\ c \in ChannelName
    BY <1>2 DEF JoinError, Ok
  <2>2. addClientToChannel(f, c) /\ Return(f, joined \cup topic \cup names)
    BY <1>2 DEF handleJoin
  <2>3. StateInv' /\ fdToClient' = fdToClient
    BY <2>1, <2>2, AddClientToChannelInv DEF Inv, addClientToChannel, stateVars
  <2>4. ch.members \in SUBSET fdToClient' /\ ch.operators \in SUBSET Fd
    BY <1>0, <2>1, <2>3 DEF StateInv, NoDanglingClient, StateTypeOK, Channel
  <2>5. joined \in SUBSET [to: fdToClient', msg: Message]
    <3>1. About("JOIN", f, c) \in Message
      BY <1>0, <2>1, AboutType DEF Command
    <3> QED BY <1>0, <2>3, <2>4, <3>1, AddRepliesType
  <2>6. topic \in SUBSET [to: fdToClient', msg: Message]
    <3>1. TopicReply(ch) \in Numeric
      BY DEF TopicReply, Numeric
    <3>2. About(TopicReply(ch), f, c) \in Message
      BY <1>0, <2>1, <3>1, AboutType
    <3> QED BY <1>0, <2>3, <3>2, AddRepliesType
  <2>7. names \in SUBSET [to: fdToClient', msg: Message]
    <3>1. [cmd |-> "353", chan |-> c, members |-> ch.members, operators |-> ch.operators] \in Message
      BY <1>0, <2>1, <2>3, <2>4 DEF Message
    <3> QED BY <1>0, <2>3, <3>1, AddRepliesType
  <2> HIDE DEF joined, topic, names
  <2> QED BY <1>0, <2>2, <2>3, <2>5, <2>6, <2>7, ReturnInv
<1> QED BY <1>1, <1>2

\* PART keeps the invariant: the leaver is told too, and is still connected.
LEMMA PartInv ==
    ASSUME Inv, NEW f \in fdToClient, NEW c, handlePart(f, c)
    PROVE  Inv'
<1>1. CASE ChannelError(f, c) # Ok
  BY <1>1, ChannelErrorOk, RejectInv DEF handlePart
<1>2. CASE ChannelError(f, c) = Ok
  <2>1. /\ c \in ChannelName /\ channel[c].members \in SUBSET fdToClient
        /\ removeClientFromChannel(f, c)
        /\ Return(f, addReplies(channel[c].members, About("PART", f, c)))
    BY <1>2, ChannelErrorOk DEF handlePart
  <2>2. StateInv' /\ fdToClient' = fdToClient
    BY <2>1, RemoveClientFromChannelInv DEF Inv, removeClientFromChannel, stateVars
  <2>3. "PART" \in Command \cup Numeric
    BY DEF Command
  <2> QED BY <2>1, <2>2, <2>3, TellInv
<1> QED BY <1>1, <1>2

\* KICK keeps the invariant, also when somebody kicks himself.
LEMMA KickInv ==
    ASSUME Inv, NEW f \in fdToClient, NEW c, NEW n, handleKick(f, c, n)
    PROVE  Inv'
<1>1. CASE KickError(f, c, n) # Ok
  <2>1. KickError(f, c, n) \in Numeric
    <3>1. ChannelError(f, c) \in Numeric \cup {Ok}
      BY ChannelErrorOk
    <3> QED BY <1>1, <3>1 DEF KickError, Numeric
  <2> QED BY <1>1, <2>1, RejectInv DEF handleKick
<1>2. CASE KickError(f, c, n) = Ok
  <2> DEFINE target == getClientByNick(n)
  <2>1. ChannelError(f, c) = Ok /\ target # None
    BY <1>2 DEF KickError, Ok
  <2>2. target \in fdToClient
    BY <2>1, LookupType DEF Inv
  <2>3. /\ c \in ChannelName /\ channel[c].members \in SUBSET fdToClient
        /\ removeClientFromChannel(target, c)
        /\ Return(f, addReplies(channel[c].members, About("KICK", target, c)))
    BY <1>2, <2>1, ChannelErrorOk DEF handleKick
  <2> HIDE DEF target
  <2>4. StateInv' /\ fdToClient' = fdToClient
    BY <2>2, <2>3, RemoveClientFromChannelInv DEF Inv, removeClientFromChannel, stateVars
  <2>5. "KICK" \in Command \cup Numeric
    BY DEF Command
  <2> QED BY <2>2, <2>3, <2>4, <2>5, TellInv
<1> QED BY <1>1, <1>2

\* INVITE keeps the invariant.
LEMMA InviteInv ==
    ASSUME Inv, NEW f \in fdToClient, NEW c, NEW n, handleInvite(f, n, c)
    PROVE  Inv'
<1>1. CASE InviteError(f, n, c) # Ok
  <2>1. InviteError(f, n, c) \in Numeric
    BY <1>1 DEF InviteError, Numeric
  <2> QED BY <1>1, <2>1, RejectInv DEF handleInvite
<1>2. CASE InviteError(f, n, c) = Ok
  <2> DEFINE target == getClientByNick(n)
  <2>0. f \in Fd /\ fdToClient \in SUBSET Fd
    BY DEF Inv, StateInv, StateTypeOK
  <2>1. target # None /\ c \in channels /\ ~hasMember(c, target) /\ c \in ChannelName
    BY <1>2 DEF InviteError, Ok
  <2>2. target \in fdToClient
    BY <2>1, LookupType DEF Inv
  <2>3. /\ inviteClientToChannel(target, c)
        /\ Return(f, addReplies({f}, About("341", target, c))
                     \cup addReplies({target}, About("INVITE", f, c)))
    BY <1>2 DEF handleInvite
  <2> HIDE DEF target
  <2>4. StateInv' /\ fdToClient' = fdToClient
    BY <2>1, <2>2, <2>3, InviteClientToChannelInv DEF Inv, inviteClientToChannel, stateVars
  <2>5. About("341", target, c) \in Message /\ About("INVITE", f, c) \in Message
    BY <2>0, <2>1, <2>2, AboutType DEF Command, Numeric
  <2>6. /\ addReplies({f}, About("341", target, c)) \in SUBSET [to: fdToClient', msg: Message]
        /\ addReplies({target}, About("INVITE", f, c)) \in SUBSET [to: fdToClient', msg: Message]
    BY <2>0, <2>2, <2>4, <2>5, AddRepliesType
  <2> QED BY <2>0, <2>3, <2>4, <2>6, ReturnInv
<1> QED BY <1>1, <1>2

\* TOPIC keeps the invariant.
LEMMA TopicInv ==
    ASSUME Inv, NEW f \in fdToClient, NEW c, NEW topic \in Topic \cup {None, Missing},
           handleTopic(f, c, topic)
    PROVE  Inv'
<1>1. CASE TopicError(f, c, topic) # Ok
  <2>1. TopicError(f, c, topic) \in Numeric
    <3>1. ChannelError(f, c) \in Numeric \cup {Ok}
      BY ChannelErrorOk
    <3>2. TopicReply(channel[c]) \in Numeric
      BY DEF TopicReply, Numeric
    <3> QED BY <1>1, <3>1, <3>2 DEF TopicError, Numeric
  <2> QED BY <1>1, <2>1, RejectInv DEF handleTopic
<1>2. CASE TopicError(f, c, topic) = Ok
  <2> DEFINE ch == [channel[c] EXCEPT !.topic = topic]
  <2>1. ChannelError(f, c) = Ok /\ topic \in Topic \cup {None}
    <3>1. TopicReply(channel[c]) # Ok
      BY DEF TopicReply, Ok
    <3> QED BY <1>2, <3>1 DEF TopicError
  <2>2. /\ c \in ChannelName /\ channel[c] \in Channel
        /\ channel[c].members \in SUBSET fdToClient
    BY <2>1, ChannelErrorOk
  <2>3. /\ ch \in Channel /\ ch.members = channel[c].members
        /\ ch.invited = channel[c].invited /\ ch.operators \subseteq ch.members
    BY <2>1, <2>2 DEF Channel, Inv, StateInv, ChannelRoles
  <2>4. /\ channel' = [channel EXCEPT ![c] = ch]
        /\ Return(f, addReplies(channel[c].members, About("TOPIC", f, c)))
        /\ UNCHANGED <<fdToClient, client, nicknameToClient, channels>>
    BY <1>2 DEF handleTopic
  <2> HIDE DEF ch
  <2>5. StateInv'
    BY <2>2, <2>3, <2>4, ChannelUpdateInv DEF Inv
  <2>6. "TOPIC" \in Command \cup Numeric
    BY DEF Command
  <2> QED BY <2>2, <2>4, <2>5, <2>6, TellInv
<1> QED BY <1>1, <1>2

\* A mode change leaves members and tickets alone and makes only members operators.
LEMMA ApplyModeType ==
    ASSUME NEW ch \in Channel, ch.operators \subseteq ch.members,
           NEW token \in ModeToken, NEW arg,
           token = "+k" => arg \in Key, token = "+l" => arg \in 1..IntMax
    PROVE  LET new == ApplyMode(ch, token, arg)
           IN  /\ new \in Channel
               /\ new.members = ch.members
               /\ new.invited = ch.invited
               /\ new.operators \subseteq new.members
<1> DEFINE new == ApplyMode(ch, token, arg)
<1>1. CASE token \in {"+i", "-i"}
  <2>1. new = [ch EXCEPT !.inviteOnly = (token = "+i")]
    BY <1>1 DEF ApplyMode
  <2> QED BY <2>1 DEF Channel
<1>2. CASE token \in {"+t", "-t"}
  <2>1. new = [ch EXCEPT !.topicRestricted = (token = "+t")]
    BY <1>2 DEF ApplyMode
  <2> QED BY <2>1 DEF Channel
<1>3. CASE token \in {"+k", "-k"}
  <2>1. new = [ch EXCEPT !.key = IF token = "+k" THEN arg ELSE None]
    BY <1>3 DEF ApplyMode
  <2> QED BY <1>3, <2>1 DEF Channel
<1>4. CASE token \in {"+l", "-l"}
  <2>1. new = [ch EXCEPT !.limit = IF token = "+l" THEN arg ELSE NoLimit]
    BY <1>4, StateAssumption DEF ApplyMode, setLimit
  <2> QED BY <1>4, <2>1 DEF Channel
<1>5. CASE token \in {"+o", "-o"}
  <2>1. new = setOperator(ch, getClientByNick(arg), token = "+o")
    BY <1>5 DEF ApplyMode
  <2>2. \A S : S \subseteq ch.members => [ch EXCEPT !.operators = S] \in Channel
    BY DEF Channel
  <2>3. \E S : S \subseteq ch.members /\ new = [ch EXCEPT !.operators = S]
    BY <2>1 DEF setOperator
  <2> QED BY <2>2, <2>3 DEF Channel
<1> QED BY <1>1, <1>2, <1>3, <1>4, <1>5 DEF ModeToken

\* MODE keeps the invariant.
LEMMA ModeInv ==
    ASSUME Inv, NEW f \in fdToClient, NEW c, NEW token \in Token \cup {Missing},
           NEW arg \in ModeArg(token), handleMode(f, c, token, arg)
    PROVE  Inv'
<1>1. CASE ModeError(f, c, token, arg) # Ok
  <2>1. ModeError(f, c, token, arg) \in Numeric
    <3>1. ChannelError(f, c) \in Numeric \cup {Ok}
      BY ChannelErrorOk
    <3> QED BY <1>1, <3>1 DEF ModeError, Numeric
  <2> QED BY <1>1, <2>1, RejectInv DEF handleMode
<1>2. CASE ModeError(f, c, token, arg) = Ok
  <2> DEFINE ch  == ApplyMode(channel[c], token, arg)
             who == IF token \in {"+o", "-o"} THEN getClientByNick(arg) ELSE f
  <2>1. /\ ChannelError(f, c) = Ok
        /\ token \in ModeToken
        /\ token \in {"+k", "+l", "+o", "-o"} => arg # Missing
        /\ token = "+l" => parsePositiveLimit(arg)
        /\ token \in {"+o", "-o"} => getClientByNick(arg) # None
    BY <1>2 DEF ModeError, Ok
  <2>2. token = "+k" => arg \in Key
    BY <2>1 DEF ModeArg
  <2>3. token = "+l" => arg \in 1..IntMax
    BY <2>1, ArgAssumption, StateAssumption DEF ModeArg, parsePositiveLimit
  <2>4. who \in fdToClient
    BY <2>1, LookupType DEF Inv
  <2>5. /\ c \in ChannelName /\ channel[c] \in Channel
        /\ channel[c].members \in SUBSET fdToClient
        /\ channel[c].operators \subseteq channel[c].members
    BY <2>1, ChannelErrorOk DEF Inv, StateInv, ChannelRoles
  <2>6. /\ ch \in Channel /\ ch.members = channel[c].members
        /\ ch.invited = channel[c].invited /\ ch.operators \subseteq ch.members
    BY <2>1, <2>2, <2>3, <2>5, ApplyModeType
  <2>7. /\ channel' = [channel EXCEPT ![c] = ch]
        /\ Return(f, addReplies(channel[c].members, About(token, who, c)))
        /\ UNCHANGED <<fdToClient, client, nicknameToClient, channels>>
    BY <1>2 DEF handleMode
  <2> HIDE DEF ch, who
  <2>8. StateInv'
    BY <2>5, <2>6, <2>7, ChannelUpdateInv DEF Inv
  <2>9. token \in Command \cup Numeric
    BY <2>1 DEF Command
  <2> QED BY <2>4, <2>5, <2>7, <2>8, <2>9, TellInv
<1> QED BY <1>1, <1>2

\* PRIVMSG and NOTICE keep the invariant.
LEMMA TextInv ==
    ASSUME Inv, NEW f \in fdToClient, NEW cmd \in {"PRIVMSG", "NOTICE"}, NEW target,
           handleTextMessage(f, cmd, target)
    PROVE  Inv'
<1> DEFINE err == TextError(f, target)
           recipients == IF target \in ChannelName THEN channel[target].members \ {f}
                         ELSE {getClientByNick(target)}
           chan == IF target \in ChannelName THEN target ELSE None
<1>0. /\ UNCHANGED stateVars
      /\ \/ err # Ok /\ Return(f, addReplies({f}, About(err, f, None)))
         \/ err # Ok /\ Return(f, {})
         \/ err = Ok /\ Return(f, addReplies(recipients, About(cmd, f, chan)))
  BY DEF handleTextMessage
<1>1. StateInv' /\ UNCHANGED fdToClient /\ f \in Fd
  BY <1>0, UnchangedInv DEF Inv, stateVars, StateInv, StateTypeOK
<1>2. err \in Numeric \cup {Ok}
  BY DEF TextError, Numeric
<1>3. CASE err # Ok /\ Return(f, addReplies({f}, About(err, f, None)))
  BY <1>1, <1>2, <1>3, TellInv
<1>4. CASE Return(f, {})
  BY <1>1, <1>4, ReturnInv
<1>5. CASE err = Ok /\ Return(f, addReplies(recipients, About(cmd, f, chan)))
  <2>1. target \notin ChannelName => getClientByNick(target) # None
    BY <1>5 DEF TextError, Ok
  <2>2. recipients \in SUBSET fdToClient
    BY <2>1, LookupType DEF Inv, StateInv, NoDanglingClient
  <2>3. cmd \in Command \cup Numeric /\ chan \in ChannelName \cup {None}
    BY DEF Command
  <2> HIDE DEF err, recipients, chan
  <2> QED BY <1>1, <1>5, <2>2, <2>3, TellInv
<1> QED BY <1>0, <1>3, <1>4, <1>5

\* PING, PONG and unknown commands keep the invariant.
LEMMA OtherInv ==
    ASSUME Inv, NEW f \in fdToClient, handleOther(f)
    PROVE  Inv'
<1>1. StateInv' /\ UNCHANGED fdToClient /\ f \in Fd
  BY UnchangedInv DEF handleOther, Inv, stateVars, StateInv, StateTypeOK
<1>2. ASSUME NEW numeric \in {"PONG", "461", "421"},
             Return(f, addReplies({f}, About(numeric, f, None)))
      PROVE  Inv'
  <2>1. numeric \in Command \cup Numeric
    BY DEF Command, Numeric
  <2> QED BY <1>1, <1>2, <2>1, TellInv
<1>3. CASE Return(f, {})
  BY <1>1, <1>3, ReturnInv
<1> QED BY <1>2, <1>3 DEF handleOther

\* QUIT keeps the invariant.
LEMMA QuitInv ==
    ASSUME Inv, NEW f \in fdToClient, handleQuit(f)
    PROVE  Inv'
<1>1. StateInv' /\ UNCHANGED fdToClient /\ f \in Fd
  BY UnchangedInv DEF handleQuit, Inv, stateVars, StateInv, StateTypeOK
<1>2. result' = [by |-> f, replies |-> {}, shouldDisconnect |-> TRUE]
  BY DEF handleQuit
<1> QED BY <1>1, <1>2 DEF Inv, CommandResult, RepliesReachLiveClients

\* Whatever a client sends, CommandDispatcher::dispatch keeps the invariant.
LEMMA DispatchInv ==
    ASSUME Inv, NEW f \in Fd, dispatch(f)
    PROVE  Inv'
<1>0. f \in fdToClient
  BY DEF dispatch
<1>1. ASSUME NEW pass, handlePass(f, pass) PROVE Inv'
  BY <1>0, <1>1, PassInv
<1>2. ASSUME NEW n \in Nick \cup {Missing, Invalid}, handleNick(f, n) PROVE Inv'
  BY <1>0, <1>2, NickInv
<1>3. ASSUME NEW real, handleUser(f, real) PROVE Inv'
  BY <1>0, <1>3, UserInv
<1>4. ASSUME NEW c, NEW key, handleJoin(f, c, key) PROVE Inv'
  BY <1>0, <1>4, JoinInv
<1>5. ASSUME NEW c, handlePart(f, c) PROVE Inv'
  BY <1>0, <1>5, PartInv
<1>6. ASSUME NEW c, NEW n, handleKick(f, c, n) PROVE Inv'
  BY <1>0, <1>6, KickInv
<1>7. ASSUME NEW c, NEW n, handleInvite(f, n, c) PROVE Inv'
  BY <1>0, <1>7, InviteInv
<1>8. ASSUME NEW c, NEW topic \in Topic \cup {None, Missing}, handleTopic(f, c, topic) PROVE Inv'
  BY <1>0, <1>8, TopicInv
<1>9. ASSUME NEW c, NEW token \in Token \cup {Missing}, NEW arg \in ModeArg(token),
             handleMode(f, c, token, arg)
      PROVE  Inv'
  BY <1>0, <1>9, ModeInv
<1>10. Missing \in ModeArg(Missing)
  BY DEF ModeArg
<1>11. ASSUME NEW cmd \in {"PRIVMSG", "NOTICE"}, NEW target, handleTextMessage(f, cmd, target)
       PROVE  Inv'
  BY <1>0, <1>11, TextInv
<1>12. ASSUME handleOther(f) \/ handleQuit(f) PROVE Inv'
  BY <1>0, <1>12, OtherInv, QuitInv
<1> QED
  BY <1>1, <1>2, <1>3, <1>4, <1>5, <1>6, <1>7, <1>8, <1>9, <1>10, <1>11, <1>12 DEF dispatch

\* A new connection keeps the invariant.
LEMMA AcceptInv ==
    ASSUME Inv, NEW f \in Fd, Accept(f)
    PROVE  Inv'
<1>1. StateInv'
  BY AddClientInv DEF Accept, Inv
<1> QED BY <1>1, ReturnInv DEF Accept

\* A disconnection keeps the invariant: nobody told of it is the leaver.
LEMMA DisconnectInv ==
    ASSUME Inv, NEW f \in Fd, Disconnect(f)
    PROVE  Inv'
<1>1. StateInv' /\ fdToClient' = fdToClient \ {f}
  BY RemoveClientInv DEF Disconnect, Inv, removeClient
<1>2. fdToClient' \in SUBSET Fd
  BY <1>1 DEF StateInv, StateTypeOK
<1>3. CoMembers(f) \in SUBSET fdToClient'
  <2>1. client[f].channels \subseteq ChannelName
    BY DEF Inv, StateInv, StateTypeOK, Client
  <2>2. \A c \in client[f].channels : channel[c].members \subseteq fdToClient
    BY <2>1 DEF Inv, StateInv, NoDanglingClient
  <2>3. \A g \in CoMembers(f) : g # f /\ \E c \in client[f].channels : g \in channel[c].members
    BY DEF CoMembers
  <2> QED BY <1>1, <2>2, <2>3
<1>4. About("QUIT", f, None) \in Message
  BY AboutType DEF Command
<1>5. addReplies(CoMembers(f), About("QUIT", f, None)) \in SUBSET [to: fdToClient', msg: Message]
  BY <1>2, <1>3, <1>4, AddRepliesType
<1> QED BY <1>1, <1>5, ReturnInv DEF Disconnect

\* The invariant is inductive.
LEMMA NextInv == Inv /\ [Next]_vars => Inv'
<1> SUFFICES ASSUME Inv, [Next]_vars PROVE Inv'
  OBVIOUS
<1>1. CASE UNCHANGED vars
  <2>1. StateInv'
    BY <1>1, UnchangedInv DEF vars, Inv
  <2> QED BY <1>1, <2>1 DEF vars, stateVars, Inv, RepliesReachLiveClients
<1>2. CASE Next
  <2>1. CASE result.shouldDisconnect /\ Disconnect(result.by)
    BY <2>1, DisconnectInv DEF Inv, StateInv, StateTypeOK
  <2>2. ASSUME NEW f \in Fd, Accept(f) \/ Disconnect(f) \/ dispatch(f)
        PROVE  Inv'
    BY <2>2, AcceptInv, DisconnectInv, DispatchInv
  <2> QED BY <1>2, <2>1, <2>2 DEF Next
<1> QED BY <1>1, <1>2

\* The invariant holds at the start.
LEMMA InitialInv == Init => Inv
BY InitInv DEF Init, Inv, CommandResult, RepliesReachLiveClients

\* The inductive invariant holds for any number of connections, nicknames,
\* channels, keys, topics and limits, in every reachable state.
THEOREM Invariance == Spec => []Inv
BY InitialInv, NextInv, PTL DEF Spec

\* Type correctness of the C layer and of every CommandResult.
THEOREM TypeCorrect == Spec => []TypeOK
<1>1. Inv => TypeOK
  BY DEF Inv, StateInv, TypeOK
<1> QED BY <1>1, Invariance, PTL

\* Channel::_members and Client::_channels never disagree, whatever commands,
\* connections and disconnections come in whatever order.
THEOREM MembershipInSync == Spec => []MembershipSync
<1>1. Inv => MembershipSync
  BY DEF Inv, StateInv
<1> QED BY <1>1, Invariance, PTL

\* No empty channel is ever kept and no inhabited one is ever deleted.
THEOREM NoEmptyChannel == Spec => []ChannelsAreInhabited
<1>1. Inv => ChannelsAreInhabited
  BY DEF Inv, StateInv
<1> QED BY <1>1, Invariance, PTL

\* No channel ever keeps a pointer to a deleted client.
THEOREM NoDangling == Spec => []NoDanglingClient
<1>1. Inv => NoDanglingClient
  BY DEF Inv, StateInv
<1> QED BY <1>1, Invariance, PTL

\* The nickname map is exact; nicknames are unique up to case.
THEOREM NicknamesUnique == Spec => []NicknameIndexSync
<1>1. Inv => NicknameIndexSync
  BY DEF Inv, StateInv
<1> QED BY <1>1, Invariance, PTL

\* Operators are always members, ticket holders never.
THEOREM RolesConsistent == Spec => []ChannelRoles
<1>1. Inv => ChannelRoles
  BY DEF Inv, StateInv
<1> QED BY <1>1, Invariance, PTL

\* Nobody is in a channel who did not complete the registration.
THEOREM MembersRegistered == Spec => []OnlyRegisteredMembers
<1>1. Inv => OnlyRegisteredMembers
  BY DEF Inv, StateInv
<1> QED BY <1>1, Invariance, PTL

\* No reply is ever addressed to a connection that is gone.
THEOREM RepliesDeliverable == Spec => []RepliesReachLiveClients
<1>1. Inv => RepliesReachLiveClients
  BY DEF Inv
<1> QED BY <1>1, Invariance, PTL

--------------------------------------------------------------------------------
(* The kinds of steps. *)

\* The commands a client learns a roster from.
RosterCmd == {"353", "JOIN", "PART", "KICK", "QUIT", "+o", "-o"}

Silent(replies) == \A r \in replies : r.msg.cmd \notin RosterCmd

\* What an operator alone may change.
Governed(ch) == [ch EXCEPT !.members = {}, !.operators = {}, !.invited = {}, !.topic = None]

\* A deleted channel object is left as new: only joining makes it a channel again.
DeletedAreNew == \A c \in ChannelName \ channels : channel[c] = NewChannel

\* No channel but c changes.
Others(c) == \A d \in ChannelName \ {c} : channel'[d] = channel[d] /\ (d \in channels' <=> d \in channels)

\* Nothing happens to any channel and nobody is told of one.
Quiet ==
    /\ fdToClient \subseteq fdToClient'
    /\ UNCHANGED <<channels, channel>>
    /\ Silent(result'.replies)

\* f, who may be in c already, joins it.
Joined(f, c) ==
    LET ch  == channel[c]
        ch2 == channel'[c]
    IN  /\ f \in fdToClient /\ c \in ChannelName /\ c \in channels'
        /\ UNCHANGED fdToClient /\ Others(c)
        /\ ch2.members = ch.members \cup {f}
        /\ ch2.operators = IF ch.members = {} THEN {f} ELSE ch.operators
        /\ Governed(ch2) = Governed(ch) /\ ch2.limit = ch.limit
        /\ ch2.topic = ch.topic /\ ch2.invited = ch.invited \ {f}
        /\ f \in ch.members \/ ch.limit = NoLimit \/ ~(Cardinality(ch.members) >= ch.limit)
        /\ result'.by = f
        /\ \E topic \in {"331", "332"} :
               result'.replies = addReplies(ch2.members, About("JOIN", f, c))
                                 \cup addReplies({f}, About(topic, f, c))
                                 \cup addReplies({f}, [cmd |-> "353", chan |-> c, members |-> ch2.members,
                                                       operators |-> ch2.operators])

\* f leaves c, by itself or because an operator wants it to.
Departed(f, c) ==
    LET ch  == channel[c]
        ch2 == channel'[c]
    IN  /\ c \in channels /\ f \in ch.members
        /\ UNCHANGED fdToClient /\ Others(c)
        /\ ch2.members = ch.members \ {f} /\ ch2.operators = ch.operators \ {f}
        /\ c \in channels' => /\ Governed(ch2) = Governed(ch) /\ ch2.limit = ch.limit
                              /\ ch2.topic = ch.topic /\ ch2.invited = ch.invited \ {f}
        /\ c \notin channels' => ch2 = NewChannel
        /\ result'.by = f \/ result'.by \in ch.operators
        /\ \E cmd \in {"PART", "KICK"} :
               result'.replies = addReplies(ch.members, About(cmd, f, c))

\* A member of c gives out a ticket for it.
Ticketed(c) ==
    /\ c \in channels /\ UNCHANGED <<fdToClient, channels>> /\ Others(c)
    /\ \E f \in fdToClient : channel'[c] = [channel[c] EXCEPT !.invited = @ \cup {f}]
    /\ Silent(result'.replies)

\* A member of c who may do so sets its topic.
Retitled(c) ==
    LET ch == channel[c]
    IN  /\ c \in channels /\ UNCHANGED <<fdToClient, channels>> /\ Others(c)
        /\ \E topic : channel'[c] = [ch EXCEPT !.topic = topic]
        /\ result'.by \in ch.members
        /\ ch.topicRestricted => result'.by \in ch.operators
        /\ Silent(result'.replies)

\* An operator of c changes a mode of it, or makes or unmakes an operator.
Changed(c) ==
    LET ch  == channel[c]
        ch2 == channel'[c]
    IN  /\ c \in channels /\ UNCHANGED <<fdToClient, channels>> /\ Others(c)
        /\ result'.by \in ch.operators
        /\ ch2.members = ch.members /\ ch2.invited = ch.invited /\ ch2.topic = ch.topic
        /\ \E token \in ModeToken, who \in fdToClient :
               /\ result'.replies = addReplies(ch.members, About(token, who, c))
               /\ ch2.operators = IF token = "+o" THEN ch.operators \cup {who}
                                  ELSE IF token = "-o" THEN ch.operators \ {who}
                                  ELSE ch.operators

\* f is gone.
Gone(f) ==
    /\ f \in fdToClient /\ fdToClient' = fdToClient \ {f}
    /\ \A c \in ChannelName :
           LET ch  == channel[c]
               ch2 == channel'[c]
           IN  /\ ch2.members = ch.members \ {f} /\ ch2.operators = ch.operators \ {f}
               /\ c \in channels' => /\ Governed(ch2) = Governed(ch) /\ ch2.limit = ch.limit
                                     /\ ch2.topic = ch.topic /\ ch2.invited = ch.invited \ {f}
               /\ c \notin channels' => ch2 = NewChannel
    /\ channels' \subseteq channels
    /\ result'.by = f
    /\ result'.replies = addReplies(CoMembers(f), About("QUIT", f, None))

\* What a step of the dispatcher does to the channels.
StepKind ==
    \/ Quiet
    \/ \E f, c : Joined(f, c)
    \/ \E f, c : Departed(f, c)
    \/ \E c : Ticketed(c) \/ Retitled(c) \/ Changed(c)
    \/ \E f : Gone(f)

--------------------------------------------------------------------------------
(* Every step is of one of these kinds. *)

\* Answers that are no news of a roster.
LEMMA SilentReplies ==
  ASSUME NEW fds, NEW cmd, NEW who, NEW chan, cmd \notin RosterCmd
  PROVE  Silent(addReplies(fds, About(cmd, who, chan)))
  BY DEF Silent, addReplies, About

\* An early return.
LEMMA RejectQuiet ==
  ASSUME NEW f, NEW numeric \in Numeric, Reject(f, numeric)
  PROVE  Quiet
<1>1. numeric \notin RosterCmd
  BY DEF Numeric, RosterCmd
<1>2. Silent(addReplies({f}, About(numeric, f, None)))
  BY <1>1, SilentReplies
<1> QED BY <1>2 DEF Reject, Return, Quiet, stateVars

\* PASS, NICK, USER, PRIVMSG, NOTICE, PING and the like, and QUIT.
LEMMA RegistrationQuiet ==
  ASSUME Inv, NEW f \in fdToClient, NEW arg,
         \/ handlePass(f, arg) \/ (arg \in Nick \cup {Missing, Invalid} /\ handleNick(f, arg))
         \/ handleUser(f, arg)
  PROVE  Quiet
<1>1. CASE Reject(f, PassError(f, arg)) /\ PassError(f, arg) # Ok
  <2>1. PassError(f, arg) \in Numeric
    BY <1>1 DEF PassError, Numeric
  <2> QED BY <1>1, <2>1, RejectQuiet
<1>2. CASE Reject(f, NickError(f, arg)) /\ NickError(f, arg) # Ok
  <2>1. NickError(f, arg) \in Numeric
    BY <1>2 DEF NickError, Numeric
  <2> QED BY <1>2, <2>1, RejectQuiet
<1>3. CASE Reject(f, UserError(f, arg)) /\ UserError(f, arg) # Ok
  <2>1. UserError(f, arg) \in Numeric
    BY <1>3 DEF UserError, Numeric
  <2> QED BY <1>3, <2>1, RejectQuiet
<1>4. ASSUME NEW cl, UNCHANGED <<fdToClient, channels, channel>>,
             Return(f, {}) \/ Return(f, Welcome(f, cl))
      PROVE  Quiet
  <2>1. Silent({}) /\ Silent(addReplies({f}, About("001", f, None)))
    BY SilentReplies DEF Silent, RosterCmd
  <2>2. Silent(Welcome(f, cl))
    BY <2>1 DEF Welcome
  <2> QED BY <1>4, <2>1, <2>2 DEF Quiet, Return
<1> QED BY <1>1, <1>2, <1>3, <1>4 DEF handlePass, handleNick, handleUser

\* PRIVMSG and NOTICE, PING, PONG and unknown commands, QUIT.
LEMMA TalkQuiet ==
  ASSUME Inv, NEW f \in fdToClient, NEW cmd \in {"PRIVMSG", "NOTICE"}, NEW target,
         handleTextMessage(f, cmd, target) \/ handleOther(f) \/ handleQuit(f)
  PROVE  Quiet
<1>1. ASSUME NEW fds, NEW c, NEW who, NEW chan,
             c \in Numeric \cup {"PRIVMSG", "NOTICE", "PONG"},
             Return(f, addReplies(fds, About(c, who, chan))) \/ Return(f, {}),
             UNCHANGED stateVars
      PROVE  Quiet
  <2>1. c \notin RosterCmd
    BY <1>1 DEF Numeric, RosterCmd
  <2>2. Silent(addReplies(fds, About(c, who, chan))) /\ Silent({})
    BY <2>1, SilentReplies DEF Silent
  <2> QED BY <1>1, <2>2 DEF Quiet, Return, stateVars
<1>2. CASE handleTextMessage(f, cmd, target)
  <2>1. TextError(f, target) # Ok => TextError(f, target) \in Numeric
    BY DEF TextError, Numeric
  <2> QED BY <1>1, <1>2, <2>1 DEF handleTextMessage
<1>3. CASE handleOther(f)
  <2>1. \A numeric \in {"PONG", "461", "421"} : numeric \in Numeric \cup {"PONG"}
    BY DEF Numeric
  <2>2. Return(f, {}) => Quiet
    BY <1>3, <1>1 DEF handleOther
  <2>3. ASSUME NEW numeric \in {"PONG", "461", "421"},
               Return(f, addReplies({f}, About(numeric, f, None)))
        PROVE  Quiet
    BY <1>1, <1>3, <2>1, <2>3 DEF handleOther
  <2> QED BY <1>3, <2>2, <2>3 DEF handleOther
<1>4. CASE handleQuit(f)
  BY <1>4 DEF handleQuit, Quiet, Silent, stateVars
<1> QED BY <1>2, <1>3, <1>4

\* What addMember and setOperator make of a channel object.
LEMMA AddMemberFacts ==
  ASSUME NEW ch \in Channel, ch.operators \subseteq ch.members, NEW f \in Fd, f \notin ch.members
  PROVE  LET added == addMember(ch, f)
             new   == IF added.members = {f} THEN setOperator(added, f, TRUE) ELSE added
         IN  /\ new.members = ch.members \cup {f} /\ new.invited = ch.invited \ {f}
             /\ new.operators = IF ch.members = {} THEN {f} ELSE ch.operators
             /\ new.limit = ch.limit /\ new.topic = ch.topic /\ Governed(new) = Governed(ch)
<1> DEFINE added == addMember(ch, f)
           new   == IF added.members = {f} THEN setOperator(added, f, TRUE) ELSE added
<1> SUFFICES /\ new.members = ch.members \cup {f} /\ new.invited = ch.invited \ {f}
             /\ new.operators = IF ch.members = {} THEN {f} ELSE ch.operators
             /\ new.limit = ch.limit /\ new.topic = ch.topic /\ Governed(new) = Governed(ch)
  OBVIOUS
<1>1. /\ added \in Channel /\ added.members = ch.members \cup {f}
      /\ added.invited = ch.invited \ {f} /\ added.operators = ch.operators
      /\ added.limit = ch.limit /\ added.topic = ch.topic /\ Governed(added) = Governed(ch)
  BY DEF addMember, Channel, Governed
<1>2. CASE ch.members = {}
  <2>1. added.members = {f} /\ added.operators = {}
    BY <1>1, <1>2
  <2>2. new = [added EXCEPT !.operators = {f}]
    BY <2>1 DEF setOperator
  <2> HIDE DEF added, new
  <2> QED BY <1>1, <1>2, <2>2 DEF Channel, Governed
<1>3. CASE ch.members # {}
  <2>1. added.members # {f}
    BY <1>1, <1>3
  <2>2. new = added
    BY <2>1
  <2> HIDE DEF added, new
  <2> QED BY <1>1, <1>3, <2>2
<1> QED BY <1>2, <1>3

\* JOIN.
LEMMA JoinKind ==
  ASSUME Inv, DeletedAreNew, NEW f \in fdToClient, NEW c, NEW key, handleJoin(f, c, key)
  PROVE  Quiet \/ Joined(f, c)
<1>0. f \in Fd
  BY DEF Inv, StateInv, StateTypeOK
<1>1. CASE JoinError(f, c, key) # Ok
  <2>1. JoinError(f, c, key) \in Numeric
    BY <1>1 DEF JoinError, EntryError, Numeric
  <2> QED BY <1>1, <2>1, RejectQuiet DEF handleJoin
<1>2. CASE JoinError(f, c, key) = Ok
  <2> DEFINE ch == channel[c]
             ch2 == channel'[c]
  <2>1. c \in ChannelName /\ (c \in channels /\ ~hasMember(c, f) => EntryError(f, c, key) = Ok)
    BY <1>2 DEF JoinError, Ok
  <2>2. /\ addClientToChannel(f, c)
        /\ Return(f, addReplies(ch2.members, About("JOIN", f, c))
                     \cup addReplies({f}, About(TopicReply(ch2), f, c))
                     \cup addReplies({f}, [cmd |-> "353", chan |-> c, members |-> ch2.members,
                                           operators |-> ch2.operators]))
    BY <1>2 DEF handleJoin
  <2>3. result'.by = f /\ \E topic \in {"331", "332"} :
               result'.replies = addReplies(ch2.members, About("JOIN", f, c))
                                 \cup addReplies({f}, About(topic, f, c))
                                 \cup addReplies({f}, [cmd |-> "353", chan |-> c, members |-> ch2.members,
                                                       operators |-> ch2.operators])
    <3>1. TopicReply(ch2) \in {"331", "332"}
      BY DEF TopicReply
    <3> QED BY <2>2, <3>1 DEF Return
  <2>4. /\ ch \in Channel /\ ch.operators \subseteq ch.members /\ ch.invited \cap ch.members = {}
        /\ (c \in channels <=> ch.members # {})
    BY <2>1 DEF Inv, StateInv, StateTypeOK, ChannelRoles, ChannelsAreInhabited
  <2>5. CASE hasMember(c, f)
    <3>1. UNCHANGED stateVars /\ c \in channels /\ f \in ch.members
      BY <2>2, <2>5 DEF addClientToChannel, hasMember
    <3>2. /\ UNCHANGED <<fdToClient, channels, channel>> /\ ch2 = ch
          /\ ch.members = ch.members \cup {f} /\ ch.invited = ch.invited \ {f}
      BY <2>4, <3>1 DEF stateVars
    <3>3. Others(c)
      BY <3>2 DEF Others
    <3> QED BY <2>1, <2>3, <2>4, <3>1, <3>2, <3>3 DEF Joined
  <2>6. CASE ~hasMember(c, f)
    <3> DEFINE old == IF c \in channels THEN ch ELSE NewChannel
               added == addMember(old, f)
               new == IF added.members = {f} THEN setOperator(added, f, TRUE) ELSE added
    <3>1. /\ channels' = channels \cup {c} /\ channel' = [channel EXCEPT ![c] = new]
          /\ UNCHANGED fdToClient
      BY <2>2, <2>6 DEF addClientToChannel
    <3>2. f \notin ch.members
      BY <2>4, <2>6 DEF hasMember
    <3>3. c \notin channels => ch.limit = NoLimit
      BY <2>1 DEF DeletedAreNew, NewChannel
    <3>4. old = ch
      BY <2>1 DEF DeletedAreNew
    <3> HIDE DEF old
    <3>5. /\ new.members = ch.members \cup {f} /\ new.invited = ch.invited \ {f}
          /\ new.operators = IF ch.members = {} THEN {f} ELSE ch.operators
          /\ new.limit = ch.limit /\ new.topic = ch.topic /\ Governed(new) = Governed(ch)
      BY <1>0, <2>4, <3>2, <3>4, AddMemberFacts, ZenonT(40)
    <3> HIDE DEF new
    <3>6. ch2 = new /\ Others(c) /\ c \in channels'
      BY <2>1, <3>1 DEF Others, Inv, StateInv, StateTypeOK
    <3>7. c \in channels => ch.limit = NoLimit \/ ~(Cardinality(ch.members) >= ch.limit)
      <4> SUFFICES ASSUME c \in channels, ch.limit # NoLimit
                   PROVE  ~(Cardinality(ch.members) >= ch.limit)
        OBVIOUS
      <4>1. ch.limit \in 1..IntMax
        BY <2>4 DEF Channel
      <4>2. ch.limit >= 0
        BY <4>1, StateAssumption
      <4>3. EntryError(f, c, key) = Ok
        BY <2>1, <2>6
      <4> QED BY <4>2, <4>3 DEF EntryError, Ok
    <3> QED BY <2>1, <2>3, <3>1, <3>3, <3>5, <3>6, <3>7 DEF Joined
  <2> QED BY <2>5, <2>6
<1> QED BY <1>1, <1>2

\* What removeClientFromChannel does to a channel, the last member's leaving included.
LEMMA LeaveFacts ==
  ASSUME Inv, NEW f, NEW c \in channels, hasMember(c, f), removeClientFromChannel(f, c)
  PROVE  LET ch  == channel[c]
             ch2 == channel'[c]
         IN  /\ UNCHANGED fdToClient /\ Others(c)
             /\ ch2.members = ch.members \ {f} /\ ch2.operators = ch.operators \ {f}
             /\ c \in channels' => /\ Governed(ch2) = Governed(ch) /\ ch2.limit = ch.limit
                                   /\ ch2.topic = ch.topic /\ ch2.invited = ch.invited \ {f}
             /\ c \notin channels' => ch2 = NewChannel
<1> DEFINE ch  == channel[c]
           ch2 == channel'[c]
           new == removeClientState(ch, f)
           chs == [channel EXCEPT ![c] = new]
<1> SUFFICES /\ UNCHANGED fdToClient /\ Others(c)
             /\ ch2.members = ch.members \ {f} /\ ch2.operators = ch.operators \ {f}
             /\ c \in channels' => /\ Governed(ch2) = Governed(ch) /\ ch2.limit = ch.limit
                                   /\ ch2.topic = ch.topic /\ ch2.invited = ch.invited \ {f}
             /\ c \notin channels' => ch2 = NewChannel
  OBVIOUS
<1>1. c \in ChannelName /\ ch \in Channel /\ ch.operators \subseteq ch.members
  BY DEF Inv, StateInv, StateTypeOK, ChannelRoles
<1>2. /\ new \in Channel /\ new.members = ch.members \ {f} /\ new.operators = ch.operators \ {f}
      /\ new.invited = ch.invited \ {f} /\ Governed(new) = Governed(ch)
      /\ new.limit = ch.limit /\ new.topic = ch.topic
  BY <1>1 DEF removeClientState, Channel, Governed
<1>3. removeIfEmpty(chs, {c}) /\ UNCHANGED fdToClient
  BY DEF removeClientFromChannel
<1>4. \A d \in ChannelName : chs[d] = IF d = c THEN new ELSE channel[d]
  BY <1>1 DEF Inv, StateInv, StateTypeOK
<1> HIDE DEF chs, new
<1>5. {d \in {c} : chs[d].members = {}} = IF new.members = {} THEN {c} ELSE {}
  BY <1>1, <1>4
<1>6. /\ channels' = channels \ (IF new.members = {} THEN {c} ELSE {})
      /\ channel' = [d \in ChannelName |->
              IF d \in (IF new.members = {} THEN {c} ELSE {}) THEN NewChannel ELSE chs[d]]
  BY <1>3, <1>5 DEF removeIfEmpty
<1>7. Others(c)
  BY <1>4, <1>6 DEF Others
<1>8. CASE new.members = {}
  <2>1. ch2 = NewChannel /\ c \notin channels'
    BY <1>1, <1>6, <1>8
  <2>2. ch.operators \ {f} = {}
    BY <1>1, <1>2, <1>8
  <2> QED BY <1>2, <1>3, <1>7, <1>8, <2>1, <2>2 DEF NewChannel
<1>9. CASE new.members # {}
  <2>1. ch2 = new /\ c \in channels'
    BY <1>1, <1>4, <1>6, <1>9
  <2> QED BY <1>2, <1>3, <1>7, <2>1
<1> QED BY <1>8, <1>9

\* PART.
LEMMA PartKind ==
  ASSUME Inv, NEW f \in fdToClient, NEW c, handlePart(f, c)
  PROVE  Quiet \/ Departed(f, c)
<1>1. CASE ChannelError(f, c) # Ok
  BY <1>1, ChannelErrorOk, RejectQuiet DEF handlePart
<1>2. CASE ChannelError(f, c) = Ok
  <2>1. /\ c \in channels /\ hasMember(c, f) /\ removeClientFromChannel(f, c)
        /\ Return(f, addReplies(channel[c].members, About("PART", f, c)))
    BY <1>2, ChannelErrorOk DEF handlePart
  <2>2. f \in channel[c].members
    BY <2>1 DEF hasMember
  <2> QED BY <2>1, <2>2, LeaveFacts DEF Departed, Return
<1> QED BY <1>1, <1>2

\* KICK.
LEMMA KickKind ==
  ASSUME Inv, NEW f \in fdToClient, NEW c, NEW n, handleKick(f, c, n)
  PROVE  Quiet \/ \E g : Departed(g, c)
<1>1. CASE KickError(f, c, n) # Ok
  <2>1. ChannelError(f, c) \in Numeric \cup {Ok}
    BY ChannelErrorOk
  <2>2. KickError(f, c, n) \in Numeric
    BY <1>1, <2>1 DEF KickError, Numeric
  <2> QED BY <1>1, <2>2, RejectQuiet DEF handleKick
<1>2. CASE KickError(f, c, n) = Ok
  <2> DEFINE target == getClientByNick(n)
  <2>1. ChannelError(f, c) = Ok /\ isOperator(c, f) /\ hasMember(c, target)
    BY <1>2 DEF KickError, Ok
  <2>2. /\ c \in channels /\ removeClientFromChannel(target, c)
        /\ Return(f, addReplies(channel[c].members, About("KICK", target, c)))
    BY <1>2, <2>1, ChannelErrorOk DEF handleKick
  <2> HIDE DEF target
  <2>3. target \in channel[c].members /\ f \in channel[c].operators
    BY <2>1 DEF hasMember, isOperator
  <2> QED BY <2>1, <2>2, <2>3, LeaveFacts DEF Departed, Return
<1> QED BY <1>1, <1>2

\* INVITE.
LEMMA InviteKind ==
  ASSUME Inv, NEW f \in fdToClient, NEW c, NEW n, handleInvite(f, n, c)
  PROVE  Quiet \/ Ticketed(c)
<1>1. CASE InviteError(f, n, c) # Ok
  <2>1. InviteError(f, n, c) \in Numeric
    BY <1>1 DEF InviteError, Numeric
  <2> QED BY <1>1, <2>1, RejectQuiet DEF handleInvite
<1>2. CASE InviteError(f, n, c) = Ok
  <2> DEFINE target == getClientByNick(n)
  <2>1. c \in ChannelName /\ target # None /\ c \in channels
    BY <1>2 DEF InviteError, Ok
  <2>2. target \in fdToClient
    BY <2>1, LookupType DEF Inv
  <2>3. /\ inviteClientToChannel(target, c)
        /\ result'.replies = addReplies({f}, About("341", target, c))
                             \cup addReplies({target}, About("INVITE", f, c))
    BY <1>2 DEF handleInvite, Return
  <2> HIDE DEF target
  <2>4. /\ UNCHANGED <<fdToClient, channels>> /\ Others(c)
        /\ channel'[c] = [channel[c] EXCEPT !.invited = @ \cup {target}]
    BY <2>1, <2>3 DEF inviteClientToChannel, Others, Inv, StateInv, StateTypeOK
  <2>5. Silent(result'.replies)
    BY <2>3 DEF Silent, addReplies, About, RosterCmd
  <2> QED BY <2>1, <2>2, <2>4, <2>5 DEF Ticketed
<1> QED BY <1>1, <1>2

\* TOPIC.
LEMMA TopicKind ==
  ASSUME Inv, NEW f \in fdToClient, NEW c, NEW topic, handleTopic(f, c, topic)
  PROVE  Quiet \/ Retitled(c)
<1>1. CASE TopicError(f, c, topic) # Ok
  <2>1. ChannelError(f, c) \in Numeric \cup {Ok}
    BY ChannelErrorOk
  <2>2. TopicReply(channel[c]) \in Numeric
    BY DEF TopicReply, Numeric
  <2>3. TopicError(f, c, topic) \in Numeric
    BY <1>1, <2>1, <2>2 DEF TopicError, Numeric
  <2> QED BY <1>1, <2>3, RejectQuiet DEF handleTopic
<1>2. CASE TopicError(f, c, topic) = Ok
  <2>1. TopicReply(channel[c]) # Ok
    BY DEF TopicReply, Ok
  <2>2. /\ ChannelError(f, c) = Ok
        /\ channel[c].topicRestricted => isOperator(c, f)
    BY <1>2, <2>1 DEF TopicError, Ok
  <2>3. c \in channels /\ c \in ChannelName /\ hasMember(c, f)
    BY <2>2, ChannelErrorOk
  <2>4. /\ channel' = [channel EXCEPT ![c].topic = topic]
        /\ result'.by = f
        /\ result'.replies = addReplies(channel[c].members, About("TOPIC", f, c))
        /\ UNCHANGED <<fdToClient, channels>>
    BY <1>2 DEF handleTopic, Return
  <2>5. Others(c) /\ channel'[c] = [channel[c] EXCEPT !.topic = topic]
    BY <2>3, <2>4 DEF Others, Inv, StateInv, StateTypeOK
  <2>6. Silent(result'.replies)
    BY <2>4 DEF Silent, addReplies, About, RosterCmd
  <2> QED BY <2>2, <2>3, <2>4, <2>5, <2>6 DEF Retitled, hasMember, isOperator
<1> QED BY <1>1, <1>2

\* What ApplyMode does to the operators.
LEMMA ModeOperators ==
  ASSUME NEW ch \in Channel, NEW token \in ModeToken, NEW arg,
         token \in {"+o", "-o"} => getClientByNick(arg) \in ch.members
  PROVE  LET new == ApplyMode(ch, token, arg)
         IN  /\ new.members = ch.members /\ new.invited = ch.invited /\ new.topic = ch.topic
             /\ new.operators = IF token = "+o" THEN ch.operators \cup {getClientByNick(arg)}
                                ELSE IF token = "-o" THEN ch.operators \ {getClientByNick(arg)}
                                ELSE ch.operators
<1> DEFINE new == ApplyMode(ch, token, arg)
<1>1. CASE token \in {"+i", "-i"}
  <2>1. new = [ch EXCEPT !.inviteOnly = (token = "+i")]
    BY <1>1 DEF ApplyMode
  <2> QED BY <1>1, <2>1 DEF Channel
<1>2. CASE token \in {"+t", "-t"}
  <2>1. new = [ch EXCEPT !.topicRestricted = (token = "+t")]
    BY <1>2 DEF ApplyMode
  <2> QED BY <1>2, <2>1 DEF Channel
<1>3. CASE token \in {"+k", "-k"}
  <2>1. new = [ch EXCEPT !.key = IF token = "+k" THEN arg ELSE None]
    BY <1>3 DEF ApplyMode
  <2> QED BY <1>3, <2>1 DEF Channel
<1>4. CASE token \in {"+l", "-l"}
  <2>1. token = "+l" => new = setLimit(ch, arg)
    BY DEF ApplyMode
  <2>2. \E l : new = [ch EXCEPT !.limit = l]
    <3>1. ch = [ch EXCEPT !.limit = ch.limit]
      BY DEF Channel
    <3> QED BY <1>4, <2>1, <3>1 DEF ApplyMode, setLimit
  <2> QED BY <1>4, <2>2 DEF Channel
<1>5. CASE token \in {"+o", "-o"}
  <2>1. new = setOperator(ch, getClientByNick(arg), token = "+o")
    BY <1>5 DEF ApplyMode
  <2>2. new = [ch EXCEPT !.operators = IF token = "+o" THEN ch.operators \cup {getClientByNick(arg)}
                                       ELSE ch.operators \ {getClientByNick(arg)}]
    BY <1>5, <2>1 DEF setOperator, Channel
  <2> QED BY <1>5, <2>2 DEF Channel
<1> QED BY <1>1, <1>2, <1>3, <1>4, <1>5 DEF ModeToken

\* MODE.
LEMMA ModeKind ==
  ASSUME Inv, NEW f \in fdToClient, NEW c, NEW token, NEW arg, handleMode(f, c, token, arg)
  PROVE  Quiet \/ Changed(c)
<1>1. CASE ModeError(f, c, token, arg) # Ok
  <2>1. ChannelError(f, c) \in Numeric \cup {Ok}
    BY ChannelErrorOk
  <2>2. ModeError(f, c, token, arg) \in Numeric
    BY <1>1, <2>1 DEF ModeError, Numeric
  <2> QED BY <1>1, <2>2, RejectQuiet DEF handleMode
<1>2. CASE ModeError(f, c, token, arg) = Ok
  <2> DEFINE new == ApplyMode(channel[c], token, arg)
             who == IF token \in {"+o", "-o"} THEN getClientByNick(arg) ELSE f
  <2>1. /\ ChannelError(f, c) = Ok /\ isOperator(c, f) /\ token \in ModeToken
        /\ token \in {"+o", "-o"} => getClientByNick(arg) # None /\ hasMember(c, getClientByNick(arg))
    BY <1>2 DEF ModeError, Ok
  <2>2. c \in channels /\ c \in ChannelName /\ channel[c] \in Channel
    BY <2>1, ChannelErrorOk
  <2>3. /\ channel' = [channel EXCEPT ![c] = new]
        /\ result'.by = f
        /\ result'.replies = addReplies(channel[c].members, About(token, who, c))
        /\ UNCHANGED <<fdToClient, channels>>
    BY <1>2 DEF handleMode, Return
  <2>4. who \in fdToClient
    BY <2>1, LookupType DEF Inv
  <2>5. /\ new.members = channel[c].members /\ new.invited = channel[c].invited
        /\ new.topic = channel[c].topic
        /\ new.operators = IF token = "+o" THEN channel[c].operators \cup {who}
                           ELSE IF token = "-o" THEN channel[c].operators \ {who}
                           ELSE channel[c].operators
    <3>1. token \in {"+o", "-o"} => getClientByNick(arg) \in channel[c].members
      BY <2>1 DEF hasMember
    <3>2. /\ new.members = channel[c].members /\ new.invited = channel[c].invited
          /\ new.topic = channel[c].topic
          /\ new.operators = IF token = "+o" THEN channel[c].operators \cup {getClientByNick(arg)}
                             ELSE IF token = "-o" THEN channel[c].operators \ {getClientByNick(arg)}
                             ELSE channel[c].operators
      BY <2>1, <2>2, <3>1, ModeOperators
    <3> HIDE DEF new
    <3> QED BY <3>2
  <2> HIDE DEF new, who
  <2>6. Others(c) /\ channel'[c] = new
    BY <2>2, <2>3 DEF Others, Inv, StateInv, StateTypeOK
  <2>7. f \in channel[c].operators
    BY <2>1 DEF isOperator
  <2> QED BY <2>1, <2>2, <2>3, <2>4, <2>5, <2>6, <2>7 DEF Changed
<1> QED BY <1>1, <1>2

\* A disconnection.
LEMMA DisconnectKind ==
  ASSUME Inv, DeletedAreNew, NEW f \in Fd, Disconnect(f)
  PROVE  Gone(f)
<1> DEFINE mine == client[f].channels
           left == [c \in ChannelName |-> IF c \in mine THEN removeClientState(channel[c], f)
                                          ELSE channel[c]]
           gone == withoutInvites(left, f)
           empty == {c \in mine : gone[c].members = {}}
<1>1. \A c \in ChannelName :
          /\ gone[c].members = channel[c].members \ {f}
          /\ gone[c].operators = channel[c].operators \ {f}
          /\ gone[c].invited = channel[c].invited \ {f}
          /\ Governed(gone[c]) = Governed(channel[c])
          /\ gone[c].limit = channel[c].limit /\ gone[c].topic = channel[c].topic
  <2> TAKE c \in ChannelName
  <2>1. channel[c] \in Channel /\ channel[c].operators \subseteq channel[c].members
    BY DEF Inv, StateInv, StateTypeOK, ChannelRoles
  <2>2. gone[c] = [left[c] EXCEPT !.invited = @ \ {f}]
    BY DEF withoutInvites
  <2>3. /\ left[c] \in Channel
        /\ left[c].members = channel[c].members \ {f}
        /\ left[c].operators = channel[c].operators \ {f}
        /\ left[c].invited \in {channel[c].invited, channel[c].invited \ {f}}
        /\ Governed(left[c]) = Governed(channel[c])
        /\ left[c].limit = channel[c].limit /\ left[c].topic = channel[c].topic
    <3>1. CASE c \in mine
      <4>1. left[c] = removeClientState(channel[c], f)
        BY <3>1
      <4> HIDE DEF left
      <4> QED BY <2>1, <4>1, ZenonT(40) DEF removeClientState, Channel, Governed
    <3>2. CASE c \notin mine
      <4>1. f \notin channel[c].members
        BY <3>2 DEF Inv, StateInv, MembershipSync
      <4>2. f \notin channel[c].operators /\ left[c] = channel[c]
        BY <2>1, <3>2, <4>1
      <4> QED BY <2>1, <4>1, <4>2 DEF Channel
    <3> QED BY <3>1, <3>2
  <2> HIDE DEF left, gone
  <2> QED BY <2>1, <2>2, <2>3, ZenonT(40) DEF Channel, Governed
<1>2. /\ channels' = channels \ empty
      /\ channel' = [c \in ChannelName |-> IF c \in empty THEN NewChannel ELSE gone[c]]
      /\ f \in fdToClient /\ fdToClient' = fdToClient \ {f}
  BY DEF Disconnect, removeClient, removeIfEmpty
<1> HIDE DEF gone, left
<1>3. /\ result'.by = f
      /\ result'.replies = addReplies(CoMembers(f), About("QUIT", f, None))
  BY DEF Disconnect, Return
<1>4. ASSUME NEW c \in ChannelName
      PROVE  /\ channel'[c].members = channel[c].members \ {f}
             /\ channel'[c].operators = channel[c].operators \ {f}
             /\ c \in channels' => /\ Governed(channel'[c]) = Governed(channel[c])
                                   /\ channel'[c].limit = channel[c].limit
                                   /\ channel'[c].topic = channel[c].topic
                                   /\ channel'[c].invited = channel[c].invited \ {f}
             /\ c \notin channels' => channel'[c] = NewChannel
  <2>1. CASE c \in empty
    <3>1. channel'[c] = NewChannel /\ c \notin channels' /\ channel[c].members \ {f} = {}
      BY <1>1, <1>2, <2>1
    <3>2. channel[c].operators \ {f} = {}
      BY <3>1 DEF Inv, StateInv, ChannelRoles
    <3> QED BY <3>1, <3>2 DEF NewChannel
  <2>2. CASE c \notin empty
    <3>1. channel'[c] = gone[c] /\ (c \in channels' <=> c \in channels)
      BY <1>2, <2>2
    <3>2. ASSUME c \notin channels PROVE gone[c] = NewChannel
      <4>1. channel[c] = NewChannel /\ c \notin mine
        BY <3>2 DEF DeletedAreNew, Inv, StateInv, ChannelsAreInhabited, MembershipSync
      <4>2. gone[c] = [NewChannel EXCEPT !.invited = @ \ {f}]
        BY <4>1 DEF gone, left, withoutInvites
      <4> QED BY <4>2 DEF NewChannel
    <3> QED BY <1>1, <3>1, <3>2
  <2> QED BY <2>1, <2>2
<1> QED BY <1>2, <1>3, <1>4 DEF Gone

\* Every step of the dispatcher is of one of the seven kinds.
LEMMA StepKinds == Inv /\ DeletedAreNew /\ Next => StepKind
<1> SUFFICES ASSUME Inv, DeletedAreNew, Next PROVE StepKind
  OBVIOUS
<1>1. ASSUME NEW f \in Fd, Disconnect(f) PROVE StepKind
  BY <1>1, DisconnectKind DEF StepKind
<1>2. ASSUME NEW f \in Fd, Accept(f) PROVE StepKind
  BY <1>2 DEF StepKind, Quiet, Accept, addClient, Return, Silent
<1>3. ASSUME NEW f \in Fd, dispatch(f) PROVE StepKind
  <2>0. f \in fdToClient
    BY <1>3 DEF dispatch
  <2>1. ASSUME NEW pass, handlePass(f, pass) PROVE Quiet
    BY <2>0, <2>1, RegistrationQuiet
  <2>2. ASSUME NEW n \in Nick \cup {Missing, Invalid}, handleNick(f, n) PROVE Quiet
    BY <2>0, <2>2, RegistrationQuiet
  <2>3. ASSUME NEW real, handleUser(f, real) PROVE Quiet
    BY <2>0, <2>3, RegistrationQuiet
  <2>4. ASSUME NEW c, NEW key, handleJoin(f, c, key) PROVE StepKind
    BY <2>0, <2>4, JoinKind DEF StepKind
  <2>5. ASSUME NEW c, handlePart(f, c) PROVE StepKind
    BY <2>0, <2>5, PartKind DEF StepKind
  <2>6. ASSUME NEW c, NEW n, handleKick(f, c, n) PROVE StepKind
    BY <2>0, <2>6, KickKind DEF StepKind
  <2>7. ASSUME NEW c, NEW n, handleInvite(f, n, c) PROVE StepKind
    BY <2>0, <2>7, InviteKind DEF StepKind
  <2>8. ASSUME NEW c, NEW topic, handleTopic(f, c, topic) PROVE StepKind
    BY <2>0, <2>8, TopicKind DEF StepKind
  <2>9. ASSUME NEW c, NEW token, NEW arg, handleMode(f, c, token, arg) PROVE StepKind
    BY <2>0, <2>9, ModeKind DEF StepKind
  <2>10. ASSUME NEW cmd \in {"PRIVMSG", "NOTICE"}, NEW target,
                handleTextMessage(f, cmd, target) \/ handleOther(f) \/ handleQuit(f)
         PROVE  Quiet
    BY <2>0, <2>10, TalkQuiet
  <2>11. handleOther(f) \/ handleQuit(f) => Quiet
    BY <2>10
  <2> QED BY <1>3, <2>1, <2>2, <2>3, <2>4, <2>5, <2>6, <2>7, <2>8, <2>9, <2>10, <2>11
          DEF dispatch, StepKind
<1> QED BY <1>1, <1>2, <1>3 DEF Next, Inv, StateInv, StateTypeOK

--------------------------------------------------------------------------------
(* The channels that do not exist. *)

\* Joining is the only way to create a channel.
LEMMA DeletedInv == DeletedAreNew /\ StepKind => DeletedAreNew'
<1> SUFFICES ASSUME DeletedAreNew, StepKind, NEW c \in ChannelName, c \notin channels'
             PROVE  channel'[c] = NewChannel
  BY DEF DeletedAreNew
<1>1. CASE Quiet
  BY <1>1 DEF Quiet, DeletedAreNew
<1>2. ASSUME NEW d, Others(d), d # c PROVE channel'[c] = NewChannel
  BY <1>2 DEF Others, DeletedAreNew
<1>3. ASSUME NEW f, NEW d, Joined(f, d) PROVE channel'[c] = NewChannel
  BY <1>2, <1>3 DEF Joined
<1>4. ASSUME NEW f, NEW d, Departed(f, d) PROVE channel'[c] = NewChannel
  BY <1>2, <1>4 DEF Departed
<1>5. ASSUME NEW d, Ticketed(d) \/ Retitled(d) \/ Changed(d) PROVE channel'[c] = NewChannel
  BY <1>2, <1>5 DEF Ticketed, Retitled, Changed
<1>6. ASSUME NEW f, Gone(f) PROVE channel'[c] = NewChannel
  BY <1>6 DEF Gone
<1> QED BY <1>1, <1>3, <1>4, <1>5, <1>6 DEF StepKind

\* A channel inherits nothing, no ticket and no mode, from one that had its name.
LEMMA Deleted == Spec => [](Inv /\ DeletedAreNew)
<1>1. Init => DeletedAreNew
  BY DEF Init, StateInit, DeletedAreNew
<1>2. Inv /\ DeletedAreNew /\ [Next]_vars => DeletedAreNew'
  <2>1. DeletedAreNew /\ UNCHANGED vars => DeletedAreNew'
    BY DEF DeletedAreNew, vars, stateVars
  <2> QED BY <2>1, StepKinds, DeletedInv
<1> QED BY <1>1, <1>2, Invariance, PTL DEF Spec

--------------------------------------------------------------------------------
(* Tickets. *)

\* What TicketsLast says of one step.
Kept == \A c \in ChannelName : \A f \in channel[c].invited \ channel'[c].invited :
            \/ f \in channel'[c].members
            \/ f \notin fdToClient'
            \/ c \notin channels'

\* No kind of step takes a ticket away from a client that stays outside.
LEMMA StepKeeps == Inv /\ DeletedAreNew /\ StepKind => Kept
<1> SUFFICES ASSUME Inv, DeletedAreNew, StepKind, NEW c \in ChannelName,
                    NEW f \in channel[c].invited, f \notin channel'[c].invited, c \in channels'
             PROVE  f \in channel'[c].members \/ f \notin fdToClient'
  BY DEF Kept
<1>1. CASE Quiet
  BY <1>1 DEF Quiet
<1>2. ASSUME NEW d, \/ (\E g : Joined(g, d) \/ Departed(g, d))
                    \/ Ticketed(d) \/ Retitled(d) \/ Changed(d)
      PROVE  d = c
  <2>1. Others(d)
    BY <1>2 DEF Joined, Departed, Ticketed, Retitled, Changed
  <2> QED BY <2>1 DEF Others
<1>3. ASSUME NEW g, NEW d, Joined(g, d) PROVE f \in channel'[c].members
  <2>1. d = c
    BY <1>2, <1>3
  <2>2. c \in channels
    BY DEF DeletedAreNew, NewChannel
  <2> QED BY <1>3, <2>1, <2>2 DEF Joined
<1>4. ASSUME NEW g, NEW d, Departed(g, d) PROVE FALSE
  <2>1. d = c
    BY <1>2, <1>4
  <2>2. f = g /\ f \in channel[c].members
    BY <1>4, <2>1 DEF Departed
  <2> QED BY <2>2 DEF Inv, StateInv, ChannelRoles
<1>5. ASSUME NEW d, Ticketed(d) \/ Retitled(d) \/ Changed(d) PROVE FALSE
  <2>1. d = c /\ channel[c] \in Channel
    BY <1>2, <1>5 DEF Inv, StateInv, StateTypeOK
  <2> QED BY <1>5, <2>1, ZenonT(40) DEF Ticketed, Retitled, Changed, Channel
<1>6. ASSUME NEW g, Gone(g) PROVE f \notin fdToClient'
  BY <1>6 DEF Gone
<1> QED BY <1>1, <1>3, <1>4, <1>5, <1>6 DEF StepKind

\* A ticket is used up by its holder's JOIN and otherwise lost only with its holder or
\* its channel (handleInvite, _unsafe_addMember, removeClient).
THEOREM Tickets == Spec => TicketsLast
<1>1. Inv /\ DeletedAreNew /\ [Next]_vars => [Kept]_vars
  BY StepKinds, StepKeeps
<1> QED BY <1>1, Deleted, PTL DEF Spec, TicketsLast, Kept

--------------------------------------------------------------------------------
(* Limits. *)

\* What LimitBoundsGrowth says of one step.
Bounded == \A c \in ChannelName :
               /\ Cardinality(channel'[c].members) > Cardinality(channel[c].members) =>
                      channel'[c].limit = NoLimit
                      \/ Cardinality(channel'[c].members) <= channel'[c].limit
               /\ channel'[c].limit # channel[c].limit /\ c \in channels' =>
                      channel'[c].members = channel[c].members

\* The members of a channel are finitely many.
LEMMA MembersFinite ==
  ASSUME Inv, NEW c \in ChannelName
  PROVE  IsFiniteSet(channel[c].members) /\ Cardinality(channel[c].members) \in Nat
<1>1. channel[c].members \subseteq Fd
  BY DEF Inv, StateInv, StateTypeOK, Channel
<1>2. IsFiniteSet(channel[c].members)
  BY <1>1, StateAssumption, FS_Subset
<1> QED BY <1>2, FS_CardinalityType

\* Leaving does not make a channel grow, and joining makes it grow by one.
LEMMA LeavingShrinks ==
  ASSUME Inv, NEW c \in ChannelName, NEW f
  PROVE  /\ ~(Cardinality(channel[c].members \ {f}) > Cardinality(channel[c].members))
         /\ Cardinality(channel[c].members \cup {f}) \in
               {Cardinality(channel[c].members), Cardinality(channel[c].members) + 1}
<1> DEFINE m == channel[c].members
<1>1. IsFiniteSet(m)
  BY MembersFinite
<1>2. Cardinality(m) \in Nat
  BY MembersFinite
<1> HIDE DEF m
<1>3. Cardinality(m \ {f}) \in {Cardinality(m), Cardinality(m) - 1}
  BY <1>1, FS_RemoveElement
<1>4. Cardinality(m \cup {f}) \in {Cardinality(m), Cardinality(m) + 1}
  BY <1>1, FS_AddElement
<1> QED BY <1>2, <1>3, <1>4 DEF m

\* Only a JOIN makes a channel grow, by one, and only below its limit.
LEMMA StepBounded == Inv /\ StepKind => Bounded
<1> SUFFICES ASSUME Inv, StepKind, NEW c \in ChannelName
             PROVE  /\ Cardinality(channel'[c].members) > Cardinality(channel[c].members) =>
                           channel'[c].limit = NoLimit
                           \/ Cardinality(channel'[c].members) <= channel'[c].limit
                    /\ channel'[c].limit # channel[c].limit /\ c \in channels' =>
                           channel'[c].members = channel[c].members
  BY DEF Bounded
<1> DEFINE n == Cardinality(channel[c].members)
           n2 == Cardinality(channel'[c].members)
<1>0. n \in Nat /\ ~(n > n) /\ channel[c] \in Channel
  BY MembersFinite DEF Inv, StateInv, StateTypeOK
<1>1. ASSUME channel'[c].members = channel[c].members PROVE ~(n2 > n)
  BY <1>0, <1>1
<1>2. ASSUME NEW d, Others(d), d # c PROVE channel'[c] = channel[c]
  BY <1>2 DEF Others
<1>3. CASE Quiet
  BY <1>1, <1>3 DEF Quiet
<1>4. ASSUME NEW f, NEW d, Joined(f, d)
      PROVE  /\ n2 > n => channel'[c].limit = NoLimit \/ n2 <= channel'[c].limit
             /\ channel'[c].limit = channel[c].limit
  <2>1. CASE d # c
    BY <1>1, <1>2, <1>4, <2>1 DEF Joined
  <2>2. CASE d = c
    <3>0. Cardinality(channel[c].members \cup {f}) \in {n, n + 1}
      BY LeavingShrinks
    <3>1. /\ channel'[c].limit = channel[c].limit /\ n2 \in {n, n + 1}
          /\ f \notin channel[c].members => channel[c].limit = NoLimit \/ ~(n >= channel[c].limit)
      BY <1>4, <2>2, <3>0 DEF Joined
    <3>2. f \in channel[c].members => channel'[c].members = channel[c].members
      <4>1. channel'[c].members = channel[c].members \cup {f}
        BY <1>4, <2>2 DEF Joined
      <4>2. f \in channel[c].members => channel[c].members \cup {f} = channel[c].members
        OBVIOUS
      <4> QED BY <4>1, <4>2
    <3>3. channel[c].limit \in Int
      BY <1>0, StateAssumption DEF Channel, NoLimit
    <3> HIDE DEF n, n2
    <3> QED BY <1>0, <1>1, <3>1, <3>2, <3>3
  <2> QED BY <2>1, <2>2
<1>5. ASSUME NEW f, NEW d, Departed(f, d)
      PROVE  ~(n2 > n) /\ (c \in channels' => channel'[c].limit = channel[c].limit)
  <2>1. CASE d # c
    BY <1>1, <1>2, <1>5, <2>1 DEF Departed
  <2>2. CASE d = c
    BY <1>5, <2>2, LeavingShrinks DEF Departed
  <2> QED BY <2>1, <2>2
<1>6. ASSUME NEW d, Ticketed(d) \/ Retitled(d) \/ Changed(d)
      PROVE  channel'[c].members = channel[c].members
  <2>1. CASE d # c
    BY <1>2, <1>6, <2>1 DEF Ticketed, Retitled, Changed
  <2>2. CASE d = c
    BY <1>0, <1>6, <2>2 DEF Ticketed, Retitled, Changed, Channel
  <2> QED BY <2>1, <2>2
<1>7. ASSUME NEW f, Gone(f)
      PROVE  ~(n2 > n) /\ (c \in channels' => channel'[c].limit = channel[c].limit)
  BY <1>7, LeavingShrinks DEF Gone
<1> QED BY <1>1, <1>3, <1>4, <1>5, <1>6, <1>7 DEF StepKind

\* A channel with a limit grows to it and no further, and a limit set below the present
\* size takes nobody out (handleJoin, applyLimitMode).
THEOREM Limits == Spec => LimitBoundsGrowth
<1>1. Inv /\ DeletedAreNew /\ [Next]_vars => [Bounded]_vars
  BY StepKinds, StepBounded
<1> QED BY <1>1, Deleted, PTL DEF Spec, LimitBoundsGrowth, Bounded

--------------------------------------------------------------------------------
(* Government. *)

\* What OnlyOperatorsGovern says of one channel in one step.
Lawful(c) ==
    LET ch  == channel[c]
        ch2 == channel'[c]
        gov == result'.by \in ch.operators
    IN  /\ gov \/ Governed(ch) = Governed(ch2)
        /\ gov \/ ch2.operators \subseteq ch.operators
        /\ gov \/ ch.members \ ch2.members \subseteq {result'.by}
        /\ gov \/ ch.operators \ ch2.operators \subseteq {result'.by}
        /\ ch2.topic # ch.topic =>
               /\ result'.by \in ch.members
               /\ gov \/ ~ch.topicRestricted

\* The members, the tickets and the topic are not what an operator alone changes.
LEMMA GovernedFacts ==
  ASSUME NEW ch \in Channel, NEW S, NEW topic
  PROVE  /\ Governed([ch EXCEPT !.invited = S]) = Governed(ch)
         /\ Governed([ch EXCEPT !.topic = topic]) = Governed(ch)
  BY DEF Governed, Channel

\* Every kind of step is lawful.
LEMMA StepLawful == Inv /\ StepKind => \A c \in channels \cap channels' : Lawful(c)
<1> SUFFICES ASSUME Inv, StepKind, NEW c \in channels \cap channels' PROVE Lawful(c)
  OBVIOUS
<1>0. /\ c \in ChannelName /\ channel[c] \in Channel /\ channel[c].members # {}
      /\ channel[c].operators \subseteq channel[c].members
  BY DEF Inv, StateInv, StateTypeOK, ChannelsAreInhabited, ChannelRoles
<1>1. ASSUME channel'[c] = channel[c] PROVE Lawful(c)
  BY <1>1 DEF Lawful
<1>2. ASSUME NEW d, Others(d), d # c PROVE Lawful(c)
  BY <1>0, <1>1, <1>2 DEF Others
<1>3. CASE Quiet
  BY <1>1, <1>3 DEF Quiet
<1>4. ASSUME NEW f, NEW d, Joined(f, d) PROVE Lawful(c)
  <2>1. CASE d # c
    BY <1>2, <1>4, <2>1 DEF Joined
  <2>2. CASE d = c
    BY <1>0, <1>4, <2>2 DEF Joined, Lawful
  <2> QED BY <2>1, <2>2
<1>5. ASSUME NEW f, NEW d, Departed(f, d) PROVE Lawful(c)
  <2>1. CASE d # c
    BY <1>2, <1>5, <2>1 DEF Departed
  <2>2. CASE d = c
    BY <1>5, <2>2 DEF Departed, Lawful
  <2> QED BY <2>1, <2>2
<1>6. ASSUME NEW d, Ticketed(d) PROVE Lawful(c)
  <2>1. CASE d # c
    BY <1>2, <1>6, <2>1 DEF Ticketed
  <2>2. CASE d = c
    <3>1. PICK S : channel'[c] = [channel[c] EXCEPT !.invited = S]
      BY <1>6, <2>2 DEF Ticketed
    <3>2. /\ Governed(channel'[c]) = Governed(channel[c])
          /\ channel'[c].members = channel[c].members
          /\ channel'[c].operators = channel[c].operators /\ channel'[c].topic = channel[c].topic
      BY <1>0, <3>1, GovernedFacts DEF Channel
    <3> QED BY <3>2 DEF Lawful
  <2> QED BY <2>1, <2>2
<1>7. ASSUME NEW d, Retitled(d) PROVE Lawful(c)
  <2>1. CASE d # c
    BY <1>2, <1>7, <2>1 DEF Retitled
  <2>2. CASE d = c
    <3>1. PICK topic : channel'[c] = [channel[c] EXCEPT !.topic = topic]
      BY <1>7, <2>2 DEF Retitled
    <3>2. /\ Governed(channel'[c]) = Governed(channel[c])
          /\ channel'[c].members = channel[c].members
          /\ channel'[c].operators = channel[c].operators
      BY <1>0, <3>1, GovernedFacts DEF Channel
    <3> QED BY <1>7, <2>2, <3>2 DEF Lawful, Retitled
  <2> QED BY <2>1, <2>2
<1>8. ASSUME NEW d, Changed(d) PROVE Lawful(c)
  <2>1. CASE d # c
    BY <1>2, <1>8, <2>1 DEF Changed
  <2>2. CASE d = c
    BY <1>8, <2>2 DEF Changed, Lawful
  <2> QED BY <2>1, <2>2
<1>9. ASSUME NEW f, Gone(f) PROVE Lawful(c)
  BY <1>0, <1>9 DEF Gone, Lawful
<1> QED BY <1>3, <1>4, <1>5, <1>6, <1>7, <1>8, <1>9 DEF StepKind

\* Only an operator changes modes and operators and takes others out of a channel, and
\* with +t the topic; nobody becomes operator of a channel that has none.
THEOREM Government == Spec => OnlyOperatorsGovern
<1>1. Inv /\ DeletedAreNew /\ [Next]_vars => [\A c \in channels \cap channels' : Lawful(c)]_vars
  BY StepKinds, StepLawful
<1>2. Inv /\ DeletedAreNew /\ [Next]_vars =>
      [\A c \in channels \cap channels' :
             LET ch  == channel[c]
                 ch2 == channel'[c]
                 gov == result'.by \in ch.operators
             IN  /\ \/ gov
                    \/ [ch EXCEPT !.members = {}, !.operators = {}, !.invited = {}, !.topic = None]
                       = [ch2 EXCEPT !.members = {}, !.operators = {}, !.invited = {}, !.topic = None]
                 /\ gov \/ ch2.operators \subseteq ch.operators
                 /\ gov \/ ch.members \ ch2.members \subseteq {result'.by}
                 /\ gov \/ ch.operators \ ch2.operators \subseteq {result'.by}
                 /\ ch2.topic # ch.topic =>
                        /\ result'.by \in ch.members
                        /\ gov \/ ~ch.topicRestricted
        ]_vars
  BY <1>1 DEF Lawful, Governed
<1> QED BY <1>2, Deleted, PTL DEF Spec, OnlyOperatorsGovern

--------------------------------------------------------------------------------
(* Rosters. *)

\* Messages that are no news of a roster leave it as it is.
LEMMA LearnNothing ==
  ASSUME NEW f, NEW M, NEW O, NEW ms, \A m \in ms : m.cmd \notin RosterCmd
  PROVE  Learn(f, [members |-> M, operators |-> O], ms) = [members |-> M, operators |-> O]
<1>1. \A cmds \in SUBSET RosterCmd : Subjects(ms, cmds) = {}
  BY DEF Subjects
<1>2. /\ Subjects(ms, {"JOIN"}) = {} /\ Subjects(ms, {"+o"}) = {} /\ Subjects(ms, {"-o"}) = {}
      /\ Subjects(ms, {"PART", "KICK", "QUIT"}) = {} /\ {m \in ms : m.cmd = "353"} = {}
  BY <1>1 DEF RosterCmd
<1> QED BY <1>2 DEF Learn

\* What one message does to a roster.
LEMMA LearnOne ==
  ASSUME NEW f, NEW r, r = [members |-> r.members, operators |-> r.operators],
         NEW ms, NEW m \in ms, \A x \in ms : x = m, m.cmd # "353"
  PROVE  /\ m.cmd \in {"PART", "KICK", "QUIT"} =>
                Learn(f, r, ms) = IF f = m.who THEN NoRoster
                                  ELSE [members |-> r.members \ {m.who}, operators |-> r.operators \ {m.who}]
         /\ m.cmd = "JOIN" =>
                Learn(f, r, ms) = [members |-> r.members \cup {m.who}, operators |-> r.operators]
         /\ m.cmd = "+o" =>
                Learn(f, r, ms) = [members |-> r.members, operators |-> r.operators \cup {m.who}]
         /\ m.cmd = "-o" =>
                Learn(f, r, ms) = [members |-> r.members, operators |-> r.operators \ {m.who}]
         /\ m.cmd \notin RosterCmd => Learn(f, r, ms) = r
<1>1. \A cmds : Subjects(ms, cmds) = IF m.cmd \in cmds THEN {m.who} ELSE {}
  BY DEF Subjects
<1>2. {x \in ms : x.cmd = "353"} = {}
  OBVIOUS
<1>3. /\ Subjects(ms, {"PART", "KICK", "QUIT"}) = IF m.cmd \in {"PART", "KICK", "QUIT"} THEN {m.who} ELSE {}
      /\ Subjects(ms, {"JOIN"}) = IF m.cmd = "JOIN" THEN {m.who} ELSE {}
      /\ Subjects(ms, {"+o"}) = IF m.cmd = "+o" THEN {m.who} ELSE {}
      /\ Subjects(ms, {"-o"}) = IF m.cmd = "-o" THEN {m.who} ELSE {}
  BY <1>1
<1>4. CASE m.cmd \in {"PART", "KICK", "QUIT"}
  BY <1>2, <1>3, <1>4 DEF Learn, RosterCmd
<1>5. CASE m.cmd \notin {"PART", "KICK", "QUIT"}
  BY <1>2, <1>3, <1>5 DEF Learn, RosterCmd
<1> QED BY <1>4, <1>5

\* Who gets a message that is sent to the clients fds.
LEMMA Told ==
  ASSUME NEW f, NEW c, NEW fds, NEW m
  PROVE  MessagesAbout(f, c, addReplies(fds, m)) =
             IF f \in fds /\ (m.chan = c \/ m.cmd = "QUIT") THEN {m} ELSE {}
<1> DEFINE mine == {x \in addReplies(fds, m) : x.to = f /\ (x.msg.chan = c \/ x.msg.cmd = "QUIT")}
<1>1. mine = IF f \in fds /\ (m.chan = c \/ m.cmd = "QUIT") THEN {[to |-> f, msg |-> m]} ELSE {}
  <2>1. \A x \in addReplies(fds, m) : x = [to |-> x.to, msg |-> m] /\ x.to \in fds
    BY DEF addReplies
  <2>2. f \in fds => [to |-> f, msg |-> m] \in addReplies(fds, m)
    BY DEF addReplies
  <2> QED BY <2>1, <2>2
<1>2. MessagesAbout(f, c, addReplies(fds, m)) = {r.msg : r \in mine}
  BY DEF MessagesAbout
<1> HIDE DEF mine
<1> QED BY <1>1, <1>2

\* The replies of one result are read together.
LEMMA ToldUnion ==
  ASSUME NEW f, NEW c, NEW A, NEW B
  PROVE  MessagesAbout(f, c, A \cup B) = MessagesAbout(f, c, A) \cup MessagesAbout(f, c, B)
  BY DEF MessagesAbout

\* Who gets a message about a channel or a client.
LEMMA ToldAbout ==
  ASSUME NEW f, NEW c, NEW fds, NEW cmd, NEW who, NEW chan
  PROVE  MessagesAbout(f, c, addReplies(fds, About(cmd, who, chan))) =
             IF f \in fds /\ (chan = c \/ cmd = "QUIT") THEN {About(cmd, who, chan)} ELSE {}
<1>1. About(cmd, who, chan).cmd = cmd /\ About(cmd, who, chan).chan = chan
  BY DEF About
<1> QED BY <1>1, Told

\* What f should know of c.
Roster(f, c) == IF f \in channel[c].members
                THEN [members |-> channel[c].members, operators |-> channel[c].operators]
                ELSE NoRoster

RosterInv == \A f \in Fd, c \in ChannelName : view[f][c] = Roster(f, c)

\* What f knows of c after the step.
Learnt(f, c) == Learn(f, Roster(f, c), MessagesAbout(f, c, result'.replies))

\* Steps that tell f nothing of c and leave c as it was for those who are in it.
LEMMA Ignorant ==
  ASSUME NEW f, NEW c, \A m \in MessagesAbout(f, c, result'.replies) : m.cmd \notin RosterCmd,
         channel'[c].members = channel[c].members, channel'[c].operators = channel[c].operators
  PROVE  Learnt(f, c) = Roster(f, c)'
<1>1. Learnt(f, c) = Roster(f, c)
  BY LearnNothing DEF Learnt, Roster, NoRoster
<1> QED BY <1>1 DEF Roster

\* Quiet steps, tickets and topics.
LEMMA QuietLearnt ==
  ASSUME Inv, NEW f, NEW c \in ChannelName, Quiet \/ \E d : Ticketed(d) \/ Retitled(d)
  PROVE  Learnt(f, c) = Roster(f, c)'
<1>1. Silent(result'.replies)
  BY DEF Quiet, Ticketed, Retitled
<1>2. \A m \in MessagesAbout(f, c, result'.replies) : m.cmd \notin RosterCmd
  BY <1>1 DEF Silent, MessagesAbout
<1>3. channel'[c].members = channel[c].members /\ channel'[c].operators = channel[c].operators
  <2>1. channel[c] \in Channel
    BY DEF Inv, StateInv, StateTypeOK
  <2>2. CASE Quiet
    BY <2>2 DEF Quiet
  <2>3. ASSUME NEW d, Ticketed(d) \/ Retitled(d)
        PROVE  channel'[c].members = channel[c].members /\ channel'[c].operators = channel[c].operators
    <3>1. CASE d # c
      BY <2>3, <3>1 DEF Ticketed, Retitled, Others
    <3>2. CASE d = c
      BY <2>1, <2>3, <3>2 DEF Ticketed, Retitled, Channel
    <3> QED BY <3>1, <3>2
  <2> QED BY <2>2, <2>3
<1> QED BY <1>2, <1>3, Ignorant

\* PART and KICK: those who were in the channel are told, the one who leaves included.
LEMMA DepartLearnt ==
  ASSUME Inv, NEW f, NEW c \in ChannelName, NEW g, NEW d, Departed(g, d)
  PROVE  Learnt(f, c) = Roster(f, c)'
<1> DEFINE r == [members |-> channel[c].members, operators |-> channel[c].operators]
           ms == MessagesAbout(f, c, result'.replies)
<1>1. PICK cmd \in {"PART", "KICK"} :
          result'.replies = addReplies(channel[d].members, About(cmd, g, d))
  BY DEF Departed
<1>2. ms = IF f \in channel[d].members /\ d = c THEN {About(cmd, g, d)} ELSE {}
  BY <1>1, ToldAbout, SMTT(30)
<1>3. CASE d # c
  <2>1. channel'[c] = channel[c]
    BY <1>3 DEF Departed, Others
  <2> QED BY <1>2, <1>3, <2>1, Ignorant
<1>4. CASE d = c
  <2>1. /\ channel'[c].members = channel[c].members \ {g}
        /\ channel'[c].operators = channel[c].operators \ {g}
    BY <1>4 DEF Departed
  <2>2. CASE f \in channel[c].members
    <3>1. Learnt(f, c) = Learn(f, r, ms)
      BY <2>2 DEF Learnt, Roster
    <3>2. /\ r.members = channel[c].members /\ r.operators = channel[c].operators
          /\ r = [members |-> r.members, operators |-> r.operators]
      OBVIOUS
    <3> DEFINE m == About(cmd, g, d)
    <3>m. m \in ms /\ (\A x \in ms : x = m) /\ m.cmd = cmd /\ m.who = g
      BY <1>2, <1>4, <2>2 DEF About
    <3> HIDE DEF r, ms, m
    <3>3. Learn(f, r, ms) = IF f = g THEN NoRoster
                            ELSE [members |-> r.members \ {g}, operators |-> r.operators \ {g}]
      BY <1>1, <3>m, <3>2, LearnOne, SMTT(30)
    <3> QED BY <2>1, <2>2, <3>1, <3>2, <3>3 DEF Roster
  <2>3. CASE f \notin channel[c].members
    <3>1. Learnt(f, c) = NoRoster
      BY <1>2, <1>4, <2>3, LearnNothing DEF Learnt, Roster, NoRoster
    <3> QED BY <2>1, <2>3, <3>1 DEF Roster
  <2> QED BY <2>2, <2>3
<1> QED BY <1>3, <1>4

\* MODE: the members are told, about the one who becomes or stops being operator.
LEMMA ChangeLearnt ==
  ASSUME Inv, NEW f, NEW c \in ChannelName, NEW d, Changed(d)
  PROVE  Learnt(f, c) = Roster(f, c)'
<1> DEFINE r == [members |-> channel[c].members, operators |-> channel[c].operators]
           ms == MessagesAbout(f, c, result'.replies)
<1>1. PICK token \in ModeToken, who \in fdToClient :
          /\ result'.replies = addReplies(channel[d].members, About(token, who, d))
          /\ channel'[d].operators = IF token = "+o" THEN channel[d].operators \cup {who}
                                     ELSE IF token = "-o" THEN channel[d].operators \ {who}
                                     ELSE channel[d].operators
  BY DEF Changed
<1>2. token \notin {"QUIT", "353"} /\ (token \in {"+o", "-o"} \/ token \notin RosterCmd)
  BY DEF ModeToken, RosterCmd
<1>3. ms = IF f \in channel[d].members /\ d = c THEN {About(token, who, d)} ELSE {}
  BY <1>1, <1>2, ToldAbout
<1>4. CASE d # c
  <2>1. channel'[c] = channel[c]
    BY <1>4 DEF Changed, Others
  <2> QED BY <1>3, <1>4, <2>1, Ignorant
<1>5. CASE d = c
  <2>1. channel'[c].members = channel[c].members
    BY <1>5 DEF Changed
  <2>2. CASE f \in channel[c].members
    <3>1. Learnt(f, c) = Learn(f, r, ms)
      BY <2>2 DEF Learnt, Roster
    <3>2. /\ r.members = channel[c].members /\ r.operators = channel[c].operators
          /\ r = [members |-> r.members, operators |-> r.operators]
      OBVIOUS
    <3> DEFINE m == About(token, who, d)
    <3>m. m \in ms /\ (\A x \in ms : x = m) /\ m.cmd = token /\ m.who = who
      BY <1>3, <1>5, <2>2 DEF About
    <3> HIDE DEF r, ms, m
    <3>3. /\ token = "+o" => Learn(f, r, ms) = [members |-> r.members, operators |-> r.operators \cup {who}]
          /\ token = "-o" => Learn(f, r, ms) = [members |-> r.members, operators |-> r.operators \ {who}]
          /\ token \notin RosterCmd => Learn(f, r, ms) = r
      BY <1>2, <3>m, <3>2, LearnOne
    <3>4. Learn(f, r, ms) = [members |-> channel'[c].members, operators |-> channel'[c].operators]
      BY <1>1, <1>2, <1>5, <2>1, <3>2, <3>3
    <3> QED BY <2>1, <2>2, <3>1, <3>4 DEF Roster
  <2>3. CASE f \notin channel[c].members
    <3>1. Learnt(f, c) = NoRoster
      BY <1>3, <1>5, <2>3, LearnNothing DEF Learnt, Roster, NoRoster
    <3> QED BY <2>1, <2>3, <3>1 DEF Roster
  <2> QED BY <2>2, <2>3
<1> QED BY <1>4, <1>5

\* A disconnection: everybody who shares a channel with the leaver is told once, and
\* nobody else needs to know.
LEMMA GoneLearnt ==
  ASSUME Inv, NEW f \in Fd, NEW c \in ChannelName, NEW g, Gone(g), f \in fdToClient'
  PROVE  Learnt(f, c) = Roster(f, c)'
<1> DEFINE M == channel[c].members
           O == channel[c].operators
           r == Roster(f, c)
           ms == MessagesAbout(f, c, result'.replies)
<1>1. /\ f # g /\ g \in Fd /\ channel'[c].members = M \ {g} /\ channel'[c].operators = O \ {g}
      /\ result'.replies = addReplies(CoMembers(g), About("QUIT", g, None))
  BY DEF Gone, Inv, StateInv, StateTypeOK
<1>2. ms = IF f \in CoMembers(g) THEN {About("QUIT", g, None)} ELSE {}
  BY <1>1, ToldAbout
<1>3. f \in M /\ g \in M => f \in CoMembers(g)
  BY <1>1 DEF Inv, StateInv, MembershipSync, CoMembers
<1>4. g \notin M => M \ {g} = M /\ O \ {g} = O
  BY DEF Inv, StateInv, ChannelRoles
<1>5. CASE f \in CoMembers(g)
  <2>1. /\ r.members = IF f \in M THEN M ELSE {}
        /\ r.operators = IF f \in M THEN O ELSE {}
        /\ r = [members |-> r.members, operators |-> r.operators]
    BY DEF Roster, NoRoster
  <2>2. Learnt(f, c) = Learn(f, r, ms)
    BY DEF Learnt
  <2> DEFINE m == About("QUIT", g, None)
  <2>m. m \in ms /\ (\A x \in ms : x = m) /\ m.cmd = "QUIT" /\ m.who = g
    BY <1>2, <1>5 DEF About
  <2> HIDE DEF r, ms, m
  <2>3. Learn(f, r, ms) = [members |-> r.members \ {g}, operators |-> r.operators \ {g}]
    <3>1. f # g /\ r = [members |-> r.members, operators |-> r.operators]
      BY <1>1, <2>1
    <3> HIDE DEF M, O
    <3> QED BY <2>m, <3>1, LearnOne
  <2>4. f \notin M => [members |-> r.members \ {g}, operators |-> r.operators \ {g}] = NoRoster
    BY <2>1 DEF NoRoster
  <2> QED BY <1>1, <2>1, <2>2, <2>3, <2>4 DEF Roster
<1>6. CASE f \notin CoMembers(g)
  <2>1. Learnt(f, c) = Roster(f, c)
    BY <1>2, <1>6, LearnNothing DEF Learnt, Roster, NoRoster
  <2> QED BY <1>1, <1>3, <1>4, <1>6, <2>1 DEF Roster
<1> QED BY <1>5, <1>6

\* JOIN: the one who joins is told who is in, and the others that it has joined.
LEMMA JoinLearnt ==
  ASSUME Inv, NEW f, NEW c \in ChannelName, NEW g, NEW d, Joined(g, d)
  PROVE  Learnt(f, c) = Roster(f, c)'
<1> DEFINE M2 == channel'[d].members
           O2 == channel'[d].operators
           names == [cmd |-> "353", chan |-> d, members |-> M2, operators |-> O2]
           join == About("JOIN", g, d)
           ms == MessagesAbout(f, c, result'.replies)
           r == Roster(f, c)
<1>1. PICK topic \in {"331", "332"} :
          result'.replies = addReplies(M2, join) \cup addReplies({g}, About(topic, g, d))
                            \cup addReplies({g}, names)
  BY DEF Joined
<1> DEFINE t == About(topic, g, d)
<1>2. /\ names.cmd = "353" /\ names.chan = d /\ names.members = M2 /\ names.operators = O2
      /\ join.cmd = "JOIN" /\ join.chan = d /\ join.who = g
      /\ t.cmd \in {"331", "332"} /\ t.chan = d
  BY <1>1 DEF About
<1>3. M2 = channel[d].members \cup {g}
      /\ O2 = IF channel[d].members = {} THEN {g} ELSE channel[d].operators
  BY DEF Joined
<1> HIDE DEF names, join, t
<1>4. ms = (IF f \in M2 /\ d = c THEN {join} ELSE {})
           \cup (IF f = g /\ d = c THEN {t} ELSE {}) \cup (IF f = g /\ d = c THEN {names} ELSE {})
  <2>1. MessagesAbout(f, c, addReplies(M2, join)) = IF f \in M2 /\ d = c THEN {join} ELSE {}
    BY <1>2, Told
  <2>2. MessagesAbout(f, c, addReplies({g}, t)) = IF f = g /\ d = c THEN {t} ELSE {}
    <3>1. t.chan = d /\ t.cmd # "QUIT"
      BY <1>2
    <3> QED BY <3>1, Told
  <2>3. MessagesAbout(f, c, addReplies({g}, names)) = IF f = g /\ d = c THEN {names} ELSE {}
    <3>1. names.chan = d /\ names.cmd # "QUIT"
      BY <1>2
    <3> QED BY <3>1, Told
  <2> DEFINE A == addReplies(M2, join)
             B == addReplies({g}, t)
             C == addReplies({g}, names)
  <2>4. ms = MessagesAbout(f, c, (A \cup B) \cup C)
    BY <1>1 DEF t
  <2> HIDE DEF A, B, C, ms
  <2>5. ms = MessagesAbout(f, c, A) \cup MessagesAbout(f, c, B) \cup MessagesAbout(f, c, C)
    <3>1. MessagesAbout(f, c, A \cup B) = MessagesAbout(f, c, A) \cup MessagesAbout(f, c, B)
      BY ToldUnion
    <3>2. MessagesAbout(f, c, (A \cup B) \cup C) = MessagesAbout(f, c, A \cup B) \cup MessagesAbout(f, c, C)
      <4> DEFINE D == A \cup B
      <4> HIDE DEF D
      <4>1. MessagesAbout(f, c, D \cup C) = MessagesAbout(f, c, D) \cup MessagesAbout(f, c, C)
        BY ToldUnion
      <4> QED BY <4>1 DEF D
    <3> QED BY <2>4, <3>1, <3>2
  <2> QED BY <2>1, <2>2, <2>3, <2>5 DEF A, B, C
<1>5. CASE d # c
  <2>1. channel'[c] = channel[c]
    BY <1>5 DEF Joined, Others
  <2> QED BY <1>4, <1>5, <2>1, Ignorant
<1>6. CASE d = c /\ f = g
  <2>1. ms = {join, t, names}
    BY <1>3, <1>4, <1>6
  <2>2. Subjects(ms, {"PART", "KICK", "QUIT"}) = {}
    BY <1>2, <2>1 DEF Subjects
  <2>3. {m \in ms : m.cmd = "353"} = {names}
    BY <1>2, <2>1
  <2>4. Learnt(f, c) = Learn(f, r, ms)
    BY DEF Learnt
  <2> HIDE DEF ms, r
  <2>5. Learn(f, r, ms) = [members |-> M2, operators |-> O2]
    BY <1>2, <2>2, <2>3 DEF Learn
  <2>6. f \in channel'[c].members
    BY <1>3, <1>6
  <2> QED BY <1>6, <2>4, <2>5, <2>6 DEF Roster
<1>7. CASE d = c /\ f # g /\ f \in channel[c].members
  <2>1. ms = {join}
    BY <1>3, <1>4, <1>7
  <2>2. /\ r.members = channel[c].members /\ r.operators = channel[c].operators
        /\ r = [members |-> r.members, operators |-> r.operators]
    BY <1>7 DEF Roster
  <2>3. Learnt(f, c) = Learn(f, r, ms)
    BY DEF Learnt
  <2>4. join \in ms /\ \A x \in ms : x = join
    BY <2>1
  <2> HIDE DEF ms, r
  <2>5. Learn(f, r, ms) = [members |-> r.members \cup {g}, operators |-> r.operators]
    <3>1. join \in ms /\ (\A x \in ms : x = join)
          /\ r = [members |-> r.members, operators |-> r.operators] /\ join.cmd # "353"
      BY <1>2, <2>2, <2>4
    <3>2. join.cmd = "JOIN" => Learn(f, r, ms) = [members |-> r.members \cup {join.who}, operators |-> r.operators]
      BY <3>1, LearnOne
    <3> QED BY <1>2, <3>2
  <2>6. channel'[c].members = r.members \cup {g} /\ channel'[c].operators = r.operators
    BY <1>3, <1>7, <2>2
  <2> QED BY <1>7, <2>2, <2>3, <2>5, <2>6 DEF Roster
<1>8. CASE d = c /\ f # g /\ f \notin channel[c].members
  <2>1. ms = {}
    BY <1>3, <1>4, <1>8
  <2>2. Learnt(f, c) = NoRoster
    BY <1>8, <2>1, LearnNothing DEF Learnt, Roster, NoRoster
  <2> QED BY <1>3, <1>8, <2>2 DEF Roster
<1> QED BY <1>5, <1>6, <1>7, <1>8

\* The rosters stay right in every step.
LEMMA RosterStep ==
  Inv /\ DeletedAreNew /\ RosterInv /\ [ViewNext]_<<vars, view>> => RosterInv'
<1> SUFFICES ASSUME Inv, DeletedAreNew, RosterInv, [ViewNext]_<<vars, view>> PROVE RosterInv'
  OBVIOUS
<1>1. CASE UNCHANGED <<vars, view>>
  BY <1>1 DEF RosterInv, Roster, vars, stateVars
<1>2. CASE ViewNext
  <2> SUFFICES ASSUME NEW f \in Fd, NEW c \in ChannelName PROVE view'[f][c] = Roster(f, c)'
    BY DEF RosterInv
  <2>1. Inv' /\ StepKind
    BY <1>2, NextInv, StepKinds DEF ViewNext
  <2>2. view'[f][c] = IF f \in fdToClient' THEN Learnt(f, c) ELSE NoRoster
    BY <1>2 DEF ViewNext, RosterInv, Learnt
  <2>3. CASE f \notin fdToClient'
    <3>1. f \notin channel'[c].members
      BY <2>1, <2>3 DEF Inv, StateInv, NoDanglingClient
    <3> QED BY <2>2, <2>3, <3>1 DEF Roster
  <2>4. CASE f \in fdToClient'
    <3>1. Learnt(f, c) = Roster(f, c)'
      BY <2>1, <2>4, QuietLearnt, JoinLearnt, DepartLearnt, ChangeLearnt, GoneLearnt DEF StepKind
    <3> QED BY <2>2, <2>4, <3>1
  <2> QED BY <2>3, <2>4
<1> QED BY <1>1, <1>2

\* The roster each member has put together from the messages sent to it is the
\* server's, operators included: about the recipients of handleJoin, handlePart,
\* handleKick, applyOperatorMode and DisconnectNotifier::build.
THEOREM Rosters == ViewSpec => []RostersAgree
<1>1. ViewInit => Inv /\ DeletedAreNew /\ RosterInv
  <2>1. Init => DeletedAreNew
    BY DEF Init, StateInit, DeletedAreNew
  <2>2. ViewInit => RosterInv
    BY DEF ViewInit, Init, StateInit, RosterInv, Roster, NewChannel
  <2> QED BY <2>1, <2>2, InitialInv DEF ViewInit
<1>2. Inv /\ DeletedAreNew /\ RosterInv /\ [ViewNext]_<<vars, view>>
          => (Inv /\ DeletedAreNew /\ RosterInv)'
  <2>1. [ViewNext]_<<vars, view>> => [Next]_vars
    BY DEF ViewNext
  <2>2. DeletedAreNew /\ UNCHANGED vars => DeletedAreNew'
    BY DEF DeletedAreNew, vars, stateVars
  <2> QED BY <2>1, <2>2, NextInv, StepKinds, DeletedInv, RosterStep
<1>3. Inv /\ RosterInv => RostersAgree
  BY DEF Inv, StateInv, StateTypeOK, RosterInv, Roster, RostersAgree
<1> QED BY <1>1, <1>2, <1>3, PTL DEF ViewSpec
================================================================================
