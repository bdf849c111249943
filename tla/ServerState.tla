------------------------------ MODULE ServerState ------------------------------
(******************************************************************************)
(* The C layer of the server: the Client and Channel objects, the two maps of *)
(* ClientRegistry (by fd and by nickname), the channel map of ServerState,    *)
(* and the operations through which the command layer changes them.          *)
(*                                                                            *)
(* A Client object is named by the fd it was created for, a Channel object by *)
(* the key it has in the channel map.  Both names can be used again after the *)
(* object is deleted, so a pointer that outlives its object is, in the model, *)
(* a pointer to the next object with that name: the worst the allocator and   *)
(* the kernel can do.  A deleted object is left in its initial value.         *)
(*                                                                            *)
(* Both maps compare names with IrcStringCompare.  A nickname keeps the case  *)
(* it was given with and Fold gives its key in the map; of a channel name     *)
(* only the key is kept, since no operation reads the spelling.               *)
(******************************************************************************)
EXTENDS Integers, FiniteSets

CONSTANTS
    Fd,           \* file descriptors the kernel may hand out
    Nick,         \* valid nicknames, as spelled
    NickKey,      \* their classes under IrcStringCompare
    Fold,         \* the class of each nickname
    ChannelName,  \* keys of the channel map
    Key,          \* channel keys (+k), of which one may be the empty string
    Topic,        \* topics, the empty one excepted
    IntMax,       \* INT_MAX: the greatest limit MODE +l takes
    None          \* a null pointer, a mode that is off, an empty nickname or topic

ASSUME StateAssumption ==
    /\ IsFiniteSet(Fd)
    /\ Fold \in [Nick -> NickKey]
    /\ IntMax \in Nat
    /\ None \notin Fd \cup Nick \cup Key \cup Topic \cup ChannelName

VARIABLES
    fdToClient,        \* fds in ClientRegistry::_fdToClient: the live clients
    client,            \* the Client object of each fd
    nicknameToClient,  \* ClientRegistry::_nicknameToClient
    channels,          \* keys of ServerState::_channels: the live channels
    channel            \* the Channel object of each key

stateVars == <<fdToClient, client, nicknameToClient, channels, channel>>

NoLimit == -1

\* username and realname: is the string non-empty (all that canRegister asks).
Client == [passOk: BOOLEAN, nick: Nick \cup {None}, username: BOOLEAN,
           realname: BOOLEAN, registered: BOOLEAN,
           channels: SUBSET ChannelName]

\* members and operators are the keys of _members and those with isOperator.
Channel == [members: SUBSET Fd, operators: SUBSET Fd, invited: SUBSET Fd,
            inviteOnly: BOOLEAN, topicRestricted: BOOLEAN,
            key: Key \cup {None}, limit: {NoLimit} \cup 1..IntMax,
            topic: Topic \cup {None}]

NewClient == [passOk |-> FALSE, nick |-> None, username |-> FALSE,
              realname |-> FALSE, registered |-> FALSE, channels |-> {}]

NewChannel == [members |-> {}, operators |-> {}, invited |-> {},
               inviteOnly |-> FALSE, topicRestricted |-> FALSE,
               key |-> None, limit |-> NoLimit, topic |-> None]

StateInit ==
    /\ fdToClient = {}
    /\ client = [f \in Fd |-> NewClient]
    /\ nicknameToClient = [k \in NickKey |-> None]
    /\ channels = {}
    /\ channel = [c \in ChannelName |-> NewChannel]

--------------------------------------------------------------------------------
(* Reading the state. *)

getClientByNick(n) == IF n \in Nick THEN nicknameToClient[Fold[n]] ELSE None

hasMember(c, f) == c \in channels /\ f \in channel[c].members

isOperator(c, f) == c \in channels /\ f \in channel[c].operators

canRegister(cl) == cl.passOk /\ cl.nick # None /\ cl.username /\ cl.realname

--------------------------------------------------------------------------------
(* The _unsafe_ methods of Channel: one side of the membership relation. *)

\* A slip addMember could have: the ticket is kept.
addMember_KeepsTicket(ch, f) ==
    [ch EXCEPT !.members = @ \cup {f}, !.operators = @ \ {f}]

addMember(ch, f) ==
    [ch EXCEPT !.members = @ \cup {f}, !.operators = @ \ {f}, !.invited = @ \ {f}]

\* A slip: _invited.clear() for _invited.erase(client).
removeClientState_ClearsTickets(ch, f) ==
    [ch EXCEPT !.members = @ \ {f}, !.operators = @ \ {f}, !.invited = {}]

removeClientState(ch, f) ==
    [ch EXCEPT !.members = @ \ {f}, !.operators = @ \ {f}, !.invited = @ \ {f}]

setOperator(ch, f, on) ==
    [ch EXCEPT !.operators = IF f \notin ch.members THEN @
                             ELSE IF on THEN @ \cup {f} ELSE @ \ {f}]

\* ChannelModes::setLimit ignores what is neither a limit nor the lack of one.
setLimit(ch, limit) ==
    IF limit >= 1 \/ limit = NoLimit THEN [ch EXCEPT !.limit = limit] ELSE ch

--------------------------------------------------------------------------------
(* The operations of ServerState and ClientRegistry. *)

addClient(f) ==
    IF f \in fdToClient
    THEN UNCHANGED stateVars
    ELSE /\ fdToClient' = fdToClient \cup {f}
         /\ client' = [client EXCEPT ![f] = NewClient]
         /\ UNCHANGED <<nicknameToClient, channels, channel>>

\* Whoever is alone in the channel after joining it becomes its operator.
addClientToChannel(f, c) ==
    IF hasMember(c, f)
    THEN UNCHANGED stateVars
    ELSE LET ch == addMember(IF c \in channels THEN channel[c] ELSE NewChannel, f)
         IN  /\ channels' = channels \cup {c}
             /\ channel' = [channel EXCEPT ![c] =
                               IF ch.members = {f} THEN setOperator(ch, f, TRUE) ELSE ch]
             /\ client' = [client EXCEPT ![f].channels = @ \cup {c}]
             /\ UNCHANGED <<fdToClient, nicknameToClient>>

\* A slip: the channel stays in the map.
removeIfEmpty_Never(chs, cs) == channels' = channels /\ channel' = chs

\* removeChannelIfEmpty for every channel of cs, chs being the objects so far.
removeIfEmpty(chs, cs) ==
    LET empty == {c \in cs : chs[c].members = {}}
    IN  /\ channels' = channels \ empty
        /\ channel' = [c \in ChannelName |-> IF c \in empty THEN NewChannel ELSE chs[c]]

removeClientFromChannel(f, c) ==
    IF ~hasMember(c, f)
    THEN UNCHANGED stateVars
    ELSE /\ removeIfEmpty([channel EXCEPT ![c] = removeClientState(@, f)], {c})
         /\ client' = [client EXCEPT ![f].channels = @ \ {c}]
         /\ UNCHANGED <<fdToClient, nicknameToClient>>

inviteClientToChannel(f, c) ==
    IF f = None \/ c \notin channels
    THEN UNCHANGED stateVars
    ELSE /\ channel' = [channel EXCEPT ![c].invited = @ \cup {f}]
         /\ UNCHANGED <<fdToClient, client, nicknameToClient, channels>>

\* A slip: the tickets of a client that goes stay behind.
withoutInvites_Forgotten(chs, f) == chs

\* removeClientFromAllInvites: chs with no ticket left for f.
withoutInvites(chs, f) == [c \in ChannelName |-> [chs[c] EXCEPT !.invited = @ \ {f}]]

\* A slip: only the first channel of the client is left.
removeClient_FirstChannelOnly(f) ==
    LET cs   == {c \in client[f].channels : c = CHOOSE d \in client[f].channels : TRUE}
        left == [c \in ChannelName |-> IF c \in cs THEN removeClientState(channel[c], f)
                                       ELSE channel[c]]
    IN  /\ f \in fdToClient
        /\ removeIfEmpty(withoutInvites(left, f), cs)
        /\ nicknameToClient' = [k \in NickKey |->
               IF client[f].nick # None /\ k = Fold[client[f].nick]
               THEN None ELSE nicknameToClient[k]]
        /\ fdToClient' = fdToClient \ {f}
        /\ client' = [client EXCEPT ![f] = NewClient]

\* Leave every channel of the client, drop its tickets, forget its nickname
\* and its fd, delete it.
removeClient(f) ==
    LET left == [c \in ChannelName |-> IF c \in client[f].channels
                                       THEN removeClientState(channel[c], f)
                                       ELSE channel[c]]
    IN  /\ f \in fdToClient
        /\ removeIfEmpty(withoutInvites(left, f), client[f].channels)
        /\ nicknameToClient' = [k \in NickKey |->
               IF client[f].nick # None /\ k = Fold[client[f].nick]
               THEN None ELSE nicknameToClient[k]]
        /\ fdToClient' = fdToClient \ {f}
        /\ client' = [client EXCEPT ![f] = NewClient]

\* ClientRegistry::updateNick, first half: may f call itself n?
nickAvailable(f, n) == client[f].nick = n \/ getClientByNick(n) \in {None, f}

\* A slip: the old nickname stays in the map.
nicknameIndex_KeepsOld(f, n) ==
    [nicknameToClient EXCEPT ![Fold[n]] = IF @ = None THEN f ELSE @]

\* ClientRegistry::updateNick, second half: erase the old key, insert the new
\* one (std::map::insert keeps an entry that is already there), set the nick.
nicknameIndex(f, n) ==
    LET old    == client[f].nick
        erased == IF old = None THEN nicknameToClient
                  ELSE [nicknameToClient EXCEPT ![Fold[old]] = None]
    IN  IF old = n THEN nicknameToClient
        ELSE [erased EXCEPT ![Fold[n]] = IF @ = None THEN f ELSE @]

--------------------------------------------------------------------------------
(* What the C layer promises.  Each part relates two of the structures that   *)
(* an operation has to change together.                                       *)

StateTypeOK ==
    /\ fdToClient \in SUBSET Fd
    /\ client \in [Fd -> Client]
    /\ nicknameToClient \in [NickKey -> Fd \cup {None}]
    /\ channels \in SUBSET ChannelName
    /\ channel \in [ChannelName -> Channel]

\* Channel::_members and Client::_channels are the two directions of one
\* relation: neither ever names an object that does not name it back.
MembershipSync ==
    \A f \in Fd, c \in ChannelName :
        f \in channel[c].members <=> c \in client[f].channels

\* A channel exists exactly as long as somebody is in it: removeChannelIfEmpty
\* runs on every path that takes a member out, and no path deletes a channel
\* that a Client::_channels still points to.
ChannelsAreInhabited == \A c \in ChannelName : c \in channels <=> channel[c].members # {}

\* No channel holds a pointer to a deleted Client, as member, operator or
\* ticket holder: a connection that reuses an fd inherits nothing.
NoDanglingClient ==
    \A c \in ChannelName :
        channel[c].members \cup channel[c].operators \cup channel[c].invited \subseteq fdToClient

\* The nickname map and the nicknames of the live clients agree in both
\* directions, so two clients never hold nicknames that IrcStringCompare
\* identifies and a lookup never returns a deleted client.
NicknameIndexSync ==
    /\ \A f \in Fd : client[f].nick # None => nicknameToClient[Fold[client[f].nick]] = f
    /\ \A k \in NickKey : nicknameToClient[k] # None =>
           LET f == nicknameToClient[k]
           IN  f \in fdToClient /\ client[f].nick # None /\ Fold[client[f].nick] = k

\* Operators are members; nobody holds a ticket for a channel he is in.
ChannelRoles ==
    \A c \in ChannelName : /\ channel[c].operators \subseteq channel[c].members
                           /\ channel[c].invited \cap channel[c].members = {}

\* Only a client that completed PASS, NICK and USER is in a channel, and it
\* stays complete: no later command takes back what registration asked for.
OnlyRegisteredMembers ==
    \A f \in Fd : /\ client[f].channels # {} => client[f].registered
                  /\ client[f].registered => canRegister(client[f])

\* The inductive invariant of the C layer.
StateInv ==
    /\ StateTypeOK
    /\ MembershipSync
    /\ ChannelsAreInhabited
    /\ NoDanglingClient
    /\ NicknameIndexSync
    /\ ChannelRoles
    /\ OnlyRegisteredMembers
================================================================================
