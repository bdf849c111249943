------------------------------- MODULE Dispatcher -------------------------------
(******************************************************************************)
(* The B layer: CommandDispatcher, ChannelCommandHandler and                  *)
(* DisconnectNotifier, on top of the C layer of module ServerState.           *)
(*                                                                            *)
(* An action is one handler run to its end, as the single thread of the       *)
(* server runs it.  Its early returns are a ladder (the ...Error operators)   *)
(* that gives the numeric of the first check that fails, in the order of the  *)
(* code; a handler that answers without changing anything (a MODE or TOPIC    *)
(* query) returns from the same ladder.  The CommandResult the handler hands  *)
(* to the A layer is the variable result: who gets which message about whom.  *)
(* The wording of messages and the order of the replies of one result are     *)
(* left out.                                                                  *)
(******************************************************************************)
EXTENDS ServerState

CONSTANTS
    LimitArg,   \* the numbers that the texts given to MODE +l denote; a text
                \* strtol does not read to its end counts as 0
    Token,      \* the second parameters of MODE that clients send
    Missing,    \* a parameter the message does not have
    Invalid,    \* a parameter that is not a valid name, password, mode or the like
    BadChannel  \* one that begins with '#' and is not a valid channel name

ModeToken == {"+i", "-i", "+t", "-t", "+k", "-k", "+l", "-l", "+o", "-o"}

ASSUME ArgAssumption ==
    /\ Token \subseteq ModeToken \cup {Missing, Invalid}
    /\ LimitArg \subseteq Int
    /\ Missing # Invalid /\ BadChannel \notin {Missing, Invalid}
    /\ {Missing, Invalid, BadChannel} \cap (Fd \cup Nick \cup Key \cup Topic \cup ChannelName \cup LimitArg) = {}

VARIABLE result  \* the CommandResult of the last handler, and for whom it ran

vars == <<stateVars, result>>

Ok == "ok"

Command == {"JOIN", "PART", "KICK", "QUIT", "INVITE", "TOPIC", "PRIVMSG", "NOTICE", "PONG", "001"}
           \cup ModeToken

Numeric == {"324", "331", "332", "341", "401", "403", "404", "421", "432", "433", "441", "442", "443",
            "451", "461", "462", "464", "471", "472", "473", "475", "482", "696"}

\* A message names the client it is about (the one who joins, leaves, is kicked
\* or (de)opped, speaks...) and a channel.  RPL_NAMREPLY lists who is in.
Message == [cmd: Command \cup Numeric, who: Fd, chan: ChannelName \cup {None}]
           \cup [cmd: {"353"}, chan: ChannelName, members: SUBSET Fd, operators: SUBSET Fd]

CommandResult == [by: Fd \cup {None}, replies: SUBSET [to: Fd, msg: Message],
                  shouldDisconnect: BOOLEAN]

\* Every object holds what its type allows, a limit what setLimit lets through, and
\* no reply is addressed through a null pointer (handleTextMessage and the others
\* that look a client up and ask it for its fd).
TypeOK == StateTypeOK /\ result \in CommandResult

About(cmd, who, chan) == [cmd |-> cmd, who |-> who, chan |-> chan]

addReplies(fds, m) == {[to |-> f, msg |-> m] : f \in fds}

Return(f, replies) ==
    result' = [by |-> f, replies |-> replies, shouldDisconnect |-> FALSE]

\* An early return: one numeric to the sender, nothing else.
Reject(f, numeric) ==
    /\ Return(f, addReplies({f}, About(numeric, f, None)))
    /\ UNCHANGED stateVars

Init ==
    /\ StateInit
    /\ result = [by |-> None, replies |-> {}, shouldDisconnect |-> FALSE]

--------------------------------------------------------------------------------
(* Registration. *)

PassError(f, pass) ==
    IF pass = Missing THEN "461"
    ELSE IF client[f].registered THEN "462"
    ELSE IF pass = Invalid THEN "464"
    ELSE Ok

handlePass(f, pass) ==
    LET err == PassError(f, pass)
    IN  \/ err # Ok /\ Reject(f, err)
        \/ /\ err = Ok
           /\ client' = [client EXCEPT ![f].passOk = TRUE]
           /\ Return(f, {})
           /\ UNCHANGED <<fdToClient, nicknameToClient, channels, channel>>

\* maybeRegister: the client updated by NICK or USER, and its welcome.
maybeRegister(cl) == [cl EXCEPT !.registered = @ \/ canRegister(cl)]

Welcome(f, cl) ==
    IF ~cl.registered /\ canRegister(cl) THEN addReplies({f}, About("001", f, None)) ELSE {}

NickError(f, n) ==
    IF ~client[f].passOk THEN "464"
    ELSE IF n = Missing THEN "461"
    ELSE IF n = Invalid THEN "432"
    ELSE IF ~nickAvailable(f, n) THEN "433"
    ELSE Ok

handleNick(f, n) ==
    LET err == NickError(f, n)
        cl  == [client[f] EXCEPT !.nick = n]
    IN  \/ err # Ok /\ Reject(f, err)
        \/ /\ err = Ok
           /\ nicknameToClient' = nicknameIndex(f, n)
           /\ client' = [client EXCEPT ![f] = maybeRegister(cl)]
           /\ Return(f, Welcome(f, cl))
           /\ UNCHANGED <<fdToClient, channels, channel>>

\* A slip: USER is taken again after registration.
UserError_Again(f, real) ==
    IF ~client[f].passOk THEN "464" ELSE IF real = Missing THEN "461" ELSE Ok

UserError(f, real) ==
    IF ~client[f].passOk THEN "464"
    ELSE IF real = Missing THEN "461"
    ELSE IF client[f].registered THEN "462"
    ELSE Ok

\* The user name is a middle parameter, hence non-empty; the real name is
\* usually a trailing one and may be empty (real = None).
handleUser(f, real) ==
    LET err == UserError(f, real)
        cl  == [client[f] EXCEPT !.username = TRUE, !.realname = (real # None)]
    IN  \/ err # Ok /\ Reject(f, err)
        \/ /\ err = Ok
           /\ client' = [client EXCEPT ![f] = maybeRegister(cl)]
           /\ Return(f, Welcome(f, cl))
           /\ UNCHANGED <<fdToClient, nicknameToClient, channels, channel>>

--------------------------------------------------------------------------------
(* Channels. *)

\* RPL_NOTOPIC or RPL_TOPIC.
TopicReply(ch) == IF ch.topic = None THEN "331" ELSE "332"

\* A slip: one member too many.
EntryError_OffByOne(f, c, key) ==
    LET ch == channel[c]
    IN  IF ch.inviteOnly /\ f \notin ch.invited THEN "473"
        ELSE IF ch.key # None /\ key # ch.key THEN "475"
        ELSE IF ch.limit >= 0 /\ Cardinality(ch.members) > ch.limit THEN "471"
        ELSE Ok

\* The checks JOIN makes of somebody who is not in the channel yet.
EntryError(f, c, key) ==
    LET ch == channel[c]
    IN  IF ch.inviteOnly /\ f \notin ch.invited THEN "473"
        ELSE IF ch.key # None /\ key # ch.key THEN "475"
        ELSE IF ch.limit >= 0 /\ Cardinality(ch.members) >= ch.limit THEN "471"
        ELSE Ok

JoinError(f, c, key) ==
    IF ~client[f].registered THEN "451"
    ELSE IF c = Missing THEN "461"
    ELSE IF c \notin ChannelName THEN "403"
    ELSE IF c \in channels /\ ~hasMember(c, f) THEN EntryError(f, c, key)
    ELSE Ok

\* Who is in the channel is answered from the state after the join; a client
\* that is in the channel already is announced and answered again.
handleJoin(f, c, key) ==
    LET err == JoinError(f, c, key)
    IN  \/ err # Ok /\ Reject(f, err)
        \/ /\ err = Ok
           /\ addClientToChannel(f, c)
           /\ LET ch == channel'[c]
              IN  Return(f, addReplies(ch.members, About("JOIN", f, c))
                            \cup addReplies({f}, About(TopicReply(ch), f, c))
                            \cup addReplies({f}, [cmd |-> "353", chan |-> c,
                                                  members |-> ch.members,
                                                  operators |-> ch.operators]))

\* The checks that PART, TOPIC and MODE start with and KICK makes.
ChannelError(f, c) ==
    IF ~client[f].registered THEN "451"
    ELSE IF c = Missing THEN "461"
    ELSE IF c \notin channels THEN "403"
    ELSE IF ~hasMember(c, f) THEN "442"
    ELSE Ok

\* A slip: the members are told after the one who leaves is taken out.
handlePart_TellsTheRest(f, c) ==
    LET err == ChannelError(f, c)
    IN  \/ err # Ok /\ Reject(f, err)
        \/ /\ err = Ok
           /\ Return(f, addReplies(channel[c].members \ {f}, About("PART", f, c)))
           /\ removeClientFromChannel(f, c)

\* The members are told before the one who leaves is taken out.
handlePart(f, c) ==
    LET err == ChannelError(f, c)
    IN  \/ err # Ok /\ Reject(f, err)
        \/ /\ err = Ok
           /\ Return(f, addReplies(channel[c].members, About("PART", f, c)))
           /\ removeClientFromChannel(f, c)

\* A slip: any member may kick.
KickError_AnyMember(f, c, n) ==
    IF client[f].registered /\ n = Missing THEN "461"
    ELSE IF ChannelError(f, c) # Ok THEN ChannelError(f, c)
    ELSE IF getClientByNick(n) = None THEN "401"
    ELSE IF ~hasMember(c, getClientByNick(n)) THEN "441"
    ELSE Ok

KickError(f, c, n) ==
    IF client[f].registered /\ n = Missing THEN "461"
    ELSE IF ChannelError(f, c) # Ok THEN ChannelError(f, c)
    ELSE IF ~isOperator(c, f) THEN "482"
    ELSE IF getClientByNick(n) = None THEN "401"
    ELSE IF ~hasMember(c, getClientByNick(n)) THEN "441"
    ELSE Ok

handleKick(f, c, n) ==
    LET err    == KickError(f, c, n)
        target == getClientByNick(n)
    IN  \/ err # Ok /\ Reject(f, err)
        \/ /\ err = Ok
           /\ Return(f, addReplies(channel[c].members, About("KICK", target, c)))
           /\ removeClientFromChannel(target, c)

InviteError(f, n, c) ==
    LET target == getClientByNick(n)
    IN  IF ~client[f].registered THEN "451"
        ELSE IF Missing \in {n, c} THEN "461"
        ELSE IF n \notin Nick THEN "401"
        ELSE IF c \notin ChannelName THEN "403"
        ELSE IF target = None THEN "401"
        ELSE IF c \notin channels THEN "403"
        ELSE IF ~hasMember(c, f) THEN "442"
        ELSE IF hasMember(c, target) THEN "443"
        ELSE IF channel[c].inviteOnly /\ ~isOperator(c, f) THEN "482"
        ELSE Ok

handleInvite(f, n, c) ==
    LET err    == InviteError(f, n, c)
        target == getClientByNick(n)
    IN  \/ err # Ok /\ Reject(f, err)
        \/ /\ err = Ok
           /\ inviteClientToChannel(target, c)
           /\ Return(f, addReplies({f}, About("341", target, c))
                        \cup addReplies({target}, About("INVITE", f, c)))

TopicError(f, c, topic) ==
    IF ChannelError(f, c) # Ok THEN ChannelError(f, c)
    ELSE IF topic = Missing THEN TopicReply(channel[c])
    ELSE IF channel[c].topicRestricted /\ ~isOperator(c, f) THEN "482"
    ELSE Ok

handleTopic(f, c, topic) ==
    LET err == TopicError(f, c, topic)
    IN  \/ err # Ok /\ Reject(f, err)
        \/ /\ err = Ok
           /\ channel' = [channel EXCEPT ![c].topic = topic]
           /\ Return(f, addReplies(channel[c].members, About("TOPIC", f, c)))
           /\ UNCHANGED <<fdToClient, client, nicknameToClient, channels>>

parsePositiveLimit(value) == value >= 1 /\ value <= IntMax

ModeError(f, c, token, arg) ==
    IF ChannelError(f, c) # Ok THEN ChannelError(f, c)
    ELSE IF token = Missing THEN "324"
    ELSE IF ~isOperator(c, f) THEN "482"
    ELSE IF token \notin ModeToken THEN "472"
    ELSE IF token \in {"+k", "+l", "+o", "-o"} /\ arg = Missing THEN "461"
    ELSE IF token = "+l" /\ ~parsePositiveLimit(arg) THEN "696"
    ELSE IF token \in {"+o", "-o"} /\ getClientByNick(arg) = None THEN "401"
    ELSE IF token \in {"+o", "-o"} /\ ~hasMember(c, getClientByNick(arg)) THEN "441"
    ELSE Ok

ApplyMode(ch, token, arg) ==
    CASE token \in {"+i", "-i"} -> [ch EXCEPT !.inviteOnly = (token = "+i")]
      [] token \in {"+t", "-t"} -> [ch EXCEPT !.topicRestricted = (token = "+t")]
      [] token = "+k"           -> [ch EXCEPT !.key = arg]
      [] token = "-k"           -> [ch EXCEPT !.key = None]
      [] token = "+l"           -> setLimit(ch, arg)
      [] token = "-l"           -> [ch EXCEPT !.limit = NoLimit]
      [] token \in {"+o", "-o"} -> setOperator(ch, getClientByNick(arg), token = "+o")

ModeArg(token) ==
    {Missing} \cup CASE token = "+k" -> Key
                     [] token = "+l" -> LimitArg
                     [] token \in {"+o", "-o"} -> Nick \cup {Invalid}
                     [] OTHER -> {}

\* applyOperatorMode names its target to the members, the other modes the actor.
handleMode(f, c, token, arg) ==
    LET err == ModeError(f, c, token, arg)
        who == IF token \in {"+o", "-o"} THEN getClientByNick(arg) ELSE f
    IN  \/ err # Ok /\ Reject(f, err)
        \/ /\ err = Ok
           /\ channel' = [channel EXCEPT ![c] = ApplyMode(@, token, arg)]
           /\ Return(f, addReplies(channel[c].members, About(token, who, c)))
           /\ UNCHANGED <<fdToClient, client, nicknameToClient, channels>>

--------------------------------------------------------------------------------
(* Messages, and the commands that only answer. *)

\* A slip: nobody looks whether getClientByNick found anyone.
TextError_AnyNick(f, target) ==
    IF ~client[f].registered THEN "451"
    ELSE IF target = Missing THEN "461"
    ELSE IF target = BadChannel THEN "403"
    ELSE IF target \in ChannelName
    THEN IF target \notin channels THEN "403"
         ELSE IF ~hasMember(target, f) THEN "404"
         ELSE Ok
    ELSE IF target \notin Nick THEN "401"
    ELSE Ok

TextError(f, target) ==
    IF ~client[f].registered THEN "451"
    ELSE IF target = Missing THEN "461"
    ELSE IF target = BadChannel THEN "403"
    ELSE IF target \in ChannelName
    THEN IF target \notin channels THEN "403"
         ELSE IF ~hasMember(target, f) THEN "404"
         ELSE Ok
    ELSE IF getClientByNick(target) = None THEN "401"
    ELSE Ok

\* handleTextMessage: PRIVMSG reports an error, NOTICE never answers.
handleTextMessage(f, cmd, target) ==
    LET err        == TextError(f, target)
        recipients == IF target \in ChannelName THEN channel[target].members \ {f}
                      ELSE {getClientByNick(target)}
    IN  /\ UNCHANGED stateVars
        /\ \/ err # Ok /\ cmd = "PRIVMSG" /\ Return(f, addReplies({f}, About(err, f, None)))
           \/ err # Ok /\ cmd = "NOTICE" /\ Return(f, {})
           \/ /\ err = Ok
              /\ Return(f, addReplies(recipients,
                                      About(cmd, f, IF target \in ChannelName
                                                    THEN target ELSE None)))

\* PING is answered, and 461 or an unknown command reported, whatever the
\* sender's state; a PONG is left to the health monitor and answered by nothing.
handleOther(f) ==
    /\ UNCHANGED stateVars
    /\ \/ \E numeric \in {"PONG", "461", "421"} :
              Return(f, addReplies({f}, About(numeric, f, None)))
       \/ Return(f, {})

\* QUIT only asks the A layer to disconnect the sender.
handleQuit(f) ==
    /\ result' = [by |-> f, replies |-> {}, shouldDisconnect |-> TRUE]
    /\ UNCHANGED stateVars

\* Parameters are positional: one that is there follows no missing one.
dispatch(f) ==
    LET ChannelArg == ChannelName \cup {Invalid}
        NickArg    == Nick \cup {Missing, Invalid}
    IN  /\ f \in fdToClient
        /\ \/ \E pass \in {Ok, Missing, Invalid} : handlePass(f, pass)
           \/ \E n \in NickArg : handleNick(f, n)
           \/ \E real \in {Ok, None, Missing} : handleUser(f, real)
           \/ handleJoin(f, Missing, Missing)
           \/ \E c \in ChannelArg, key \in Key \cup {Missing} : handleJoin(f, c, key)
           \/ \E c \in ChannelArg \cup {Missing} : handlePart(f, c)
           \/ \E c \in ChannelArg, n \in NickArg : handleKick(f, c, n)
           \/ \E n \in NickArg \ {Missing}, c \in ChannelArg \cup {Missing} : handleInvite(f, n, c)
           \/ handleTopic(f, Missing, Missing)
           \/ \E c \in ChannelArg, topic \in Topic \cup {None, Missing} : handleTopic(f, c, topic)
           \/ handleMode(f, Missing, Missing, Missing)
           \/ \E c \in ChannelArg, token \in Token : \E arg \in ModeArg(token) :
                  handleMode(f, c, token, arg)
           \/ \E cmd \in {"PRIVMSG", "NOTICE"}, target \in ChannelName \cup NickArg \cup {BadChannel} :
                  handleTextMessage(f, cmd, target)
           \/ handleOther(f)
           \/ handleQuit(f)

--------------------------------------------------------------------------------
(* The life of a connection, as the A layer drives it. *)

Accept(f) ==
    /\ f \notin fdToClient
    /\ addClient(f)
    /\ Return(None, {})

\* Slips: the leaver is told as well; only those in all of its channels are.
CoMembers_WithSelf(f) == {g \in Fd : \E c \in client[f].channels : g \in channel[c].members}
CoMembers_OfAll(f) == {g \in Fd \ {f} : \A c \in client[f].channels : g \in channel[c].members}

\* DisconnectNotifier::build: everybody who shares a channel with f.
CoMembers(f) == {g \in Fd \ {f} : \E c \in client[f].channels : g \in channel[c].members}

\* Server::_notifyAndDisconnect: for any reason, and at any moment between two
\* commands, the members are told and the client is removed.
Disconnect(f) ==
    /\ Return(f, addReplies(CoMembers(f), About("QUIT", f, None)))
    /\ removeClient(f)

\* A result that asks for a disconnection is obeyed before anything else runs.
Next ==
    \/ result.shouldDisconnect /\ Disconnect(result.by)
    \/ ~result.shouldDisconnect /\ \E f \in Fd : Accept(f) \/ Disconnect(f) \/ dispatch(f)

Spec == Init /\ [][Next]_vars

--------------------------------------------------------------------------------
(* What the commands, in whatever order clients send them, keep true. *)

\* Every reply of a result goes to a client that is still there when the A
\* layer takes the result (addReplies takes fds from the member lists and the
\* nickname map; a stale one would be written to somebody else's connection).
RepliesReachLiveClients == \A r \in result.replies : r.to \in fdToClient

\* The inductive invariant: the C layer's, and a result that names live clients.
Inv ==
    /\ StateInv
    /\ result \in CommandResult
    /\ RepliesReachLiveClients
    /\ result.shouldDisconnect => result.by \in fdToClient

\* What a member of a channel may do to it depends on who it is: an operator
\* alone changes modes and operators and takes others out; with +t an operator
\* alone changes the topic; and a channel that lost its last operator never
\* gets one again while it lives, since nobody is left who may appoint one.
OnlyOperatorsGovern ==
    [][\A c \in channels \cap channels' :
           LET ch  == channel[c]
               ch2 == channel'[c]
               gov == result'.by \in ch.operators
           IN  /\ \/ gov
                  \/ [ch EXCEPT !.members = {}, !.operators = {}, !.invited = {}, !.topic = None]
                     = [ch2 EXCEPT !.members = {}, !.operators = {}, !.invited = {}, !.topic = None]
               /\ gov \/ ch2.operators \subseteq ch.operators
               /\ gov \/ ch.members \ ch2.members \subseteq {result'.by}
               /\ gov \/ ch.operators \ ch2.operators \subseteq {result'.by}
               /\ ch2.topic # ch.topic =>
                      /\ result'.by \in ch.members
                      /\ gov \/ ~ch.topicRestricted
      ]_vars

\* The life of an invitation (handleInvite, _unsafe_addMember, removeClient): it
\* is used up by the JOIN of its holder, and lost otherwise only with its
\* holder or its channel.  Mode changes, parts and kicks of others keep it.
TicketsLast ==
    [][\A c \in ChannelName : \A f \in channel[c].invited \ channel'[c].invited :
           \/ f \in channel'[c].members
           \/ f \notin fdToClient'
           \/ c \notin channels']_vars

\* A channel with a limit grows to it and no further, in whatever order JOIN and
\* MODE +l come; a limit set below the present size takes nobody out.
LimitBoundsGrowth ==
    [][\A c \in ChannelName :
           /\ Cardinality(channel'[c].members) > Cardinality(channel[c].members) =>
                  channel'[c].limit = NoLimit
                  \/ Cardinality(channel'[c].members) <= channel'[c].limit
           /\ channel'[c].limit # channel[c].limit /\ c \in channels' =>
                  channel'[c].members = channel[c].members]_vars
================================================================================
