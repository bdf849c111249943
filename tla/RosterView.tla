------------------------------ MODULE RosterView ------------------------------
(******************************************************************************)
(* What the members of a channel can know of it.  A client never reads the    *)
(* server's maps: it learns who is in a channel, and who is an operator, from *)
(* the RPL_NAMREPLY it gets on joining and from the JOIN, PART, KICK, QUIT    *)
(* and MODE +o/-o messages sent to it later.  view is the roster each         *)
(* connection has put together from the replies addressed to it; one reply    *)
(* too few, one recipient missed or a member list read after the change       *)
(* instead of before it, and the roster is wrong for good.                    *)
(*                                                                            *)
(* Clients are identified by their connection.  Nicknames are not tracked:    *)
(* handleNick tells nobody, so a roster of nicknames goes stale with the      *)
(* first NICK of a registered client.                                         *)
(******************************************************************************)
EXTENDS Dispatcher

VARIABLE view  \* view[f][c]: the roster of channel c as connection f knows it

NoRoster == [members |-> {}, operators |-> {}]

\* The clients that the messages ms with a command of cmds are about.
Subjects(ms, cmds) == {m.who : m \in {x \in ms : x.cmd \in cmds}}

\* How a client updates one roster with the messages ms it gets about it.
Learn(f, roster, ms) ==
    LET names == {m \in ms : m.cmd = "353"}
        gone  == Subjects(ms, {"PART", "KICK", "QUIT"})
    IN  IF f \in gone THEN NoRoster
        ELSE IF names # {}
        THEN LET m == CHOOSE m \in names : TRUE
             IN  [members |-> m.members, operators |-> m.operators]
        ELSE [members   |-> (roster.members \cup Subjects(ms, {"JOIN"})) \ gone,
              operators |-> ((roster.operators \cup Subjects(ms, {"+o"}))
                             \ Subjects(ms, {"-o"})) \ gone]

\* The messages for f in the result that tell it something about channel c.
MessagesAbout(f, c, replies) ==
    {r.msg : r \in {x \in replies : x.to = f /\ (x.msg.chan = c \/ x.msg.cmd = "QUIT")}}

ViewInit == Init /\ view = [f \in Fd |-> [c \in ChannelName |-> NoRoster]]

ViewNext ==
    /\ Next
    /\ view' = [f \in Fd |-> [c \in ChannelName |->
                   IF f \in fdToClient'
                   THEN Learn(f, view[f][c], MessagesAbout(f, c, result'.replies))
                   ELSE NoRoster]]

ViewSpec == ViewInit /\ [][ViewNext]_<<vars, view>>

\* The roster every member has put together from its messages is the roster of
\* the server, operators included; whoever is not in a channel knows that.
\* About the recipients of handleJoin, handlePart, handleKick,
\* applyOperatorMode and DisconnectNotifier::build, and about what they send
\* before and after they change the channel.
RostersAgree ==
    \A f \in fdToClient, c \in ChannelName :
        view[f][c] = IF f \in channel[c].members
                     THEN [members |-> channel[c].members, operators |-> channel[c].operators]
                     ELSE NoRoster
================================================================================
