----------------------------------- MODULE Bot -----------------------------------
(******************************************************************************)
(* The bonus bot: its poll loop, line buffer, outbox and commands.  There may *)
(* be several in one channel, so that what one says is a command to another.  *)
(*                                                                            *)
(* A line is LineLen bytes long on the wire; recv and send cut it.  A text is *)
(* a sequence of words: "!echo " with its blank is what !echo strips.  A word *)
(* without '!' stands for all texts that are no command, "!ping" for the      *)
(* commands with a fixed answer (!help, !ping, !time).  The server and the    *)
(* people in the channel are the environment.                                 *)
(******************************************************************************)
EXTENDS Integers, Sequences, SequencesExt

CONSTANTS
    Bots,       \* by nickname
    WithPassword, \* those whose password is not empty
    Says,       \* what people say, to the channel or to a bot
    MaxSays,    \* bound: how often, with what the server asks and closes
    LineLen,    \* bytes of a line: 1, or 2 if lines are to be cut
    Room        \* bytes the socket takes before send would block

ASSUME BotAssumption ==
    /\ {MaxSays, LineLen, Room} \subseteq Nat \ {0}
    /\ WithPassword \subseteq Bots
    /\ "user" \notin Bots /\ "#chan" \notin Bots
    /\ Says \subseteq Seq(STRING)

VARIABLES
    pc,         \* start: before connectToServer, poll, lines: in readFromServer,
                \* flush: in flushOutput, returned or failed: run has returned or
                \* thrown, unconnected: connectToServer has thrown
    running, joined,  \* _running, _joined
    lineBuffer, \* _lineBuffer: the bytes of lines that are not handled
    outbox,     \* _outbox
    cut,        \* how much of the first line of the outbox is sent
    writable,   \* POLLOUT is in revents
    toBot,      \* what the server has sent and recv has not returned
    toServer,   \* what send took and the server has not read
    up,         \* the bots whose connection the server has not closed
    members,    \* the bots in the channel
    says,       \* how much people have said
    handled,    \* history: the lines handleMessage was given
    sent        \* history: what send took

botVars == <<pc, running, joined, lineBuffer, outbox, cut, writable, handled, sent>>
netVars == <<toBot, toServer>>
envVars == <<up, members, says>>
vars == <<botVars, netVars, envVars>>

Line(c, f, t, x) == [cmd |-> c, from |-> f, target |-> t, text |-> x]
Plain(c) == Line(c, "", "", <<>>)

BytesOf(l) == [h \in 1..LineLen |-> <<l, h>>]

\* A bot that was given an empty password does not send PASS.
Registration(b) ==
    (IF b \in WithPassword THEN <<Plain("PASS")>> ELSE <<>>) \o <<Plain("NICK"), Plain("USER")>>

Init ==
    /\ pc = [b \in Bots |-> "start"]
    /\ running = [b \in Bots |-> TRUE]
    /\ joined = [b \in Bots |-> FALSE]
    /\ lineBuffer = [b \in Bots |-> <<>>]
    /\ outbox = [b \in Bots |-> <<>>]
    /\ cut = [b \in Bots |-> 0]
    /\ writable = [b \in Bots |-> FALSE]
    /\ toBot = [b \in Bots |-> <<>>]
    /\ toServer = [b \in Bots |-> <<>>]
    /\ up = {} /\ members = {} /\ says = 0
    /\ handled = [b \in Bots |-> <<>>]
    /\ sent = [b \in Bots |-> <<>>]

--------------------------------------------------------------------------------
(* Commands. *)

IsCommand(text) == text # <<>> /\ text[1] \in {"!echo ", "!ping", "!quit", "!other"}

Reply(text) ==
    IF text[1] = "!echo " THEN Tail(text)
    ELSE IF text = <<"!ping">> THEN <<"pong">>
    ELSE IF text = <<"!quit">> THEN <<"bye">>
    ELSE <<"unknown">>

replyTarget(l) == IF l.target = "#chan" THEN l.target ELSE l.from

\* handlePrivmsg: an empty reply is not sent, and QUIT comes before the reply.
Answer(l) ==
    (IF l.text = <<"!quit">> THEN <<Plain("QUIT")>> ELSE <<>>)
    \o (IF IsCommand(l.text) /\ Reply(l.text) # <<>>
        THEN <<Line("PRIVMSG", "", replyTarget(l), Reply(l.text))>> ELSE <<>>)

--------------------------------------------------------------------------------
(* The loop. *)

\* A slip: run returns as soon as it is told to.
Continue_NoDrain(isRunning, box) == IF isRunning THEN "poll" ELSE "returned"

\* Where run goes on when it is back in its loop.
Continue(isRunning, box) ==
    IF isRunning THEN "poll" ELSE IF box = <<>> THEN "returned" ELSE "flush"

\* A slip: POLLOUT is not asked for the rest of a line that was cut.
CanSend_NotRest(b) == outbox[b] # <<>> /\ cut[b] = 0 /\ Len(toServer[b]) < Room

\* POLLOUT is asked for while there is output, and the socket has room.
CanSend(b) == outbox[b] # <<>> /\ Len(toServer[b]) < Room

Fail(b) ==
    /\ pc' = [pc EXCEPT ![b] = "failed"]
    /\ UNCHANGED <<running, joined, lineBuffer, outbox, cut, writable, handled, sent, netVars, envVars>>

\* connectToServer, of all addresses one or none, and enqueueRegistration.
connectToServer(b) ==
    /\ pc[b] = "start"
    /\ \/ /\ pc' = [pc EXCEPT ![b] = "poll"]
          /\ outbox' = [outbox EXCEPT ![b] = Registration(b)]
          /\ up' = up \cup {b}
       \/ /\ pc' = [pc EXCEPT ![b] = "unconnected"]
          /\ UNCHANGED <<outbox, up>>
    /\ UNCHANGED <<running, joined, lineBuffer, cut, writable, handled, sent, netVars, members, says>>

\* The server has closed: POLLHUP, or recv returns 0.
ServerGone(b) == pc[b] = "poll" /\ b \notin up /\ Fail(b)

\* POLLIN: one recv.
readFromServer(b) ==
    /\ pc[b] = "poll"
    /\ \E n \in 1..Len(toBot[b]) :
           /\ lineBuffer' = [lineBuffer EXCEPT ![b] = @ \o SubSeq(toBot[b], 1, n)]
           /\ toBot' = [toBot EXCEPT ![b] = SubSeq(@, n + 1, Len(@))]
    /\ pc' = [pc EXCEPT ![b] = "lines"]
    /\ writable' = [writable EXCEPT ![b] = CanSend(b)]
    /\ UNCHANGED <<running, joined, outbox, cut, handled, sent, toServer, envVars>>

\* POLLOUT alone.
PollWritable(b) ==
    /\ pc[b] = "poll" /\ b \in up /\ toBot[b] = <<>> /\ CanSend(b)
    /\ pc' = [pc EXCEPT ![b] = "flush"]
    /\ UNCHANGED <<running, joined, lineBuffer, outbox, cut, writable, handled, sent, netVars, envVars>>

Joins(b, l) == l.cmd = "001" /\ ~joined[b]

\* What handleMessage puts into the outbox.
Reaction(b, l) ==
    CASE l.cmd = "PING"    -> <<Plain("PONG")>>
      [] Joins(b, l)       -> <<Plain("JOIN")>>
      [] l.cmd = "PRIVMSG" -> Answer(l)
      [] OTHER             -> <<>>

handleMessage(b) ==
    /\ pc[b] = "lines" /\ Len(lineBuffer[b]) >= LineLen
    /\ LET l == lineBuffer[b][LineLen][1]
       IN  /\ outbox' = [outbox EXCEPT ![b] = @ \o Reaction(b, l)]
           /\ joined' = [joined EXCEPT ![b] = @ \/ Joins(b, l)]
           /\ running' = [running EXCEPT ![b] = @ /\ ~(l.cmd = "PRIVMSG" /\ l.text = <<"!quit">>)]
           /\ handled' = [handled EXCEPT ![b] = Append(@, l)]
    /\ lineBuffer' = [lineBuffer EXCEPT ![b] = SubSeq(@, LineLen + 1, Len(@))]
    /\ UNCHANGED <<pc, cut, writable, sent, netVars, envVars>>

\* The loop over the complete lines ends; POLLOUT is served with what poll said.
LinesDone(b) ==
    /\ pc[b] = "lines" /\ Len(lineBuffer[b]) < LineLen
    /\ pc' = [pc EXCEPT ![b] = IF writable[b] THEN "flush" ELSE Continue(running[b], outbox[b])]
    /\ UNCHANGED <<running, joined, lineBuffer, outbox, cut, writable, handled, sent, netVars, envVars>>

\* A slip: a line that was cut is taken for sent.
flushOutput_SkipsRest(b) ==
    /\ pc[b] = "flush"
    /\ \E n \in 1..LineLen - cut[b] :
           /\ Len(toServer[b]) + n <= Room
           /\ LET bytes == SubSeq(BytesOf(outbox[b][1]), cut[b] + 1, cut[b] + n)
              IN  /\ sent' = [sent EXCEPT ![b] = @ \o bytes]
                  /\ toServer' = [toServer EXCEPT ![b] = IF b \in up THEN @ \o bytes ELSE @]
           /\ cut' = cut
           /\ outbox' = [outbox EXCEPT ![b] = Tail(@)]
           /\ pc' = [pc EXCEPT ![b] = IF outbox'[b] = <<>> THEN Continue(running[b], <<>>) ELSE "flush"]
    /\ UNCHANGED <<running, joined, lineBuffer, writable, handled, toBot, envVars>>

\* One send; the loop goes on unless the line was cut or the outbox is empty.
flushOutput(b) ==
    /\ pc[b] = "flush"
    /\ \E n \in 1..LineLen - cut[b] :
           LET bytes == SubSeq(BytesOf(outbox[b][1]), cut[b] + 1, cut[b] + n)
               whole == cut[b] + n = LineLen
               rest  == IF whole THEN Tail(outbox[b]) ELSE outbox[b]
           IN  /\ Len(toServer[b]) + n <= Room
               /\ sent' = [sent EXCEPT ![b] = @ \o bytes]
               /\ toServer' = [toServer EXCEPT ![b] = IF b \in up THEN @ \o bytes ELSE @]
               /\ cut' = [cut EXCEPT ![b] = IF whole THEN 0 ELSE @ + n]
               /\ outbox' = [outbox EXCEPT ![b] = rest]
               /\ pc' = [pc EXCEPT ![b] = IF whole /\ rest # <<>> THEN "flush"
                                          ELSE Continue(running[b], rest)]
    /\ UNCHANGED <<running, joined, lineBuffer, writable, handled, toBot, envVars>>

\* send returns -1: the server has closed, or the socket has no room left.
SendFails(b) ==
    /\ pc[b] = "flush"
    /\ b \notin up \/ Len(toServer[b]) >= Room
    /\ Fail(b)

--------------------------------------------------------------------------------
(* The server and the people. *)

Tell(S, l) == [b \in Bots |-> IF b \in S \cap up THEN toBot[b] \o BytesOf(l) ELSE toBot[b]]

\* The server reads a line of bot b and does what it says.
ServerReads(b) ==
    /\ b \in up /\ Len(toServer[b]) >= LineLen
    /\ LET l == toServer[b][LineLen][1]
       IN  /\ toServer' = [toServer EXCEPT ![b] = IF l.cmd = "QUIT" THEN <<>>
                                                  ELSE SubSeq(@, LineLen + 1, Len(@))]
           /\ up' = IF l.cmd = "QUIT" THEN up \ {b} ELSE up
           /\ members' = CASE l.cmd = "JOIN" -> members \cup {b}
                           [] l.cmd = "QUIT" -> members \ {b}
                           [] OTHER          -> members
           /\ toBot' = CASE l.cmd = "USER"    -> Tell({b}, Plain("001"))
                         [] l.cmd = "JOIN"    -> Tell({b}, Plain("JOIN"))
                         [] l.cmd = "PRIVMSG" ->
                                Tell(IF l.target = "#chan" THEN members \ {b} ELSE {l.target},
                                     Line("PRIVMSG", b, l.target, l.text))
                         [] OTHER             -> toBot
    /\ UNCHANGED <<botVars, says>>

Alive(b) == pc[b] \notin {"returned", "failed", "unconnected"}

Gone(b) == up' = up \ {b} /\ members' = members \ {b}

\* The process has ended, and with it the connection.
ServerNotices(b) ==
    /\ b \in up /\ ~Alive(b)
    /\ Gone(b)
    /\ UNCHANGED <<botVars, netVars, says>>

\* The server closes a connection of its own accord.
ServerCloses(b) ==
    /\ says < MaxSays /\ b \in up
    /\ says' = says + 1
    /\ Gone(b)
    /\ UNCHANGED <<botVars, netVars>>

UserSays ==
    /\ says < MaxSays
    /\ says' = says + 1
    /\ \E text \in Says, to \in members \cup {"#chan"} :
           toBot' = Tell(IF to = "#chan" THEN members ELSE {to}, Line("PRIVMSG", "user", to, text))
    /\ UNCHANGED <<botVars, toServer, up, members>>

\* The server asks for a sign of life, or welcomes again.
ServerAsks(b) ==
    /\ says < MaxSays /\ b \in members
    /\ says' = says + 1
    /\ \E c \in {"PING", "001"} : toBot' = Tell({b}, Plain(c))
    /\ UNCHANGED <<botVars, toServer, up, members>>

BotStep(b) ==
    \/ connectToServer(b) \/ ServerGone(b) \/ readFromServer(b) \/ PollWritable(b)
    \/ handleMessage(b) \/ LinesDone(b) \/ flushOutput(b) \/ SendFails(b)

Next ==
    \/ \E b \in Bots : BotStep(b) \/ ServerReads(b) \/ ServerNotices(b) \/ ServerCloses(b) \/ ServerAsks(b)
    \/ UserSays

Spec == Init /\ [][Next]_vars

\* The bots and the server keep running; nobody has to say anything.
FairSpec == Spec /\ \A b \in Bots : WF_vars(BotStep(b)) /\ WF_vars(ServerReads(b))

--------------------------------------------------------------------------------
\* The bytes of the lines ls.
Stream(ls) ==
    [k \in 1..LineLen * Len(ls) |-> <<ls[((k - 1) \div LineLen) + 1], ((k - 1) % LineLen) + 1>>]

\* What the lines hs of the server ask a bot to say, in order, each once; it joins
\* at the first welcome.
Asked(hs) ==
    FlattenSeq([i \in DOMAIN hs |->
        CASE hs[i].cmd = "PING"    -> <<Plain("PONG")>>
          [] hs[i].cmd = "001"     -> IF \E j \in 1..i - 1 : hs[j].cmd = "001"
                                      THEN <<>> ELSE <<Plain("JOIN")>>
          [] hs[i].cmd = "PRIVMSG" -> Answer(hs[i])
          [] OTHER                 -> <<>>])

\* The bytes a bot sends are its registration and one answer to each line that asks
\* for one, whole and in the order of the lines, also those that came in one recv with
\* a !quit or were in the outbox before it (flushOutput, handleMessage, LineBuffer).
AnswersInOrder ==
    \A b \in {x \in Bots : pc[x] \notin {"start", "unconnected"}} :
        sent[b] \o SubSeq(Stream(outbox[b]), cut[b] + 1, LineLen * Len(outbox[b]))
        = Stream(Registration(b) \o Asked(handled[b]))

\* Bots that share a channel do not talk for ever: when people stop, so do they
\* (buildCommandReply: only !echo can answer with a command, and a shorter one).
ChatterEnds ==
    <>[](\A b \in Bots : Alive(b) => toBot[b] = <<>> /\ toServer[b] = <<>> /\ outbox[b] = <<>>)

\* A bot that returns has been told to quit and has sent all it was asked for, QUIT
\* among it: what was in the outbox or came in the same recv is not lost (the loop
\* after _running is false).
ReturnsWithAllSent ==
    \A b \in Bots :
        pc[b] = "returned" =>
            /\ <<Plain("QUIT"), LineLen>> \in Range(sent[b])
            /\ Len(sent[b]) = LineLen * Len(Registration(b) \o Asked(handled[b]))
================================================================================
