--------------------------------- MODULE Server ---------------------------------
(******************************************************************************)
(* The A layer: the poll loop of Server::run with the handlers it calls, the  *)
(* connections' send buffers, the sockets and the peers behind them.         *)
(*                                                                            *)
(* One thread runs the loop; between any two of its system calls the peers    *)
(* connect, send, close, reset or drain, and SIGINT may arrive.  An iteration *)
(* of the scan over _pollfds is split where the code makes a system call: the *)
(* read, the write and the hang-up part each take their bit out of the        *)
(* entry's revents, which stands for the local copy rev as well: nothing else *)
(* reads revents before the next poll overwrites it.  Passing over an entry   *)
(* whose revents is 0, the look for timeouts at the end and the way back to   *)
(* the loop's condition make none and belong to the step before.             *)
(*                                                                            *)
(* The unit of input is a complete line of one of the kinds in Line; that     *)
(* recv cuts the stream anywhere is the subject of Connection.  What a line   *)
(* does to the state behind is the subject of Dispatcher: here it is answered *)
(* by one message to any set of fds.  The health monitor and the calls made   *)
(* of it are the subject of HealthMonitor.                                    *)
(******************************************************************************)
EXTENDS Integers, Sequences, FiniteSets, FiniteSetsExt

CONSTANTS
    Fd,          \* descriptors accept may return
    Line,        \* kinds of lines: "cmd", "quit", "long" (over 512 bytes)
    RecvMax,     \* lines that fit into one recv
    MaxIn,       \* bound: lines waiting in a socket
    MaxOut,      \* bound: messages waiting in a send buffer
    MaxBacklog   \* bound: connections waiting to be accepted

ASSUME ServerAssumption ==
    /\ IsFiniteSet(Fd)
    /\ "listen" \notin Fd
    /\ Line \subseteq {"cmd", "quit", "long"}
    /\ {RecvMax, MaxIn, MaxOut, MaxBacklog} \subseteq Nat \ {0}

Listen == "listen"   \* _listenFd

VARIABLES
    pc,           \* where the loop is: check, poll, scan, stopped
    i,            \* the scan's index
    shutdown,     \* g_shutdownRequested
    pollfds,      \* _pollfds
    connections,  \* keys of _connections
    sendBuffer,   \* messages in each Connection::_sendBuffer
    clients,      \* fds known to the C layer (ServerState)
    sock,         \* the kernel's side of each fd
    backlog       \* connections the kernel has completed and nobody accepted

loopVars  == <<pc, i, shutdown>>
tableVars == <<pollfds, connections, sendBuffer, clients>>
vars      == <<loopVars, tableVars, sock, backlog>>

\* peer: none (closed here or never open), open, fin (peer closed), reset.
Closed == [peer |-> "none", inq |-> <<>>, writable |-> FALSE]
Opened == [peer |-> "open", inq |-> <<>>, writable |-> TRUE]

Event == {"IN", "OUT", "HUP"}   \* HUP stands for POLLERR, POLLHUP and POLLNVAL

TypeOK ==
    /\ pc \in {"check", "poll", "scan", "stopped"}
    /\ i \in Nat \ {0}
    /\ pc = "scan" => i \in DOMAIN pollfds /\ pollfds[i].revents # {}
    /\ shutdown \in BOOLEAN
    /\ pollfds \in Seq([fd: Fd \cup {Listen}, events: SUBSET {"IN", "OUT"}, revents: SUBSET Event])
    /\ connections \in SUBSET Fd
    /\ sendBuffer \in [Fd -> 0..MaxOut]
    /\ clients \in SUBSET Fd
    /\ sock \in [Fd -> [peer: {"none", "open", "fin", "reset"}, inq: Seq(Line), writable: BOOLEAN]]
    /\ backlog \in 0..MaxBacklog

\* A slip: pfd.revents is not set to 0 (here it happens to hold POLLIN).
PollEntry_Uninitialised(f) ==
    [fd |-> f, events |-> {"IN"}, revents |-> IF f = Listen THEN {} ELSE {"IN"}]

\* _addFd
PollEntry(f) == [fd |-> f, events |-> {"IN"}, revents |-> {}]

Init ==
    /\ pc = "check" /\ i = 1 /\ shutdown = FALSE
    /\ pollfds = <<PollEntry(Listen)>>
    /\ connections = {} /\ clients = {}
    /\ sendBuffer = [f \in Fd |-> 0]
    /\ sock = [f \in Fd |-> Closed]
    /\ backlog = 0

--------------------------------------------------------------------------------
(* The peers, the kernel and the operator. *)

Connect ==
    /\ backlog < MaxBacklog /\ pc # "stopped"
    /\ backlog' = backlog + 1
    /\ UNCHANGED <<loopVars, tableVars, sock>>

\* A connection that is reset before anybody accepts it: accept will fail.
AbortBacklog ==
    /\ backlog > 0
    /\ backlog' = backlog - 1
    /\ UNCHANGED <<loopVars, tableVars, sock>>

PeerSend(f) ==
    /\ sock[f].peer = "open" /\ Len(sock[f].inq) < MaxIn
    /\ \E l \in Line : sock' = [sock EXCEPT ![f].inq = Append(@, l)]
    /\ UNCHANGED <<loopVars, tableVars, backlog>>

PeerClose(f) ==
    /\ \/ sock[f].peer = "open" /\ sock' = [sock EXCEPT ![f].peer = "fin"]
       \/ sock[f].peer \in {"open", "fin"} /\ sock' = [sock EXCEPT ![f].peer = "reset"]
    /\ UNCHANGED <<loopVars, tableVars, backlog>>

\* The peer reads: there is room in the kernel's send buffer again.
PeerDrain(f) ==
    /\ sock[f].peer \in {"open", "fin"} /\ ~sock[f].writable
    /\ sock' = [sock EXCEPT ![f].writable = TRUE]
    /\ UNCHANGED <<loopVars, tableVars, backlog>>

\* _handleShutdownSignal
Sigint ==
    /\ ~shutdown /\ pc # "stopped"
    /\ shutdown' = TRUE
    /\ UNCHANGED <<pc, i, tableVars, sock, backlog>>

--------------------------------------------------------------------------------
(* The tables of the server. *)

\* A poll array with POLLOUT switched on for fds (out = {"OUT"}) or off (out = {}).
SetEvents(pfds, fds, out) ==
    [j \in DOMAIN pfds |->
        IF pfds[j].fd \notin fds THEN pfds[j]
        ELSE [pfds[j] EXCEPT !.events = (@ \ {"OUT"}) \cup out]]

\* The first entry for f is erased.
removeFd(pfds, f) ==
    LET at == {j \in DOMAIN pfds : pfds[j].fd = f}
    IN  IF at = {} THEN pfds
        ELSE [j \in 1..Len(pfds) - 1 |-> IF j < Min(at) THEN pfds[j] ELSE pfds[j + 1]]

\* Bounded form of bufferSend: nobody is sent to whose buffer is at the bound.
Sendable(targets) == \A g \in targets \cap connections : sendBuffer[g] < MaxOut

\* enqueueReplies: one message to every target that still has a connection.
enqueueReplies(targets) ==
    [f \in Fd |-> IF f \in targets \cap connections THEN sendBuffer[f] + 1 ELSE sendBuffer[f]]

\* A slip: nobody asks for POLLOUT.
enablePollout_Forgotten(targets) == pollfds

enablePollout(targets) == SetEvents(pollfds, targets \cap connections, {"OUT"})

\* A slip: the descriptor stays in the poll array.
notifyAndDisconnect_KeepsEntry(f) ==
    \E notified \in SUBSET (Fd \ {f}) :
        /\ Sendable(notified)
        /\ pollfds' = enablePollout(notified)
        /\ sendBuffer' = [enqueueReplies(notified) EXCEPT ![f] = 0]
        /\ connections' = connections \ {f}
        /\ clients' = clients \ {f}
        /\ sock' = [sock EXCEPT ![f] = Closed]

\* QUIT to some of the others (DisconnectNotifier leaves out f itself), then
\* _disconnectClient, which drops f's buffer as well.
notifyAndDisconnect(f) ==
    \E notified \in SUBSET (Fd \ {f}) :
        /\ Sendable(notified)
        /\ pollfds' = removeFd(enablePollout(notified), f)
        /\ sendBuffer' = [enqueueReplies(notified) EXCEPT ![f] = 0]
        /\ connections' = connections \ {f}
        /\ clients' = clients \ {f}
        /\ sock' = [sock EXCEPT ![f] = Closed]

--------------------------------------------------------------------------------
(* Server::run *)

\* The destructor, or the end of run: everything is closed, nobody is told.
closeAllFds ==
    /\ pc' = "stopped" /\ i' = 1
    /\ pollfds' = <<>>
    /\ connections' = {} /\ clients' = {}
    /\ sendBuffer' = [f \in Fd |-> 0]
    /\ sock' = [f \in Fd |-> Closed]
    /\ backlog' = 0
    /\ UNCHANGED shutdown

\* while (!_isShutdownRequested())
Check ==
    /\ pc = "check"
    /\ \/ shutdown /\ closeAllFds
       \/ /\ ~shutdown
          /\ pc' = "poll"
          /\ UNCHANGED <<i, shutdown, tableVars, sock, backlog>>

\* What poll reports for the entry p of a client whose socket is s; error events
\* need not be asked for.
ClientReady(p, s) ==
    {e \in Event :
        \/ e = "IN" /\ (s.inq # <<>> \/ s.peer \in {"fin", "reset"})
        \/ e = "OUT" /\ "OUT" \in p.events /\ (s.writable \/ s.peer = "reset")
        \/ e = "HUP" /\ s.peer = "reset"}

Ready(p) ==
    IF p.fd = Listen THEN IF backlog > 0 THEN {"IN"} ELSE {}
    ELSE ClientReady(p, sock[p.fd])

Polled == [j \in DOMAIN pollfds |-> [pollfds[j] EXCEPT !.revents = Ready(pollfds[j])]]

\* A slip: poll(..., -1), as an earlier version of the code had it.
PollReturns_NoTimeout == \E j \in DOMAIN pollfds : Ready(pollfds[j]) # {}

\* poll returns when an entry is ready and, after 1000 ms, also when none is.
PollReturns == TRUE

\* poll fails for another reason than EINTR: run throws, ~Server closes all.
PollThrows == pc = "poll" /\ closeAllFds

\* The entries from index j on that the scan has something to do for.
Pending(j) == {k \in DOMAIN pollfds' : k >= j /\ pollfds'[k].revents # {}}

\* A slip: <= for < in the loop's condition.
Goto_OffByOne(j) ==
    /\ IF Pending(j) = {} THEN pc' = "scan" /\ i' = Len(pollfds') + 1
       ELSE pc' = "scan" /\ i' = Min(Pending(j))
    /\ UNCHANGED shutdown

\* The scan goes on at index j of the array as it is now.  At its end
\* collectTimedOutClients returns nobody: only generatePing makes a client wait for
\* a PONG, and the server never calls it.
Goto(j) ==
    /\ IF Pending(j) = {} THEN pc' = "check" /\ i' = 1
       ELSE pc' = "scan" /\ i' = Min(Pending(j))
    /\ UNCHANGED shutdown

\* poll returns; the second look at the flag comes before the results are used.
Poll ==
    /\ pc = "poll"
    /\ PollReturns
    /\ \/ shutdown /\ closeAllFds
       \/ /\ ~shutdown
          /\ pollfds' = Polled
          /\ Goto(1)
          /\ UNCHANGED <<connections, sendBuffer, clients, sock, backlog>>

\* A slip: --i is missing.
EntryRemoved_Skips == Goto(i + 1)

\* The entry at i is gone (--i; ++i).
EntryRemoved == Goto(i)

\* A poll array with event e of entry i dealt with.
Done(pfds, e) == [pfds EXCEPT ![i].revents = @ \ {e}]

rev == pollfds[i].revents

\* acceptClient: one connection per event; accept may find none left (it was
\* aborted) or no free descriptor.
acceptClient ==
    /\ pc = "scan" /\ pollfds[i].fd = Listen /\ "IN" \in rev
    /\ \/ \E f \in Fd :
              /\ backlog > 0 /\ sock[f].peer = "none"
              /\ backlog' = backlog - 1
              /\ sock' = [sock EXCEPT ![f] = Opened]
              /\ connections' = connections \cup {f}
              /\ pollfds' = Append(Done(pollfds, "IN"), PollEntry(f))
              /\ clients' = clients \cup {f}
              /\ UNCHANGED sendBuffer
       \/ /\ backlog = 0 \/ \A f \in Fd : sock[f].peer # "none"
          /\ pollfds' = Done(pollfds, "IN")
          /\ UNCHANGED <<connections, sendBuffer, clients, sock, backlog>>
    /\ Goto(i + 1)

\* The lines one recv takes from the socket.
Received(f) == SubSeq(sock[f].inq, 1, IF Len(sock[f].inq) < RecvMax THEN Len(sock[f].inq) ELSE RecvMax)

\* What one recv brings ends the connection: a line too long at the head of the
\* buffer (isLineTooLong looks no further), or a QUIT among the lines, whose
\* sender applyCommandResult has disconnected by the time handleRead returns.
Fatal(lines) == lines # <<>> /\ (lines[1] = "long" \/ \E j \in DOMAIN lines : lines[j] = "quit")

\* A slip: recv's 0 is taken for "nothing to read".
ReadFails_IgnoresEof(f) ==
    (Received(f) = <<>> /\ sock[f].peer # "fin") \/ Fatal(Received(f))

\* handleRead returns false: for such a line, at EOF and on an error.
ReadFails(f) == Received(f) = <<>> \/ Fatal(Received(f))

handleRead ==
    /\ pc = "scan" /\ pollfds[i].fd # Listen /\ "IN" \in rev
    /\ UNCHANGED backlog
    /\ LET f == pollfds[i].fd
       IN  \/ /\ ReadFails(f)
              /\ notifyAndDisconnect(f)
              /\ EntryRemoved
           \/ /\ ~ReadFails(f)
              /\ \E targets \in SUBSET Fd :
                     /\ Sendable(targets)
                     /\ sendBuffer' = enqueueReplies(targets)
                     /\ pollfds' = Done(enablePollout(targets), "IN")
              /\ sock' = [sock EXCEPT ![f].inq = SubSeq(@, Len(Received(f)) + 1, Len(@))]
              /\ UNCHANGED <<connections, clients>>
              /\ Goto(i)

\* send takes what the kernel has room for; a partial send, after which what is left of
\* a message still counts as one, means it is full.
handleWrite ==
    /\ pc = "scan" /\ pollfds[i].fd # Listen /\ "IN" \notin rev /\ "OUT" \in rev
    /\ UNCHANGED backlog
    /\ LET f == pollfds[i].fd
       IN  \/ /\ sendBuffer[f] > 0
              /\ sock[f].peer = "reset" \/ ~sock[f].writable
              /\ notifyAndDisconnect(f)
              /\ EntryRemoved
           \/ /\ \/ sendBuffer[f] = 0 /\ UNCHANGED <<sendBuffer, sock>>
                 \/ /\ sock[f].peer # "reset" /\ sock[f].writable
                    /\ \E left \in 0..sendBuffer[f], room \in BOOLEAN :
                           /\ left > 0 => ~room
                           /\ sendBuffer' = [sendBuffer EXCEPT ![f] = left]
                           /\ sock' = [sock EXCEPT ![f].writable = room]
              /\ pollfds' = Done(IF sendBuffer'[f] = 0 THEN SetEvents(pollfds, {f}, {})
                                 ELSE pollfds, "OUT")
              /\ UNCHANGED <<connections, clients>>
              /\ Goto(i)

\* POLLERR, POLLHUP, POLLNVAL: after the reading and the writing.
HangUp ==
    /\ pc = "scan" /\ pollfds[i].fd # Listen /\ rev = {"HUP"}
    /\ UNCHANGED backlog
    /\ notifyAndDisconnect(pollfds[i].fd)
    /\ EntryRemoved

run == Check \/ Poll \/ acceptClient \/ handleRead \/ handleWrite \/ HangUp

\* The process has exited: what follows is no longer its business.
Exited == pc = "stopped" /\ UNCHANGED vars

Next ==
    \/ run \/ PollThrows \/ Exited
    \/ Connect \/ AbortBacklog \/ Sigint
    \/ \E f \in Fd : PeerSend(f) \/ PeerClose(f) \/ PeerDrain(f)

Spec == Init /\ [][Next]_vars

\* The thread runs as long as it can; nothing is asked of the peers.
FairSpec == Spec /\ WF_vars(run)

--------------------------------------------------------------------------------
(* What the loop keeps true. *)

\* The poll array, the connections, the clients of the C layer and the open
\* descriptors are one and the same set, each watched once: whatever the
\* reason a connection ends for, nothing of it is left for the next one that
\* gets its descriptor (_disconnectClient).
TablesAgree ==
    pc # "stopped" =>
        /\ {pollfds[j].fd : j \in DOMAIN pollfds} = connections \cup {Listen}
        /\ Len(pollfds) = Cardinality(connections) + 1
        /\ clients = connections
        /\ {f \in Fd : sock[f].peer # "none"} = connections

\* POLLOUT is asked for exactly while there is output: with less a message
\* would wait for ever, with more poll would spin (_enqueueReplies, _handleWrite).
PolloutArmed ==
    \A j \in DOMAIN pollfds : pollfds[j].fd # Listen =>
        ("OUT" \in pollfds[j].events <=> sendBuffer[pollfds[j].fd] > 0)

\* Entries are erased and appended while run scans the array; still every
\* descriptor that poll found ready is served before the next poll.
EachReadyFdServed ==
    pc \in {"check", "poll"} => \A j \in DOMAIN pollfds : pollfds[j].revents = {}

\* While the server runs, a client is only disconnected if its peer is gone or
\* if it sent QUIT or a line too long: no event of another client, no stale
\* revents and no send that would block takes a healthy connection down.
NoSpuriousDisconnect ==
    [][pc' # "stopped" => \A f \in connections \ connections' :
           sock[f].peer # "open" \/ Fatal(Received(f))]_vars

\* The comment on part (4) of the scan: the input of a connection that hung up
\* is read to its end before it is closed.
HangUpReadsAll ==
    [][pc' # "stopped" => \A f \in connections \ connections' :
           sock[f].inq = <<>> \/ Fatal(Received(f))]_vars

\* SIGINT ends the loop wherever it finds it, also between the check of the flag
\* and the call of poll, where it interrupts nothing.
ShutdownTerminates == shutdown ~> pc = "stopped"

\* A peer that closed or reset its end is disconnected and its descriptor freed,
\* even if it sent input before and whatever the others do.
HangUpsAreReaped == \A f \in Fd : sock[f].peer \in {"fin", "reset"} ~> sock[f].peer \notin {"fin", "reset"}
================================================================================
