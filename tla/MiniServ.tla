-------------------------------- MODULE MiniServ --------------------------------
(******************************************************************************)
(* mini_serv.c: the select loop of a chat server in one thread.               *)
(*                                                                            *)
(* One action per part of an iteration: select, then for each descriptor that *)
(* it returned, in ascending order, accept_client or handle_client and then   *)
(* flush_client.  Clients connect, type, stop reading and hang up in between. *)
(* A byte that comes in is LF or something else; a message that goes out is   *)
(* two bytes long, so that send can cut it.  An empty buffer is NULL.         *)
(* Allocation does not fail.  The sockets block: recv and accept find what     *)
(* select announced, but send is given the whole buffer, and select only says *)
(* that some of it fits, so that send may wait for the peer.  The assignment  *)
(* (mini_serv.txt:17) says that it does not; select(2) says that it may.  The *)
(* model lets it (SendBlocks), and what depends on the grant says so.         *)
(******************************************************************************)
EXTENDS Integers, Sequences, FiniteSets

CONSTANTS
    MaxFd,      \* descriptors 1..MaxFd are for clients, 0 is g_sockfd
    MaxId,      \* bound: connections in all
    MaxTyped,   \* bound: bytes the clients type, all together
    Moods       \* bound: what else peers do than read: "lazy", "closed"

ASSUME MiniServAssumption ==
    /\ {MaxFd, MaxId, MaxTyped} \subseteq Nat \ {0}
    /\ Moods \subseteq {"lazy", "closed"}

sockfd == 0
Fds == 1..MaxFd
Byte == {"x", "LF"}

VARIABLES
    active,     \* g_active without g_sockfd
    ids,        \* g_ids
    next_id,    \* g_next_id
    rbuf,       \* g_rbuf
    wbuf,       \* g_wbuf
    rfds, wfds, \* the descriptors select returned and the scan has not come to
    sending,    \* the descriptor whose send waits for its peer, or g_sockfd: none
    killed,     \* SIGPIPE has ended the process
    waiting,    \* connections to accept
    socket,     \* by fd: what the peer typed and recv has not returned
    peer,       \* by fd: reads, lazy or closed
    typedBytes, \* how much the clients have typed
    got         \* history, by connection: the bytes that reached its peer

loopVars == <<rfds, wfds, sending>>
peerVars == <<waiting, socket, peer, typedBytes>>
vars == <<active, ids, next_id, rbuf, wbuf, loopVars, killed, peerVars, got>>

Init ==
    /\ active = {} /\ next_id = 0
    /\ ids = [fd \in Fds |-> 0]
    /\ rbuf = [fd \in Fds |-> <<>>]
    /\ wbuf = [fd \in Fds |-> <<>>]
    /\ rfds = {} /\ wfds = {} /\ sending = sockfd /\ killed = FALSE
    /\ waiting = 0
    /\ socket = [fd \in Fds |-> <<>>]
    /\ peer = [fd \in Fds |-> "reads"]
    /\ typedBytes = 0
    /\ got = [i \in 0..MaxId - 1 |-> <<>>]

--------------------------------------------------------------------------------
(* Messages and lines. *)

Arrived(i) == [kind |-> "arrived", id |-> i, line |-> <<>>]
Said(i, l) == [kind |-> "said", id |-> i, line |-> l]
Left(i)    == [kind |-> "left", id |-> i, line |-> <<>>]

BytesOf(ms) == [k \in 1..2 * Len(ms) |-> <<ms[(k + 1) \div 2], 2 - (k % 2)>>]

\* Where the k-th line of buf ends.
LineEnd(buf, k) ==
    IF k = 0 THEN 0
    ELSE CHOOSE j \in DOMAIN buf :
             buf[j] = "LF" /\ Cardinality({i \in 1..j : buf[i] = "LF"}) = k

LineCount(buf) == Cardinality({i \in DOMAIN buf : buf[i] = "LF"})

\* What extract_message takes out of a buffer, call after call, and what it leaves.
Extracted(buf) ==
    [k \in 1..LineCount(buf) |-> SubSeq(buf, LineEnd(buf, k - 1) + 1, LineEnd(buf, k))]
Rest(buf) == SubSeq(buf, LineEnd(buf, LineCount(buf)) + 1, Len(buf))

send_all(clients, except, ms) ==
    [fd \in Fds |-> IF fd \in clients \ {except} THEN wbuf[fd] \o BytesOf(ms) ELSE wbuf[fd]]

--------------------------------------------------------------------------------
(* The loop. *)

Scanning == rfds \cup wfds # {}

\* Slips: only those who have typed are looked at; a client with much to get is not.
Readable_NotEof == {fd \in active : socket[fd] # <<>>}
                   \cup (IF waiting > 0 THEN {sockfd} ELSE {})
Writable_OneMessage == {fd \in active : Len(wbuf[fd]) = 2 /\ peer[fd] # "lazy"}

Readable == {fd \in active : socket[fd] # <<>> \/ peer[fd] = "closed"}
            \cup (IF waiting > 0 THEN {sockfd} ELSE {})

Writable == {fd \in active : wbuf[fd] # <<>> /\ peer[fd] # "lazy"}

\* select returns when there is something to do.
Select ==
    /\ ~killed /\ ~Scanning
    /\ Readable \cup Writable # {}
    /\ rfds' = Readable /\ wfds' = Writable
    /\ UNCHANGED <<active, ids, next_id, rbuf, wbuf, sending, killed, peerVars, got>>

\* The scan has come to fd.
At(fd) == \A f \in rfds \cup wfds : fd <= f

\* The kernel gives out the lowest free descriptor.
FreeFd(fd) == fd \in Fds \ active /\ \A f \in 1..fd - 1 : f \in active

accept_client ==
    /\ sockfd \in rfds
    /\ rfds' = rfds \ {sockfd}
    /\ \E fd \in Fds :
           /\ FreeFd(fd)
           /\ ids' = [ids EXCEPT ![fd] = next_id]
           /\ next_id' = next_id + 1
           /\ active' = active \cup {fd}
           /\ wbuf' = send_all(active, fd, <<Arrived(next_id)>>)
           /\ socket' = [socket EXCEPT ![fd] = <<>>]
           /\ peer' = [peer EXCEPT ![fd] = "reads"]
    /\ waiting' = waiting - 1
    /\ UNCHANGED <<rbuf, wfds, sending, killed, typedBytes, got>>

\* accept fails: no descriptor is free, or the connection is gone.
AcceptFails ==
    /\ sockfd \in rfds
    /\ rfds' = rfds \ {sockfd}
    /\ waiting' \in {waiting, waiting - 1}
    /\ active = Fds \/ waiting' = waiting - 1
    /\ UNCHANGED <<active, ids, next_id, rbuf, wbuf, wfds, sending, killed, socket, peer, typedBytes, got>>

\* A slip: the write buffer is left to the next client of the descriptor.
ClientLeaves_KeepsBuffer(fd) ==
    /\ active' = active \ {fd}
    /\ rbuf' = [rbuf EXCEPT ![fd] = <<>>]
    /\ wbuf' = send_all(active, fd, <<Left(ids[fd])>>)

\* recv returned 0 or -1.
ClientLeaves(fd) ==
    /\ active' = active \ {fd}
    /\ rbuf' = [rbuf EXCEPT ![fd] = <<>>]
    /\ wbuf' = [send_all(active, fd, <<Left(ids[fd])>>) EXCEPT ![fd] = <<>>]

\* A slip: flush_client is called for a client that has just left.
StillActive_Unchecked(fds, fd) == fds

\* flush_client is for descriptors that are still in g_active.
StillActive(fds, fd) == fds \ {fd}

\* The loop over extract_message.
Relay(fd, buf) ==
    /\ rbuf' = [rbuf EXCEPT ![fd] = Rest(buf)]
    /\ wbuf' = send_all(active, fd, [k \in 1..LineCount(buf) |-> Said(ids[fd], Extracted(buf)[k])])

\* recv takes any part of what has come; an error (a reset) drops it.
handle_client(fd) ==
    /\ fd \in rfds /\ fd # sockfd /\ At(fd)
    /\ rfds' = rfds \ {fd}
    /\ \/ /\ peer[fd] = "closed"
          /\ ClientLeaves(fd)
          /\ wfds' = StillActive(wfds, fd)
          /\ socket' = [socket EXCEPT ![fd] = <<>>]
       \/ /\ \E n \in 1..Len(socket[fd]) :
                 /\ Relay(fd, rbuf[fd] \o SubSeq(socket[fd], 1, n))
                 /\ socket' = [socket EXCEPT ![fd] = SubSeq(@, n + 1, Len(@))]
          /\ UNCHANGED <<active, wfds>>
    /\ UNCHANGED <<ids, next_id, sending, killed, waiting, peer, typedBytes, got>>

\* send of more than fits waits, and the scan with it.
SendBlocks(fd) ==
    /\ fd \in wfds /\ At(fd) /\ fd \notin rfds
    /\ sending = sockfd /\ peer[fd] # "closed" /\ Len(wbuf[fd]) > 1
    /\ sending' = fd
    /\ UNCHANGED <<active, ids, next_id, rbuf, wbuf, rfds, wfds, killed, peerVars, got>>

\* send returns what it took; one that waits does so when the peer reads on or hangs up.
flush_client(fd) ==
    /\ fd \in wfds /\ At(fd) /\ fd \notin rfds
    /\ sending # fd \/ peer[fd] # "lazy"
    /\ wfds' = wfds \ {fd} /\ sending' = sockfd
    /\ \E n \in 1..Len(wbuf[fd]) :
           /\ got' = [got EXCEPT ![ids[fd]] = @ \o SubSeq(wbuf[fd], 1, n)]
           /\ wbuf' = [wbuf EXCEPT ![fd] = SubSeq(@, n + 1, Len(@))]
    /\ UNCHANGED <<active, ids, next_id, rbuf, rfds, killed, peerVars>>

\* send fails because the peer is gone: recv will find out.
FlushFails(fd) ==
    /\ fd \in wfds /\ At(fd) /\ fd \notin rfds
    /\ peer[fd] = "closed"
    /\ wfds' = wfds \ {fd} /\ sending' = sockfd
    /\ UNCHANGED <<active, ids, next_id, rbuf, wbuf, rfds, killed, peerVars, got>>

\* The same, but the peer had closed before it reset the connection: EPIPE, and with
\* it SIGPIPE, which nothing ignores.
FlushKilled(fd) ==
    /\ fd \in wfds /\ At(fd) /\ fd \notin rfds
    /\ peer[fd] = "closed"
    /\ killed' = TRUE
    /\ rfds' = {} /\ wfds' = {} /\ sending' = sockfd
    /\ UNCHANGED <<active, ids, next_id, rbuf, wbuf, peerVars, got>>

--------------------------------------------------------------------------------
(* The clients. *)

Connect ==
    /\ waiting + next_id < MaxId
    /\ waiting' = waiting + 1
    /\ UNCHANGED <<active, ids, next_id, rbuf, wbuf, loopVars, killed, socket, peer, typedBytes, got>>

PeerTypes(fd) ==
    /\ fd \in active /\ peer[fd] # "closed" /\ typedBytes < MaxTyped
    /\ \E b \in Byte : socket' = [socket EXCEPT ![fd] = Append(@, b)]
    /\ typedBytes' = typedBytes + 1
    /\ UNCHANGED <<active, ids, next_id, rbuf, wbuf, loopVars, killed, waiting, peer, got>>

PeerBecomes(fd, p) ==
    /\ fd \in active /\ peer[fd] # "closed" /\ peer[fd] # p
    /\ peer' = [peer EXCEPT ![fd] = p]
    /\ UNCHANGED <<active, ids, next_id, rbuf, wbuf, loopVars, killed, waiting, socket, typedBytes, got>>

Next ==
    \/ Select \/ accept_client \/ AcceptFails
    \/ \E fd \in Fds : \/ handle_client(fd) \/ SendBlocks(fd)
                       \/ flush_client(fd) \/ FlushFails(fd) \/ FlushKilled(fd)
    \/ Connect
    \/ \E fd \in Fds : PeerTypes(fd) \/ \E p \in Moods \cup {"reads"} : PeerBecomes(fd, p)

Loop ==
    \/ Select \/ accept_client \/ AcceptFails
    \/ \E fd \in Fds : \/ handle_client(fd) \/ SendBlocks(fd)
                       \/ flush_client(fd) \/ FlushFails(fd) \/ FlushKilled(fd)

Spec == Init /\ [][Next]_vars

\* The loop waits in select and in a send that does not fit, and nowhere else.
FairSpec == Spec /\ WF_vars(Loop)

--------------------------------------------------------------------------------
\* flush_client is only called for a client that is there and has something to
\* be sent: it measures the buffer without looking for NULL.
FlushHasData == \A fd \in wfds : fd \in active /\ wbuf[fd] # <<>>

--------------------------------------------------------------------------------
(* The refinement: a client is the connection with its number, a message counts *)
(* when its last byte does.                                                     *)

FdOf(i) == CHOOSE fd \in active : ids[fd] = i

\* The messages that end in bytes: what has been sent starts with a whole message,
\* what has not been sent ends with one.
Sent(bytes)   == [k \in 1..Len(bytes) \div 2 |-> bytes[2 * k][1]]
Unsent(bytes) == [k \in 1..(Len(bytes) + 1) \div 2 |-> bytes[2 * k - (Len(bytes) % 2)][1]]

Numbers == 0..MaxId - 1
online == {ids[fd] : fd \in active}
hungUp == {ids[fd] : fd \in {f \in active : peer[f] = "closed"}}
typed == [i \in Numbers |->
             IF i \in online THEN Extracted(rbuf[FdOf(i)] \o socket[FdOf(i)]) ELSE <<>>]
due == [i \in Numbers |-> IF i \in online THEN Unsent(wbuf[FdOf(i)]) ELSE <<>>]
received == [i \in Numbers |-> Sent(got[i])]

Chat == INSTANCE ChatRelay WITH
    Line   <- {[j \in 1..n |-> IF j = n THEN "LF" ELSE "x"] : n \in 1..MaxTyped},
    nextId <- next_id

\* mini_serv.c implements the assignment: numbers in the order of arrival and never
\* again, every line once and in order to all the others who are there, however recv
\* and send cut the streams, and nobody dropped for reading slowly.
ChatSpec == Chat!Spec

\* The assignment's grant (mini_serv.txt:17), as far as the properties below need it:
\* no send waits for ever.  The code does not see to it.
SendsReturn == []<>(sending = sockfd)

\* If sends return, a client that reads gets what is waiting for it, whatever the
\* others do, as long as the process lives: the scan comes to everyone (main, with
\* flush_client).  Without the grant a client that does not read holds up them all.
ReadersAreServed ==
    SendsReturn =>
        \A fd \in Fds :
            fd \in active /\ wbuf[fd] # <<>> ~> wbuf[fd] = <<>> \/ peer[fd] # "reads" \/ killed

\* If sends return, a client that hangs up is noticed, however much it typed before
\* and whatever is waiting for it (handle_client: the end comes behind all input).
HangUpsAreNoticed ==
    SendsReturn =>
        \A fd \in Fds : fd \in active /\ peer[fd] = "closed" ~> fd \notin active \/ killed
================================================================================
