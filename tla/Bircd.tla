---------------------------------- MODULE Bircd ----------------------------------
(******************************************************************************)
(* bircd: the poll loop of the study server, with its fixed buffers.          *)
(*                                                                            *)
(* One iteration builds pollfds from the slots (init_fd), waits (do_select)   *)
(* and calls fct_read and then fct_write of each descriptor in ascending      *)
(* order (check_fd).  buf_write is the array it is in C, with its NUL and what *)
(* lies behind it, since init_fd and ft_strlcat go by strlen and client_write *)
(* by buf_write_len; of buf_read only the first buf_read_len bytes are ever   *)
(* looked at.  malloc's fresh pages are zero.  Input has no NUL.              *)
(******************************************************************************)
EXTENDS Integers, Sequences, FiniteSets

CONSTANTS
    MaxFd,        \* descriptors 1..MaxFd are for clients, 0 is the listening one
    MAX_CLIENTS,  \* pollfds has one entry more
    BUF_SIZE,
    Letters,      \* the bytes clients type besides CR and LF
    MaxTyped,     \* bound: bytes that are typed, all together
    MaxConns      \* bound: connections in all

ASSUME BircdAssumption ==
    /\ {MaxFd, MAX_CLIENTS, MaxTyped, MaxConns} \subseteq Nat
    /\ BUF_SIZE \in Nat \ {0, 1}
    /\ Letters \cap {"CR", "LF", "NUL"} = {}

serv == 0
Fds == 1..MaxFd
Byte == Letters \cup {"CR", "LF"}

VARIABLES
    pc,         \* loop, or stuck in init_fd, crashed in check_fd, exited in srv_accept,
                \* killed by SIGPIPE
    client,     \* the slots of type FD_CLIENT
    readBuf,    \* buf_read, up to buf_read_len
    writeBuf,   \* buf_write
    writeLen,   \* buf_write_len
    pollin,     \* the descriptors with POLLIN in revents the scan has not come to
    pollout,    \* the same for POLLOUT
    waiting,    \* connections to accept
    socket,     \* by slot: what the peer has sent and recv has not returned
    gone,       \* the slots whose peer has closed
    typed, conns, \* how much has been typed, how many have come
    owed,       \* history, by slot: what broadcast_message appended for this client
    sent,       \* history, by slot: what send took
    dropped,    \* history, by slot: how many messages did not fit
    blank       \* history: the slots whose buf_write was empty when the client came

slotVars == <<client, readBuf, writeBuf, writeLen>>
peerVars == <<waiting, socket, gone, typed, conns>>
histVars == <<owed, sent, dropped, blank>>
vars == <<pc, slotVars, pollin, pollout, peerVars, histVars>>

Zeros == [i \in 0..BUF_SIZE |-> "NUL"]

Init ==
    /\ pc = "loop"
    /\ client = {}
    /\ readBuf = [fd \in Fds |-> <<>>]
    /\ writeBuf = [fd \in Fds |-> Zeros]
    /\ writeLen = [fd \in Fds |-> 0]
    /\ pollin = {} /\ pollout = {}
    /\ waiting = 0 /\ gone = {} /\ typed = 0 /\ conns = 0
    /\ socket = [fd \in Fds |-> <<>>]
    /\ owed = [fd \in Fds |-> <<>>]
    /\ sent = [fd \in Fds |-> <<>>]
    /\ dropped = [fd \in Fds |-> 0]
    /\ blank = {}

--------------------------------------------------------------------------------
(* The C library, on an array with a NUL in it. *)

strlen(a) == CHOOSE i \in DOMAIN a : a[i] = "NUL" /\ \A j \in 0..i - 1 : a[j] # "NUL"

\* ft_strlcpy(a + n, s, BUF_SIZE + 1 - n): what does not fit before the last cell is
\* cut off, and a NUL ends it.
strlcpy(a, n, s) ==
    LET k == IF n + Len(s) > BUF_SIZE THEN BUF_SIZE - n ELSE Len(s)
    IN  [i \in 0..BUF_SIZE |->
            IF i \in n..n + k - 1 THEN s[i - n + 1] ELSE IF i = n + k THEN "NUL" ELSE a[i]]

\* ft_strlcat(a, s, BUF_SIZE + 1)
strlcat(a, s) == strlcpy(a, strlen(a), s)

\* ft_memmove(a, a + from, count)
memmove(a, from, count) == [i \in 0..BUF_SIZE |-> IF i < count THEN a[from + i] ELSE a[i]]

Cells(a, n) == [i \in 1..n |-> a[i - 1]]

--------------------------------------------------------------------------------
(* The loop. *)

\* p is what get_crlf_pos returns when it is not 0.
CrlfEnd(buf, p) ==
    /\ p \in 2..Len(buf) /\ buf[p - 1] = "CR" /\ buf[p] = "LF"
    /\ \A q \in 2..p - 1 : ~(buf[q - 1] = "CR" /\ buf[q] = "LF")

HasLine(fd) == \E p \in 2..Len(readBuf[fd]) : CrlfEnd(readBuf[fd], p)

\* No client_read is in its loop.
Idle == pc = "loop" /\ \A fd \in Fds : ~HasLine(fd)

Armed == {fd \in client : strlen(writeBuf[fd]) > 0}

Full == Cardinality(client) > MAX_CLIENTS

\* init_fd finds no entry for a slot: it goes round for ever, without i++.
init_fd_Full ==
    /\ Idle /\ pollin \cup pollout = {} /\ Full
    /\ pc' = "stuck"
    /\ UNCHANGED <<slotVars, pollin, pollout, peerVars, histVars>>

Readable == {fd \in client : socket[fd] # <<>> \/ fd \in gone}
            \cup (IF waiting > 0 THEN {serv} ELSE {})

\* init_fd, and poll: of the descriptors that are armed some are writable.
do_select ==
    /\ Idle /\ pollin \cup pollout = {} /\ ~Full
    /\ pollin' = Readable
    /\ pollout' \in SUBSET Armed
    /\ pollin' \cup pollout' # {}
    /\ UNCHANGED <<pc, slotVars, peerVars, histVars>>

\* check_fd has come to fd.
At(fd) == Idle /\ \A f \in pollin \cup pollout : fd <= f

\* The lengths, not the bytes.
clean_fd(fd) ==
    /\ readBuf' = [readBuf EXCEPT ![fd] = <<>>]
    /\ writeLen' = [writeLen EXCEPT ![fd] = 0]
    /\ UNCHANGED writeBuf

srv_accept ==
    /\ At(serv) /\ serv \in pollin
    /\ pollin' = pollin \ {serv}
    /\ waiting' = waiting - 1
    /\ \E fd \in Fds \ client :
           /\ \A f \in 1..fd - 1 : f \in client      \* the lowest descriptor
           /\ clean_fd(fd)
           /\ client' = client \cup {fd}
           /\ blank' = IF strlen(writeBuf[fd]) = 0 THEN blank \cup {fd} ELSE blank
    /\ UNCHANGED <<pc, pollout, socket, gone, typed, conns, owed, sent, dropped>>

\* accept fails, for want of a descriptor or because the peer is gone: X exits.
AcceptFails ==
    /\ At(serv) /\ serv \in pollin
    /\ pc' = "exited"
    /\ UNCHANGED <<slotVars, pollin, pollout, peerVars, histVars>>

\* close and clean_fd; the history of the connection ends.
CloseClient(fd) ==
    /\ client' = client \ {fd}
    /\ clean_fd(fd)
    /\ socket' = [socket EXCEPT ![fd] = <<>>]
    /\ gone' = gone \ {fd}
    /\ owed' = [owed EXCEPT ![fd] = <<>>]
    /\ sent' = [sent EXCEPT ![fd] = <<>>]
    /\ dropped' = [dropped EXCEPT ![fd] = 0]
    /\ blank' = blank \ {fd}
    /\ UNCHANGED <<waiting, typed, conns>>

\* The line is too long for the buffer, recv returned 0, or it failed.
client_read_Closes(fd) ==
    /\ fd \in pollin \ {serv} /\ At(fd)
    /\ Len(readBuf[fd]) = BUF_SIZE \/ fd \in gone
    /\ pollin' = pollin \ {fd}
    /\ CloseClient(fd)
    /\ UNCHANGED <<pc, pollout>>

\* read_and_store; the lines are extract_and_consume's.
client_read(fd) ==
    /\ fd \in pollin \ {serv} /\ At(fd)
    /\ pollin' = pollin \ {fd}
    /\ \E n \in 1..BUF_SIZE - Len(readBuf[fd]) :
           /\ n <= Len(socket[fd])
           /\ readBuf' = [readBuf EXCEPT ![fd] = @ \o SubSeq(socket[fd], 1, n)]
           /\ socket' = [socket EXCEPT ![fd] = SubSeq(@, n + 1, Len(@))]
    /\ UNCHANGED <<pc, client, writeBuf, writeLen, pollout, waiting, gone, typed, conns, histVars>>

\* Slips: a message that fills the buffer does not fit; one that is a byte too long does.
Fits_Strict(fd, msg) == writeLen[fd] + Len(msg) < BUF_SIZE
Fits_OffByOne(fd, msg) == writeLen[fd] + Len(msg) <= BUF_SIZE + 1

Fits(fd, msg) == writeLen[fd] + Len(msg) <= BUF_SIZE

\* msg with its CR LF goes to all other clients that have room for it.
broadcast_message(from, msg) ==
    LET to == {fd \in client \ {from} : Fits(fd, msg)}
    IN  /\ writeBuf' = [fd \in Fds |-> IF fd \in to THEN strlcat(writeBuf[fd], msg) ELSE writeBuf[fd]]
        /\ writeLen' = [fd \in Fds |-> IF fd \in to THEN writeLen[fd] + Len(msg) ELSE writeLen[fd]]
        /\ owed' = [fd \in Fds |-> IF fd \in to THEN owed[fd] \o msg ELSE owed[fd]]
        /\ dropped' = [fd \in Fds |-> IF fd \in client \ (to \cup {from})
                                      THEN dropped[fd] + 1 ELSE dropped[fd]]

extract_and_consume(fd) ==
    /\ pc = "loop"
    /\ \E p \in 2..Len(readBuf[fd]) :
           /\ CrlfEnd(readBuf[fd], p)
           /\ broadcast_message(fd, SubSeq(readBuf[fd], 1, p))
           /\ readBuf' = [readBuf EXCEPT ![fd] = SubSeq(@, p + 1, Len(@))]
    /\ UNCHANGED <<pc, client, pollin, pollout, peerVars, sent, blank>>

\* A slip: the NUL at the end is not moved along.
Consumed_NoNul(fd, n) == memmove(writeBuf[fd], n, writeLen[fd] - n)

\* What is left in buf_write when n bytes are sent.
Consumed(fd, n) == memmove(writeBuf[fd], n, writeLen[fd] - n + 1)

client_write(fd) ==
    /\ fd \in pollout \ pollin /\ At(fd) /\ fd \in client
    /\ pollout' = pollout \ {fd}
    /\ \/ /\ writeLen[fd] = 0
          /\ UNCHANGED <<slotVars, peerVars, histVars>>
       \/ /\ fd \in gone /\ writeLen[fd] # 0      \* send fails
          /\ CloseClient(fd)
       \/ /\ \E n \in 1..writeLen[fd] :
                 /\ sent' = [sent EXCEPT ![fd] = @ \o Cells(writeBuf[fd], n)]
                 /\ writeBuf' = [writeBuf EXCEPT ![fd] = Consumed(fd, n)]
                 /\ writeLen' = [writeLen EXCEPT ![fd] = @ - n]
          /\ UNCHANGED <<client, readBuf, peerVars, owed, dropped, blank>>
    /\ UNCHANGED <<pc, pollin>>

\* The peer had closed and then reset the connection: send raises SIGPIPE, which
\* nothing ignores.
client_write_Killed(fd) ==
    /\ fd \in pollout \ pollin /\ At(fd) /\ fd \in client \cap gone /\ writeLen[fd] # 0
    /\ pc' = "killed"
    /\ UNCHANGED <<slotVars, pollin, pollout, peerVars, histVars>>

\* fct_read has closed the slot: fct_write is NULL.
client_write_Null(fd) ==
    /\ fd \in pollout \ pollin /\ At(fd) /\ fd \notin client
    /\ pc' = "crashed"
    /\ UNCHANGED <<slotVars, pollin, pollout, peerVars, histVars>>

--------------------------------------------------------------------------------
Connect ==
    /\ pc = "loop" /\ conns < MaxConns
    /\ conns' = conns + 1 /\ waiting' = waiting + 1
    /\ UNCHANGED <<pc, slotVars, pollin, pollout, socket, gone, typed, histVars>>

PeerTypes(fd) ==
    /\ pc = "loop" /\ fd \in client \ gone /\ typed < MaxTyped
    /\ \E b \in Byte : socket' = [socket EXCEPT ![fd] = Append(@, b)]
    /\ typed' = typed + 1
    /\ UNCHANGED <<pc, slotVars, pollin, pollout, waiting, gone, conns, histVars>>

PeerCloses(fd) ==
    /\ pc = "loop" /\ fd \in client \ gone
    /\ gone' = gone \cup {fd}
    /\ UNCHANGED <<pc, slotVars, pollin, pollout, waiting, socket, typed, conns, histVars>>

Next ==
    \/ init_fd_Full \/ do_select \/ srv_accept \/ AcceptFails
    \/ \E fd \in Fds : \/ client_read(fd) \/ client_read_Closes(fd) \/ extract_and_consume(fd)
                       \/ client_write(fd) \/ client_write_Killed(fd) \/ client_write_Null(fd)
    \/ Connect
    \/ \E fd \in Fds : PeerTypes(fd) \/ PeerCloses(fd)

Spec == Init /\ [][Next]_vars

--------------------------------------------------------------------------------
\* The fixed buffers are never overrun, whatever was left in a slot by its former
\* client: what is in use fits, and buf_write has a NUL that strlen finds
\* (read_and_store, broadcast_message, client_write).  The first client of a slot
\* finds what malloc returned (clean_fd clears no bytes), which is taken to be zero.
BuffersInBounds ==
    \A fd \in Fds :
        /\ Len(readBuf[fd]) <= BUF_SIZE
        /\ writeLen[fd] \in 0..BUF_SIZE
        /\ \E i \in 0..BUF_SIZE : writeBuf[fd][i] = "NUL"

\* A client that came to an empty slot gets the messages that were accepted for it,
\* byte by byte and in order, however send cuts them (broadcast_message, client_write).
\* A slot is empty for its first client only because malloc's memory is taken to be zero.
MessagesIntact ==
    \A fd \in client \cap blank :
        /\ sent[fd] \o Cells(writeBuf[fd], writeLen[fd]) = owed[fd]
        /\ strlen(writeBuf[fd]) = writeLen[fd]

\* Only a client that has not taken an earlier message loses one: every line that
\* client_read accepts fits into an empty buffer (broadcast_message).
DropsOnlyBehindOthers ==
    [][\A fd \in Fds : dropped'[fd] > dropped[fd] => writeLen[fd] > 0]_vars

\* The comment in broadcast_message, and bircd_learning_curriculum.md: POLLOUT is set
\* for the clients with buf_write_len > 0.
PolloutMeansPending == \A fd \in client : fd \in Armed <=> writeLen[fd] > 0
================================================================================
