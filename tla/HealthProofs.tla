------------------------------ MODULE HealthProofs ------------------------------
(******************************************************************************)
(* The proofs about HealthMonitor: whatever PONGs arrive and whenever PINGs   *)
(* are sent, exactly the clients that owe an answer for too long time out.    *)
(******************************************************************************)
EXTENDS HealthMonitor, SequenceTheorems, TLAPS

Token == Fds \X Nat
LogEntry == {"PING", "PONG"} \X Token
HealthState == [waitingForPong: BOOLEAN, lastPingSentAt: Nat, expectedPongToken: Token \cup {NoToken}]

\* Entry k of the log l is its last PING, and no PONG behind it has its token.
Waits(l, k) ==
    /\ k \in DOMAIN l /\ l[k][1] = "PING"
    /\ \A j \in k + 1..Len(l) : l[j] # <<"PONG", l[k][2]>> /\ l[j][1] # "PING"

--------------------------------------------------------------------------------
(* The inductive invariant. *)

TypeOK ==
    /\ now \in Nat
    /\ up \in SUBSET Fds
    /\ DOMAIN clients \in SUBSET up
    /\ clients \in [DOMAIN clients -> HealthState]
    /\ log \in [Fds -> Seq(LogEntry)]

\* A closed connection leaves no PING behind for the next one on its fd.
LogsEnd == \A fd \in Fds \ up : log[fd] = <<>>

\* The state of a client is that of its last PING.
StateIsLastPing ==
    \A fd \in Fds :
        /\ isWaitingForPong(fd) => \E k \in DOMAIN log[fd] : Waits(log[fd], k)
        /\ \A k \in DOMAIN log[fd] : Waits(log[fd], k) =>
               /\ isWaitingForPong(fd)
               /\ clients[fd].expectedPongToken = log[fd][k][2]
               /\ clients[fd].lastPingSentAt = log[fd][k][2][2]

Inv == TypeOK /\ LogsEnd /\ StateIsLastPing

--------------------------------------------------------------------------------
(* What an entry does to a log. *)

\* A log with one entry more.
LEMMA Longer ==
  ASSUME NEW l \in Seq(LogEntry), NEW e \in LogEntry
  PROVE  /\ Append(l, e) \in Seq(LogEntry)
         /\ Len(l) \in Nat /\ Len(Append(l, e)) = Len(l) + 1
         /\ DOMAIN l = 1..Len(l) /\ DOMAIN Append(l, e) = 1..Len(l) + 1
         /\ \A k \in 1..Len(l) : Append(l, e)[k] = l[k]
         /\ Append(l, e)[Len(l) + 1] = e
  BY AppendProperties, LenProperties

\* A PING is the one that is waited for from then on.
LEMMA PingWaits ==
  ASSUME NEW l \in Seq(LogEntry), NEW t \in Token, NEW k \in 1..Len(l) + 1
  PROVE  Waits(Append(l, <<"PING", t>>), k) <=> k = Len(l) + 1
<1> DEFINE e == <<"PING", t>>
           m == Append(l, e)
<1>1. e \in LogEntry /\ e[1] = "PING"
  BY DEF LogEntry
<1> HIDE DEF e
<1>2. /\ Len(l) \in Nat /\ Len(m) = Len(l) + 1 /\ DOMAIN m = 1..Len(l) + 1
      /\ m[Len(l) + 1] = e
  BY <1>1, Longer
<1> HIDE DEF m
<1>3. CASE k = Len(l) + 1
  BY <1>1, <1>2, <1>3 DEF Waits
<1>4. CASE k # Len(l) + 1
  <2>1. Len(l) + 1 \in k + 1..Len(m)
    BY <1>2, <1>4
  <2> QED BY <1>1, <1>2, <1>4, <2>1 DEF Waits
<1> QED BY <1>3, <1>4 DEF m, e

\* A PONG ends the wait for the PING with its token and for no other.
LEMMA PongWaits ==
  ASSUME NEW l \in Seq(LogEntry), NEW t \in Token, NEW k \in 1..Len(l) + 1
  PROVE  Waits(Append(l, <<"PONG", t>>), k) <=> k \in DOMAIN l /\ Waits(l, k) /\ l[k][2] # t
<1> DEFINE e == <<"PONG", t>>
           m == Append(l, e)
<1>1. /\ e \in LogEntry /\ e[1] # "PING" /\ \A u : e = <<"PONG", u>> <=> u = t
  BY DEF LogEntry
<1> HIDE DEF e
<1>2. /\ Len(l) \in Nat /\ Len(m) = Len(l) + 1 /\ DOMAIN m = 1..Len(l) + 1 /\ DOMAIN l = 1..Len(l)
      /\ m[Len(l) + 1] = e /\ \A j \in 1..Len(l) : m[j] = l[j]
  BY <1>1, Longer
<1> HIDE DEF m
<1>3. CASE k = Len(l) + 1
  BY <1>1, <1>2, <1>3 DEF Waits
<1>4. CASE k \in 1..Len(l)
  <2>1. m[k] = l[k]
    BY <1>2, <1>4
  <2>2. \A j : j \in k + 1..Len(m) <=> j \in k + 1..Len(l) \/ j = Len(l) + 1
    BY <1>2, <1>4
  <2>3. \A j \in k + 1..Len(l) : m[j] = l[j]
    BY <1>2, <1>4
  <2> QED BY <1>1, <1>2, <1>4, <2>1, <2>2, <2>3 DEF Waits
<1> QED BY <1>2, <1>3, <1>4 DEF m, e

--------------------------------------------------------------------------------
(* One lemma per operation. *)

\* The states of the clients are well-formed before and after WithState.
LEMMA WithStateType ==
  ASSUME TypeOK, NEW fd \in up,
         NEW s \in HealthState
  PROVE  /\ DOMAIN WithState(fd, s) = DOMAIN clients \cup {fd}
         /\ DOMAIN WithState(fd, s) \in SUBSET up
         /\ WithState(fd, s) \in [DOMAIN WithState(fd, s) -> HealthState]
         /\ WithState(fd, s)[fd] = s
         /\ \A f \in DOMAIN clients \ {fd} : WithState(fd, s)[f] = clients[f]
  BY DEF WithState, TypeOK

\* A step on one connection that leaves the log and the state of the others alone.
LEMMA OthersKeep ==
  ASSUME Inv, NEW fd \in Fds,
         \A f \in Fds \ {fd} : /\ log'[f] = log[f]
                               /\ f \in DOMAIN clients' <=> f \in DOMAIN clients
                               /\ f \in DOMAIN clients => clients'[f] = clients[f],
         /\ isWaitingForPong(fd)' => \E k \in DOMAIN log'[fd] : Waits(log'[fd], k)
         /\ \A k \in DOMAIN log'[fd] : Waits(log'[fd], k) =>
                /\ isWaitingForPong(fd)'
                /\ clients'[fd].expectedPongToken = log'[fd][k][2]
                /\ clients'[fd].lastPingSentAt = log'[fd][k][2][2]
  PROVE  StateIsLastPing'
<1> SUFFICES ASSUME NEW f \in Fds
             PROVE  /\ isWaitingForPong(f)' => \E k \in DOMAIN log'[f] : Waits(log'[f], k)
                    /\ \A k \in DOMAIN log'[f] : Waits(log'[f], k) =>
                           /\ isWaitingForPong(f)'
                           /\ clients'[f].expectedPongToken = log'[f][k][2]
                           /\ clients'[f].lastPingSentAt = log'[f][k][2][2]
  BY DEF StateIsLastPing
<1>1. CASE f = fd
  BY <1>1
<1>2. CASE f # fd
  <2>1. /\ isWaitingForPong(f)' <=> isWaitingForPong(f)
        /\ isWaitingForPong(f) => clients'[f] = clients[f]
        /\ log'[f] = log[f]
    BY <1>2 DEF isWaitingForPong
  <2> QED BY <1>2, <2>1 DEF Inv, StateIsLastPing
<1> QED BY <1>1, <1>2

\* generatePing
LEMMA PingInv == \A fd \in Fds : Inv /\ generatePing(fd) => Inv'
<1> SUFFICES ASSUME NEW fd \in Fds, Inv, generatePing(fd) PROVE Inv'
  OBVIOUS
<1> DEFINE t == makePingToken(fd)
           s == [waitingForPong |-> TRUE, lastPingSentAt |-> now, expectedPongToken |-> t]
<1>1. /\ fd \in up /\ clients' = WithState(fd, s) /\ UNCHANGED <<now, up>>
      /\ log' = [log EXCEPT ![fd] = Append(@, <<"PING", t>>)]
      /\ TypeOK /\ log[fd] \in Seq(LogEntry)
  BY DEF generatePing, Inv, TypeOK
<1>2. t \in Token /\ t[2] = now
  BY DEF makePingToken, Token, Inv, TypeOK
<1>3. /\ s \in HealthState /\ s.waitingForPong /\ s.lastPingSentAt = now /\ s.expectedPongToken = t
  BY <1>1, <1>2 DEF TypeOK, HealthState
<1> HIDE DEF s, t
<1> DEFINE e == <<"PING", t>>
<1>4. e \in LogEntry /\ e[2] = t
  BY <1>2 DEF LogEntry
<1>5. /\ Append(log[fd], e) \in Seq(LogEntry) /\ DOMAIN Append(log[fd], e) = 1..Len(log[fd]) + 1
      /\ Append(log[fd], e)[Len(log[fd]) + 1] = e /\ Len(log[fd]) \in Nat
  BY <1>1, <1>4, Longer
<1>6. \A k \in 1..Len(log[fd]) + 1 : Waits(Append(log[fd], e), k) <=> k = Len(log[fd]) + 1
  BY <1>1, <1>2, PingWaits
<1> HIDE DEF e
<1>7. /\ log' \in [Fds -> Seq(LogEntry)] /\ log'[fd] = Append(log[fd], e)
      /\ \A f \in Fds \ {fd} : log'[f] = log[f]
  BY <1>1, <1>5 DEF TypeOK, e
<1>8. /\ DOMAIN clients' = DOMAIN clients \cup {fd} /\ DOMAIN clients' \in SUBSET up
      /\ clients' \in [DOMAIN clients' -> HealthState]
      /\ clients'[fd] = s /\ \A f \in DOMAIN clients \ {fd} : clients'[f] = clients[f]
  BY <1>1, <1>3, WithStateType, ZenonT(40)
<1>9. isWaitingForPong(fd)'
  BY <1>3, <1>8 DEF isWaitingForPong
<1>10. StateIsLastPing'
  <2>1. /\ \E k \in DOMAIN log'[fd] : Waits(log'[fd], k)
        /\ \A k \in DOMAIN log'[fd] : Waits(log'[fd], k) => log'[fd][k][2] = t
    BY <1>4, <1>5, <1>6, <1>7
  <2>2. \A f \in Fds \ {fd} : /\ log'[f] = log[f]
                              /\ f \in DOMAIN clients' <=> f \in DOMAIN clients
                              /\ f \in DOMAIN clients => clients'[f] = clients[f]
    BY <1>7, <1>8
  <2>3. clients'[fd].expectedPongToken = t /\ clients'[fd].lastPingSentAt = t[2]
    BY <1>2, <1>3, <1>8
  <2> QED BY <1>9, <2>1, <2>2, <2>3, OthersKeep
<1>11. TypeOK' /\ LogsEnd'
  BY <1>1, <1>7, <1>8 DEF TypeOK, LogsEnd, Inv
<1> QED BY <1>10, <1>11 DEF Inv

\* getOrCreateState returns the state of a client, or that of one nobody waits for.
LEMMA StateType ==
  ASSUME TypeOK, NEW fd
  PROVE  /\ getOrCreateState(fd) \in HealthState
         /\ getOrCreateState(fd).waitingForPong <=> isWaitingForPong(fd)
         /\ isWaitingForPong(fd) => getOrCreateState(fd) = clients[fd]
  BY DEF TypeOK, getOrCreateState, isWaitingForPong, NewHealthState, HealthState

\* ReadLine creates at most a state nobody waits for.
LEMMA LineInv == \A fd \in Fds : Inv /\ ReadLine(fd) => Inv'
<1> SUFFICES ASSUME NEW fd \in Fds, Inv, ReadLine(fd) PROVE Inv'
  OBVIOUS
<1> DEFINE s == getOrCreateState(fd)
<1>1. TypeOK /\ fd \in up /\ clients' = WithState(fd, s) /\ UNCHANGED <<now, up, log>>
  BY DEF ReadLine, Inv
<1>2. /\ s \in HealthState /\ (s.waitingForPong <=> isWaitingForPong(fd))
      /\ isWaitingForPong(fd) => s = clients[fd]
  BY <1>1, StateType
<1> HIDE DEF s
<1>3. /\ DOMAIN clients' = DOMAIN clients \cup {fd} /\ DOMAIN clients' \in SUBSET up
      /\ clients' \in [DOMAIN clients' -> HealthState]
      /\ clients'[fd] = s /\ \A f \in DOMAIN clients \ {fd} : clients'[f] = clients[f]
  BY <1>1, <1>2, WithStateType
<1>4. TypeOK' /\ LogsEnd'
  BY <1>1, <1>3 DEF TypeOK, LogsEnd, Inv
<1>5. isWaitingForPong(fd)' <=> isWaitingForPong(fd)
  BY <1>2, <1>3 DEF isWaitingForPong
<1>6. StateIsLastPing'
  <2>1. \A f \in Fds \ {fd} : /\ log'[f] = log[f]
                              /\ f \in DOMAIN clients' <=> f \in DOMAIN clients
                              /\ f \in DOMAIN clients => clients'[f] = clients[f]
    BY <1>1, <1>3
  <2>2. /\ isWaitingForPong(fd)' => \E k \in DOMAIN log'[fd] : Waits(log'[fd], k)
        /\ \A k \in DOMAIN log'[fd] : Waits(log'[fd], k) =>
               /\ isWaitingForPong(fd)'
               /\ clients'[fd].expectedPongToken = log'[fd][k][2]
               /\ clients'[fd].lastPingSentAt = log'[fd][k][2][2]
    BY <1>1, <1>2, <1>3, <1>5 DEF Inv, StateIsLastPing
  <2> QED BY <2>1, <2>2, OthersKeep
<1> QED BY <1>4, <1>6 DEF Inv

\* ReadPong ends the wait exactly if the token is that of the last PING.
LEMMA PongInv == \A fd \in Fds : Inv /\ ReadPong(fd) => Inv'
<1> SUFFICES ASSUME NEW fd \in Fds, Inv, ReadPong(fd) PROVE Inv'
  OBVIOUS
<1>1. PICK token \in Fds \X (0..now) :
         /\ clients' = markPongReceived(fd, token)
         /\ log' = [log EXCEPT ![fd] = Append(@, <<"PONG", token>>)]
  BY DEF ReadPong
<1>2. TypeOK /\ fd \in up /\ UNCHANGED <<now, up>> /\ log[fd] \in Seq(LogEntry)
  BY DEF ReadPong, Inv, TypeOK
<1>3. token \in Token
  BY <1>2 DEF Token, TypeOK
<1> DEFINE e == <<"PONG", token>>
           s == getOrCreateState(fd)
           ends == s.waitingForPong /\ token = s.expectedPongToken
           r == IF ends THEN [s EXCEPT !.waitingForPong = FALSE, !.expectedPongToken = NoToken] ELSE s
<1>4. e \in LogEntry
  BY <1>3 DEF LogEntry
<1>5. /\ Append(log[fd], e) \in Seq(LogEntry) /\ DOMAIN Append(log[fd], e) = 1..Len(log[fd]) + 1
      /\ Len(log[fd]) \in Nat /\ DOMAIN log[fd] = 1..Len(log[fd])
      /\ \A k \in 1..Len(log[fd]) : Append(log[fd], e)[k] = log[fd][k]
  BY <1>2, <1>4, Longer
<1>6. \A k \in 1..Len(log[fd]) + 1 : Waits(Append(log[fd], e), k) <=>
          k \in DOMAIN log[fd] /\ Waits(log[fd], k) /\ log[fd][k][2] # token
  BY <1>2, <1>3, PongWaits
<1> HIDE DEF e
<1>7. /\ log' \in [Fds -> Seq(LogEntry)] /\ log'[fd] = Append(log[fd], e)
      /\ \A f \in Fds \ {fd} : log'[f] = log[f]
  BY <1>1, <1>2, <1>5 DEF TypeOK, e
<1>8. /\ s \in HealthState /\ (s.waitingForPong <=> isWaitingForPong(fd))
      /\ isWaitingForPong(fd) => s = clients[fd]
  BY <1>2, StateType
<1>9. clients' = WithState(fd, r)
  BY <1>1 DEF markPongReceived
<1> HIDE DEF s
<1>10. /\ r \in HealthState
       /\ r.waitingForPong <=> (isWaitingForPong(fd) /\ ~ends)
       /\ ~ends => r = s
  BY <1>8 DEF HealthState
<1> HIDE DEF r, ends
<1>11. /\ DOMAIN clients' = DOMAIN clients \cup {fd} /\ DOMAIN clients' \in SUBSET up
       /\ clients' \in [DOMAIN clients' -> HealthState]
       /\ clients'[fd] = r /\ \A f \in DOMAIN clients \ {fd} : clients'[f] = clients[f]
  <2>1. r \in HealthState /\ TypeOK /\ fd \in up
    BY <1>2, <1>10
  <2>2. /\ DOMAIN WithState(fd, r) = DOMAIN clients \cup {fd}
        /\ DOMAIN WithState(fd, r) \in SUBSET up
        /\ WithState(fd, r) \in [DOMAIN WithState(fd, r) -> HealthState]
        /\ WithState(fd, r)[fd] = r
        /\ \A f \in DOMAIN clients \ {fd} : WithState(fd, r)[f] = clients[f]
    BY <2>1, WithStateType, Zenon
  <2> QED BY <1>9, <2>2, Zenon
<1>12. TypeOK' /\ LogsEnd'
  BY <1>2, <1>7, <1>11 DEF TypeOK, LogsEnd, Inv
<1>13. isWaitingForPong(fd)' <=> isWaitingForPong(fd) /\ ~ends
  BY <1>10, <1>11 DEF isWaitingForPong
<1>14. StateIsLastPing'
  <2>1. \A f \in Fds \ {fd} : /\ log'[f] = log[f]
                              /\ f \in DOMAIN clients' <=> f \in DOMAIN clients
                              /\ f \in DOMAIN clients => clients'[f] = clients[f]
    BY <1>7, <1>11
  <2>2. /\ isWaitingForPong(fd) => \E k \in DOMAIN log[fd] : Waits(log[fd], k)
        /\ \A k \in DOMAIN log[fd] : Waits(log[fd], k) =>
               /\ isWaitingForPong(fd)
               /\ s.expectedPongToken = log[fd][k][2]
               /\ s.lastPingSentAt = log[fd][k][2][2]
    BY <1>8 DEF Inv, StateIsLastPing
  <2>3. ASSUME isWaitingForPong(fd)'
        PROVE  \E k \in DOMAIN log'[fd] : Waits(log'[fd], k)
    <3>1. PICK k \in DOMAIN log[fd] : Waits(log[fd], k)
      BY <1>13, <2>2, <2>3
    <3>2. log[fd][k][2] # token
      BY <1>8, <1>13, <2>2, <2>3, <3>1 DEF ends
    <3> QED BY <1>5, <1>6, <1>7, <3>1, <3>2
  <2>4. ASSUME NEW k \in DOMAIN log'[fd], Waits(log'[fd], k)
        PROVE  /\ isWaitingForPong(fd)'
               /\ clients'[fd].expectedPongToken = log'[fd][k][2]
               /\ clients'[fd].lastPingSentAt = log'[fd][k][2][2]
    <3>1. /\ k \in DOMAIN log[fd] /\ Waits(log[fd], k) /\ log[fd][k][2] # token
          /\ log'[fd][k] = log[fd][k]
      BY <1>5, <1>6, <1>7, <2>4
    <3>2. ~ends
      BY <2>2, <3>1 DEF ends
    <3> QED BY <1>10, <1>11, <1>13, <2>2, <3>1, <3>2
  <2> QED BY <2>1, <2>3, <2>4, OthersKeep
<1> QED BY <1>12, <1>14 DEF Inv

\* Connections that end, one or many: nothing of them is left.
LEMMA DropInv ==
  ASSUME Inv, NEW S \in SUBSET Fds,
         up' = up \ S, clients' = removeClients(S), UNCHANGED now,
         log' = [fd \in Fds |-> IF fd \in S THEN <<>> ELSE log[fd]]
  PROVE  Inv'
<1>1. TypeOK /\ log \in [Fds -> Seq(LogEntry)]
  BY DEF Inv, TypeOK
<1>2. /\ DOMAIN clients' = DOMAIN clients \ S
      /\ \A f \in DOMAIN clients' : clients'[f] = clients[f]
  BY DEF removeClients
<1>3. clients' \in [DOMAIN clients' -> HealthState]
  BY <1>1 DEF TypeOK, removeClients
<1>4. /\ log' \in [Fds -> Seq(LogEntry)]
      /\ \A f \in Fds : log'[f] = IF f \in S THEN <<>> ELSE log[f]
  BY <1>1
<1>5. TypeOK'
  BY <1>1, <1>2, <1>3, <1>4 DEF TypeOK
<1>6. LogsEnd'
  BY <1>4 DEF Inv, LogsEnd
<1>7. StateIsLastPing'
  <2> SUFFICES ASSUME NEW f \in Fds
               PROVE  /\ isWaitingForPong(f)' => \E k \in DOMAIN log'[f] : Waits(log'[f], k)
                      /\ \A k \in DOMAIN log'[f] : Waits(log'[f], k) =>
                             /\ isWaitingForPong(f)'
                             /\ clients'[f].expectedPongToken = log'[f][k][2]
                             /\ clients'[f].lastPingSentAt = log'[f][k][2][2]
    BY DEF StateIsLastPing
  <2>1. CASE f \in S
    <3>1. ~isWaitingForPong(f)' /\ DOMAIN log'[f] = {}
      BY <1>2, <1>4, <2>1 DEF isWaitingForPong
    <3> QED BY <3>1
  <2>2. CASE f \notin S
    <3>1. /\ isWaitingForPong(f)' <=> isWaitingForPong(f)
          /\ isWaitingForPong(f) => clients'[f] = clients[f]
          /\ log'[f] = log[f]
      BY <1>2, <1>4, <2>2 DEF isWaitingForPong
    <3> QED BY <3>1 DEF Inv, StateIsLastPing
  <2> QED BY <2>1, <2>2
<1> QED BY <1>5, <1>6, <1>7 DEF Inv

\* _disconnectClient for one client.
LEMMA DisconnectInv == \A fd \in Fds : Inv /\ Disconnect(fd) => Inv'
<1> SUFFICES ASSUME NEW fd \in Fds, Inv, Disconnect(fd) PROVE Inv'
  OBVIOUS
<1>1. /\ up' = up \ {fd} /\ clients' = removeClients({fd}) /\ UNCHANGED now
      /\ log' = [log EXCEPT ![fd] = <<>>] /\ {fd} \in SUBSET Fds
  BY DEF Disconnect
<1>2. log' = [f \in Fds |-> IF f \in {fd} THEN <<>> ELSE log[f]]
  BY <1>1 DEF Inv, TypeOK
<1> QED BY <1>1, <1>2, DropInv

\* The end of an iteration of run.
LEMMA TimeoutsInv == Inv /\ Timeouts => Inv'
<1> SUFFICES ASSUME Inv, Timeouts PROVE Inv'
  OBVIOUS
<1>1. collectTimedOutClients \in SUBSET Fds
  BY DEF Inv, TypeOK, collectTimedOutClients
<1> QED BY <1>1, DropInv DEF Timeouts

\* Every step keeps the invariant.
LEMMA NextInv == Inv /\ [Next]_vars => Inv'
<1> SUFFICES ASSUME Inv, [Next]_vars PROVE Inv'
  OBVIOUS
<1>1. ASSUME NEW fd \in Fds, Accept(fd) PROVE Inv'
  BY <1>1 DEF Accept, Inv, TypeOK, LogsEnd, StateIsLastPing, isWaitingForPong
<1>2. CASE Tick
  BY <1>2 DEF Tick, Inv, TypeOK, LogsEnd, StateIsLastPing, isWaitingForPong
<1>3. CASE UNCHANGED vars
  BY <1>3 DEF vars, Inv, TypeOK, LogsEnd, StateIsLastPing, isWaitingForPong
<1> QED BY <1>1, <1>2, <1>3, PingInv, PongInv, LineInv, DisconnectInv, TimeoutsInv DEF Next

--------------------------------------------------------------------------------
(* The theorems. *)

\* The monitor's state of a client is that of its last PING, at all times.
THEOREM Invariance == Spec => []Inv
<1>1. Init => Inv
  BY DEF Init, Inv, TypeOK, LogsEnd, StateIsLastPing, isWaitingForPong, Waits
<1> QED BY <1>1, NextInv, PTL DEF Spec

\* The clients that are dropped are exactly those that owe an answer to their last
\* PING for longer than the timeout, however PINGs, PONGs with right and wrong tokens,
\* disconnections and reused descriptors follow each other.
THEOREM Timely == Spec => []TimeoutsExact
<1>1. Inv => TimeoutsExact
  <2> SUFFICES ASSUME Inv, NEW fd
               PROVE  fd \in collectTimedOutClients <=>
                        /\ fd \in up
                        /\ \E k \in Unanswered(fd) :
                              LastPing(fd, k) /\ now - log[fd][k][2][2] > TimeoutSeconds
    BY DEF TimeoutsExact
  <2>1. ASSUME NEW f \in Fds, NEW k \in DOMAIN log[f]
        PROVE  Waits(log[f], k) <=> k \in Unanswered(f) /\ LastPing(f, k)
    BY DEF Waits, Unanswered, LastPing
  <2>2. \A f \in Fds : Unanswered(f) \subseteq DOMAIN log[f]
    BY DEF Unanswered
  <2>3. up \subseteq Fds /\ DOMAIN clients \subseteq up
    BY DEF Inv, TypeOK
  <2>4. ASSUME fd \in collectTimedOutClients
        PROVE  /\ fd \in up
               /\ \E k \in Unanswered(fd) :
                     LastPing(fd, k) /\ now - log[fd][k][2][2] > TimeoutSeconds
    <3>1. /\ fd \in DOMAIN clients /\ isWaitingForPong(fd)
          /\ now - clients[fd].lastPingSentAt > TimeoutSeconds
      BY <2>4 DEF collectTimedOutClients, hasTimedOut
    <3>2. PICK k \in DOMAIN log[fd] : Waits(log[fd], k)
      BY <2>3, <3>1 DEF Inv, StateIsLastPing
    <3>3. clients[fd].lastPingSentAt = log[fd][k][2][2]
      BY <2>3, <3>1, <3>2 DEF Inv, StateIsLastPing
    <3> QED BY <2>1, <2>3, <3>1, <3>2, <3>3
  <2>5. ASSUME fd \in up, NEW k \in Unanswered(fd),
               LastPing(fd, k), now - log[fd][k][2][2] > TimeoutSeconds
        PROVE  fd \in collectTimedOutClients
    <3>1. fd \in Fds /\ k \in DOMAIN log[fd] /\ Waits(log[fd], k)
      BY <2>1, <2>2, <2>3, <2>5
    <3>2. isWaitingForPong(fd) /\ clients[fd].lastPingSentAt = log[fd][k][2][2]
      BY <3>1 DEF Inv, StateIsLastPing
    <3> QED BY <2>5, <3>2 DEF collectTimedOutClients, hasTimedOut, isWaitingForPong
  <2> QED BY <2>4, <2>5
<1> QED BY <1>1, Invariance, PTL
================================================================================
