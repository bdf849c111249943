------------------------------ MODULE HealthMonitor ------------------------------
(******************************************************************************)
(* ConnectionHealthMonitor with the calls Server makes of it: which clients   *)
(* are waited for, and which of them have been waited for too long.           *)
(*                                                                            *)
(* Time is one clock in whole seconds, as time() gives it, and every call     *)
(* reads it.  A peer may send a PONG with any token at any time: in time, at  *)
(* the limit, late, twice, for an older PING, or of another client.           *)
(* generatePing is called at any time for any client, waited for or not       *)
(* (nothing in src/ calls it yet).                                            *)
(* lastActivity and lastPongReceivedAt are written and never read: left out.  *)
(******************************************************************************)
EXTENDS Integers, Sequences

CONSTANTS
    Fds,
    TimeoutSeconds,   \* _timeoutSeconds
    MaxTime,          \* bound: the clock
    MaxLog            \* bound: PINGs and PONGs of one connection

ASSUME HealthAssumption == {TimeoutSeconds, MaxTime, MaxLog} \subseteq Nat

VARIABLES
    now,      \* what std::time(NULL) returns
    up,       \* the fds that have a Connection
    clients,  \* _clients: the HealthState of each fd in its domain
    log       \* history: the PINGs sent and the PONGs read on each connection

vars == <<now, up, clients, log>>

Time == 0..MaxTime

NoToken == <<>>

\* The fd and the second.
makePingToken(fd) == <<fd, now>>

NewHealthState == [waitingForPong |-> FALSE, lastPingSentAt |-> 0, expectedPongToken |-> NoToken]

Init ==
    /\ now = 0
    /\ up = {}
    /\ clients = <<>>
    /\ log = [fd \in Fds |-> <<>>]

--------------------------------------------------------------------------------
getOrCreateState(fd) == IF fd \in DOMAIN clients THEN clients[fd] ELSE NewHealthState

WithState(fd, s) == [f \in DOMAIN clients \cup {fd} |-> IF f = fd THEN s ELSE clients[f]]

isWaitingForPong(fd) == fd \in DOMAIN clients /\ clients[fd].waitingForPong

\* A slip: those who are waited for are spared.
hasTimedOut_Inverted(fd) ==
    /\ fd \in DOMAIN clients /\ ~clients[fd].waitingForPong
    /\ now - clients[fd].lastPingSentAt > TimeoutSeconds

hasTimedOut(fd) ==
    isWaitingForPong(fd) /\ now - clients[fd].lastPingSentAt > TimeoutSeconds

collectTimedOutClients == {fd \in DOMAIN clients : hasTimedOut(fd)}

removeClients(fds) == [f \in DOMAIN clients \ fds |-> clients[f]]

--------------------------------------------------------------------------------
\* _acceptClient: the monitor is not told.
Accept(fd) ==
    /\ fd \notin up
    /\ up' = up \cup {fd}
    /\ UNCHANGED <<now, clients, log>>

generatePing(fd) ==
    /\ fd \in up /\ Len(log[fd]) < MaxLog
    /\ clients' = WithState(fd, [waitingForPong |-> TRUE, lastPingSentAt |-> now,
                                 expectedPongToken |-> makePingToken(fd)])
    /\ log' = [log EXCEPT ![fd] = Append(@, <<"PING", makePingToken(fd)>>)]
    /\ UNCHANGED <<now, up>>

\* A slip: any PONG will do.
markPongReceived_AnyToken(fd, token) ==
    IF getOrCreateState(fd).waitingForPong
    THEN WithState(fd, [getOrCreateState(fd) EXCEPT !.waitingForPong = FALSE,
                                                    !.expectedPongToken = NoToken])
    ELSE WithState(fd, getOrCreateState(fd))

markPongReceived(fd, token) ==
    LET s == getOrCreateState(fd)
    IN  IF s.waitingForPong /\ token = s.expectedPongToken
        THEN WithState(fd, [s EXCEPT !.waitingForPong = FALSE, !.expectedPongToken = NoToken])
        ELSE WithState(fd, s)

\* _handleRead with a PONG: updateActivity, and handlePong with its last parameter.
ReadPong(fd) ==
    /\ fd \in up /\ Len(log[fd]) < MaxLog
    /\ \E token \in Fds \X (0..now) :
           /\ clients' = markPongReceived(fd, token)
           /\ log' = [log EXCEPT ![fd] = Append(@, <<"PONG", token>>)]
    /\ UNCHANGED <<now, up>>

\* _handleRead with anything else, a PONG without parameter included: updateActivity.
ReadLine(fd) ==
    /\ fd \in up
    /\ clients' = WithState(fd, getOrCreateState(fd))
    /\ UNCHANGED <<now, up, log>>

\* _disconnectClient, for QUIT, EOF or an error.
Disconnect(fd) ==
    /\ fd \in up
    /\ up' = up \ {fd}
    /\ clients' = removeClients({fd})
    /\ log' = [log EXCEPT ![fd] = <<>>]
    /\ UNCHANGED now

\* The end of an iteration of run: "Ping timeout" for each.
Timeouts ==
    /\ collectTimedOutClients # {}
    /\ up' = up \ collectTimedOutClients
    /\ clients' = removeClients(collectTimedOutClients)
    /\ log' = [fd \in Fds |-> IF fd \in collectTimedOutClients THEN <<>> ELSE log[fd]]
    /\ UNCHANGED now

Tick ==
    /\ now < MaxTime
    /\ now' = now + 1
    /\ UNCHANGED <<up, clients, log>>

Next ==
    \/ \E fd \in Fds : \/ Accept(fd) \/ generatePing(fd)
                       \/ ReadPong(fd) \/ ReadLine(fd) \/ Disconnect(fd)
    \/ Timeouts
    \/ Tick

Spec == Init /\ [][Next]_vars

\* Time passes, and run comes to the end of its iteration: poll waits at most 1000 ms.
FairSpec == Spec /\ WF_vars(Tick) /\ WF_vars(Timeouts)

--------------------------------------------------------------------------------
\* The PINGs of this connection that no PONG with their token followed.
Unanswered(fd) ==
    {i \in DOMAIN log[fd] :
        /\ log[fd][i][1] = "PING"
        /\ \A j \in i + 1..Len(log[fd]) : log[fd][j] # <<"PONG", log[fd][i][2]>>}

LastPing(fd, i) ==
    log[fd][i][1] = "PING" /\ \A j \in i + 1..Len(log[fd]) : log[fd][j][1] # "PING"

\* The clients that are dropped for a timeout are exactly those whose connection was
\* sent a PING, got no answer to the last one, and sent it more than the timeout ago:
\* not one too early, none for the PING of an earlier connection on its fd or for an
\* answer to another PING, none forgotten (hasTimedOut, markPongReceived, removeClient).
TimeoutsExact ==
    collectTimedOutClients =
        {fd \in up : \E i \in Unanswered(fd) :
                         LastPing(fd, i) /\ now - log[fd][i][2][2] > TimeoutSeconds}

\* A client that a PING is waiting for answers it, is sent a later one or is dropped:
\* no PING is forgotten, whatever the other clients do (collectTimedOutClients at the
\* end of every iteration of run).  A caller that sends PINGs faster than the timeout
\* restarts the clock each time (generatePing), hence "or is sent a later one".
SilentPeersDropped ==
    \A fd \in Fds, t \in Time :
        LET waits == isWaitingForPong(fd) /\ clients[fd].lastPingSentAt = t
        IN  t + TimeoutSeconds < MaxTime => (waits ~> ~waits)
================================================================================
