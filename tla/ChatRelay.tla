-------------------------------- MODULE ChatRelay --------------------------------
(******************************************************************************)
(* What mini_serv promises (the assignment, mini_serv.txt): clients that come *)
(* and go, a number for each, and every line of one reaching the others.      *)
(*                                                                            *)
(* A client is named by its number.  What it is owed is a queue of messages;  *)
(* it may take its time to read them and is never dropped for that.           *)
(******************************************************************************)
EXTENDS Integers, Sequences

CONSTANTS MaxId, Line

VARIABLES
    nextId,     \* the number of the next client
    online,     \* the clients that are connected
    hungUp,     \* those of them whose peer has closed
    typed,      \* by client: the lines it has typed and the server has not relayed
    due,        \* by client: the messages it has not read
    received    \* by client: the messages it has read, all in order

vars == <<nextId, online, hungUp, typed, due, received>>

Id == 0..MaxId - 1

Arrived(i) == [kind |-> "arrived", id |-> i, line |-> <<>>]
Said(i, l) == [kind |-> "said", id |-> i, line |-> l]
Left(i)    == [kind |-> "left", id |-> i, line |-> <<>>]

Init ==
    /\ nextId = 0 /\ online = {} /\ hungUp = {}
    /\ typed = [i \in Id |-> <<>>]
    /\ due = [i \in Id |-> <<>>]
    /\ received = [i \in Id |-> <<>>]

\* The messages ms go to the clients of set S.
Owe(S, ms) == [i \in Id |-> IF i \in S THEN due[i] \o ms ELSE due[i]]

Arrive ==
    /\ nextId < MaxId
    /\ nextId' = nextId + 1
    /\ online' = online \cup {nextId}
    /\ due' = Owe(online, <<Arrived(nextId)>>)
    /\ UNCHANGED <<hungUp, typed, received>>

Type(i) ==
    /\ i \in online \ hungUp
    /\ \E l \in Line : typed' = [typed EXCEPT ![i] = Append(@, l)]
    /\ UNCHANGED <<nextId, online, hungUp, due, received>>

\* Several lines may be relayed at once, the first ones first.
Relay(i) ==
    /\ i \in online
    /\ \E n \in 1..Len(typed[i]) :
           /\ due' = Owe(online \ {i}, [k \in 1..n |-> Said(i, typed[i][k])])
           /\ typed' = [typed EXCEPT ![i] = SubSeq(@, n + 1, Len(@))]
    /\ UNCHANGED <<nextId, online, hungUp, received>>

Read(i) ==
    /\ i \in online
    /\ \E n \in 1..Len(due[i]) :
           /\ received' = [received EXCEPT ![i] = @ \o SubSeq(due[i], 1, n)]
           /\ due' = [due EXCEPT ![i] = SubSeq(@, n + 1, Len(@))]
    /\ UNCHANGED <<nextId, online, hungUp, typed>>

HangUp(i) ==
    /\ i \in online \ hungUp
    /\ hungUp' = hungUp \cup {i}
    /\ UNCHANGED <<nextId, online, typed, due, received>>

\* Only a client that has hung up leaves.
Leave(i) ==
    /\ i \in hungUp
    /\ online' = online \ {i} /\ hungUp' = hungUp \ {i}
    /\ typed' = [typed EXCEPT ![i] = <<>>]
    /\ due' = [Owe(online \ {i}, <<Left(i)>>) EXCEPT ![i] = <<>>]
    /\ UNCHANGED <<nextId, received>>

Next ==
    \/ Arrive
    \/ \E i \in Id : Type(i) \/ Relay(i) \/ Read(i) \/ HangUp(i) \/ Leave(i)

Spec == Init /\ [][Next]_vars
================================================================================
