------------------------------ MODULE ServerProofs ------------------------------
(******************************************************************************)
(* The proofs about Server: for any descriptors, sizes of recv and of the     *)
(* buffers, the tables agree, POLLOUT is armed as needed, every ready         *)
(* descriptor is served, and no healthy connection is taken down.             *)
(******************************************************************************)
EXTENDS Server, FiniteSetTheorems, SequenceTheorems, WellFoundedInduction, TLAPS

Entry == [fd: Fd \cup {Listen}, events: SUBSET {"IN", "OUT"}, revents: SUBSET Event]

--------------------------------------------------------------------------------
(* The inductive invariant. *)

\* No descriptor is watched twice.
Distinct == \A j, k \in DOMAIN pollfds : pollfds[j].fd = pollfds[k].fd => j = k

\* What the scan has passed has been dealt with.
Scanned == \A j \in DOMAIN pollfds : pc # "scan" \/ j < i => pollfds[j].revents = {}

\* What poll reported of a client still holds when the scan comes to it; of the
\* listening socket it reports nothing but input.
NoStaleRevents ==
    \A j \in DOMAIN pollfds :
        /\ pollfds[j].fd = Listen => pollfds[j].revents \subseteq {"IN"}
        /\ pollfds[j].fd # Listen =>
               pollfds[j].revents \subseteq ClientReady(pollfds[j], sock[pollfds[j].fd])

\* No output is left behind for the next connection on a descriptor.
NoOrphanOutput == \A f \in Fd \ connections : sendBuffer[f] = 0

Inv == /\ TypeOK /\ TablesAgree /\ PolloutArmed
       /\ Distinct /\ Scanned /\ NoStaleRevents /\ NoOrphanOutput

--------------------------------------------------------------------------------
(* The operators of the model. *)

\* A set of numbers has a least one, and Min returns it.
LEMMA MinOfNumbers ==
  ASSUME NEW S \in SUBSET Nat, S # {}
  PROVE  Min(S) \in S /\ \A y \in S : Min(S) <= y
<1> DEFINE R == OpToRel(<, Nat)
<1>1. IsWellFoundedOn(R, Nat)
  BY NatLessThanWellFounded
<1>2. \A y, z \in Nat : y < z => <<y, z>> \in R
  BY DEF OpToRel
<1> HIDE DEF R
<1>3. PICK x \in S : \A y \in S : ~(<<y, x>> \in R)
  BY <1>1, WFMin
<1>4. \A y \in S : x <= y
  <2> SUFFICES ASSUME NEW y \in S PROVE x <= y
    OBVIOUS
  <2>1. x \in Nat /\ y \in Nat
    OBVIOUS
  <2>2. ~(y < x)
    BY <1>2, <1>3, <2>1
  <2> QED BY <2>1, <2>2
<1> QED BY <1>4 DEF Min

\* removeFd takes out the one entry of f: those before it stay, those behind it
\* move up by one.
LEMMA Removal ==
  ASSUME NEW pfds \in Seq(Entry), NEW k \in 1..Len(pfds),
         \A j \in 1..Len(pfds) : pfds[j].fd = pfds[k].fd => j = k
  PROVE  /\ removeFd(pfds, pfds[k].fd) \in Seq(Entry)
         /\ Len(removeFd(pfds, pfds[k].fd)) = Len(pfds) - 1
         /\ \A j \in 1..Len(pfds) - 1 :
                removeFd(pfds, pfds[k].fd)[j] = IF j < k THEN pfds[j] ELSE pfds[j + 1]
<1> DEFINE at == {j \in DOMAIN pfds : pfds[j].fd = pfds[k].fd}
<1>1. at = {k}
  OBVIOUS
<1>2. Min(at) = k
  BY <1>1 DEF Min
<1>3. removeFd(pfds, pfds[k].fd)
        = [j \in 1..Len(pfds) - 1 |-> IF j < k THEN pfds[j] ELSE pfds[j + 1]]
  BY <1>1, <1>2 DEF removeFd
<1> QED BY <1>3

\* Goto finds the next entry with something to do, if there is one.
LEMMA GotoNext ==
  ASSUME NEW j \in Nat, Goto(j), pollfds' \in Seq(Entry),
         \A k \in DOMAIN pollfds' : k < j => pollfds'[k].revents = {}
  PROVE  /\ pc' \in {"check", "scan"} /\ i' \in Nat \ {0}
         /\ pc' = "scan" => (i' \in DOMAIN pollfds' /\ pollfds'[i'].revents # {})
         /\ Scanned'
         /\ shutdown' = shutdown
<1>1. Pending(j) \in SUBSET Nat
  BY DEF Pending
<1>2. CASE Pending(j) = {}
  <2>1. pc' = "check" /\ i' = 1 /\ shutdown' = shutdown
    BY <1>2 DEF Goto
  <2>2. \A k \in DOMAIN pollfds' : pollfds'[k].revents = {}
    BY <1>2 DEF Pending
  <2> QED BY <2>1, <2>2 DEF Scanned
<1>3. CASE Pending(j) # {}
  <2>1. pc' = "scan" /\ i' = Min(Pending(j)) /\ shutdown' = shutdown
    BY <1>3 DEF Goto
  <2>2. i' \in Pending(j) /\ \A k \in Pending(j) : i' <= k
    BY <1>1, <1>3, <2>1, MinOfNumbers
  <2>3. i' \in DOMAIN pollfds' /\ pollfds'[i'].revents # {}
    BY <2>2 DEF Pending
  <2>4. ASSUME NEW k \in DOMAIN pollfds', k < i' PROVE pollfds'[k].revents = {}
    <3>1. k \notin Pending(j)
      BY <2>2, <2>3, <2>4
    <3> QED BY <3>1 DEF Pending
  <2> QED BY <2>1, <2>3, <2>4 DEF Scanned
<1> QED BY <1>2, <1>3

\* SetEvents sets the POLLOUT of the entries it is given and nothing else.
LEMMA SetEventsOnly ==
  ASSUME NEW pfds \in Seq(Entry), NEW fds \in SUBSET Fd, NEW out \in SUBSET {"OUT"}
  PROVE  /\ SetEvents(pfds, fds, out) \in Seq(Entry)
         /\ Len(SetEvents(pfds, fds, out)) = Len(pfds)
         /\ \A j \in 1..Len(pfds) :
                /\ SetEvents(pfds, fds, out)[j].fd = pfds[j].fd
                /\ SetEvents(pfds, fds, out)[j].revents = pfds[j].revents
                /\ pfds[j].fd \notin fds => SetEvents(pfds, fds, out)[j] = pfds[j]
                /\ pfds[j].fd \in fds =>
                       ("OUT" \in SetEvents(pfds, fds, out)[j].events <=> "OUT" \in out)
<1> DEFINE e(j) == IF pfds[j].fd \notin fds THEN pfds[j]
                   ELSE [pfds[j] EXCEPT !.events = (@ \ {"OUT"}) \cup out]
<1>1. \A j \in 1..Len(pfds) : pfds[j] \in Entry
  OBVIOUS
<1>2. \A j \in 1..Len(pfds) :
          /\ e(j) \in Entry
          /\ e(j).fd = pfds[j].fd /\ e(j).revents = pfds[j].revents
          /\ pfds[j].fd \in fds => ("OUT" \in e(j).events <=> "OUT" \in out)
  BY <1>1 DEF Entry
<1>3. SetEvents(pfds, fds, out) = [j \in 1..Len(pfds) |-> e(j)]
  BY DEF SetEvents
<1>4. \A j \in 1..Len(pfds) : pfds[j].fd \notin fds => e(j) = pfds[j]
  OBVIOUS
<1> HIDE DEF e
<1> QED BY <1>2, <1>3, <1>4

\* Done takes one event out of the entry at i.
LEMMA DoneOnly ==
  ASSUME NEW pfds \in Seq(Entry), NEW e, i \in 1..Len(pfds)
  PROVE  /\ Done(pfds, e) \in Seq(Entry)
         /\ Len(Done(pfds, e)) = Len(pfds)
         /\ \A j \in 1..Len(pfds) :
                /\ Done(pfds, e)[j].fd = pfds[j].fd
                /\ Done(pfds, e)[j].events = pfds[j].events
                /\ j # i => Done(pfds, e)[j] = pfds[j]
         /\ Done(pfds, e)[i].revents = pfds[i].revents \ {e}
<1>1. pfds[i] \in Entry
  OBVIOUS
<1>2. [pfds[i] EXCEPT !.revents = @ \ {e}] \in Entry
  BY <1>1 DEF Entry
<1> QED BY <1>1, <1>2 DEF Done, Entry

\* What the invariant says of the entries of the poll array.
LEMMA Entries ==
  ASSUME Inv
  PROVE  /\ pollfds \in Seq(Entry)
         /\ connections \in SUBSET Fd /\ IsFiniteSet(connections)
         /\ i \in Nat \ {0}
         /\ \A j \in 1..Len(pollfds) : pollfds[j] \in Entry
         /\ pc = "scan" => /\ i \in 1..Len(pollfds)
                           /\ pollfds[i].fd # Listen => pollfds[i].fd \in connections
<1>1. /\ pollfds \in Seq(Entry) /\ connections \in SUBSET Fd /\ i \in Nat \ {0}
      /\ pc = "scan" => i \in 1..Len(pollfds)
  BY DEF Inv, TypeOK, Entry
<1>2. IsFiniteSet(connections)
  BY <1>1, ServerAssumption, FS_Subset
<1>3. \A j \in 1..Len(pollfds) : pollfds[j] \in Entry
  BY <1>1
<1>4. pc = "scan" /\ pollfds[i].fd # Listen => pollfds[i].fd \in connections
  BY <1>1 DEF Inv, TablesAgree
<1> QED BY <1>1, <1>2, <1>3, <1>4

\* enqueueReplies adds one message to the targets that have a connection.
LEMMA Replies ==
  ASSUME TypeOK, NEW targets \in SUBSET Fd, Sendable(targets)
  PROVE  /\ enqueueReplies(targets) \in [Fd -> 0..MaxOut]
         /\ \A f \in Fd : enqueueReplies(targets)[f] =
                IF f \in targets \cap connections THEN sendBuffer[f] + 1 ELSE sendBuffer[f]
<1>1. \A f \in Fd : sendBuffer[f] \in 0..MaxOut
  BY DEF TypeOK
<1>2. \A f \in targets \cap connections : sendBuffer[f] + 1 \in 0..MaxOut
  BY <1>1, ServerAssumption DEF Sendable
<1> QED BY <1>1, <1>2 DEF enqueueReplies

\* The poll array after enablePollout.
LEMMA Enabled ==
  ASSUME Inv, NEW targets \in SUBSET Fd, Sendable(targets)
  PROVE  /\ enablePollout(targets) \in Seq(Entry)
         /\ Len(enablePollout(targets)) = Len(pollfds)
         /\ \A j \in 1..Len(pollfds) :
                /\ enablePollout(targets)[j].fd = pollfds[j].fd
                /\ enablePollout(targets)[j].revents = pollfds[j].revents
                /\ "OUT" \in pollfds[j].events => "OUT" \in enablePollout(targets)[j].events
                /\ pollfds[j].fd # Listen =>
                      ("OUT" \in enablePollout(targets)[j].events
                          <=> enqueueReplies(targets)[pollfds[j].fd] > 0)
<1> DEFINE fds == targets \cap connections
<1>1. fds \in SUBSET Fd /\ pollfds \in Seq(Entry)
  BY Entries
<1>2. enablePollout(targets) = SetEvents(pollfds, fds, {"OUT"})
  BY DEF enablePollout
<1>3. /\ enablePollout(targets) \in Seq(Entry)
      /\ Len(enablePollout(targets)) = Len(pollfds)
      /\ \A j \in 1..Len(pollfds) :
             /\ enablePollout(targets)[j].fd = pollfds[j].fd
             /\ enablePollout(targets)[j].revents = pollfds[j].revents
             /\ pollfds[j].fd \notin fds => enablePollout(targets)[j] = pollfds[j]
             /\ pollfds[j].fd \in fds => "OUT" \in enablePollout(targets)[j].events
  <2> HIDE DEF fds
  <2> QED BY <1>1, <1>2, SetEventsOnly
<1>4. ASSUME NEW j \in 1..Len(pollfds), pollfds[j].fd # Listen
      PROVE  "OUT" \in enablePollout(targets)[j].events
                 <=> enqueueReplies(targets)[pollfds[j].fd] > 0
  <2>1. pollfds[j].fd \in Fd
    BY <1>4, Entries DEF Entry
  <2>2. sendBuffer[pollfds[j].fd] \in Nat
    BY <2>1, ServerAssumption DEF Inv, TypeOK
  <2>3. "OUT" \in pollfds[j].events <=> sendBuffer[pollfds[j].fd] > 0
    BY <1>4, Entries DEF Inv, PolloutArmed
  <2>4. enqueueReplies(targets)[pollfds[j].fd]
            = IF pollfds[j].fd \in fds THEN sendBuffer[pollfds[j].fd] + 1
              ELSE sendBuffer[pollfds[j].fd]
    BY <2>1, Replies DEF Inv
  <2> QED BY <1>3, <2>2, <2>3, <2>4
<1> QED BY <1>3, <1>4

--------------------------------------------------------------------------------
(* One lemma per operation. *)

\* A disconnection takes one client out of every table, and the scan goes on at
\* the entry that has moved up.
LEMMA DisconnectInv ==
  ASSUME Inv, pc = "scan", pollfds[i].fd # Listen, UNCHANGED backlog,
         notifyAndDisconnect(pollfds[i].fd), EntryRemoved
  PROVE  Inv'
<1> DEFINE f == pollfds[i].fd
<1>1. PICK notified \in SUBSET (Fd \ {f}) :
        /\ Sendable(notified)
        /\ pollfds' = removeFd(enablePollout(notified), f)
        /\ sendBuffer' = [enqueueReplies(notified) EXCEPT ![f] = 0]
        /\ connections' = connections \ {f}
        /\ clients' = clients \ {f}
        /\ sock' = [sock EXCEPT ![f] = Closed]
  BY DEF notifyAndDisconnect
<1> DEFINE mid == enablePollout(notified)
           sent == enqueueReplies(notified)
<1>2. i \in 1..Len(pollfds) /\ f \in connections /\ f \in Fd
  BY Entries
<1>3. notified \in SUBSET Fd /\ TypeOK
  BY DEF Inv
<1>4. /\ mid \in Seq(Entry) /\ Len(mid) = Len(pollfds)
      /\ \A j \in 1..Len(pollfds) :
             /\ mid[j].fd = pollfds[j].fd
             /\ mid[j].revents = pollfds[j].revents
             /\ "OUT" \in pollfds[j].events => "OUT" \in mid[j].events
             /\ pollfds[j].fd # Listen => ("OUT" \in mid[j].events <=> sent[pollfds[j].fd] > 0)
  BY <1>1, <1>3, Enabled
<1>5. /\ sent \in [Fd -> 0..MaxOut]
      /\ \A g \in Fd : sent[g] = IF g \in notified \cap connections THEN sendBuffer[g] + 1
                                 ELSE sendBuffer[g]
  BY <1>1, <1>3, Replies
<1> HIDE DEF mid, sent
<1>6. \A j \in 1..Len(pollfds) : pollfds[j].fd = f => j = i
  BY <1>2 DEF Inv, Distinct
<1>7. /\ pollfds' \in Seq(Entry) /\ Len(pollfds') = Len(pollfds) - 1
      /\ \A j \in 1..Len(pollfds) - 1 : pollfds'[j] = IF j < i THEN mid[j] ELSE mid[j + 1]
  <2>1. i \in 1..Len(mid) /\ mid[i].fd = f /\ \A j \in 1..Len(mid) : mid[j].fd = mid[i].fd => j = i
    BY <1>2, <1>4, <1>6
  <2>2. pollfds' = removeFd(mid, mid[i].fd)
    BY <1>1, <2>1 DEF mid
  <2> QED BY <1>4, <2>1, <2>2, Removal
<1> HIDE DEF f
<1>8. \A j \in 1..Len(pollfds') : \E k \in 1..Len(pollfds) :
          /\ k = IF j < i THEN j ELSE j + 1
          /\ pollfds'[j].fd = pollfds[k].fd /\ pollfds[k].fd # f
          /\ pollfds'[j] = mid[k]
  BY <1>2, <1>4, <1>6, <1>7
<1>9. /\ sendBuffer' \in [Fd -> 0..MaxOut] /\ sendBuffer'[f] = 0
      /\ \A g \in Fd \ {f} : sendBuffer'[g] = sent[g]
  BY <1>1, <1>2, <1>5, ServerAssumption DEF sent
<1>10. /\ pc' \in {"check", "scan"} /\ i' \in Nat \ {0} /\ Scanned'
       /\ pc' = "scan" => (i' \in DOMAIN pollfds' /\ pollfds'[i'].revents # {})
       /\ shutdown' = shutdown
  <2>1. ASSUME NEW k \in DOMAIN pollfds', k < i PROVE pollfds'[k].revents = {}
    <3>1. k \in 1..Len(pollfds) - 1 /\ k \in 1..Len(pollfds)
      BY <1>2, <1>7, <2>1
    <3>2. pollfds[k].revents = {}
      BY <2>1, <3>1, Entries DEF Inv, Scanned
    <3> QED BY <1>4, <1>7, <2>1, <3>1, <3>2
  <2>2. i \in Nat
    BY <1>2
  <2> QED BY <1>7, <2>1, <2>2, GotoNext DEF EntryRemoved
<1>11. TypeOK'
  <2>1. sock' \in [Fd -> [peer: {"none", "open", "fin", "reset"}, inq: Seq(Line), writable: BOOLEAN]]
    BY <1>1, <1>2 DEF Inv, TypeOK, Closed
  <2> QED BY <1>1, <1>7, <1>9, <1>10, <2>1 DEF Inv, TypeOK, Entry
<1>12. TablesAgree'
  <2>1. {pollfds[j].fd : j \in 1..Len(pollfds)} = connections \cup {Listen}
    BY Entries DEF Inv, TablesAgree
  <2>2. {pollfds'[j].fd : j \in 1..Len(pollfds')} = (connections \ {f}) \cup {Listen}
    <3>1. ASSUME NEW j \in 1..Len(pollfds') PROVE pollfds'[j].fd \in (connections \ {f}) \cup {Listen}
      BY <1>8, <2>1
    <3>2. ASSUME NEW g \in (connections \ {f}) \cup {Listen}
          PROVE  \E j \in 1..Len(pollfds') : pollfds'[j].fd = g
      <4>1. PICK k \in 1..Len(pollfds) : pollfds[k].fd = g
        BY <2>1
      <4>2. g # f
        BY <1>2, ServerAssumption DEF Listen
      <4>3. k # i
        BY <4>1, <4>2 DEF f
      <4>4. CASE k < i
        BY <1>2, <1>4, <1>7, <4>1, <4>4
      <4>5. CASE k > i
        <5>1. k - 1 \in 1..Len(pollfds') /\ pollfds'[k - 1] = mid[k]
          BY <1>2, <1>7, <4>5
        <5> QED BY <1>4, <4>1, <5>1
      <4> QED BY <1>2, <4>3, <4>4, <4>5
    <3> QED BY <3>1, <3>2
  <2>3. Len(pollfds') = Cardinality(connections \ {f}) + 1
    <3>1. IsFiniteSet(connections) /\ f \in connections
      BY <1>2, Entries
    <3>2. Cardinality(connections \ {f}) = Cardinality(connections) - 1
      BY <3>1, FS_RemoveElement
    <3>3. Len(pollfds) = Cardinality(connections) + 1 /\ Cardinality(connections) \in Nat
      BY <3>1, FS_CardinalityType DEF Inv, TablesAgree
    <3> QED BY <1>7, <3>2, <3>3
  <2>4. clients' = connections'
    BY <1>1 DEF Inv, TablesAgree
  <2>5. {g \in Fd : sock'[g].peer # "none"} = connections'
    BY <1>1, <1>2 DEF Inv, TablesAgree, TypeOK, Closed
  <2>6. DOMAIN pollfds' = 1..Len(pollfds')
    BY <1>7
  <2> QED BY <1>1, <2>2, <2>3, <2>4, <2>5, <2>6 DEF TablesAgree
<1>13. PolloutArmed'
  <2> SUFFICES ASSUME NEW j \in 1..Len(pollfds'), pollfds'[j].fd # Listen
               PROVE  "OUT" \in pollfds'[j].events <=> sendBuffer'[pollfds'[j].fd] > 0
    BY <1>7 DEF PolloutArmed
  <2>1. PICK k \in 1..Len(pollfds) : /\ pollfds'[j].fd = pollfds[k].fd /\ pollfds[k].fd # f
                                     /\ pollfds'[j] = mid[k]
    BY <1>8
  <2>2. pollfds[k].fd \in Fd
    BY <2>1, Entries DEF Entry
  <2> QED BY <1>4, <1>9, <2>1, <2>2
<1>14. Distinct'
  <2> SUFFICES ASSUME NEW j \in 1..Len(pollfds'), NEW k \in 1..Len(pollfds'),
                      pollfds'[j].fd = pollfds'[k].fd
               PROVE  j = k
    BY <1>7 DEF Distinct
  <2> QED BY <1>2, <1>8 DEF Inv, Distinct
<1>15. NoStaleRevents'
  <2>0. ASSUME NEW j \in 1..Len(pollfds'), pollfds'[j].fd = Listen
        PROVE  pollfds'[j].revents \subseteq {"IN"}
    <3>1. PICK k \in 1..Len(pollfds) : pollfds'[j].fd = pollfds[k].fd /\ pollfds'[j] = mid[k]
      BY <1>8
    <3>2. DOMAIN pollfds = 1..Len(pollfds)
      BY Entries
    <3>3. pollfds[k].revents \subseteq {"IN"}
      BY <2>0, <3>1, <3>2 DEF Inv, NoStaleRevents
    <3>4. mid[k].revents = pollfds[k].revents
      BY <1>4
    <3> QED BY <3>1, <3>3, <3>4
  <2> SUFFICES ASSUME NEW j \in 1..Len(pollfds'), pollfds'[j].fd # Listen
               PROVE  pollfds'[j].revents \subseteq ClientReady(pollfds'[j], sock'[pollfds'[j].fd])
    BY <1>7, <2>0 DEF NoStaleRevents
  <2>1. PICK k \in 1..Len(pollfds) : /\ pollfds'[j].fd = pollfds[k].fd /\ pollfds[k].fd # f
                                     /\ pollfds'[j] = mid[k]
    BY <1>8
  <2>2. pollfds[k].fd \in Fd
    BY <2>1, Entries DEF Entry
  <2>3. sock'[pollfds[k].fd] = sock[pollfds[k].fd]
    BY <1>1, <2>1, <2>2 DEF Inv, TypeOK
  <2>4. pollfds[k].revents \subseteq ClientReady(pollfds[k], sock[pollfds[k].fd])
    BY <2>1, Entries DEF Inv, NoStaleRevents
  <2> QED BY <1>4, <2>1, <2>3, <2>4 DEF ClientReady
<1>16. NoOrphanOutput'
  BY <1>1, <1>2, <1>5, <1>9 DEF Inv, NoOrphanOutput
<1> QED BY <1>10, <1>11, <1>12, <1>13, <1>14, <1>15, <1>16 DEF Inv

\* A step that leaves the descriptors of the poll array, the other tables and the
\* set of open sockets alone.
LEMMA SameTables ==
  ASSUME Inv, pc # "stopped", UNCHANGED <<connections, clients>>,
         pollfds' \in Seq(Entry), Len(pollfds') = Len(pollfds),
         \A j \in 1..Len(pollfds) : pollfds'[j].fd = pollfds[j].fd,
         \A f \in Fd : sock'[f].peer = "none" <=> sock[f].peer = "none"
  PROVE  TablesAgree' /\ Distinct'
<1>1. DOMAIN pollfds' = DOMAIN pollfds /\ DOMAIN pollfds = 1..Len(pollfds)
  BY Entries
<1>2. {pollfds'[j].fd : j \in DOMAIN pollfds'} = {pollfds[j].fd : j \in DOMAIN pollfds}
  BY <1>1
<1> QED BY <1>1, <1>2 DEF Inv, TablesAgree, Distinct

\* acceptClient: the new client gets an entry behind all others, and nothing of a
\* former connection is left on its descriptor.
LEMMA AcceptInv == Inv /\ acceptClient => Inv'
<1> SUFFICES ASSUME Inv, acceptClient PROVE Inv'
  OBVIOUS
<1> DEFINE mid == Done(pollfds, "IN")
<1>1. /\ pc = "scan" /\ pollfds[i].fd = Listen /\ i \in 1..Len(pollfds) /\ Goto(i + 1)
      /\ pollfds \in Seq(Entry) /\ Len(pollfds) \in Nat
  BY Entries DEF acceptClient
<1>2. /\ mid \in Seq(Entry) /\ Len(mid) = Len(pollfds)
      /\ \A j \in 1..Len(pollfds) : /\ mid[j].fd = pollfds[j].fd
                                    /\ mid[j].events = pollfds[j].events
                                    /\ j # i => mid[j] = pollfds[j]
      /\ mid[i].revents = pollfds[i].revents \ {"IN"}
  BY <1>1, DoneOnly
<1>3. mid[i].revents = {}
  BY <1>1, <1>2 DEF Inv, NoStaleRevents
<1> HIDE DEF mid
<1>4. ASSUME NEW j \in 1..Len(pollfds)
      PROVE  /\ j <= i => mid[j].revents = {}
             /\ mid[j].fd # Listen => mid[j] = pollfds[j]
             /\ mid[j].revents \subseteq pollfds[j].revents
  BY <1>1, <1>2, <1>3 DEF Inv, Scanned
<1>5. CASE pollfds' = mid /\ UNCHANGED <<connections, sendBuffer, clients, sock, backlog>>
  <2>1. \A k \in DOMAIN pollfds' : k < i + 1 => pollfds'[k].revents = {}
    BY <1>1, <1>2, <1>4, <1>5
  <2>2. /\ pc' \in {"check", "scan"} /\ i' \in Nat \ {0} /\ Scanned'
        /\ pc' = "scan" => (i' \in DOMAIN pollfds' /\ pollfds'[i'].revents # {})
        /\ shutdown' = shutdown
    <3>1. i + 1 \in Nat
      BY <1>1
    <3> QED BY <1>1, <1>2, <1>5, <2>1, <3>1, GotoNext
  <2>3. TypeOK'
    BY <1>2, <1>5, <2>2 DEF Inv, TypeOK, Entry
  <2>4. TablesAgree' /\ Distinct'
    BY <1>1, <1>2, <1>5, SameTables
  <2>5. PolloutArmed' /\ NoOrphanOutput'
    BY <1>1, <1>2, <1>5 DEF Inv, PolloutArmed, NoOrphanOutput
  <2>6. NoStaleRevents'
    BY <1>1, <1>2, <1>4, <1>5 DEF Inv, NoStaleRevents
  <2> QED BY <2>2, <2>3, <2>4, <2>5, <2>6 DEF Inv
<1>6. ASSUME NEW f \in Fd, backlog > 0, sock[f].peer = "none", backlog' = backlog - 1,
             sock' = [sock EXCEPT ![f] = Opened], connections' = connections \cup {f},
             pollfds' = Append(mid, PollEntry(f)), clients' = clients \cup {f},
             UNCHANGED sendBuffer
      PROVE  Inv'
  <2>1. f \notin connections /\ f # Listen
    BY <1>1, <1>6, ServerAssumption DEF Inv, TablesAgree, Listen
  <2>2. /\ PollEntry(f) \in Entry /\ PollEntry(f).fd = f /\ PollEntry(f).revents = {}
        /\ "OUT" \notin PollEntry(f).events
    BY DEF PollEntry, Entry
  <2>3. /\ pollfds' \in Seq(Entry) /\ Len(pollfds') = Len(pollfds) + 1
        /\ \A j \in 1..Len(pollfds) : pollfds'[j] = mid[j]
        /\ pollfds'[Len(pollfds) + 1] = PollEntry(f)
    <3> DEFINE e == PollEntry(f)
               ext == Append(mid, e)
    <3>1. e \in Entry /\ mid \in Seq(Entry) /\ Len(mid) = Len(pollfds)
      BY <1>2, <2>2
    <3> HIDE DEF e
    <3>2. /\ ext \in Seq(Entry) /\ Len(ext) = Len(mid) + 1
          /\ \A j \in 1..Len(mid) : ext[j] = mid[j]
          /\ ext[Len(mid) + 1] = e
      BY <3>1, AppendProperties
    <3>3. pollfds' = ext
      BY <1>6 DEF e
    <3> HIDE DEF ext
    <3> QED BY <3>1, <3>2, <3>3 DEF e
  <2>4. ASSUME NEW j \in 1..Len(pollfds')
        PROVE  \/ j \in 1..Len(pollfds) /\ pollfds'[j] = mid[j]
               \/ j = Len(pollfds) + 1 /\ pollfds'[j] = PollEntry(f)
    BY <1>1, <2>3
  <2>5. \A j \in 1..Len(pollfds) : pollfds[j].fd # f
    BY <1>1, <2>1 DEF Inv, TablesAgree
  <2>6. /\ pc' \in {"check", "scan"} /\ i' \in Nat \ {0} /\ Scanned'
        /\ pc' = "scan" => (i' \in DOMAIN pollfds' /\ pollfds'[i'].revents # {})
        /\ shutdown' = shutdown
    <3>1. \A k \in DOMAIN pollfds' : k < i + 1 => pollfds'[k].revents = {}
      BY <1>1, <1>4, <2>2, <2>3, <2>4
    <3>2. i + 1 \in Nat
      BY <1>1
    <3> QED BY <1>1, <2>3, <3>1, <3>2, GotoNext
  <2>7. TypeOK'
    <3>1. sock' \in [Fd -> [peer: {"none", "open", "fin", "reset"}, inq: Seq(Line), writable: BOOLEAN]]
      BY <1>6 DEF Inv, TypeOK, Opened
    <3>2. backlog' \in 0..MaxBacklog
      BY <1>6, ServerAssumption DEF Inv, TypeOK
    <3> QED BY <1>6, <2>3, <2>6, <3>1, <3>2 DEF Inv, TypeOK, Entry
  <2>8. TablesAgree'
    <3>1. {pollfds[j].fd : j \in 1..Len(pollfds)} = connections \cup {Listen}
      BY <1>1, Entries DEF Inv, TablesAgree
    <3>2. {pollfds'[j].fd : j \in 1..Len(pollfds')} = connections' \cup {Listen}
      <4>1. \A j \in 1..Len(pollfds') : pollfds'[j].fd \in connections' \cup {Listen}
        BY <1>2, <1>6, <2>2, <2>4, <3>1
      <4>2. ASSUME NEW g \in connections \cup {Listen}
            PROVE  \E j \in 1..Len(pollfds') : pollfds'[j].fd = g
        <5>1. PICK j \in 1..Len(pollfds) : pollfds[j].fd = g
          BY <3>1
        <5> QED BY <1>1, <1>2, <2>3, <5>1
      <4>3. \E j \in 1..Len(pollfds') : pollfds'[j].fd = f
        BY <1>1, <2>2, <2>3
      <4> QED BY <1>6, <4>1, <4>2, <4>3
    <3>3. Len(pollfds') = Cardinality(connections') + 1
      <4>1. /\ Cardinality(connections') = Cardinality(connections) + 1
            /\ Cardinality(connections) \in Nat
        BY <1>6, <2>1, Entries, FS_AddElement, FS_CardinalityType
      <4> QED BY <1>1, <2>3, <4>1 DEF Inv, TablesAgree
    <3>4. clients' = connections'
      BY <1>1, <1>6 DEF Inv, TablesAgree
    <3>5. {g \in Fd : sock'[g].peer # "none"} = connections'
      BY <1>1, <1>6 DEF Inv, TablesAgree, TypeOK, Opened
    <3>6. DOMAIN pollfds' = 1..Len(pollfds')
      BY <2>3
    <3> QED BY <3>2, <3>3, <3>4, <3>5, <3>6 DEF TablesAgree
  <2>9. PolloutArmed'
    <3> SUFFICES ASSUME NEW j \in 1..Len(pollfds'), pollfds'[j].fd # Listen
                 PROVE  "OUT" \in pollfds'[j].events <=> sendBuffer'[pollfds'[j].fd] > 0
      BY <2>3 DEF PolloutArmed
    <3>1. CASE j \in 1..Len(pollfds) /\ pollfds'[j] = mid[j]
      BY <1>1, <1>2, <1>6, <3>1, SMTT(30) DEF Inv, PolloutArmed
    <3>2. CASE pollfds'[j] = PollEntry(f)
      <4>1. sendBuffer'[f] = 0
        BY <1>6, <2>1 DEF Inv, NoOrphanOutput
      <4> QED BY <2>2, <3>2, <4>1
    <3> QED BY <2>4, <3>1, <3>2
  <2>10. Distinct'
    <3> SUFFICES ASSUME NEW j \in 1..Len(pollfds'), NEW k \in 1..Len(pollfds'),
                        pollfds'[j].fd = pollfds'[k].fd
                 PROVE  j = k
      BY <2>3 DEF Distinct
    <3>1. \A l \in 1..Len(pollfds) : mid[l].fd # f
      BY <1>2, <2>5
    <3>2. CASE j \in 1..Len(pollfds) /\ k \in 1..Len(pollfds)
      <4>1. pollfds[j].fd = pollfds[k].fd
        BY <1>2, <2>3, <3>2
      <4> QED BY <1>1, <3>2, <4>1 DEF Inv, Distinct
    <3>3. CASE j \notin 1..Len(pollfds)
      BY <2>2, <2>4, <3>1, <3>3
    <3>4. CASE k \notin 1..Len(pollfds)
      BY <2>2, <2>4, <3>1, <3>4
    <3> QED BY <3>2, <3>3, <3>4
  <2>11. NoStaleRevents'
    <3>1. ASSUME NEW j \in 1..Len(pollfds'), pollfds'[j].fd = Listen
          PROVE  pollfds'[j].revents \subseteq {"IN"}
      BY <1>1, <1>2, <1>4, <2>1, <2>2, <2>4, <3>1 DEF Inv, NoStaleRevents
    <3>2. ASSUME NEW j \in 1..Len(pollfds'), pollfds'[j].fd # Listen
          PROVE  pollfds'[j].revents \subseteq ClientReady(pollfds'[j], sock'[pollfds'[j].fd])
      <4>1. CASE j \in 1..Len(pollfds) /\ pollfds'[j] = mid[j]
        <5>1. pollfds'[j] = pollfds[j] /\ pollfds[j].fd \in Fd
          BY <1>4, <3>2, <4>1, Entries DEF Entry
        <5>2. sock'[pollfds[j].fd] = sock[pollfds[j].fd]
          BY <1>6, <2>5, <4>1, <5>1 DEF Inv, TypeOK
        <5> QED BY <1>1, <3>2, <4>1, <5>1, <5>2 DEF Inv, NoStaleRevents
      <4>2. CASE pollfds'[j] = PollEntry(f)
        BY <2>2, <4>2
      <4> QED BY <2>4, <4>1, <4>2
    <3> QED BY <2>3, <3>1, <3>2 DEF NoStaleRevents
  <2>12. NoOrphanOutput'
    BY <1>6 DEF Inv, NoOrphanOutput
  <2> QED BY <2>6, <2>7, <2>8, <2>9, <2>10, <2>11, <2>12 DEF Inv
<1> QED BY <1>5, <1>6 DEF acceptClient, mid

\* What recv takes from a socket, and what it leaves, are lines.
LEMMA RecvType ==
  ASSUME TypeOK, NEW f \in Fd
  PROVE  /\ Received(f) \in Seq(Line)
         /\ Received(f) = <<>> <=> sock[f].inq = <<>>
         /\ SubSeq(sock[f].inq, Len(Received(f)) + 1, Len(sock[f].inq)) \in Seq(Line)
<1> DEFINE q == sock[f].inq
           n == IF Len(q) < RecvMax THEN Len(q) ELSE RecvMax
<1>1. q \in Seq(Line) /\ Len(q) \in Nat /\ RecvMax \in Nat \ {0}
  BY ServerAssumption DEF TypeOK
<1>2. Received(f) = SubSeq(q, 1, n)
  BY DEF Received
<1>3. n \in 0..Len(q) /\ (n = 0 <=> Len(q) = 0)
  BY <1>1
<1> HIDE DEF q, n
<1>4. Len(q) = 0 <=> q = <<>>
  BY <1>1, EmptySeq
<1>5. SubSeq(q, 1, n) \in Seq(Line) /\ Len(SubSeq(q, 1, n)) = n
  <2>1. \A j \in 1..n : q[j] \in Line
    BY <1>1, <1>3, ElementOfSeq
  <2> QED BY <1>1, <1>3, <2>1, SubSeqProperties
<1>6. SubSeq(q, n + 1, Len(q)) \in Seq(Line)
  <2>1. \A j \in n + 1..Len(q) : q[j] \in Line
    BY <1>1, <1>3, ElementOfSeq
  <2> QED BY <1>1, <1>3, <2>1, SubSeqProperties
<1>7. SubSeq(q, 1, n) = <<>> <=> n = 0
  BY <1>3, <1>5, EmptySeq
<1> QED BY <1>2, <1>3, <1>4, <1>5, <1>6, <1>7 DEF q

\* handleRead: the lines are taken out, the answers queued and POLLOUT armed for
\* everybody who gets one; or the client is disconnected.
LEMMA ReadInv == Inv /\ handleRead => Inv'
<1> SUFFICES ASSUME Inv, handleRead PROVE Inv'
  OBVIOUS
<1> DEFINE f == pollfds[i].fd
<1>1. pc = "scan" /\ f # Listen /\ backlog' = backlog
  BY DEF handleRead
<1>2. i \in 1..Len(pollfds) /\ f \in connections /\ f \in Fd
  BY <1>1, Entries
<1>3. CASE notifyAndDisconnect(f) /\ EntryRemoved
  BY <1>1, <1>3, DisconnectInv
<1>4. ASSUME NEW targets \in SUBSET Fd, Sendable(targets),
             sendBuffer' = enqueueReplies(targets),
             pollfds' = Done(enablePollout(targets), "IN"),
             sock' = [sock EXCEPT ![f].inq = SubSeq(@, Len(Received(f)) + 1, Len(@))],
             UNCHANGED <<connections, clients>>, Goto(i)
      PROVE  Inv'
  <2> DEFINE mid == enablePollout(targets)
             sent == enqueueReplies(targets)
  <2>1. /\ mid \in Seq(Entry) /\ Len(mid) = Len(pollfds)
        /\ \A j \in 1..Len(pollfds) :
             /\ mid[j].fd = pollfds[j].fd
             /\ mid[j].revents = pollfds[j].revents
             /\ "OUT" \in pollfds[j].events => "OUT" \in mid[j].events
             /\ pollfds[j].fd # Listen => ("OUT" \in mid[j].events <=> sent[pollfds[j].fd] > 0)
    BY <1>4, Enabled
  <2>2. /\ sent \in [Fd -> 0..MaxOut]
        /\ \A g \in Fd : sent[g] = IF g \in targets \cap connections THEN sendBuffer[g] + 1
                                   ELSE sendBuffer[g]
    BY <1>4, Replies DEF Inv
  <2>3. pollfds' = Done(mid, "IN") /\ sendBuffer' = sent
    BY <1>4
  <2> HIDE DEF mid, sent
  <2>4. /\ pollfds' \in Seq(Entry) /\ Len(pollfds') = Len(pollfds)
        /\ \A j \in 1..Len(pollfds) : /\ pollfds'[j].fd = pollfds[j].fd
                                      /\ pollfds'[j].events = mid[j].events
                                      /\ j # i => pollfds'[j] = mid[j]
        /\ pollfds'[i].revents = pollfds[i].revents \ {"IN"}
    BY <1>2, <2>1, <2>3, DoneOnly
  <2>5. DOMAIN pollfds' = 1..Len(pollfds)
    BY <2>4
  <2>6. /\ sock' \in [Fd -> [peer: {"none", "open", "fin", "reset"}, inq: Seq(Line), writable: BOOLEAN]]
        /\ \A g \in Fd : /\ sock'[g].peer = sock[g].peer /\ sock'[g].writable = sock[g].writable
                         /\ g # f => sock'[g] = sock[g]
    <3>1. SubSeq(sock[f].inq, Len(Received(f)) + 1, Len(sock[f].inq)) \in Seq(Line)
      BY <1>2, RecvType DEF Inv
    <3> HIDE DEF f
    <3> QED BY <1>2, <1>4, <3>1 DEF Inv, TypeOK
  <2>7. /\ pc' \in {"check", "scan"} /\ i' \in Nat \ {0} /\ Scanned'
        /\ pc' = "scan" => (i' \in DOMAIN pollfds' /\ pollfds'[i'].revents # {})
        /\ shutdown' = shutdown
    <3>1. ASSUME NEW k \in DOMAIN pollfds', k < i PROVE pollfds'[k].revents = {}
      <4>1. k \in 1..Len(pollfds) /\ k # i /\ pollfds[k].revents = {}
        BY <1>2, <2>5, <3>1, Entries DEF Inv, Scanned
      <4> QED BY <2>1, <2>4, <4>1
    <3>2. i \in Nat
      BY <1>2
    <3> QED BY <1>4, <2>4, <3>1, <3>2, GotoNext
  <2>8. TypeOK'
    BY <1>1, <1>4, <2>2, <2>3, <2>4, <2>6, <2>7 DEF Inv, TypeOK, Entry
  <2>9. TablesAgree' /\ Distinct'
    BY <1>1, <1>4, <2>4, <2>6, SameTables
  <2>10. PolloutArmed'
    BY <2>1, <2>3, <2>4, <2>5 DEF PolloutArmed
  <2>11. NoStaleRevents'
    <3> SUFFICES ASSUME NEW j \in 1..Len(pollfds)
                 PROVE  /\ pollfds'[j].fd = Listen => pollfds'[j].revents \subseteq {"IN"}
                        /\ pollfds'[j].fd # Listen =>
                               pollfds'[j].revents \subseteq ClientReady(pollfds'[j], sock'[pollfds'[j].fd])
      BY <2>5 DEF NoStaleRevents
    <3>1. /\ pollfds[j].fd = Listen => pollfds[j].revents \subseteq {"IN"}
          /\ pollfds[j].fd # Listen =>
                 pollfds[j].revents \subseteq ClientReady(pollfds[j], sock[pollfds[j].fd])
      BY Entries DEF Inv, NoStaleRevents
    <3>2. CASE j = i
      BY <1>1, <1>2, <2>1, <2>4, <2>6, <3>1, <3>2, ZenonT(40) DEF ClientReady
    <3>3. CASE j # i
      <4>1. pollfds[j].fd # f
        BY <1>2, <3>3, Entries DEF Inv, Distinct
      <4>2. pollfds[j].fd # Listen => sock'[pollfds[j].fd] = sock[pollfds[j].fd]
        BY <2>6, <4>1, Entries DEF Entry
      <4> QED BY <2>1, <2>4, <3>1, <3>3, <4>2 DEF ClientReady
    <3> QED BY <3>2, <3>3
  <2>12. NoOrphanOutput'
    BY <1>4, <2>2, <2>3 DEF Inv, NoOrphanOutput
  <2> QED BY <2>7, <2>8, <2>9, <2>10, <2>11, <2>12 DEF Inv
<1> QED BY <1>3, <1>4 DEF handleRead

\* handleWrite: POLLOUT goes off exactly when nothing is left to send.
LEMMA WriteInv == Inv /\ handleWrite => Inv'
<1> SUFFICES ASSUME Inv, handleWrite PROVE Inv'
  OBVIOUS
<1> DEFINE f == pollfds[i].fd
           mid == IF sendBuffer'[f] = 0 THEN SetEvents(pollfds, {f}, {}) ELSE pollfds
<1>1. pc = "scan" /\ f # Listen /\ backlog' = backlog /\ "OUT" \in pollfds[i].revents
  BY DEF handleWrite, rev
<1>2. i \in 1..Len(pollfds) /\ f \in connections /\ f \in Fd /\ pollfds \in Seq(Entry)
  BY <1>1, Entries
<1>3. CASE notifyAndDisconnect(f) /\ EntryRemoved
  BY <1>1, <1>3, DisconnectInv
<1>4. ASSUME \/ sendBuffer[f] = 0 /\ UNCHANGED <<sendBuffer, sock>>
             \/ \E left \in 0..sendBuffer[f], room \in BOOLEAN :
                    /\ sendBuffer' = [sendBuffer EXCEPT ![f] = left]
                    /\ sock' = [sock EXCEPT ![f].writable = room],
             pollfds' = Done(mid, "OUT"),
             UNCHANGED <<connections, clients>>, Goto(i)
      PROVE  Inv'
  <2>1. /\ sendBuffer' \in [Fd -> 0..MaxOut]
        /\ \A g \in Fd \ {f} : sendBuffer'[g] = sendBuffer[g]
        /\ sendBuffer[f] = 0 => sendBuffer'[f] = 0
    <3>1. sendBuffer \in [Fd -> 0..MaxOut] /\ sendBuffer[f] \in 0..MaxOut /\ MaxOut \in Nat
      BY <1>2, ServerAssumption DEF Inv, TypeOK
    <3>2. CASE sendBuffer' = sendBuffer
      BY <3>1, <3>2
    <3>3. ASSUME NEW left \in 0..sendBuffer[f], sendBuffer' = [sendBuffer EXCEPT ![f] = left]
          PROVE  /\ sendBuffer' \in [Fd -> 0..MaxOut]
                 /\ \A g \in Fd \ {f} : sendBuffer'[g] = sendBuffer[g]
                 /\ sendBuffer[f] = 0 => sendBuffer'[f] = 0
      <4> HIDE DEF f
      <4> QED BY <1>2, <3>1, <3>3
    <3> QED BY <1>4, <3>2, <3>3
  <2>2. /\ sock' \in [Fd -> [peer: {"none", "open", "fin", "reset"}, inq: Seq(Line), writable: BOOLEAN]]
        /\ \A g \in Fd : /\ sock'[g].peer = sock[g].peer /\ sock'[g].inq = sock[g].inq
                         /\ g # f => sock'[g] = sock[g]
    <3>1. sock \in [Fd -> [peer: {"none", "open", "fin", "reset"}, inq: Seq(Line), writable: BOOLEAN]]
      BY DEF Inv, TypeOK
    <3>2. CASE sock' = sock
      BY <3>1, <3>2
    <3>3. ASSUME NEW room \in BOOLEAN, sock' = [sock EXCEPT ![f].writable = room]
          PROVE  /\ sock' \in [Fd -> [peer: {"none", "open", "fin", "reset"}, inq: Seq(Line), writable: BOOLEAN]]
                 /\ \A g \in Fd : /\ sock'[g].peer = sock[g].peer /\ sock'[g].inq = sock[g].inq
                                  /\ g # f => sock'[g] = sock[g]
      <4> HIDE DEF f
      <4> QED BY <1>2, <3>1, <3>3
    <3> QED BY <1>4, <3>2, <3>3
  <2>3. /\ mid \in Seq(Entry) /\ Len(mid) = Len(pollfds)
        /\ \A j \in 1..Len(pollfds) :
               /\ mid[j].fd = pollfds[j].fd /\ mid[j].revents = pollfds[j].revents
               /\ pollfds[j].fd # f => mid[j] = pollfds[j]
               /\ pollfds[j].fd = f => ("OUT" \in mid[j].events <=> sendBuffer'[f] > 0)
    <3>1. CASE sendBuffer'[f] = 0
      <4> DEFINE one == {f}
                 no == {}
      <4>1. one \in SUBSET Fd /\ no \in SUBSET {"OUT"} /\ "OUT" \notin no
            /\ \A g : g \in one <=> g = f
        BY <1>2
      <4>2. mid = SetEvents(pollfds, one, no)
        BY <3>1
      <4> HIDE DEF f, mid, one, no
      <4>3. /\ mid \in Seq(Entry) /\ Len(mid) = Len(pollfds)
            /\ \A j \in 1..Len(pollfds) :
                   /\ mid[j].fd = pollfds[j].fd /\ mid[j].revents = pollfds[j].revents
                   /\ pollfds[j].fd \notin one => mid[j] = pollfds[j]
                   /\ pollfds[j].fd \in one => ("OUT" \in mid[j].events <=> "OUT" \in no)
        BY <1>2, <4>1, <4>2, SetEventsOnly
      <4> QED BY <3>1, <4>1, <4>3
    <3>2. CASE sendBuffer'[f] # 0
      <4>1. mid = pollfds
        BY <3>2
      <4>2. sendBuffer'[f] > 0 /\ sendBuffer[f] > 0
        BY <1>2, <2>1, <3>2, ServerAssumption DEF Inv, TypeOK
      <4>3. \A j \in 1..Len(pollfds) : pollfds[j].fd = f => "OUT" \in pollfds[j].events
        BY <1>1, <1>2, <4>2 DEF Inv, PolloutArmed
      <4> QED BY <1>2, <4>1, <4>2, <4>3
    <3> QED BY <3>1, <3>2
  <2> HIDE DEF mid
  <2>4. /\ pollfds' \in Seq(Entry) /\ Len(pollfds') = Len(pollfds)
        /\ \A j \in 1..Len(pollfds) : /\ pollfds'[j].fd = pollfds[j].fd
                                      /\ pollfds'[j].events = mid[j].events
                                      /\ j # i => pollfds'[j] = mid[j]
        /\ pollfds'[i].revents = pollfds[i].revents \ {"OUT"}
    BY <1>2, <1>4, <2>3, DoneOnly
  <2>5. DOMAIN pollfds' = 1..Len(pollfds)
    BY <2>4
  <2>6. \A j \in 1..Len(pollfds) : j # i => pollfds[j].fd # f /\ pollfds'[j] = pollfds[j]
    BY <1>2, <2>3, <2>4 DEF Inv, Distinct
  <2>7. /\ pc' \in {"check", "scan"} /\ i' \in Nat \ {0} /\ Scanned'
        /\ pc' = "scan" => (i' \in DOMAIN pollfds' /\ pollfds'[i'].revents # {})
        /\ shutdown' = shutdown
    <3>1. ASSUME NEW k \in DOMAIN pollfds', k < i PROVE pollfds'[k].revents = {}
      <4>1. k \in 1..Len(pollfds) /\ k # i /\ pollfds[k].revents = {}
        BY <1>2, <2>5, <3>1 DEF Inv, Scanned
      <4> QED BY <2>6, <4>1
    <3>2. i \in Nat
      BY <1>2
    <3> QED BY <1>4, <2>4, <3>1, <3>2, GotoNext
  <2>8. TypeOK'
    BY <1>1, <1>4, <2>1, <2>2, <2>4, <2>7 DEF Inv, TypeOK, Entry
  <2>9. TablesAgree' /\ Distinct'
    BY <1>1, <1>4, <2>2, <2>4, SameTables
  <2>10. PolloutArmed'
    <3> SUFFICES ASSUME NEW j \in 1..Len(pollfds), pollfds'[j].fd # Listen
                 PROVE  "OUT" \in pollfds'[j].events <=> sendBuffer'[pollfds'[j].fd] > 0
      BY <2>5 DEF PolloutArmed
    <3>1. CASE j = i
      BY <1>2, <2>3, <2>4, <3>1
    <3>2. CASE j # i
      <4>1. pollfds[j].fd # f /\ pollfds'[j] = pollfds[j] /\ pollfds[j].fd \in Fd
        BY <2>6, <3>2, Entries DEF Entry
      <4> QED BY <1>2, <2>1, <4>1 DEF Inv, PolloutArmed
    <3> QED BY <3>1, <3>2
  <2>11. NoStaleRevents'
    <3> SUFFICES ASSUME NEW j \in 1..Len(pollfds)
                 PROVE  /\ pollfds'[j].fd = Listen => pollfds'[j].revents \subseteq {"IN"}
                        /\ pollfds'[j].fd # Listen =>
                               pollfds'[j].revents \subseteq ClientReady(pollfds'[j], sock'[pollfds'[j].fd])
      BY <2>5 DEF NoStaleRevents
    <3>1. /\ pollfds[j].fd = Listen => pollfds[j].revents \subseteq {"IN"}
          /\ pollfds[j].fd # Listen =>
                 pollfds[j].revents \subseteq ClientReady(pollfds[j], sock[pollfds[j].fd])
      BY Entries DEF Inv, NoStaleRevents
    <3>2. CASE j = i
      BY <1>1, <1>2, <2>2, <2>4, <3>1, <3>2, ZenonT(40) DEF ClientReady
    <3>3. CASE j # i
      <4>1. pollfds[j].fd # Listen => sock'[pollfds[j].fd] = sock[pollfds[j].fd]
        BY <2>2, <2>6, <3>3, Entries DEF Entry
      <4> QED BY <2>6, <3>1, <3>3, <4>1
    <3> QED BY <3>2, <3>3
  <2>12. NoOrphanOutput'
    BY <1>2, <1>4, <2>1 DEF Inv, NoOrphanOutput
  <2> QED BY <2>7, <2>8, <2>9, <2>10, <2>11, <2>12 DEF Inv
<1> QED BY <1>3, <1>4 DEF handleWrite

\* HangUp
LEMMA HangUpInv == Inv /\ HangUp => Inv'
  BY DisconnectInv DEF HangUp

\* The end of the server empties everything.
LEMMA StopInv ==
  ASSUME Inv, closeAllFds
  PROVE  Inv'
<1>1. /\ pc' = "stopped" /\ i' = 1 /\ pollfds' = <<>> /\ connections' = {} /\ clients' = {}
      /\ sendBuffer' = [f \in Fd |-> 0] /\ sock' = [f \in Fd |-> Closed] /\ backlog' = 0
      /\ shutdown' = shutdown
  BY DEF closeAllFds
<1>2. TypeOK'
  BY <1>1, ServerAssumption DEF Inv, TypeOK, Closed
<1>3. DOMAIN pollfds' = {}
  BY <1>1
<1> QED BY <1>1, <1>2, <1>3
        DEF Inv, TablesAgree, PolloutArmed, Distinct, Scanned, NoStaleRevents, NoOrphanOutput

\* Check
LEMMA CheckInv == Inv /\ Check => Inv'
<1> SUFFICES ASSUME Inv, Check PROVE Inv'
  OBVIOUS
<1>1. CASE closeAllFds
  BY <1>1, StopInv
<1>2. CASE ~shutdown /\ pc' = "poll" /\ UNCHANGED <<i, shutdown, tableVars, sock, backlog>>
  <2>1. pc = "check"
    BY DEF Check
  <2>2. UNCHANGED <<i, shutdown, pollfds, connections, sendBuffer, clients, sock, backlog>>
    BY <1>2 DEF tableVars
  <2>3. TypeOK'
    BY <1>2, <2>2 DEF Inv, TypeOK
  <2>4. TablesAgree' /\ PolloutArmed' /\ Distinct' /\ NoOrphanOutput'
    BY <2>1, <2>2 DEF Inv, TablesAgree, PolloutArmed, Distinct, NoOrphanOutput
  <2>5. Scanned' /\ NoStaleRevents'
    BY <2>1, <2>2 DEF Inv, Scanned, NoStaleRevents
  <2> QED BY <2>3, <2>4, <2>5 DEF Inv
<1> QED BY <1>1, <1>2 DEF Check

\* Poll: what poll reports is true at that moment.
LEMMA PollInv == Inv /\ Poll => Inv'
<1> SUFFICES ASSUME Inv, Poll PROVE Inv'
  OBVIOUS
<1>1. CASE closeAllFds
  BY <1>1, StopInv
<1>2. CASE /\ pollfds' = Polled /\ Goto(1)
           /\ UNCHANGED <<connections, sendBuffer, clients, sock, backlog>>
  <2>1. pc = "poll" /\ pollfds \in Seq(Entry)
    BY Entries DEF Poll
  <2>2. ASSUME NEW j \in 1..Len(pollfds)
        PROVE  /\ Ready(pollfds[j]) \in SUBSET Event
               /\ [pollfds[j] EXCEPT !.revents = Ready(pollfds[j])] \in Entry
               /\ pollfds[j].fd = Listen => Ready(pollfds[j]) \subseteq {"IN"}
    BY Entries DEF Ready, ClientReady, Event, Entry
  <2>3. /\ pollfds' \in Seq(Entry) /\ Len(pollfds') = Len(pollfds)
        /\ \A j \in 1..Len(pollfds) :
               pollfds'[j] = [pollfds[j] EXCEPT !.revents = Ready(pollfds[j])]
    <3> DEFINE e(j) == [pollfds[j] EXCEPT !.revents = Ready(pollfds[j])]
    <3>1. pollfds' = [j \in 1..Len(pollfds) |-> e(j)]
      BY <1>2, <2>1 DEF Polled
    <3>2. \A j \in 1..Len(pollfds) : e(j) \in Entry
      BY <2>2
    <3> HIDE DEF e
    <3>3. /\ pollfds' \in Seq(Entry) /\ Len(pollfds') = Len(pollfds)
          /\ \A j \in 1..Len(pollfds) : pollfds'[j] = e(j)
      BY <2>1, <3>1, <3>2
    <3> QED BY <3>3 DEF e
  <2>4. \A j \in 1..Len(pollfds) : /\ pollfds'[j].fd = pollfds[j].fd
                                   /\ pollfds'[j].events = pollfds[j].events
                                   /\ pollfds'[j].revents = Ready(pollfds[j])
    BY <2>1, <2>3, Entries DEF Entry
  <2>5. DOMAIN pollfds' = 1..Len(pollfds)
    BY <2>3
  <2>6. /\ pc' \in {"check", "scan"} /\ i' \in Nat \ {0} /\ Scanned'
        /\ pc' = "scan" => (i' \in DOMAIN pollfds' /\ pollfds'[i'].revents # {})
        /\ shutdown' = shutdown
    <3>1. \A k \in DOMAIN pollfds' : k < 1 => pollfds'[k].revents = {}
      BY <2>5
    <3> QED BY <1>2, <2>3, <3>1, GotoNext
  <2>7. TypeOK'
    BY <1>2, <2>3, <2>6 DEF Inv, TypeOK, Entry
  <2>8. TablesAgree' /\ Distinct'
    BY <1>2, <2>1, <2>3, <2>4, SameTables
  <2>9. PolloutArmed' /\ NoOrphanOutput'
    BY <1>2, <2>1, <2>4, <2>5 DEF Inv, PolloutArmed, NoOrphanOutput
  <2>10. NoStaleRevents'
    <3> SUFFICES ASSUME NEW j \in 1..Len(pollfds)
                 PROVE  /\ pollfds'[j].fd = Listen => pollfds'[j].revents \subseteq {"IN"}
                        /\ pollfds'[j].fd # Listen =>
                               pollfds'[j].revents \subseteq ClientReady(pollfds'[j], sock'[pollfds'[j].fd])
      BY <2>5 DEF NoStaleRevents
    <3> QED BY <1>2, <2>2, <2>4, ZenonT(40) DEF Ready, ClientReady
  <2> QED BY <2>6, <2>7, <2>8, <2>9, <2>10 DEF Inv
<1> QED BY <1>1, <1>2 DEF Poll

\* What the peers do can only add to what poll has reported of them.
LEMMA PeerInv ==
  ASSUME Inv, NEW f \in Fd, PeerSend(f) \/ PeerClose(f) \/ PeerDrain(f)
  PROVE  Inv'
<1> DEFINE Sock == [peer: {"none", "open", "fin", "reset"}, inq: Seq(Line), writable: BOOLEAN]
<1>1. /\ UNCHANGED <<pc, i, shutdown, pollfds, connections, sendBuffer, clients, backlog>>
      /\ sock \in [Fd -> Sock]
  BY DEF Inv, TypeOK, PeerSend, PeerClose, PeerDrain, loopVars, tableVars
<1>2. /\ sock' \in [Fd -> Sock]
      /\ \A g \in Fd :
            /\ sock'[g].peer = "none" <=> sock[g].peer = "none"
            /\ sock[g].peer = "reset" => sock'[g].peer = "reset"
            /\ sock[g].peer = "fin" => sock'[g].peer \in {"fin", "reset"}
            /\ sock[g].inq # <<>> => sock'[g].inq # <<>>
            /\ sock[g].writable => sock'[g].writable
  <2>1. CASE PeerSend(f)
    <3>1. PICK l \in Line : sock' = [sock EXCEPT ![f].inq = Append(@, l)]
      BY <2>1 DEF PeerSend
    <3>2. Append(sock[f].inq, l) \in Seq(Line) /\ Append(sock[f].inq, l) # <<>>
      BY <1>1, AppendProperties
    <3> QED BY <1>1, <3>1, <3>2
  <2>2. CASE PeerClose(f)
    <3>1. CASE sock[f].peer = "open" /\ sock' = [sock EXCEPT ![f].peer = "fin"]
      BY <1>1, <3>1
    <3>2. CASE sock[f].peer \in {"open", "fin"} /\ sock' = [sock EXCEPT ![f].peer = "reset"]
      BY <1>1, <3>2
    <3> QED BY <2>2, <3>1, <3>2 DEF PeerClose
  <2>3. CASE PeerDrain(f)
    BY <1>1, <2>3 DEF PeerDrain
  <2> QED BY <2>1, <2>2, <2>3
<1>3. TypeOK'
  BY <1>1, <1>2 DEF Inv, TypeOK
<1>4. TablesAgree' /\ PolloutArmed' /\ Distinct' /\ Scanned' /\ NoOrphanOutput'
  BY <1>1, <1>2 DEF Inv, TablesAgree, PolloutArmed, Distinct, Scanned, NoOrphanOutput
<1>5. NoStaleRevents'
  <2> SUFFICES ASSUME NEW j \in DOMAIN pollfds, pollfds[j].fd # Listen
               PROVE  pollfds[j].revents \subseteq ClientReady(pollfds[j], sock'[pollfds[j].fd])
    BY <1>1 DEF Inv, NoStaleRevents
  <2>1. pollfds[j].fd \in Fd
    BY Entries DEF Entry
  <2>2. pollfds[j].revents \subseteq ClientReady(pollfds[j], sock[pollfds[j].fd])
    BY DEF Inv, NoStaleRevents
  <2> QED BY <1>2, <2>1, <2>2 DEF ClientReady
<1> QED BY <1>3, <1>4, <1>5 DEF Inv

\* Connections that come and go before they are accepted, and SIGINT.
LEMMA OutsideInv == Inv /\ (Connect \/ AbortBacklog \/ Sigint) => Inv'
<1> SUFFICES ASSUME Inv, Connect \/ AbortBacklog \/ Sigint PROVE Inv'
  OBVIOUS
<1>1. /\ UNCHANGED <<pc, i, pollfds, connections, sendBuffer, clients, sock>>
      /\ backlog' \in 0..MaxBacklog /\ shutdown' \in BOOLEAN
  <2>1. backlog \in 0..MaxBacklog /\ MaxBacklog \in Nat /\ shutdown \in BOOLEAN
    BY ServerAssumption DEF Inv, TypeOK
  <2>2. CASE Connect
    BY <2>1, <2>2 DEF Connect, loopVars, tableVars
  <2>3. CASE AbortBacklog
    BY <2>1, <2>3 DEF AbortBacklog, loopVars, tableVars
  <2>4. CASE Sigint
    BY <2>1, <2>4 DEF Sigint, tableVars
  <2> QED BY <2>2, <2>3, <2>4
<1>2. TypeOK'
  BY <1>1 DEF Inv, TypeOK
<1> QED BY <1>1, <1>2 DEF Inv, TablesAgree, PolloutArmed, Distinct, Scanned, NoStaleRevents,
                          NoOrphanOutput

\* Init: an empty server watches its listening socket.
LEMMA InitInv == Init => Inv
<1> SUFFICES ASSUME Init PROVE Inv
  OBVIOUS
<1> USE DEF Init
<1>1. pollfds \in Seq(Entry) /\ Len(pollfds) = 1 /\ pollfds[1] = PollEntry(Listen)
  BY DEF PollEntry, Entry
<1>2. DOMAIN pollfds = {1}
  BY <1>1
<1>3. TypeOK
  <2>1. sock \in [Fd -> [peer: {"none", "open", "fin", "reset"}, inq: Seq(Line), writable: BOOLEAN]]
    BY DEF Closed
  <2>2. sendBuffer \in [Fd -> 0..MaxOut] /\ backlog \in 0..MaxBacklog
    BY ServerAssumption
  <2>3. /\ pc = "check" /\ i = 1 /\ shutdown \in BOOLEAN
        /\ connections \in SUBSET Fd /\ clients \in SUBSET Fd
    OBVIOUS
  <2> HIDE DEF Init
  <2> QED BY <1>1, <2>1, <2>2, <2>3 DEF TypeOK, Entry
<1>4. TablesAgree
  <2>1. {pollfds[j].fd : j \in DOMAIN pollfds} = connections \cup {Listen}
    BY <1>1, <1>2 DEF PollEntry
  <2>2. Len(pollfds) = Cardinality(connections) + 1
    BY <1>1, FS_EmptySet
  <2>3. {f \in Fd : sock[f].peer # "none"} = connections
    BY DEF Closed
  <2> QED BY <2>1, <2>2, <2>3 DEF TablesAgree
<1> QED BY <1>1, <1>2, <1>3, <1>4
        DEF Inv, PolloutArmed, Distinct, Scanned, NoStaleRevents, NoOrphanOutput, PollEntry

\* Every step of the loop and of those outside keeps the invariant.
LEMMA NextInv == Inv /\ [Next]_vars => Inv'
<1> SUFFICES ASSUME Inv, [Next]_vars PROVE Inv'
  OBVIOUS
<1>1. CASE run
  BY <1>1, CheckInv, PollInv, AcceptInv, ReadInv, WriteInv, HangUpInv DEF run
<1>2. CASE PollThrows
  BY <1>2, StopInv DEF PollThrows
<1>3. CASE Connect \/ AbortBacklog \/ Sigint
  BY <1>3, OutsideInv
<1>4. CASE \E f \in Fd : PeerSend(f) \/ PeerClose(f) \/ PeerDrain(f)
  BY <1>4, PeerInv
<1>5. CASE UNCHANGED vars
  <2>1. UNCHANGED <<pc, i, shutdown, pollfds, connections, sendBuffer, clients, sock, backlog>>
    BY <1>5 DEF vars, loopVars, tableVars
  <2>2. TypeOK'
    BY <2>1 DEF Inv, TypeOK
  <2> QED BY <2>1, <2>2 DEF Inv, TablesAgree, PolloutArmed, Distinct, Scanned, NoStaleRevents,
                            NoOrphanOutput
<1> QED BY <1>1, <1>2, <1>3, <1>4, <1>5 DEF Next, Exited

--------------------------------------------------------------------------------
(* The theorems. *)

\* The invariant holds of every behaviour of the server, whatever the peers do.
THEOREM Invariance == Spec => []Inv
  BY InitInv, NextInv, PTL DEF Spec

\* The variables keep their types; in particular the scan's index never leaves the
\* poll array, though entries are erased and appended while run scans it.
THEOREM TypeCorrect == Spec => []TypeOK
<1>1. Inv => TypeOK
  BY DEF Inv
<1> QED BY <1>1, Invariance, PTL

\* Poll array, connections, clients of the C layer and open sockets are one set,
\* each watched once (_acceptClient, _disconnectClient).
THEOREM Tables == Spec => []TablesAgree
<1>1. Inv => TablesAgree
  BY DEF Inv
<1> QED BY <1>1, Invariance, PTL

\* POLLOUT is asked for exactly while there is output (_enqueueReplies, _handleWrite).
THEOREM Pollout == Spec => []PolloutArmed
<1>1. Inv => PolloutArmed
  BY DEF Inv
<1> QED BY <1>1, Invariance, PTL

\* Every descriptor that poll found ready is served before the next poll (run).
THEOREM Served == Spec => []EachReadyFdServed
<1>1. Inv => EachReadyFdServed
  BY DEF Inv, Scanned, EachReadyFdServed
<1> QED BY <1>1, Invariance, PTL

\* What poll reported of a client is still true when run acts on it, however many
\* clients were served, accepted or disconnected in between.
THEOREM ReventsFresh == Spec => []NoStaleRevents
<1>1. Inv => NoStaleRevents
  BY DEF Inv
<1> QED BY <1>1, Invariance, PTL

\* A disconnection takes down nobody but the client it is for.
LEMMA OnlyThatClient ==
  ASSUME NEW f, notifyAndDisconnect(f)
  PROVE  connections \ connections' \subseteq {f}
  BY DEF notifyAndDisconnect

\* While the server runs, only a client whose peer is gone, who sent QUIT or who sent a
\* line too long is disconnected: _handleRead, _handleWrite and the hang-up branch of
\* run act on revents, which are never stale.
THEOREM Disconnections == Spec => NoSpuriousDisconnect
<1> DEFINE A == pc' # "stopped" => \A f \in connections \ connections' :
                    sock[f].peer # "open" \/ Fatal(Received(f))
<1>1. Inv /\ [Next]_vars => [A]_vars
  <2> SUFFICES ASSUME Inv, Next, pc' # "stopped", NEW f \in connections \ connections'
               PROVE  sock[f].peer # "open" \/ Fatal(Received(f))
    BY DEF vars
  <2>1. handleRead \/ handleWrite \/ HangUp
    BY DEF Next, run, Check, Poll, PollThrows, closeAllFds, acceptClient, Exited, Connect,
           AbortBacklog, Sigint, PeerSend, PeerClose, PeerDrain, vars, loopVars, tableVars
  <2>2. pc = "scan" /\ pollfds[i].fd # Listen /\ i \in DOMAIN pollfds
    BY <2>1, Entries DEF handleRead, handleWrite, HangUp
  <2>3. pollfds[i].revents \subseteq ClientReady(pollfds[i], sock[pollfds[i].fd])
    BY <2>2 DEF Inv, NoStaleRevents
  <2>4. CASE handleRead
    <3>1. /\ "IN" \in pollfds[i].revents
          /\ ReadFails(pollfds[i].fd) /\ notifyAndDisconnect(pollfds[i].fd)
      BY <2>4 DEF handleRead, rev
    <3>2. f = pollfds[i].fd /\ f \in Fd
      BY <3>1, OnlyThatClient, Entries
    <3>3. sock[f].inq # <<>> \/ sock[f].peer \in {"fin", "reset"}
      BY <2>3, <3>1, <3>2 DEF ClientReady
    <3>4. Received(f) = <<>> <=> sock[f].inq = <<>>
      BY <3>2, RecvType DEF Inv
    <3> QED BY <3>1, <3>2, <3>3, <3>4 DEF ReadFails
  <2>5. CASE handleWrite
    <3>1. /\ "OUT" \in pollfds[i].revents
          /\ sock[pollfds[i].fd].peer = "reset" \/ ~sock[pollfds[i].fd].writable
          /\ notifyAndDisconnect(pollfds[i].fd)
      BY <2>5 DEF handleWrite, rev
    <3>2. f = pollfds[i].fd
      BY <3>1, OnlyThatClient
    <3> QED BY <2>3, <3>1, <3>2 DEF ClientReady
  <2>6. CASE HangUp
    <3>1. "HUP" \in pollfds[i].revents /\ notifyAndDisconnect(pollfds[i].fd)
      BY <2>6 DEF HangUp, rev
    <3>2. f = pollfds[i].fd
      BY <3>1, OnlyThatClient
    <3> QED BY <2>3, <3>1, <3>2 DEF ClientReady
  <2> QED BY <2>1, <2>4, <2>5, <2>6
<1> QED BY <1>1, Invariance, PTL DEF Spec, NoSpuriousDisconnect
================================================================================
