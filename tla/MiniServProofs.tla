----------------------------- MODULE MiniServProofs -----------------------------
(******************************************************************************)
(* The proofs about mini_serv: for any number of descriptors, connections and *)
(* typed bytes, flush_client always has something to send, the stream to each *)
(* client is made of whole messages, and the server implements ChatRelay.     *)
(******************************************************************************)
EXTENDS MiniServ, FiniteSetTheorems, SequenceTheorems, WellFoundedInduction, TLAPS

--------------------------------------------------------------------------------
(* Numbers. *)

\* A set of numbers that is not empty has a least one.
LEMMA LeastNumber ==
  ASSUME NEW T \in SUBSET Nat, T # {}
  PROVE  \E x \in T : \A y \in T : x <= y
<1> DEFINE R == OpToRel(<, Nat)
<1>1. IsWellFoundedOn(R, Nat)
  BY NatLessThanWellFounded
<1>2. \A x, y \in Nat : x < y => <<x, y>> \in R
  BY DEF OpToRel
<1> HIDE DEF R
<1>3. PICK x \in T : \A y \in T : ~ (<<y, x>> \in R)
  BY <1>1, WFMin
<1>4. \A y \in T : x <= y
  <2> TAKE y \in T
  <2>1. x \in Nat /\ y \in Nat /\ ~ (y < x)
    BY <1>2, <1>3
  <2> QED BY <2>1
<1> QED BY <1>4

\* Sums of what is not more.
LEMMA SumBound ==
  ASSUME NEW a \in Int, NEW b \in Int, NEW c \in Int, NEW d \in Int, NEW t \in Int,
         a <= c, b <= d, c + d <= t
  PROVE  a + b <= t
  OBVIOUS

\* Induction, for a set of numbers.
LEMMA Induction ==
  ASSUME NEW P, P \subseteq Nat, 0 \in P, \A n \in P : n + 1 \in P
  PROVE  P = Nat
<1> DEFINE T == Nat \ P
<1>1. ASSUME T # {} PROVE FALSE
  <2>1. PICK x \in T : \A y \in T : x <= y
    BY <1>1, LeastNumber
  <2>2. x # 0 /\ x - 1 \in Nat /\ x - 1 \in P
    BY <2>1
  <2>3. (x - 1) + 1 = x
    BY <2>1
  <2> QED BY <2>1, <2>2, <2>3
<1> QED BY <1>1

--------------------------------------------------------------------------------
(* Sequences. *)

\* A function on 1..n is a sequence.
LEMMA SeqOf ==
  ASSUME NEW S, NEW n \in Nat, NEW s \in [1..n -> S]
  PROVE  s \in Seq(S) /\ Len(s) = n
  OBVIOUS

\* Joining two sequences.
LEMMA Joining ==
  ASSUME NEW S, NEW s \in Seq(S), NEW t \in Seq(S)
  PROVE  /\ s \o t \in Seq(S) /\ Len(s \o t) = Len(s) + Len(t)
         /\ Len(s) \in Nat /\ Len(t) \in Nat
         /\ \A i \in 1..Len(s) : (s \o t)[i] = s[i]
         /\ \A i \in 1..Len(t) : (s \o t)[Len(s) + i] = t[i]
  OBVIOUS

\* Cutting a sequence.
LEMMA Cutting ==
  ASSUME NEW S, NEW s \in Seq(S), NEW n \in 0..Len(s)
  PROVE  /\ Len(s) \in Nat
         /\ SubSeq(s, 1, n) \in Seq(S) /\ Len(SubSeq(s, 1, n)) = n
         /\ \A i \in 1..n : SubSeq(s, 1, n)[i] = s[i]
         /\ SubSeq(s, n + 1, Len(s)) \in Seq(S) /\ Len(SubSeq(s, n + 1, Len(s))) = Len(s) - n
         /\ \A i \in 1..Len(s) - n : SubSeq(s, n + 1, Len(s))[i] = s[n + i]
  OBVIOUS

--------------------------------------------------------------------------------
(* Lines: what extract_message takes out of a buffer. *)

\* The line ends among the first j bytes of buf.
Ends(buf, j) == Cardinality({i \in 1..j : buf[i] = "LF"})

\* How their number grows.
LEMMA EndsFacts ==
  ASSUME NEW buf
  PROVE  /\ \A j \in Nat : Ends(buf, j) \in Nat
         /\ Ends(buf, 0) = 0
         /\ \A j \in Nat : Ends(buf, j + 1) = IF buf[j + 1] = "LF" THEN Ends(buf, j) + 1
                                              ELSE Ends(buf, j)
<1> DEFINE E(j) == {i \in 1..j : buf[i] = "LF"}
<1>1. \A j \in Nat : IsFiniteSet(E(j))
  <2> TAKE j \in Nat
  <2>1. IsFiniteSet(1..j) /\ E(j) \in SUBSET (1..j)
    BY FS_Interval
  <2> QED BY <2>1, FS_Subset
<1>2. \A j \in Nat : Ends(buf, j) \in Nat
  BY <1>1, FS_CardinalityType DEF Ends
<1>3. Ends(buf, 0) = 0
  <2>1. E(0) = {}
    OBVIOUS
  <2> QED BY <2>1, FS_EmptySet DEF Ends
<1>4. ASSUME NEW j \in Nat
      PROVE  Ends(buf, j + 1) = IF buf[j + 1] = "LF" THEN Ends(buf, j) + 1 ELSE Ends(buf, j)
  <2>1. CASE buf[j + 1] = "LF"
    <3>1. E(j + 1) = E(j) \cup {j + 1}
      BY <2>1
    <3>2. j + 1 \notin E(j)
      OBVIOUS
    <3> QED BY <1>1, <2>1, <3>1, <3>2, FS_AddElement DEF Ends
  <2>2. CASE buf[j + 1] # "LF"
    <3>1. E(j + 1) = E(j)
      BY <2>2
    <3> QED BY <2>2, <3>1 DEF Ends
  <2> QED BY <2>1, <2>2
<1> QED BY <1>2, <1>3, <1>4

\* It does not go down.
LEMMA EndsGrow ==
  ASSUME NEW buf, NEW i \in Nat, NEW j \in Nat, i <= j
  PROVE  Ends(buf, i) <= Ends(buf, j)
<1> DEFINE P == {n \in Nat : Ends(buf, i) <= Ends(buf, i + n)}
<1>1. 0 \in P
  <2>1. i + 0 = i
    OBVIOUS
  <2>2. Ends(buf, i) \in Nat
    BY EndsFacts
  <2> QED BY <2>1, <2>2
<1>2. \A n \in P : n + 1 \in P
  <2> SUFFICES ASSUME NEW n \in P PROVE Ends(buf, i) <= Ends(buf, i + (n + 1))
    OBVIOUS
  <2>1. Ends(buf, i) \in Nat /\ Ends(buf, i + n) \in Nat /\ i + n \in Nat
    <3>1. i + n \in Nat
      OBVIOUS
    <3> QED BY <3>1, EndsFacts
  <2>2. i + (n + 1) = (i + n) + 1
    OBVIOUS
  <2>3. Ends(buf, (i + n) + 1) >= Ends(buf, i + n)
    BY <2>1, EndsFacts
  <2>4. Ends(buf, (i + n) + 1) \in Nat
    BY <2>1, EndsFacts
  <2> QED BY <2>1, <2>2, <2>3, <2>4
<1>3. P = Nat
  <2> HIDE DEF P
  <2>1. P \subseteq Nat
    BY DEF P
  <2> QED BY <1>1, <1>2, <2>1, Induction
<1>4. i + (j - i) = j /\ j - i \in Nat
  OBVIOUS
<1>5. j - i \in P
  BY <1>3, <1>4
<1>6. Ends(buf, i) <= Ends(buf, i + (j - i))
  BY <1>5
<1> QED BY <1>4, <1>6

\* The k-th line end is where LineEnd says.
LEMMA LineEndIs ==
  ASSUME NEW buf \in Seq(Byte), NEW j \in 1..Len(buf), buf[j] = "LF"
  PROVE  LineEnd(buf, Ends(buf, j)) = j
<1>1. Ends(buf, j) = Ends(buf, j - 1) + 1 /\ Ends(buf, j - 1) \in Nat
  <2>1. j - 1 \in Nat /\ (j - 1) + 1 = j
    OBVIOUS
  <2> QED BY <2>1, EndsFacts
<1>2. ASSUME NEW i \in 1..Len(buf), buf[i] = "LF", Ends(buf, i) = Ends(buf, j) PROVE i = j
  <2>1. Ends(buf, i) = Ends(buf, i - 1) + 1 /\ Ends(buf, i - 1) \in Nat
    <3>1. i - 1 \in Nat /\ (i - 1) + 1 = i
      OBVIOUS
    <3> QED BY <1>2, <3>1, EndsFacts
  <2>2. i < j => Ends(buf, i) <= Ends(buf, j - 1)
    BY EndsGrow
  <2>3. j < i => Ends(buf, j) <= Ends(buf, i - 1)
    BY EndsGrow
  <2> QED BY <1>1, <1>2, <2>1, <2>2, <2>3
<1>3. LineEnd(buf, Ends(buf, j)) = CHOOSE i \in DOMAIN buf : buf[i] = "LF" /\ Ends(buf, i) = Ends(buf, j)
  <2>1. Ends(buf, j) # 0
    BY <1>1
  <2>2. \A k : k # 0 => LineEnd(buf, k) = CHOOSE i \in DOMAIN buf : buf[i] = "LF" /\ Ends(buf, i) = k
    BY DEF LineEnd, Ends
  <2> QED BY <2>1, <2>2
<1>4. DOMAIN buf = 1..Len(buf)
  OBVIOUS
<1> QED BY <1>2, <1>3, <1>4

\* Every line has an end.
LEMMA LineEnds ==
  ASSUME NEW buf \in Seq(Byte), NEW k \in 0..LineCount(buf)
  PROVE  /\ LineEnd(buf, k) \in 0..Len(buf)
         /\ Ends(buf, LineEnd(buf, k)) = k
         /\ k > 0 => LineEnd(buf, k) > 0 /\ buf[LineEnd(buf, k)] = "LF"
<1>1. LineCount(buf) = Ends(buf, Len(buf)) /\ Len(buf) \in Nat
  <2>1. DOMAIN buf = 1..Len(buf)
    OBVIOUS
  <2> QED BY <2>1 DEF LineCount, Ends
<1>0. k \in Nat /\ k <= Ends(buf, Len(buf))
  BY <1>1, EndsFacts
<1>2. CASE k = 0
  BY <1>2, EndsFacts DEF LineEnd
<1>3. CASE k > 0
  <2> DEFINE T == {j \in 0..Len(buf) : Ends(buf, j) >= k}
  <2>1. Len(buf) \in T /\ T \in SUBSET Nat
    BY <1>0, <1>1
  <2>2. PICK j \in T : \A i \in T : j <= i
    <3> HIDE DEF T
    <3> QED BY <2>1, LeastNumber
  <2>3. j # 0
    BY <1>0, <1>3, EndsFacts
  <2>4. j - 1 \in Nat /\ j - 1 \notin T /\ j - 1 \in 0..Len(buf) /\ (j - 1) + 1 = j
    BY <2>2, <2>3
  <2>5. Ends(buf, j - 1) < k /\ Ends(buf, j - 1) \in Nat
    <3>1. Ends(buf, j - 1) \in Nat
      BY <2>4, EndsFacts
    <3> QED BY <1>0, <2>4, <3>1
  <2>6. buf[j] = "LF" /\ Ends(buf, j) = k
    <3>1. Ends(buf, j) = IF buf[j] = "LF" THEN Ends(buf, j - 1) + 1 ELSE Ends(buf, j - 1)
      BY <2>4, EndsFacts
    <3>2. Ends(buf, j) >= k
      OBVIOUS
    <3> QED BY <1>0, <2>5, <3>1, <3>2
  <2>7. LineEnd(buf, k) = j /\ j \in 1..Len(buf)
    BY <2>3, <2>6, LineEndIs
  <2> QED BY <2>6, <2>7
<1> QED BY <1>0, <1>2, <1>3

\* The line ends of what is left when a buffer is cut.
LEMMA EndsBehind ==
  ASSUME NEW buf \in Seq(Byte), NEW e \in 0..Len(buf)
  PROVE  LET tail == SubSeq(buf, e + 1, Len(buf)) IN
         /\ tail \in Seq(Byte) /\ Len(tail) = Len(buf) - e
         /\ \A j \in 1..Len(tail) : tail[j] = buf[e + j]
         /\ \A j \in 0..Len(tail) : Ends(buf, e + j) = Ends(buf, e) + Ends(tail, j)
<1> DEFINE tail == SubSeq(buf, e + 1, Len(buf))
<1>1. tail \in Seq(Byte) /\ Len(tail) = Len(buf) - e /\ \A j \in 1..Len(tail) : tail[j] = buf[e + j]
  <2>1. Len(buf) \in Nat /\ e \in Nat /\ e <= Len(buf)
    OBVIOUS
  <2>2. tail \in Seq(Byte)
    BY SubSeqProperties
  <2>3. Len(tail) = Len(buf) - e
    BY <2>1, SubSeqProperties
  <2>4. \A j \in 1..Len(tail) : tail[j] = buf[e + j]
    BY <2>1, SubSeqProperties
  <2> QED BY <2>2, <2>3, <2>4
<1> HIDE DEF tail
<1> DEFINE P == {j \in Nat : j <= Len(tail) => Ends(buf, e + j) = Ends(buf, e) + Ends(tail, j)}
<1>2. 0 \in P
  <2>1. e + 0 = e
    OBVIOUS
  <2>2. Ends(buf, e) \in Nat /\ Ends(tail, 0) = 0
    BY EndsFacts
  <2> QED BY <2>1, <2>2
<1>3. \A j \in P : j + 1 \in P
  <2> SUFFICES ASSUME NEW j \in P, j + 1 <= Len(tail)
               PROVE  Ends(buf, e + (j + 1)) = Ends(buf, e) + Ends(tail, j + 1)
    OBVIOUS
  <2>1. j \in Nat /\ Len(tail) \in Nat /\ e + j \in Nat /\ e + (j + 1) = (e + j) + 1
    BY <1>1
  <2>2. Ends(buf, e + j) = Ends(buf, e) + Ends(tail, j)
    BY <2>1
  <2>3. tail[j + 1] = buf[(e + j) + 1]
    BY <1>1, <2>1
  <2>4. Ends(buf, e) \in Nat /\ Ends(tail, j) \in Nat
    <3>1. e \in Nat
      OBVIOUS
    <3> QED BY <2>1, <3>1, EndsFacts
  <2>5. Ends(buf, (e + j) + 1) = IF buf[(e + j) + 1] = "LF" THEN Ends(buf, e + j) + 1 ELSE Ends(buf, e + j)
    BY <2>1, EndsFacts
  <2>6. Ends(tail, j + 1) = IF tail[j + 1] = "LF" THEN Ends(tail, j) + 1 ELSE Ends(tail, j)
    BY <2>1, EndsFacts
  <2> QED BY <2>1, <2>2, <2>3, <2>4, <2>5, <2>6
<1>4. P = Nat
  <2> HIDE DEF P
  <2>1. P \subseteq Nat
    BY DEF P
  <2> QED BY <1>2, <1>3, <2>1, Induction
<1>5. \A j \in 0..Len(tail) : Ends(buf, e + j) = Ends(buf, e) + Ends(tail, j)
  <2> TAKE j \in 0..Len(tail)
  <2>1. j \in Nat /\ j <= Len(tail)
    BY <1>1
  <2>2. j \in P
    BY <1>4, <2>1
  <2> QED BY <2>1, <2>2
<1> QED BY <1>1, <1>5 DEF tail

\* The lines of a buffer cut behind a line end are those before it and those behind it.
LEMMA LinesBehind ==
  ASSUME NEW buf \in Seq(Byte), NEW k \in 0..LineCount(buf)
  PROVE  LET tail == SubSeq(buf, LineEnd(buf, k) + 1, Len(buf)) IN
         /\ tail \in Seq(Byte)
         /\ LineCount(tail) = LineCount(buf) - k
         /\ \A n \in 1..LineCount(tail) : Extracted(tail)[n] = Extracted(buf)[k + n]
<1> DEFINE e == LineEnd(buf, k)
           tail == SubSeq(buf, e + 1, Len(buf))
<1>0. e \in 0..Len(buf) /\ Ends(buf, e) = k
  BY LineEnds
<1> HIDE DEF e
<1>1. /\ tail \in Seq(Byte) /\ Len(tail) = Len(buf) - e
      /\ \A j \in 1..Len(tail) : tail[j] = buf[e + j]
      /\ \A j \in 0..Len(tail) : Ends(buf, e + j) = k + Ends(tail, j)
  BY <1>0, EndsBehind
<1> HIDE DEF tail
<1>2. LineCount(buf) = Ends(buf, Len(buf)) /\ LineCount(tail) = Ends(tail, Len(tail))
  <2>1. DOMAIN buf = 1..Len(buf) /\ DOMAIN tail = 1..Len(tail)
    BY <1>1
  <2> QED BY <2>1 DEF LineCount, Ends
<1>3. LineCount(buf) \in Nat /\ LineCount(tail) \in Nat /\ k \in Nat /\ Len(buf) \in Nat /\ Len(tail) \in Nat
  <2>1. Len(buf) \in Nat /\ Len(tail) \in Nat
    BY <1>1
  <2>2. LineCount(buf) \in Nat /\ LineCount(tail) \in Nat
    BY <1>2, <2>1, EndsFacts
  <2>3. k \in Nat
    BY <2>2
  <2> QED BY <2>1, <2>2, <2>3
<1>4. LineCount(tail) = LineCount(buf) - k
  <2>1. e + Len(tail) = Len(buf) /\ Len(tail) \in 0..Len(tail)
    BY <1>0, <1>1, <1>3
  <2>2. Ends(buf, e + Len(tail)) = k + Ends(tail, Len(tail))
    BY <1>1, <2>1
  <2> QED BY <1>2, <1>3, <2>1, <2>2
<1>5. ASSUME NEW n \in 0..LineCount(tail) PROVE LineEnd(buf, k + n) = e + LineEnd(tail, n)
  <2>1. CASE n = 0
    <3>1. k + n = k /\ LineEnd(tail, n) = 0
      BY <1>3, <2>1 DEF LineEnd
    <3> QED BY <1>0, <3>1 DEF e
  <2>2. CASE n > 0
    <3> DEFINE j == LineEnd(tail, n)
    <3>1. j \in 1..Len(tail) /\ Ends(tail, j) = n /\ tail[j] = "LF"
      BY <1>1, <1>3, <2>2, LineEnds
    <3> HIDE DEF j
    <3>2. buf[e + j] = "LF" /\ Ends(buf, e + j) = k + n /\ e + j \in 1..Len(buf)
      BY <1>0, <1>1, <1>3, <3>1
    <3>3. LineEnd(buf, Ends(buf, e + j)) = e + j
      BY <3>2, LineEndIs
    <3> QED BY <3>2, <3>3 DEF j
  <2> QED BY <1>3, <2>1, <2>2
<1>6. ASSUME NEW n \in 1..LineCount(tail) PROVE Extracted(tail)[n] = Extracted(buf)[k + n]
  <2> DEFINE from == LineEnd(tail, n - 1)
             to == LineEnd(tail, n)
  <2>1. n - 1 \in 0..LineCount(tail) /\ n \in 0..LineCount(tail) /\ k + (n - 1) = (k + n) - 1
        /\ k + n \in 1..LineCount(buf)
    BY <1>3, <1>4
  <2>2. from \in 0..Len(tail) /\ to \in 0..Len(tail)
    BY <1>1, <2>1, LineEnds
  <2>3. LineEnd(buf, (k + n) - 1) = e + from /\ LineEnd(buf, k + n) = e + to
    BY <1>5, <2>1
  <2>4. Extracted(tail)[n] = SubSeq(tail, from + 1, to)
        /\ Extracted(buf)[k + n] = SubSeq(buf, (e + from) + 1, e + to)
    BY <2>1, <2>3 DEF Extracted
  <2> HIDE DEF from, to
  <2>5. SubSeq(tail, from + 1, to) = SubSeq(buf, (e + from) + 1, e + to)
    <3> DEFINE s == SubSeq(tail, from + 1, to)
               t == SubSeq(buf, (e + from) + 1, e + to)
    <3>1. s = [i \in 1..(to - from) |-> tail[from + i]]
      BY <1>1, <1>3, <2>2
    <3>2. t = [i \in 1..(to - from) |-> buf[(e + from) + i]]
      BY <1>0, <1>1, <1>3, <2>2
    <3>3. \A i \in 1..(to - from) : tail[from + i] = buf[(e + from) + i]
      BY <1>0, <1>1, <1>3, <2>2, SMTT(30)
    <3> HIDE DEF s, t
    <3> QED BY <3>1, <3>2, <3>3 DEF s, t
  <2> QED BY <2>4, <2>5
<1> QED BY <1>1, <1>4, <1>6 DEF tail, e

\* The lines of a buffer are counted by its line ends.
LEMMA LineCountIs ==
  ASSUME NEW buf \in Seq(Byte)
  PROVE  /\ LineCount(buf) = Ends(buf, Len(buf)) /\ LineCount(buf) \in Nat
         /\ Extracted(buf) \in Seq(Seq(Byte)) /\ Len(Extracted(buf)) = LineCount(buf)
<1>1. LineCount(buf) = Ends(buf, Len(buf)) /\ Len(buf) \in Nat
  <2>1. DOMAIN buf = 1..Len(buf)
    OBVIOUS
  <2> QED BY <2>1 DEF LineCount, Ends
<1>2. LineCount(buf) \in Nat
  BY <1>1, EndsFacts
<1>3. ASSUME NEW k \in 1..LineCount(buf)
      PROVE  SubSeq(buf, LineEnd(buf, k - 1) + 1, LineEnd(buf, k)) \in Seq(Byte)
  <2>1. k \in 0..LineCount(buf) /\ k - 1 \in 0..LineCount(buf)
    BY <1>2
  <2>2. LineEnd(buf, k - 1) \in 0..Len(buf) /\ LineEnd(buf, k) \in 0..Len(buf)
    BY <2>1, LineEnds
  <2> QED BY <1>1, <2>2
<1>4. Extracted(buf) \in [1..LineCount(buf) -> Seq(Byte)]
  BY <1>3 DEF Extracted
<1> QED BY <1>1, <1>2, <1>4, SeqOf

\* More input does not change the lines that are there.
LEMMA LinesBefore ==
  ASSUME NEW a \in Seq(Byte), NEW b \in Seq(Byte)
  PROVE  /\ LineCount(a) <= LineCount(a \o b)
         /\ \A k \in 0..LineCount(a) : LineEnd(a \o b, k) = LineEnd(a, k)
         /\ \A k \in 1..LineCount(a) : Extracted(a \o b)[k] = Extracted(a)[k]
<1> DEFINE c == a \o b
<1>1. /\ c \in Seq(Byte) /\ Len(a) \in Nat /\ Len(b) \in Nat /\ Len(c) = Len(a) + Len(b)
      /\ \A i \in 1..Len(a) : c[i] = a[i]
  OBVIOUS
<1> HIDE DEF c
<1>2. \A j \in 0..Len(a) : Ends(c, j) = Ends(a, j)
  <2> TAKE j \in 0..Len(a)
  <2>1. \A i \in 1..j : c[i] = a[i]
    BY <1>1
  <2>2. {i \in 1..j : c[i] = "LF"} = {i \in 1..j : a[i] = "LF"}
    BY <2>1
  <2> QED BY <2>2 DEF Ends
<1>3. LineCount(a) <= LineCount(c) /\ LineCount(a) \in Nat /\ LineCount(c) \in Nat
  <2>1. Ends(c, Len(a)) <= Ends(c, Len(c))
    BY <1>1, EndsGrow
  <2>2. Ends(c, Len(a)) = Ends(a, Len(a))
    BY <1>1, <1>2
  <2> QED BY <1>1, <2>1, <2>2, LineCountIs
<1>4. ASSUME NEW k \in 0..LineCount(a) PROVE LineEnd(c, k) = LineEnd(a, k)
  <2>1. CASE k = 0
    BY <2>1 DEF LineEnd
  <2>2. CASE k > 0
    <3> DEFINE j == LineEnd(a, k)
    <3>1. j \in 1..Len(a) /\ Ends(a, j) = k /\ a[j] = "LF"
      BY <1>1, <1>3, <2>2, LineEnds
    <3> HIDE DEF j
    <3>2. j \in 1..Len(c) /\ c[j] = "LF" /\ Ends(c, j) = k
      BY <1>1, <1>2, <3>1
    <3>3. LineEnd(c, Ends(c, j)) = j
      BY <1>1, <3>2, LineEndIs
    <3> QED BY <3>2, <3>3 DEF j
  <2> QED BY <1>3, <2>1, <2>2
<1>5. ASSUME NEW k \in 1..LineCount(a) PROVE Extracted(c)[k] = Extracted(a)[k]
  <2> DEFINE from == LineEnd(a, k - 1)
             to == LineEnd(a, k)
  <2>1. k \in 0..LineCount(a) /\ k - 1 \in 0..LineCount(a) /\ k \in 1..LineCount(c)
    BY <1>3
  <2>2. from \in 0..Len(a) /\ to \in 0..Len(a)
    BY <2>1, LineEnds
  <2>3. Extracted(c)[k] = SubSeq(c, from + 1, to) /\ Extracted(a)[k] = SubSeq(a, from + 1, to)
    BY <1>4, <2>1 DEF Extracted
  <2> HIDE DEF from, to
  <2>4. SubSeq(c, from + 1, to) = SubSeq(a, from + 1, to)
    <3>1. SubSeq(c, from + 1, to) = [i \in 1..(to - from) |-> c[from + i]]
      BY <1>1, <2>2
    <3>2. SubSeq(a, from + 1, to) = [i \in 1..(to - from) |-> a[from + i]]
      BY <1>1, <2>2
    <3>3. \A i \in 1..(to - from) : c[from + i] = a[from + i]
      BY <1>1, <2>2
    <3> QED BY <3>1, <3>2, <3>3
  <2> QED BY <2>3, <2>4
<1> QED BY <1>3, <1>4, <1>5 DEF c

\* Taking the lines of the first part of a buffer out leaves the others: how recv
\* cuts the input does not matter.
LEMMA LinesCut ==
  ASSUME NEW a \in Seq(Byte), NEW b \in Seq(Byte)
  PROVE  LET all == Extracted(a \o b) IN
         /\ Rest(a) \in Seq(Byte) /\ Len(Rest(a)) <= Len(a)
         /\ LineCount(a) \in 0..Len(all)
         /\ \A k \in 1..LineCount(a) : Extracted(a)[k] = all[k]
         /\ Extracted(Rest(a) \o b) = SubSeq(all, LineCount(a) + 1, Len(all))
<1> DEFINE c == a \o b
           n == LineCount(a)
           e == LineEnd(a, n)
           tail == SubSeq(c, e + 1, Len(c))
           all == Extracted(c)
<1>1. c \in Seq(Byte) /\ Len(a) \in Nat /\ Len(b) \in Nat /\ Len(c) = Len(a) + Len(b)
  OBVIOUS
<1>2. /\ n \in Nat /\ LineCount(c) \in Nat /\ n <= LineCount(c)
      /\ e \in 0..Len(a) /\ LineEnd(c, n) = e
  <2>0. n \in Nat /\ LineCount(c) \in Nat
    BY <1>1, LineCountIs
  <2>1. n \in Nat /\ LineCount(c) \in Nat /\ n \in 0..n
    BY <2>0
  <2>2. n <= LineCount(c) /\ LineEnd(c, n) = e
    BY <2>1, LinesBefore
  <2>3. e \in 0..Len(a)
    BY <2>1, LineEnds
  <2> QED BY <2>1, <2>2, <2>3
<1>3. Rest(a) \in Seq(Byte) /\ Len(Rest(a)) = Len(a) - e
  <2> HIDE DEF e
  <2>1. Rest(a) = SubSeq(a, e + 1, Len(a))
    BY DEF Rest, e
  <2> QED BY <1>1, <1>2, <2>1
<1>4. Rest(a) \o b = tail
  <2>1. Rest(a) = SubSeq(a, e + 1, Len(a))
    BY DEF Rest
  <2> HIDE DEF e
  <2>2. SubSeq(a, e + 1, Len(a)) \o b = SubSeq(a \o b, e + 1, Len(a) + Len(b))
    <3> DEFINE s == SubSeq(a, e + 1, Len(a)) \o b
               t == SubSeq(a \o b, e + 1, Len(a) + Len(b))
    <3>1. s \in Seq(Byte) /\ t \in Seq(Byte) /\ Len(s) = Len(t)
      BY <1>1, <1>2
    <3>2. \A i \in 1..Len(s) : s[i] = t[i]
      BY <1>1, <1>2, SMTT(30)
    <3> HIDE DEF s, t
    <3>3. s = t
      BY <3>1, <3>2
    <3> QED BY <3>3 DEF s, t
  <2> QED BY <1>1, <2>1, <2>2
<1>5. all \in Seq(Seq(Byte)) /\ Len(all) = LineCount(c)
  BY <1>1, LineCountIs
<1>6. /\ tail \in Seq(Byte) /\ LineCount(tail) = LineCount(c) - n
      /\ \A k \in 1..LineCount(tail) : Extracted(tail)[k] = all[n + k]
  <2> HIDE DEF c
  <2>1. n \in 0..LineCount(c)
    BY <1>2
  <2> HIDE DEF n
  <2> DEFINE t == SubSeq(c, LineEnd(c, n) + 1, Len(c))
  <2>2. /\ t \in Seq(Byte) /\ LineCount(t) = LineCount(c) - n
        /\ \A k \in 1..LineCount(t) : Extracted(t)[k] = Extracted(c)[n + k]
    BY <1>1, <2>1, LinesBehind
  <2>3. tail = t
    BY <1>2
  <2> HIDE DEF t, tail
  <2> QED BY <2>2, <2>3
<1>7. Extracted(tail) \in Seq(Seq(Byte)) /\ Len(Extracted(tail)) = LineCount(tail)
  <2> HIDE DEF tail
  <2> QED BY <1>6, LineCountIs
<1> HIDE DEF c, e, tail
<1>8. \A k \in 1..n : Extracted(a)[k] = all[k]
  BY LinesBefore DEF c
<1> HIDE DEF n, all
<1>9. Extracted(tail) = SubSeq(all, n + 1, Len(all))
  <2> DEFINE s == Extracted(tail)
             t == SubSeq(all, n + 1, Len(all))
  <2>1. t \in Seq(Seq(Byte)) /\ Len(t) = Len(all) - n /\ \A k \in 1..Len(t) : t[k] = all[n + k]
    BY <1>2, <1>5
  <2> HIDE DEF t
  <2>2. s \in Seq(Seq(Byte)) /\ Len(s) = Len(t) /\ \A k \in 1..Len(s) : s[k] = t[k]
    BY <1>5, <1>6, <1>7, <2>1
  <2> HIDE DEF s
  <2>3. s = t
    BY <2>1, <2>2, SeqEqual
  <2> QED BY <2>3 DEF s, t
<1>10. n \in 0..Len(all) /\ Len(Rest(a)) <= Len(a)
  BY <1>1, <1>2, <1>3, <1>5
<1> QED BY <1>3, <1>4, <1>8, <1>9, <1>10 DEF c, n, all

\* The lines the abstract specification knows.
Line == {[j \in 1..n |-> IF j = n THEN "LF" ELSE "x"] : n \in 1..MaxTyped}

\* A byte that is typed ends a line or does not.
LEMMA ByteTyped ==
  ASSUME NEW a \in Seq(Byte), NEW x \in Byte, Len(a) < MaxTyped
  PROVE  /\ x # "LF" => Extracted(a \o <<x>>) = Extracted(a)
         /\ x = "LF" => \E l \in Line : Extracted(a \o <<x>>) = Append(Extracted(a), l)
<1> DEFINE b == <<x>>
           c == a \o b
           n == LineCount(a)
           e == LineEnd(a, n)
<1>1. /\ b \in Seq(Byte) /\ c \in Seq(Byte) /\ Len(a) \in Nat /\ Len(c) = Len(a) + 1
      /\ c[Len(a) + 1] = x /\ \A i \in 1..Len(a) : c[i] = a[i]
  OBVIOUS
<1> HIDE DEF b
<1>2. /\ n <= LineCount(c)
      /\ \A k \in 0..n : LineEnd(c, k) = LineEnd(a, k)
      /\ \A k \in 1..n : Extracted(c)[k] = Extracted(a)[k]
  BY <1>1, LinesBefore
<1> HIDE DEF c
<1>3. /\ Extracted(a) \in Seq(Seq(Byte)) /\ Len(Extracted(a)) = n
      /\ Extracted(c) \in Seq(Seq(Byte)) /\ Len(Extracted(c)) = LineCount(c)
      /\ n \in Nat /\ n = Ends(a, Len(a)) /\ LineCount(c) = Ends(c, Len(c))
  BY <1>1, LineCountIs
<1>4. Ends(c, Len(a)) = n
  <2>1. {i \in 1..Len(a) : c[i] = "LF"} = {i \in 1..Len(a) : a[i] = "LF"}
    BY <1>1
  <2> QED BY <1>3, <2>1 DEF Ends
<1>5. LineCount(c) = IF x = "LF" THEN n + 1 ELSE n
  BY <1>1, <1>3, <1>4, EndsFacts, ZenonT(40)
<1>6. e \in 0..Len(a) /\ Ends(a, e) = n
  BY <1>3, LineEnds
<1> HIDE DEF n, e
<1>7. CASE x # "LF"
  BY <1>2, <1>3, <1>5, <1>7, SeqEqual DEF c, b
<1>8. CASE x = "LF"
  <2> DEFINE l == SubSeq(c, e + 1, Len(c))
             m == Len(c) - e
  <2>1. m \in 1..MaxTyped
    BY <1>1, <1>6, MiniServAssumption
  <2>2. \A i \in e + 1..Len(a) : a[i] # "LF"
    <3> SUFFICES ASSUME NEW i \in e + 1..Len(a), a[i] = "LF" PROVE FALSE
      OBVIOUS
    <3>1. i - 1 \in Nat /\ i \in Nat /\ (i - 1) + 1 = i /\ e \in Nat /\ e <= i - 1 /\ i <= Len(a)
      BY <1>1, <1>6
    <3>2. Ends(a, i) = Ends(a, i - 1) + 1 /\ Ends(a, i - 1) \in Nat
      BY <3>1, EndsFacts
    <3>3. Ends(a, e) <= Ends(a, i - 1)
      BY <3>1, EndsGrow
    <3>4. Ends(a, i) <= Ends(a, Len(a))
      BY <1>1, <3>1, EndsGrow
    <3> QED BY <1>3, <1>6, <3>2, <3>3, <3>4
  <2>3. l = [j \in 1..m |-> IF j = m THEN "LF" ELSE "x"]
    <3>1. l = [j \in 1..m |-> c[e + j]]
      BY <1>1, <1>6
    <3>2. ASSUME NEW j \in 1..m PROVE c[e + j] = IF j = m THEN "LF" ELSE "x"
      <4>1. CASE j = m
        BY <1>1, <1>6, <1>8, <4>1
      <4>2. CASE j # m
        <5>1. e + j \in e + 1..Len(a) /\ e + j \in 1..Len(a)
          BY <1>1, <1>6, <4>2
        <5>2. a[e + j] \in Byte /\ a[e + j] # "LF" /\ c[e + j] = a[e + j]
          BY <1>1, <2>2, <5>1
        <5> QED BY <4>2, <5>2 DEF Byte
      <4> QED BY <4>1, <4>2
    <3> HIDE DEF l, m
    <3> QED BY <3>1, <3>2
  <2>4. l \in Line
    <3> HIDE DEF l, m
    <3> QED BY <2>1, <2>3 DEF Line
  <2>5. Extracted(c)[n + 1] = l
    <3>1. LineEnd(c, n) = e
      BY <1>2, <1>3 DEF e
    <3>2. LineEnd(c, n + 1) = Len(c)
      <4>1. LineEnd(c, Ends(c, Len(c))) = Len(c)
        BY <1>1, <1>8, LineEndIs
      <4> QED BY <1>3, <1>5, <1>8, <4>1
    <3>3. n + 1 \in 1..LineCount(c) /\ (n + 1) - 1 = n
      BY <1>3, <1>5, <1>8
    <3> QED BY <3>1, <3>2, <3>3 DEF Extracted
  <2>6. l \in Seq(Byte)
    BY <1>1, <1>6
  <2> HIDE DEF l, m
  <2>7. Extracted(c) = Append(Extracted(a), l)
    <3> DEFINE s == Extracted(a)
               t == Append(s, l)
    <3>1. s \in Seq(Seq(Byte)) /\ Len(s) = n
      BY <1>3
    <3> HIDE DEF s
    <3>2. t \in Seq(Seq(Byte)) /\ Len(t) = n + 1 /\ t[n + 1] = l /\ \A k \in 1..n : t[k] = s[k]
      BY <1>3, <2>6, <3>1
    <3> HIDE DEF t
    <3>3. \A k \in 1..n + 1 : Extracted(c)[k] = t[k]
      BY <1>2, <1>3, <2>5, <3>2, SMTT(30) DEF s
    <3>4. Extracted(c) = t
      BY <1>3, <1>5, <1>8, <3>2, <3>3, SeqEqual
    <3> QED BY <3>4 DEF s, t
  <2> QED BY <1>8, <2>4, <2>7 DEF c, b
<1> QED BY <1>7, <1>8

--------------------------------------------------------------------------------
(* Streams: bytes of messages. *)

Message == [kind : {"arrived", "said", "left"}, id : Nat, line : Seq(Byte)]
Half == Message \X {1, 2}

\* Halving numbers.
LEMMA Halving ==
  ASSUME NEW n \in Nat
  PROVE  /\ n \div 2 \in Nat /\ (n + 1) \div 2 \in Nat /\ n % 2 \in {0, 1}
         /\ n = 2 * (n \div 2) + (n % 2) /\ 2 * ((n + 1) \div 2) = n + (n % 2)
  OBVIOUS

\* Halving what has grown by an even number.
LEMMA HalvingMore ==
  ASSUME NEW n \in Nat, NEW m \in Nat
  PROVE  ((n + 2 * m) + 1) \div 2 = ((n + 1) \div 2) + m /\ (n + 2 * m) % 2 = n % 2
  OBVIOUS

\* Halving two numbers whose sum is even when a part n of the second goes to the first.
LEMMA HalvingMove ==
  ASSUME NEW g \in Nat, NEW l \in Nat, (g + l) % 2 = 0, NEW n \in Nat, n <= l
  PROVE  /\ g % 2 = l % 2
         /\ \E m \in Nat : /\ m <= (l + 1) \div 2
                           /\ (g + n) \div 2 = (g \div 2) + m
                           /\ ((l - n) + 1) \div 2 = ((l + 1) \div 2) - m
                           /\ (l - n) % 2 = (n + (l % 2)) - 2 * m
<1>1. g % 2 = l % 2
  OBVIOUS
<1> DEFINE m == ((l + 1) \div 2) - (((l - n) + 1) \div 2)
<1>2. m \in Nat /\ m <= (l + 1) \div 2
  OBVIOUS
<1>3. (l - n) % 2 = (n + (l % 2)) - 2 * m
  OBVIOUS
<1>4. (g + n) \div 2 = (g \div 2) + m
  BY <1>1
<1>5. ((l - n) + 1) \div 2 = ((l + 1) \div 2) - m
  OBVIOUS
<1> HIDE DEF m
<1> QED BY <1>1, <1>2, <1>3, <1>4, <1>5

\* The bytes of messages.
LEMMA BytesFacts ==
  ASSUME NEW ms \in Seq(Message)
  PROVE  /\ BytesOf(ms) \in Seq(Half) /\ Len(BytesOf(ms)) = 2 * Len(ms)
         /\ \A k \in 1..Len(ms) : /\ BytesOf(ms)[2 * k] = <<ms[k], 2>>
                                  /\ BytesOf(ms)[2 * k - 1] = <<ms[k], 1>>
<1>1. Len(ms) \in Nat /\ \A k \in 1..Len(ms) : ms[k] \in Message
  OBVIOUS
<1>2. ASSUME NEW k \in 1..2 * Len(ms) PROVE (k + 1) \div 2 \in 1..Len(ms) /\ 2 - (k % 2) \in {1, 2}
  BY <1>1
<1>3. BytesOf(ms) \in [1..2 * Len(ms) -> Half]
  BY <1>1, <1>2 DEF BytesOf, Half
<1>4. BytesOf(ms) \in Seq(Half) /\ Len(BytesOf(ms)) = 2 * Len(ms)
  BY <1>1, <1>3, SeqOf
<1>5. ASSUME NEW k \in 1..Len(ms)
      PROVE  BytesOf(ms)[2 * k] = <<ms[k], 2>> /\ BytesOf(ms)[2 * k - 1] = <<ms[k], 1>>
  <2>1. /\ 2 * k \in 1..2 * Len(ms) /\ 2 * k - 1 \in 1..2 * Len(ms)
        /\ (2 * k + 1) \div 2 = k /\ ((2 * k - 1) + 1) \div 2 = k
        /\ (2 * k) % 2 = 0 /\ (2 * k - 1) % 2 = 1
    BY <1>1
  <2> QED BY <2>1 DEF BytesOf
<1> QED BY <1>4, <1>5

\* The messages that end in a stream.
LEMMA StreamFacts ==
  ASSUME NEW s \in Seq(Half)
  PROVE  /\ Len(s) \in Nat
         /\ Sent(s) \in Seq(Message) /\ Len(Sent(s)) = Len(s) \div 2
         /\ \A k \in 1..Len(s) \div 2 : Sent(s)[k] = s[2 * k][1]
         /\ Unsent(s) \in Seq(Message) /\ Len(Unsent(s)) = (Len(s) + 1) \div 2
         /\ \A k \in 1..(Len(s) + 1) \div 2 : Unsent(s)[k] = s[2 * k - (Len(s) % 2)][1]
<1>1. Len(s) \in Nat /\ \A i \in 1..Len(s) : s[i][1] \in Message
  BY DEF Half
<1>2. \A k \in 1..Len(s) \div 2 : 2 * k \in 1..Len(s)
  BY <1>1
<1>3. \A k \in 1..(Len(s) + 1) \div 2 : 2 * k - (Len(s) % 2) \in 1..Len(s)
  BY <1>1
<1>4. Sent(s) \in [1..Len(s) \div 2 -> Message]
  BY <1>1, <1>2 DEF Sent
<1>5. Unsent(s) \in [1..(Len(s) + 1) \div 2 -> Message]
  BY <1>1, <1>3 DEF Unsent
<1>6. Len(s) \div 2 \in Nat /\ (Len(s) + 1) \div 2 \in Nat
  BY <1>1
<1>7. Sent(s) \in Seq(Message) /\ Len(Sent(s)) = Len(s) \div 2
  BY <1>4, <1>6, SeqOf
<1>8. Unsent(s) \in Seq(Message) /\ Len(Unsent(s)) = (Len(s) + 1) \div 2
  BY <1>5, <1>6, SeqOf
<1> QED BY <1>1, <1>7, <1>8 DEF Sent, Unsent

\* Messages that are joined to a buffer wait behind those that are there.
LEMMA UnsentGrows ==
  ASSUME NEW s \in Seq(Half), NEW ms \in Seq(Message)
  PROVE  /\ s \o BytesOf(ms) \in Seq(Half)
         /\ Unsent(s \o BytesOf(ms)) = Unsent(s) \o ms
<1> DEFINE b == BytesOf(ms)
           t == s \o b
           L == Len(s)
           h == (Len(s) + 1) \div 2
           M == Len(ms)
<1>1. /\ b \in Seq(Half) /\ Len(b) = 2 * M /\ L \in Nat /\ M \in Nat
      /\ \A k \in 1..M : b[2 * k] = <<ms[k], 2>> /\ b[2 * k - 1] = <<ms[k], 1>>
  BY BytesFacts
<1> HIDE DEF b
<1>2. /\ t \in Seq(Half) /\ Len(t) = L + 2 * M
      /\ \A i \in 1..L : t[i] = s[i]
      /\ \A i \in 1..2 * M : t[L + i] = b[i]
  <2>1. b \in Seq(Half)
    BY <1>1
  <2>2. /\ t \in Seq(Half) /\ Len(t) = Len(s) + Len(b)
        /\ \A i \in 1..Len(s) : t[i] = s[i]
        /\ \A i \in 1..Len(b) : t[Len(s) + i] = b[i]
    BY <2>1, Joining
  <2> HIDE DEF t
  <2>3. Len(b) = 2 * M
    BY <1>1
  <2> QED BY <2>2, <2>3
<1> HIDE DEF t, M
<1>3. /\ Unsent(s) \in Seq(Message) /\ Len(Unsent(s)) = h
      /\ \A k \in 1..h : Unsent(s)[k] = s[2 * k - (L % 2)][1]
  BY StreamFacts
<1>4. /\ h \in Nat /\ (Len(t) + 1) \div 2 = h + M /\ Len(t) % 2 = L % 2
      /\ L % 2 \in {0, 1} /\ 2 * h = L + (L % 2)
  <2> HIDE DEF L
  <2>1. h = (L + 1) \div 2
    BY DEF L
  <2> HIDE DEF h
  <2> QED BY <1>1, <1>2, <2>1, Halving, HalvingMore
<1> HIDE DEF L, h
<1>5. /\ Unsent(t) \in Seq(Message) /\ Len(Unsent(t)) = h + M
      /\ \A k \in 1..h + M : Unsent(t)[k] = t[2 * k - (L % 2)][1]
  <2>1. /\ Unsent(t) \in Seq(Message) /\ Len(Unsent(t)) = (Len(t) + 1) \div 2
        /\ \A k \in 1..(Len(t) + 1) \div 2 : Unsent(t)[k] = t[2 * k - (Len(t) % 2)][1]
    BY <1>2, StreamFacts
  <2> QED BY <1>4, <2>1
<1> DEFINE u == Unsent(s) \o ms
<1>6. /\ u \in Seq(Message) /\ Len(u) = h + M
      /\ \A k \in 1..h : u[k] = Unsent(s)[k]
      /\ \A k \in 1..M : u[h + k] = ms[k]
  <2> DEFINE v == Unsent(s)
  <2>1. v \in Seq(Message)
    BY <1>3
  <2> HIDE DEF v
  <2>2. /\ v \o ms \in Seq(Message) /\ Len(v \o ms) = Len(v) + Len(ms)
        /\ \A k \in 1..Len(v) : (v \o ms)[k] = v[k]
        /\ \A k \in 1..Len(ms) : (v \o ms)[Len(v) + k] = ms[k]
    BY <2>1, Joining
  <2>3. u = v \o ms /\ Len(v) = h /\ v = Unsent(s) /\ Len(ms) = M
    BY <1>3 DEF v, M
  <2> HIDE DEF u
  <2> QED BY <2>2, <2>3
<1> HIDE DEF u
<1>7. ASSUME NEW k \in 1..h PROVE Unsent(t)[k] = u[k]
  <2>1. 2 * k - (L % 2) \in 1..L /\ k \in 1..h + M
    BY <1>1, <1>4
  <2>2. Unsent(t)[k] = t[2 * k - (L % 2)][1] /\ t[2 * k - (L % 2)] = s[2 * k - (L % 2)]
    BY <1>2, <1>5, <2>1
  <2>3. u[k] = s[2 * k - (L % 2)][1]
    BY <1>3, <1>6
  <2> QED BY <2>2, <2>3
<1>8. ASSUME NEW k \in 1..M PROVE Unsent(t)[h + k] = u[h + k]
  <2>1. h + k \in 1..h + M /\ 2 * (h + k) - (L % 2) = L + 2 * k
    BY <1>1, <1>4
  <2>2. 2 * k \in 1..2 * M
    BY <1>1
  <2>3. t[L + 2 * k] = <<ms[k], 2>>
    BY <1>1, <1>2, <2>2
  <2> QED BY <1>5, <1>6, <2>1, <2>3
<1>9. ASSUME NEW k \in 1..h + M PROVE Unsent(t)[k] = u[k]
  <2>1. k \in 1..h \/ (k - h \in 1..M /\ h + (k - h) = k)
    BY <1>1, <1>4
  <2> QED BY <1>7, <1>8, <2>1
<1>10. Unsent(t) = u
  BY <1>1, <1>4, <1>5, <1>6, <1>9, SeqEqual
<1> QED BY <1>2, <1>10 DEF t, b, u

\* What send takes is what the peer gets, message by message, when the stream as a
\* whole is one of whole messages.
LEMMA SentMoves ==
  ASSUME NEW g \in Seq(Half), NEW s \in Seq(Half), (Len(g) + Len(s)) % 2 = 0, NEW n \in 1..Len(s)
  PROVE  \E m \in 0..Len(Unsent(s)) :
             /\ Sent(g \o SubSeq(s, 1, n)) = Sent(g) \o SubSeq(Unsent(s), 1, m)
             /\ Unsent(SubSeq(s, n + 1, Len(s))) = SubSeq(Unsent(s), m + 1, Len(Unsent(s)))
<1> DEFINE G == Len(g)
           L == Len(s)
           U == Unsent(s)
           front == SubSeq(s, 1, n)
           back == SubSeq(s, n + 1, L)
           q == g \o front
           h == (L + 1) \div 2
<1>1. /\ G \in Nat /\ L \in Nat /\ n \in Nat /\ n <= L
      /\ front \in Seq(Half) /\ Len(front) = n /\ \A i \in 1..n : front[i] = s[i]
      /\ back \in Seq(Half) /\ Len(back) = L - n /\ \A i \in 1..L - n : back[i] = s[n + i]
  BY Cutting
<1> HIDE DEF front, back
<1>2. /\ q \in Seq(Half) /\ Len(q) = G + n
      /\ \A i \in 1..G : q[i] = g[i]
      /\ \A i \in 1..n : q[G + i] = s[i]
  <2>0. front \in Seq(Half)
    BY <1>1
  <2>1. /\ q \in Seq(Half) /\ Len(q) = G + Len(front)
        /\ \A i \in 1..G : q[i] = g[i]
        /\ \A i \in 1..Len(front) : q[G + i] = front[i]
    BY <2>0, Joining
  <2> HIDE DEF q, G, L
  <2> QED BY <1>1, <2>1
<1> HIDE DEF q
<1>3. /\ U \in Seq(Message) /\ Len(U) = h
      /\ \A k \in 1..h : U[k] = s[2 * k - (L % 2)][1]
  BY StreamFacts
<1>4. /\ Sent(g) \in Seq(Message) /\ Len(Sent(g)) = G \div 2
      /\ \A k \in 1..G \div 2 : Sent(g)[k] = g[2 * k][1]
  BY StreamFacts
<1>0. (G + L) % 2 = 0
  OBVIOUS
<1> HIDE DEF G, L, U
<1>5. /\ Sent(q) \in Seq(Message) /\ Len(Sent(q)) = (G + n) \div 2
      /\ \A k \in 1..(G + n) \div 2 : Sent(q)[k] = q[2 * k][1]
  BY <1>2, StreamFacts, ZenonT(40)
<1>6. /\ Unsent(back) \in Seq(Message) /\ Len(Unsent(back)) = ((L - n) + 1) \div 2
      /\ \A k \in 1..((L - n) + 1) \div 2 : Unsent(back)[k] = back[2 * k - ((L - n) % 2)][1]
  <2>1. /\ Unsent(back) \in Seq(Message) /\ Len(Unsent(back)) = (Len(back) + 1) \div 2
        /\ \A k \in 1..(Len(back) + 1) \div 2 : Unsent(back)[k] = back[2 * k - (Len(back) % 2)][1]
    BY <1>1, StreamFacts
  <2>2. Len(back) = L - n
    BY <1>1
  <2> QED BY <2>1, <2>2
<1>7. /\ h \in Nat /\ G \div 2 \in Nat
      /\ G = 2 * (G \div 2) + (L % 2) /\ L % 2 \in {0, 1} /\ 2 * h = L + (L % 2)
  <2>1. G % 2 = L % 2
    BY <1>0, <1>1, HalvingMove
  <2> QED BY <1>1, <2>1, Halving
<1>8. PICK m \in Nat : /\ m <= h
                       /\ (G + n) \div 2 = (G \div 2) + m /\ ((L - n) + 1) \div 2 = h - m
                       /\ (L - n) % 2 = (n + (L % 2)) - 2 * m
  <2>1. G \in Nat /\ L \in Nat /\ n \in Nat /\ n <= L
    BY <1>1
  <2> QED BY <1>0, <2>1, HalvingMove, SMTT(30)
<1> HIDE DEF h
<1> DEFINE v == Sent(g) \o SubSeq(U, 1, m)
           w == SubSeq(U, m + 1, Len(U))
<1>9. /\ v \in Seq(Message) /\ Len(v) = (G \div 2) + m
      /\ \A k \in 1..G \div 2 : v[k] = Sent(g)[k]
      /\ \A k \in 1..m : v[(G \div 2) + k] = U[k]
  <2>0. U \in Seq(Message) /\ m \in 0..Len(U)
    BY <1>3, <1>7, <1>8
  <2>1. SubSeq(U, 1, m) \in Seq(Message) /\ Len(SubSeq(U, 1, m)) = m /\ \A k \in 1..m : SubSeq(U, 1, m)[k] = U[k]
    BY <2>0, Cutting
  <2> DEFINE f == SubSeq(U, 1, m)
  <2> HIDE DEF f
  <2>2. /\ Sent(g) \o f \in Seq(Message) /\ Len(Sent(g) \o f) = Len(Sent(g)) + Len(f)
        /\ \A k \in 1..Len(Sent(g)) : (Sent(g) \o f)[k] = Sent(g)[k]
        /\ \A k \in 1..Len(f) : (Sent(g) \o f)[Len(Sent(g)) + k] = f[k]
    <3>1. Sent(g) \in Seq(Message) /\ f \in Seq(Message)
      BY <1>4, <2>1 DEF f
    <3> QED BY <3>1, Joining
  <2>3. Len(Sent(g)) = G \div 2 /\ Len(f) = m /\ v = Sent(g) \o f /\ \A k \in 1..m : f[k] = U[k]
    BY <1>4, <2>1 DEF f
  <2> HIDE DEF v
  <2> QED BY <2>2, <2>3
<1>10. /\ w \in Seq(Message) /\ Len(w) = h - m
       /\ \A k \in 1..h - m : w[k] = U[m + k]
  <2>1. U \in Seq(Message) /\ m \in 0..Len(U) /\ Len(U) = h
    BY <1>3, <1>7, <1>8
  <2> QED BY <2>1, Cutting
<1> HIDE DEF v, w
<1>11. Sent(q) = v
  <2>1. ASSUME NEW k \in 1..G \div 2 PROVE Sent(q)[k] = v[k]
    <3>1. 2 * k \in 1..G /\ k \in 1..(G \div 2) + m
      BY <1>7
    <3>2. Sent(q)[k] = q[2 * k][1] /\ q[2 * k] = g[2 * k]
      BY <1>2, <1>5, <1>8, <3>1
    <3>3. v[k] = g[2 * k][1]
      BY <1>4, <1>9
    <3> QED BY <3>2, <3>3
  <2>2. ASSUME NEW k \in 1..m PROVE Sent(q)[(G \div 2) + k] = v[(G \div 2) + k]
    <3> DEFINE i == 2 * k - (L % 2)
    <3>1. /\ (G \div 2) + k \in 1..(G \div 2) + m /\ k \in 1..h
          /\ 2 * ((G \div 2) + k) = G + i
      BY <1>1, <1>7, <1>8
    <3>2. i \in 1..n
      BY <1>1, <1>7, <1>8
    <3> HIDE DEF i
    <3>3. q[G + i] = s[i] /\ Sent(q)[(G \div 2) + k] = q[G + i][1]
      BY <1>2, <1>5, <1>8, <3>1, <3>2
    <3>4. U[k] = s[i][1] /\ v[(G \div 2) + k] = U[k]
      BY <1>3, <1>9, <3>1 DEF i
    <3> QED BY <3>3, <3>4
  <2>3. ASSUME NEW k \in 1..(G \div 2) + m PROVE Sent(q)[k] = v[k]
    <3>1. k \in 1..G \div 2 \/ (k - (G \div 2) \in 1..m /\ (G \div 2) + (k - (G \div 2)) = k)
      BY <1>7
    <3> QED BY <2>1, <2>2, <3>1
  <2> QED BY <1>5, <1>8, <1>9, <2>3, SeqEqual, SMTT(30)
<1>12. Unsent(back) = w
  <2>1. ASSUME NEW k \in 1..h - m PROVE Unsent(back)[k] = w[k]
    <3> DEFINE i == 2 * k - ((L - n) % 2)
    <3>1. i \in 1..L - n /\ m + k \in 1..h /\ n + i = 2 * (m + k) - (L % 2)
      BY <1>1, <1>7, <1>8
    <3>2. back[i] = s[n + i] /\ U[m + k] = s[n + i][1]
      BY <1>1, <1>3, <3>1
    <3> HIDE DEF i
    <3> QED BY <1>6, <1>8, <1>10, <3>2 DEF i
  <2> QED BY <1>6, <1>8, <1>10, <2>1, SeqEqual
<1>13. m \in 0..Len(U)
  BY <1>3, <1>7, <1>8
<1> QED BY <1>11, <1>12, <1>13 DEF q, front, back, v, w, U, L

\* A stream of whole messages: the halves of each follow each other.
Framed(s) ==
    /\ Len(s) % 2 = 0
    /\ \A k \in 1..Len(s) \div 2 : s[2 * k - 1] = <<s[2 * k][1], 1>> /\ s[2 * k][2] = 2

--------------------------------------------------------------------------------
(* The inductive invariant. *)

TypeOK ==
    /\ active \in SUBSET Fds
    /\ ids \in [Fds -> Nat]
    /\ next_id \in Nat
    /\ rbuf \in [Fds -> Seq(Byte)]
    /\ wbuf \in [Fds -> Seq(Half)]
    /\ wfds \in SUBSET active
    /\ rfds \in SUBSET (active \cup {sockfd})
    /\ waiting \in Nat
    /\ socket \in [Fds -> Seq(Byte)]
    /\ peer \in [Fds -> {"reads", "lazy", "closed"}]
    /\ typedBytes \in 0..MaxTyped
    /\ got \in [Numbers -> Seq(Half)]

\* A number is for one connection, and the next one is not in use.
IdsDistinct ==
    /\ \A fd \in active : ids[fd] < next_id
    /\ \A f, g \in active : ids[f] = ids[g] => f = g

\* There are no more connections than MaxId, and select has seen one that waits.
ArrivalsBounded ==
    /\ waiting + next_id <= MaxId
    /\ sockfd \in rfds => waiting > 0

\* The next client of a descriptor finds no buffer of the former.
BuffersFreed == \A fd \in Fds \ active : rbuf[fd] = <<>> /\ wbuf[fd] = <<>>

\* The bytes that have reached a peer and those that wait for it.
Stream(fd) == got[ids[fd]] \o wbuf[fd]

\* Whatever part of it send has taken, a client's stream is one of whole messages.
StreamsFramed ==
    /\ \A fd \in active : Framed(Stream(fd))
    /\ \A i \in Numbers : i >= next_id => got[i] = <<>>

InputBounded == \A fd \in Fds : Len(rbuf[fd]) + Len(socket[fd]) <= typedBytes

Inv == /\ TypeOK /\ FlushHasData /\ IdsDistinct /\ ArrivalsBounded
       /\ BuffersFreed /\ StreamsFramed /\ InputBounded

--------------------------------------------------------------------------------
(* Every step keeps it. *)

\* Joining sequences is associative.
LEMMA JoinAssoc ==
  ASSUME NEW S, NEW r \in Seq(S), NEW s \in Seq(S), NEW t \in Seq(S)
  PROVE  (r \o s) \o t = r \o (s \o t)
  OBVIOUS

\* The two parts of a sequence make the whole.
LEMMA CutJoin ==
  ASSUME NEW S, NEW s \in Seq(S), NEW n \in 0..Len(s)
  PROVE  SubSeq(s, 1, n) \o SubSeq(s, n + 1, Len(s)) = s
<1> DEFINE a == SubSeq(s, 1, n)
           b == SubSeq(s, n + 1, Len(s))
           t == a \o b
<1>1. /\ a \in Seq(S) /\ Len(a) = n /\ (\A i \in 1..n : a[i] = s[i]) /\ Len(s) \in Nat
      /\ b \in Seq(S) /\ Len(b) = Len(s) - n /\ (\A i \in 1..Len(s) - n : b[i] = s[n + i])
  BY Cutting
<1> HIDE DEF a, b
<1>2. a \in Seq(S) /\ b \in Seq(S)
  BY <1>1
<1>3. /\ t \in Seq(S) /\ Len(t) = Len(a) + Len(b)
      /\ \A i \in 1..Len(a) : t[i] = a[i]
      /\ \A i \in 1..Len(b) : t[Len(a) + i] = b[i]
  BY <1>2, Joining
<1> HIDE DEF t
<1>4. Len(t) = Len(s)
  BY <1>1, <1>3
<1>5. ASSUME NEW i \in 1..Len(s) PROVE t[i] = s[i]
  <2>1. i \in 1..n \/ (i - n \in 1..Len(s) - n /\ n + (i - n) = i)
    BY <1>1
  <2>2. i \in 1..n => t[i] = s[i]
    BY <1>1, <1>3
  <2>3. ASSUME i - n \in 1..Len(s) - n, n + (i - n) = i PROVE t[i] = s[i]
    <3>1. t[n + (i - n)] = b[i - n] /\ b[i - n] = s[n + (i - n)]
      BY <1>1, <1>3, <2>3
    <3> QED BY <2>3, <3>1
  <2> QED BY <2>1, <2>2, <2>3
<1>6. t = s
  BY <1>3, <1>4, <1>5, SeqEqual
<1> QED BY <1>6 DEF t, a, b

\* Whole messages behind whole messages are whole messages.
LEMMA FramedGrows ==
  ASSUME NEW s \in Seq(Half), Framed(s), NEW ms \in Seq(Message)
  PROVE  Framed(s \o BytesOf(ms))
<1> DEFINE b == BytesOf(ms)
           t == s \o b
           L == Len(s)
           M == Len(ms)
           h == L \div 2
<1>1. /\ b \in Seq(Half) /\ Len(b) = 2 * M /\ M \in Nat
      /\ \A k \in 1..M : b[2 * k] = <<ms[k], 2>> /\ b[2 * k - 1] = <<ms[k], 1>>
  BY BytesFacts
<1> HIDE DEF b
<1>2. /\ Len(t) = L + Len(b) /\ L \in Nat
      /\ \A i \in 1..L : t[i] = s[i]
      /\ \A i \in 1..Len(b) : t[L + i] = b[i]
  <2>1. b \in Seq(Half)
    BY <1>1
  <2> QED BY <2>1, Joining
<1>3. /\ L % 2 = 0
      /\ \A k \in 1..h : s[2 * k - 1] = <<s[2 * k][1], 1>> /\ s[2 * k][2] = 2
  BY DEF Framed
<1> HIDE DEF t, L, M
<1>4. h \in Nat /\ L = 2 * h /\ Len(t) % 2 = 0 /\ Len(t) \div 2 = h + M
  <2>1. Len(t) = L + 2 * M
    BY <1>1, <1>2
  <2> QED BY <1>1, <1>2, <1>3, <2>1
<1> HIDE DEF h
<1>5. ASSUME NEW k \in 1..h PROVE t[2 * k - 1] = <<t[2 * k][1], 1>> /\ t[2 * k][2] = 2
  <2>1. 2 * k - 1 \in 1..L /\ 2 * k \in 1..L
    BY <1>4
  <2>2. t[2 * k - 1] = s[2 * k - 1] /\ t[2 * k] = s[2 * k]
    BY <1>2, <2>1
  <2> QED BY <1>3, <2>2
<1>6. ASSUME NEW k \in 1..M
      PROVE  t[2 * (h + k) - 1] = <<t[2 * (h + k)][1], 1>> /\ t[2 * (h + k)][2] = 2
  <2>1. /\ 2 * k - 1 \in 1..Len(b) /\ 2 * k \in 1..Len(b)
        /\ 2 * (h + k) - 1 = L + (2 * k - 1) /\ 2 * (h + k) = L + 2 * k
    BY <1>1, <1>4
  <2>2. t[2 * (h + k) - 1] = b[2 * k - 1] /\ t[2 * (h + k)] = b[2 * k]
    BY <1>2, <2>1
  <2>3. b[2 * k] = <<ms[k], 2>> /\ b[2 * k - 1] = <<ms[k], 1>>
    BY <1>1
  <2> QED BY <2>2, <2>3
<1>7. ASSUME NEW k \in 1..h + M PROVE t[2 * k - 1] = <<t[2 * k][1], 1>> /\ t[2 * k][2] = 2
  <2>1. k \in 1..h \/ (k - h \in 1..M /\ h + (k - h) = k)
    BY <1>1, <1>4
  <2> QED BY <1>5, <1>6, <2>1
<1>8. Framed(t)
  BY <1>4, <1>7 DEF Framed
<1> QED BY <1>8 DEF t, b

\* What send_all does to the buffers.
LEMMA SendAll ==
  ASSUME Inv, NEW clients \in SUBSET Fds, NEW except, NEW ms \in Seq(Message), NEW fd \in Fds
  PROVE  LET w == send_all(clients, except, ms) IN
         /\ w \in [Fds -> Seq(Half)]
         /\ wbuf[fd] # <<>> => w[fd] # <<>>
         /\ w[fd] = IF fd \in clients \ {except} THEN wbuf[fd] \o BytesOf(ms) ELSE wbuf[fd]
         /\ Unsent(w[fd]) = IF fd \in clients \ {except} THEN Unsent(wbuf[fd]) \o ms ELSE Unsent(wbuf[fd])
         /\ fd \in active => Framed(got[ids[fd]] \o w[fd])
<1> DEFINE w == send_all(clients, except, ms)
           b == BytesOf(ms)
<1>1. b \in Seq(Half)
  BY BytesFacts
<1>2. wbuf \in [Fds -> Seq(Half)] /\ wbuf[fd] \in Seq(Half)
  BY DEF Inv, TypeOK
<1>3. w[fd] = IF fd \in clients \ {except} THEN wbuf[fd] \o b ELSE wbuf[fd]
  BY DEF send_all
<1>4. w \in [Fds -> Seq(Half)]
  BY <1>1, <1>2 DEF send_all
<1>5. wbuf[fd] # <<>> => w[fd] # <<>>
  <2>1. wbuf[fd] # <<>> => wbuf[fd] \o b # <<>>
    BY <1>1, <1>2, ConcatEqualIffEmpty
  <2> QED BY <1>3, <2>1
<1>6. Unsent(w[fd]) = IF fd \in clients \ {except} THEN Unsent(wbuf[fd]) \o ms ELSE Unsent(wbuf[fd])
  <2>1. Unsent(wbuf[fd] \o b) = Unsent(wbuf[fd]) \o ms
    BY <1>2, UnsentGrows
  <2> QED BY <1>3, <2>1
<1>7. ASSUME fd \in active PROVE Framed(got[ids[fd]] \o w[fd])
  <2> DEFINE g == got[ids[fd]]
  <2>1. g \in Seq(Half) /\ Framed(g \o wbuf[fd])
    <3>1. ids[fd] \in Numbers
      BY <1>7, MiniServAssumption DEF Inv, TypeOK, IdsDistinct, ArrivalsBounded, Numbers
    <3> QED BY <1>7, <3>1 DEF Inv, TypeOK, StreamsFramed, Stream
  <2> HIDE DEF g
  <2>2. g \o wbuf[fd] \in Seq(Half)
    BY <1>2, <2>1
  <2>3. Framed((g \o wbuf[fd]) \o b)
    BY <2>1, <2>2, FramedGrows
  <2>4. (g \o wbuf[fd]) \o b = g \o (wbuf[fd] \o b)
    BY <1>1, <1>2, <2>1, JoinAssoc
  <2> QED BY <1>3, <2>1, <2>3, <2>4 DEF g
<1> QED BY <1>3, <1>4, <1>5, <1>6, <1>7

\* The bounds are numbers.
LEMMA Bounds == MaxFd \in Nat /\ MaxId \in Nat /\ MaxTyped \in Nat /\ MaxId > 0
  BY MiniServAssumption

\* The numbers of connected clients.
LEMMA NumbersUsed ==
  ASSUME Inv
  PROVE  /\ \A fd \in active : ids[fd] \in Numbers /\ ids[fd] \in online
         /\ online \subseteq Numbers
         /\ waiting > 0 => next_id \in Numbers
  BY MiniServAssumption DEF Inv, TypeOK, IdsDistinct, ArrivalsBounded, Numbers, online

\* send_all keeps what the invariant says of the buffers.
LEMMA SendKeeps ==
  ASSUME Inv, NEW except, NEW ms \in Seq(Message)
  PROVE  LET w == send_all(active, except, ms) IN
         /\ w \in [Fds -> Seq(Half)]
         /\ \A f \in Fds : wbuf[f] # <<>> => w[f] # <<>>
         /\ \A f \in Fds \ active : w[f] = <<>>
         /\ \A f \in active : Framed(got[ids[f]] \o w[f])
<1> DEFINE w == send_all(active, except, ms)
<1>1. active \in SUBSET Fds
  BY DEF Inv, TypeOK
<1>2. w \in [Fds -> Seq(Half)]
  <2>1. BytesOf(ms) \in Seq(Half)
    BY BytesFacts
  <2> QED BY <2>1 DEF send_all, Inv, TypeOK
<1>3. ASSUME NEW f \in Fds
      PROVE  /\ wbuf[f] # <<>> => w[f] # <<>>
             /\ w[f] = IF f \in active \ {except} THEN wbuf[f] \o BytesOf(ms) ELSE wbuf[f]
             /\ f \in active => Framed(got[ids[f]] \o w[f])
  BY <1>1, SendAll
<1> HIDE DEF w
<1>4. ASSUME NEW f \in Fds \ active PROVE w[f] = <<>>
  <2>1. wbuf[f] = <<>>
    BY DEF Inv, BuffersFreed
  <2> QED BY <1>3, <2>1
<1> QED BY <1>1, <1>2, <1>3, <1>4 DEF w

\* The loop starts with nobody.
LEMMA InitialInv == Init => Inv
<1> SUFFICES ASSUME Init PROVE Inv
  OBVIOUS
<1>1. TypeOK
  BY MiniServAssumption DEF Init, TypeOK, Numbers
<1>2. FlushHasData /\ IdsDistinct /\ BuffersFreed /\ StreamsFramed
  BY DEF Init, FlushHasData, IdsDistinct, BuffersFreed, StreamsFramed, Numbers
<1>3. ArrivalsBounded /\ InputBounded
  BY MiniServAssumption DEF Init, ArrivalsBounded, InputBounded, sockfd
<1> QED BY <1>1, <1>2, <1>3 DEF Inv

\* Steps that neither touch buffers nor clients.
LEMMA QuietInv ==
  Inv /\ (Select \/ AcceptFails \/ Connect \/ UNCHANGED vars
          \/ \E fd \in Fds : SendBlocks(fd) \/ FlushFails(fd) \/ FlushKilled(fd)
                             \/ (\E p \in Moods \cup {"reads"} : PeerBecomes(fd, p))) => Inv'
<1> SUFFICES ASSUME Inv,
                    Select \/ AcceptFails \/ Connect \/ UNCHANGED vars
                    \/ \E fd \in Fds : SendBlocks(fd) \/ FlushFails(fd) \/ FlushKilled(fd)
                                       \/ (\E p \in Moods \cup {"reads"} : PeerBecomes(fd, p))
             PROVE  Inv'
  OBVIOUS
<1> DEFINE Same == UNCHANGED <<active, ids, next_id, rbuf, wbuf, socket, typedBytes, got>>
<1>1. ASSUME Same, FlushHasData', ArrivalsBounded', waiting' \in Nat,
             wfds' \in SUBSET active, rfds' \in SUBSET (active \cup {sockfd}),
             peer' \in [Fds -> {"reads", "lazy", "closed"}]
      PROVE  Inv'
  BY <1>1 DEF Inv, TypeOK, IdsDistinct, BuffersFreed, StreamsFramed, Stream, InputBounded
<1>2. CASE Select
  <2>1. Same /\ UNCHANGED <<waiting, peer>> /\ rfds' = Readable /\ wfds' = Writable
    BY <1>2 DEF Select, peerVars
  <2>2. FlushHasData' /\ ArrivalsBounded' /\ wfds' \in SUBSET active /\ rfds' \in SUBSET (active \cup {sockfd})
    BY <2>1 DEF FlushHasData, ArrivalsBounded, Writable, Readable, Inv, TypeOK, Fds, sockfd
  <2> QED BY <1>1, <2>1, <2>2 DEF Inv, TypeOK
<1>3. CASE AcceptFails
  <2>1. /\ Same /\ UNCHANGED <<wfds, peer>> /\ rfds' = rfds \ {sockfd} /\ sockfd \in rfds
        /\ waiting' \in {waiting, waiting - 1}
    BY <1>3 DEF AcceptFails
  <2>2. FlushHasData'
    BY <2>1 DEF FlushHasData, Inv
  <2>3. ArrivalsBounded' /\ waiting' \in Nat
    <3>1. waiting \in Nat /\ waiting > 0 /\ next_id \in Nat /\ MaxId \in Nat /\ waiting + next_id <= MaxId
      BY <2>1, Bounds DEF Inv, TypeOK, ArrivalsBounded
    <3>2. waiting' \in Nat /\ waiting' + next_id' <= MaxId /\ sockfd \notin rfds'
      <4>1. CASE waiting' = waiting
        BY <2>1, <3>1, <4>1
      <4>2. CASE waiting' = waiting - 1
        BY <2>1, <3>1, <4>2
      <4> QED BY <2>1, <4>1, <4>2
    <3> QED BY <3>2 DEF ArrivalsBounded
  <2> QED BY <1>1, <2>1, <2>2, <2>3 DEF Inv, TypeOK
<1>4. CASE Connect
  <2>1. Same /\ UNCHANGED <<rfds, wfds, peer>> /\ waiting' = waiting + 1 /\ waiting + next_id < MaxId
    BY <1>4 DEF Connect, loopVars
  <2>2. FlushHasData'
    BY <2>1 DEF FlushHasData, Inv
  <2>3. ArrivalsBounded' /\ waiting' \in Nat
    <3>1. waiting \in Nat /\ next_id \in Nat /\ MaxId \in Nat
      BY Bounds DEF Inv, TypeOK
    <3>2. waiting' \in Nat /\ waiting' + next_id' <= MaxId /\ waiting' > 0
      BY <2>1, <3>1
    <3> QED BY <3>2 DEF ArrivalsBounded
  <2> QED BY <1>1, <2>1, <2>2, <2>3 DEF Inv, TypeOK
<1>5. CASE UNCHANGED vars
  <2>1. Same /\ UNCHANGED <<rfds, wfds, peer, waiting>>
    BY <1>5 DEF vars, loopVars, peerVars
  <2>2. FlushHasData' /\ ArrivalsBounded'
    BY <2>1 DEF FlushHasData, ArrivalsBounded, Inv, TypeOK
  <2> QED BY <1>1, <2>1, <2>2 DEF Inv, TypeOK
<1>6. ASSUME NEW fd \in Fds, SendBlocks(fd) \/ FlushFails(fd) \/ FlushKilled(fd) PROVE Inv'
  <2>1. Same /\ UNCHANGED <<peer, waiting>> /\ wfds' \subseteq wfds /\ rfds' \subseteq rfds
    BY <1>6 DEF SendBlocks, FlushFails, FlushKilled, peerVars
  <2>2. FlushHasData' /\ ArrivalsBounded'
    BY <2>1 DEF FlushHasData, ArrivalsBounded, Inv, TypeOK
  <2> QED BY <1>1, <2>1, <2>2 DEF Inv, TypeOK
<1>7. ASSUME NEW fd \in Fds, NEW p \in Moods \cup {"reads"}, PeerBecomes(fd, p) PROVE Inv'
  <2>1. Same /\ UNCHANGED <<rfds, wfds, waiting>> /\ peer' = [peer EXCEPT ![fd] = p]
    BY <1>7 DEF PeerBecomes, loopVars
  <2>2. FlushHasData' /\ ArrivalsBounded'
    BY <2>1 DEF FlushHasData, ArrivalsBounded, Inv, TypeOK
  <2>3. peer' \in [Fds -> {"reads", "lazy", "closed"}]
    BY <2>1, MiniServAssumption DEF Inv, TypeOK
  <2> QED BY <1>1, <2>1, <2>2, <2>3 DEF Inv, TypeOK
<1> QED BY <1>2, <1>3, <1>4, <1>5, <1>6, <1>7

\* accept_client: the descriptor is free, its buffers are, and the number is new.
LEMMA AcceptInv == Inv /\ accept_client => Inv'
<1> SUFFICES ASSUME Inv, accept_client PROVE Inv'
  OBVIOUS
<1>1. PICK fd \in Fds :
          /\ fd \notin active
          /\ ids' = [ids EXCEPT ![fd] = next_id]
          /\ next_id' = next_id + 1
          /\ active' = active \cup {fd}
          /\ wbuf' = send_all(active, fd, <<Arrived(next_id)>>)
          /\ socket' = [socket EXCEPT ![fd] = <<>>]
          /\ peer' = [peer EXCEPT ![fd] = "reads"]
  BY DEF accept_client, FreeFd
<1>2. /\ sockfd \in rfds /\ rfds' = rfds \ {sockfd} /\ waiting' = waiting - 1
      /\ UNCHANGED <<rbuf, wfds, typedBytes, got>>
  BY DEF accept_client
<1>3. <<Arrived(next_id)>> \in Seq(Message)
  <2>1. Arrived(next_id) \in Message
    BY DEF Arrived, Message, Inv, TypeOK
  <2> QED BY <2>1
<1>4. active \in SUBSET Fds
  BY DEF Inv, TypeOK
<1>5. /\ wbuf' \in [Fds -> Seq(Half)] /\ wbuf'[fd] = <<>>
      /\ \A f \in Fds : wbuf[f] # <<>> => wbuf'[f] # <<>>
      /\ \A f \in Fds \ active : wbuf'[f] = <<>>
      /\ \A f \in active : Framed(got[ids[f]] \o wbuf'[f])
  <2> DEFINE ms == <<Arrived(next_id)>>
  <2>1. ms \in Seq(Message) /\ wbuf' = send_all(active, fd, ms)
    BY <1>1, <1>3
  <2> HIDE DEF ms
  <2>2. /\ wbuf' \in [Fds -> Seq(Half)]
        /\ \A f \in Fds : wbuf[f] # <<>> => wbuf'[f] # <<>>
        /\ \A f \in Fds \ active : wbuf'[f] = <<>>
        /\ \A f \in active : Framed(got[ids[f]] \o wbuf'[f])
    BY <2>1, SendKeeps
  <2> QED BY <1>1, <2>2
<1>6. TypeOK'
  <2>1. waiting' \in Nat
    BY <1>2 DEF Inv, TypeOK, ArrivalsBounded
  <2>2. socket' \in [Fds -> Seq(Byte)] /\ ids' \in [Fds -> Nat] /\ peer' \in [Fds -> {"reads", "lazy", "closed"}]
    BY <1>1 DEF Inv, TypeOK
  <2>3. active' \in SUBSET Fds /\ next_id' \in Nat /\ rfds' \in SUBSET (active' \cup {sockfd})
        /\ wfds' \in SUBSET active'
    BY <1>1, <1>2 DEF Inv, TypeOK
  <2>4. rbuf' \in [Fds -> Seq(Byte)] /\ typedBytes' \in 0..MaxTyped /\ got' \in [Numbers -> Seq(Half)]
    BY <1>2 DEF Inv, TypeOK
  <2>5. wbuf' \in [Fds -> Seq(Half)]
    BY <1>5
  <2> QED BY <2>1, <2>2, <2>3, <2>4, <2>5 DEF TypeOK
<1>7. FlushHasData'
  BY <1>1, <1>2, <1>5 DEF Inv, TypeOK, FlushHasData
<1>8. IdsDistinct'
  BY <1>1 DEF Inv, TypeOK, IdsDistinct
<1>9. ArrivalsBounded'
  BY <1>1, <1>2, Bounds DEF Inv, TypeOK, ArrivalsBounded
<1>10. BuffersFreed'
  BY <1>1, <1>2, <1>5 DEF Inv, BuffersFreed
<1>11. StreamsFramed'
  <2>1. next_id \in Numbers
    BY <1>2, NumbersUsed DEF Inv, ArrivalsBounded
  <2>2. got[next_id] = <<>>
    BY <2>1 DEF Inv, TypeOK, StreamsFramed
  <2>3. ASSUME NEW f \in active' PROVE Framed(Stream(f)')
    <3>1. CASE f = fd
      <4>1. Stream(f)' = <<>> \o <<>>
        BY <1>1, <1>2, <1>5, <2>2, <3>1 DEF Stream, Inv, TypeOK
      <4> QED BY <4>1 DEF Framed
    <3>2. CASE f \in active
      <4>1. ids'[f] = ids[f] /\ f \in Fds
        BY <1>1, <3>2 DEF Inv, TypeOK
      <4> QED BY <1>2, <1>5, <3>2, <4>1 DEF Stream
    <3> QED BY <1>1, <3>1, <3>2
  <2>4. \A i \in Numbers : i >= next_id' => got'[i] = <<>>
    BY <1>1, <1>2 DEF Inv, TypeOK, StreamsFramed, Numbers
  <2> QED BY <2>3, <2>4 DEF StreamsFramed
<1>12. InputBounded'
  <2>1. \A f \in Fds : Len(rbuf'[f]) = Len(rbuf[f]) /\ Len(socket'[f]) <= Len(socket[f])
                       /\ Len(rbuf[f]) \in Nat /\ Len(socket[f]) \in Nat /\ Len(socket'[f]) \in Nat
    BY <1>1, <1>2 DEF Inv, TypeOK
  <2> QED BY <1>2, <2>1 DEF Inv, TypeOK, InputBounded
<1> QED BY <1>6, <1>7, <1>8, <1>9, <1>10, <1>11, <1>12 DEF Inv

\* A client that leaves is no longer flushed to, and its buffers are freed.
LEMMA LeaveInv ==
  ASSUME Inv, NEW fd \in active, ClientLeaves(fd),
         rfds' = rfds \ {fd}, wfds' = StillActive(wfds, fd),
         socket' = [socket EXCEPT ![fd] = <<>>],
         UNCHANGED <<ids, next_id, waiting, peer, typedBytes, got>>
  PROVE  Inv'
<1> DEFINE w == send_all(active, fd, <<Left(ids[fd])>>)
<1>1. /\ active' = active \ {fd} /\ rbuf' = [rbuf EXCEPT ![fd] = <<>>]
      /\ wbuf' = [w EXCEPT ![fd] = <<>>] /\ wfds' = wfds \ {fd} /\ fd \in Fds
  BY DEF ClientLeaves, StillActive, Inv, TypeOK
<1>2. <<Left(ids[fd])>> \in Seq(Message)
  <2>1. Left(ids[fd]) \in Message
    BY <1>1 DEF Left, Message, Inv, TypeOK
  <2> QED BY <2>1
<1>3. active \in SUBSET Fds
  BY DEF Inv, TypeOK
<1>4. /\ w \in [Fds -> Seq(Half)]
      /\ \A f \in Fds : wbuf[f] # <<>> => w[f] # <<>>
      /\ \A f \in Fds \ active : w[f] = <<>>
      /\ \A f \in active : Framed(got[ids[f]] \o w[f])
  <2> DEFINE ms == <<Left(ids[fd])>>
  <2>1. ms \in Seq(Message)
    BY <1>2
  <2>2. w = send_all(active, fd, ms)
    OBVIOUS
  <2> HIDE DEF ms, w
  <2> QED BY <2>1, <2>2, SendKeeps
<1> HIDE DEF w
<1>5. wbuf' \in [Fds -> Seq(Half)] /\ wbuf'[fd] = <<>> /\ \A f \in Fds : f # fd => wbuf'[f] = w[f]
  BY <1>1, <1>4
<1>6. TypeOK'
  <2>1. socket' \in [Fds -> Seq(Byte)] /\ rbuf' \in [Fds -> Seq(Byte)]
    BY <1>1 DEF Inv, TypeOK
  <2>2. fd # sockfd
    BY <1>1 DEF Fds, sockfd
  <2>3. rfds' \in SUBSET (active' \cup {sockfd}) /\ wfds' \in SUBSET active' /\ active' \in SUBSET Fds
    BY <1>1 DEF Inv, TypeOK
  <2> QED BY <1>5, <2>1, <2>3 DEF Inv, TypeOK
<1>7. FlushHasData'
  BY <1>1, <1>4, <1>5 DEF Inv, TypeOK, FlushHasData
<1>8. IdsDistinct'
  BY <1>1 DEF Inv, IdsDistinct
<1>9. ArrivalsBounded'
  BY DEF Inv, ArrivalsBounded
<1>10. BuffersFreed'
  <2>1. \A f \in Fds : f # fd => rbuf'[f] = rbuf[f]
    BY <1>1 DEF Inv, TypeOK
  <2>2. rbuf'[fd] = <<>>
    BY <1>1 DEF Inv, TypeOK
  <2> QED BY <1>1, <1>4, <1>5, <2>1, <2>2 DEF Inv, BuffersFreed
<1>11. StreamsFramed'
  BY <1>1, <1>3, <1>4, <1>5 DEF Inv, StreamsFramed, Stream
<1>12. InputBounded'
  <2>1. \A f \in Fds : Len(rbuf'[f]) <= Len(rbuf[f]) /\ Len(socket'[f]) <= Len(socket[f])
                       /\ Len(rbuf[f]) \in Nat /\ Len(socket[f]) \in Nat
                       /\ Len(socket'[f]) \in Nat /\ Len(rbuf'[f]) \in Nat
    BY <1>1 DEF Inv, TypeOK
  <2>2. typedBytes \in Nat /\ \A f \in Fds : Len(rbuf[f]) + Len(socket[f]) <= typedBytes
    BY DEF Inv, TypeOK, InputBounded
  <2>3. ASSUME NEW f \in Fds PROVE Len(rbuf'[f]) + Len(socket'[f]) <= typedBytes
    <3>1. Len(rbuf'[f]) <= Len(rbuf[f]) /\ Len(socket'[f]) <= Len(socket[f])
          /\ Len(rbuf[f]) + Len(socket[f]) <= typedBytes
      BY <2>1, <2>2
    <3>2. typedBytes \in Nat /\ Len(rbuf[f]) \in Nat /\ Len(socket[f]) \in Nat
          /\ Len(socket'[f]) \in Nat /\ Len(rbuf'[f]) \in Nat
      BY <2>1, <2>2
    <3> DEFINE a == Len(rbuf'[f])
               b == Len(socket'[f])
               c == Len(rbuf[f])
               d == Len(socket[f])
    <3>3. a \in Int /\ b \in Int /\ c \in Int /\ d \in Int /\ typedBytes \in Int
      BY <3>2
    <3>4. a <= c /\ b <= d /\ c + d <= typedBytes
      BY <3>1
    <3> HIDE DEF a, b, c, d
    <3>5. a + b <= typedBytes
      BY <3>3, <3>4, SumBound
    <3> QED BY <3>5 DEF a, b
  <2> QED BY <2>3 DEF InputBounded
<1> QED BY <1>6, <1>7, <1>8, <1>9, <1>10, <1>11, <1>12 DEF Inv

\* The messages the lines of a buffer become.
Saids(fd, buf) == [k \in 1..LineCount(buf) |-> Said(ids[fd], Extracted(buf)[k])]

\* They are messages.
LEMMA SaidsFacts ==
  ASSUME Inv, NEW fd \in Fds, NEW buf \in Seq(Byte)
  PROVE  Saids(fd, buf) \in Seq(Message) /\ Len(Saids(fd, buf)) = LineCount(buf)
<1>1. /\ LineCount(buf) \in Nat
      /\ \A k \in 1..LineCount(buf) : Extracted(buf)[k] \in Seq(Byte)
  <2>1. LineCount(buf) \in Nat /\ Extracted(buf) \in Seq(Seq(Byte)) /\ Len(Extracted(buf)) = LineCount(buf)
    BY LineCountIs
  <2> QED BY <2>1
<1>2. \A k \in 1..LineCount(buf) : Said(ids[fd], Extracted(buf)[k]) \in Message
  BY <1>1 DEF Said, Message, Inv, TypeOK
<1>3. Saids(fd, buf) \in [1..LineCount(buf) -> Message]
  BY <1>2 DEF Saids
<1> QED BY <1>1, <1>3, SeqOf

\* The loop over extract_message.
LEMMA RelayInv ==
  ASSUME Inv, NEW fd \in active, NEW n \in 1..Len(socket[fd]),
         Relay(fd, rbuf[fd] \o SubSeq(socket[fd], 1, n)),
         socket' = [socket EXCEPT ![fd] = SubSeq(socket[fd], n + 1, Len(socket[fd]))],
         rfds' = rfds \ {fd},
         UNCHANGED <<active, wfds, ids, next_id, waiting, peer, typedBytes, got>>
  PROVE  Inv'
<1> DEFINE front == SubSeq(socket[fd], 1, n)
           back == SubSeq(socket[fd], n + 1, Len(socket[fd]))
           buf == rbuf[fd] \o front
           ms == Saids(fd, buf)
<1>1. fd \in Fds /\ rbuf[fd] \in Seq(Byte) /\ socket[fd] \in Seq(Byte) /\ n \in 0..Len(socket[fd])
  BY DEF Inv, TypeOK
<1>2. /\ front \in Seq(Byte) /\ Len(front) = n /\ Len(socket[fd]) \in Nat /\ n \in Nat
      /\ back \in Seq(Byte) /\ Len(back) = Len(socket[fd]) - n
  BY <1>1, Cutting
<1>3. socket' = [socket EXCEPT ![fd] = back]
  OBVIOUS
<1>4. rbuf' = [rbuf EXCEPT ![fd] = Rest(buf)] /\ wbuf' = send_all(active, fd, ms)
  BY DEF Relay, Saids
<1> HIDE DEF front, back
<1>5. buf \in Seq(Byte) /\ Len(buf) = Len(rbuf[fd]) + Len(front) /\ Len(rbuf[fd]) \in Nat
  BY <1>1, <1>2, Joining
<1> HIDE DEF buf
<1>6. Rest(buf) \in Seq(Byte) /\ Len(Rest(buf)) <= Len(buf)
  <2> DEFINE e == <<>>
  <2>1. e \in Seq(Byte)
    OBVIOUS
  <2> HIDE DEF e
  <2> QED BY <1>5, <2>1, LinesCut
<1>7. ms \in Seq(Message)
  BY <1>1, <1>5, SaidsFacts
<1> HIDE DEF ms
<1>8. /\ wbuf' \in [Fds -> Seq(Half)]
      /\ \A f \in Fds : wbuf[f] # <<>> => wbuf'[f] # <<>>
      /\ \A f \in Fds \ active : wbuf'[f] = <<>>
      /\ \A f \in active : Framed(got[ids[f]] \o wbuf'[f])
  BY <1>4, <1>7, SendKeeps
<1>9. TypeOK'
  <2>1. socket' \in [Fds -> Seq(Byte)] /\ rbuf' \in [Fds -> Seq(Byte)]
    BY <1>2, <1>3, <1>4, <1>6 DEF Inv, TypeOK
  <2>2. rfds' \in SUBSET (active' \cup {sockfd})
    BY DEF Inv, TypeOK
  <2> QED BY <1>8, <2>1, <2>2 DEF Inv, TypeOK
<1>10. FlushHasData'
  BY <1>8 DEF Inv, TypeOK, FlushHasData
<1>11. IdsDistinct' /\ ArrivalsBounded'
  BY DEF Inv, IdsDistinct, ArrivalsBounded
<1>12. BuffersFreed'
  <2>1. \A f \in Fds \ active : rbuf'[f] = rbuf[f]
    BY <1>4 DEF Inv, TypeOK
  <2> QED BY <1>8, <2>1 DEF Inv, BuffersFreed
<1>13. StreamsFramed'
  BY <1>8 DEF Inv, StreamsFramed, Stream
<1>14. InputBounded'
  <2>1. ASSUME NEW f \in Fds PROVE Len(rbuf'[f]) + Len(socket'[f]) <= typedBytes'
    <3>1. CASE f = fd
      <4>1. rbuf'[f] = Rest(buf) /\ socket'[f] = back
        BY <1>3, <1>4, <3>1 DEF Inv, TypeOK
      <4>2. Len(Rest(buf)) \in Nat /\ typedBytes \in Nat /\ Len(rbuf[fd]) + Len(socket[fd]) <= typedBytes
        BY <1>1, <1>6 DEF Inv, TypeOK, InputBounded
      <4>3. Len(Rest(buf)) + Len(back) <= typedBytes
        <5> DEFINE a == Len(Rest(buf))
                   r == Len(rbuf[fd])
                   l == Len(socket[fd])
                   k == Len(back)
        <5>1. a \in Nat /\ r \in Nat /\ l \in Nat /\ n \in Nat /\ typedBytes \in Nat /\ k = l - n
          BY <1>2, <1>5, <4>2
        <5>2. r + l <= typedBytes
          BY <4>2
        <5>3. a <= r + n
          BY <1>2, <1>5, <1>6
        <5> HIDE DEF a, r, l, k
        <5>4. a + k <= typedBytes
          BY <5>1, <5>2, <5>3
        <5> QED BY <5>4 DEF a, k
      <4> QED BY <4>1, <4>3
    <3>2. CASE f # fd
      <4>1. rbuf'[f] = rbuf[f] /\ socket'[f] = socket[f]
        BY <1>3, <1>4, <3>2 DEF Inv, TypeOK
      <4> QED BY <4>1 DEF Inv, InputBounded
    <3> QED BY <3>1, <3>2
  <2> QED BY <2>1 DEF InputBounded
<1> QED BY <1>9, <1>10, <1>11, <1>12, <1>13, <1>14 DEF Inv

\* handle_client: the client leaves, or what it typed is relayed.
LEMMA HandleInv ==
  ASSUME Inv, NEW fd \in Fds, handle_client(fd)
  PROVE  Inv'
<1>1. fd \in active
  BY DEF handle_client, Inv, TypeOK
<1>2. rfds' = rfds \ {fd} /\ UNCHANGED <<ids, next_id, waiting, peer, typedBytes, got>>
  BY DEF handle_client
<1>3. CASE /\ ClientLeaves(fd) /\ wfds' = StillActive(wfds, fd)
           /\ socket' = [socket EXCEPT ![fd] = <<>>]
  BY <1>1, <1>2, <1>3, LeaveInv
<1>4. CASE /\ \E n \in 1..Len(socket[fd]) :
                  /\ Relay(fd, rbuf[fd] \o SubSeq(socket[fd], 1, n))
                  /\ socket' = [socket EXCEPT ![fd] = SubSeq(socket[fd], n + 1, Len(socket[fd]))]
           /\ UNCHANGED <<active, wfds>>
  BY <1>1, <1>2, <1>4, RelayInv
<1>5. \/ /\ ClientLeaves(fd) /\ wfds' = StillActive(wfds, fd)
         /\ socket' = [socket EXCEPT ![fd] = <<>>]
      \/ /\ \E n \in 1..Len(socket[fd]) :
                /\ Relay(fd, rbuf[fd] \o SubSeq(socket[fd], 1, n))
                /\ socket' = [socket EXCEPT ![fd] = SubSeq(socket[fd], n + 1, Len(socket[fd]))]
         /\ UNCHANGED <<active, wfds>>
  BY DEF handle_client
<1> QED BY <1>3, <1>4, <1>5

\* flush_client: bytes go over from one part of the stream to the other.
LEMMA FlushInv ==
  ASSUME Inv, NEW fd \in Fds, flush_client(fd)
  PROVE  Inv'
<1> DEFINE i == ids[fd]
           w == wbuf[fd]
           g == got[i]
<1>1. fd \in active /\ wfds' = wfds \ {fd}
      /\ UNCHANGED <<active, ids, next_id, rbuf, rfds, waiting, socket, peer, typedBytes>>
  BY DEF flush_client, peerVars, Inv, TypeOK
<1>2. PICK n \in 1..Len(w) : /\ got' = [got EXCEPT ![i] = g \o SubSeq(w, 1, n)]
                             /\ wbuf' = [wbuf EXCEPT ![fd] = SubSeq(w, n + 1, Len(w))]
  BY DEF flush_client
<1>3. i \in Numbers /\ g \in Seq(Half) /\ w \in Seq(Half) /\ n \in 0..Len(w)
  BY <1>1, NumbersUsed DEF Inv, TypeOK
<1> DEFINE front == SubSeq(w, 1, n)
           back == SubSeq(w, n + 1, Len(w))
<1>4. front \in Seq(Half) /\ back \in Seq(Half) /\ front \o back = w
  BY <1>3, Cutting, CutJoin
<1>5. (g \o front) \o back = g \o w
  <2> HIDE DEF front, back
  <2>0. g \in Seq(Half) /\ front \in Seq(Half) /\ back \in Seq(Half)
    BY <1>3, <1>4
  <2> HIDE DEF g
  <2>1. (g \o front) \o back = g \o (front \o back)
    BY <2>0, JoinAssoc, SMTT(30)
  <2> QED BY <1>4, <2>1
<1>6. got' = [got EXCEPT ![i] = g \o front] /\ wbuf' = [wbuf EXCEPT ![fd] = back]
  BY <1>2
<1> HIDE DEF front, back
<1>7. TypeOK'
  <2>1. g \o front \in Seq(Half)
    BY <1>3, <1>4
  <2>2. got' \in [Numbers -> Seq(Half)] /\ wbuf' \in [Fds -> Seq(Half)]
    BY <1>4, <1>6, <2>1 DEF Inv, TypeOK
  <2>3. wfds' \in SUBSET active'
    BY <1>1 DEF Inv, TypeOK
  <2> QED BY <1>1, <2>2, <2>3 DEF Inv, TypeOK
<1>8. FlushHasData'
  BY <1>1, <1>6 DEF Inv, TypeOK, FlushHasData
<1>9. IdsDistinct' /\ ArrivalsBounded'
  BY <1>1 DEF Inv, IdsDistinct, ArrivalsBounded
<1>10. BuffersFreed'
  BY <1>1, <1>6 DEF Inv, TypeOK, BuffersFreed
<1>11. InputBounded'
  BY <1>1 DEF Inv, InputBounded
<1>12. StreamsFramed'
  <2>1. ASSUME NEW f \in active PROVE Framed(got'[ids[f]] \o wbuf'[f])
    <3>1. CASE f = fd
      <4>1. got'[ids[f]] = g \o front /\ wbuf'[f] = back
        BY <1>3, <1>6, <3>1 DEF Inv, TypeOK
      <4>2. Framed(g \o w)
        BY <1>1 DEF Inv, StreamsFramed, Stream
      <4> QED BY <1>5, <4>1, <4>2
    <3>2. CASE f # fd
      <4>1. ids[f] # i /\ ids[f] \in Numbers /\ f \in Fds
        BY <1>1, <3>2, NumbersUsed DEF Inv, IdsDistinct, TypeOK
      <4>2. got'[ids[f]] = got[ids[f]] /\ wbuf'[f] = wbuf[f]
        BY <1>6, <3>2, <4>1 DEF Inv, TypeOK
      <4> QED BY <4>2 DEF Inv, StreamsFramed, Stream
    <3> QED BY <3>1, <3>2
  <2>2. ASSUME NEW j \in Numbers, j >= next_id PROVE got'[j] = <<>>
    <3>1. j # i
      BY <1>1, <2>2 DEF Inv, TypeOK, IdsDistinct, Numbers
    <3>2. got'[j] = got[j]
      BY <1>6, <3>1 DEF Inv, TypeOK
    <3> QED BY <2>2, <3>2 DEF Inv, StreamsFramed
  <2> QED BY <1>1, <2>1, <2>2 DEF StreamsFramed, Stream
<1> QED BY <1>7, <1>8, <1>9, <1>10, <1>11, <1>12 DEF Inv

\* A byte is typed.
LEMMA TypeInv ==
  ASSUME Inv, NEW fd \in Fds, PeerTypes(fd)
  PROVE  Inv'
<1>1. /\ typedBytes < MaxTyped /\ typedBytes' = typedBytes + 1
      /\ UNCHANGED <<active, ids, next_id, rbuf, wbuf, rfds, wfds, waiting, peer, got>>
  BY DEF PeerTypes, loopVars
<1>2. PICK b \in Byte : socket' = [socket EXCEPT ![fd] = Append(socket[fd], b)]
  BY DEF PeerTypes
<1>3. socket[fd] \in Seq(Byte) /\ typedBytes \in Nat /\ MaxTyped \in Nat
  BY Bounds DEF Inv, TypeOK
<1>4. Append(socket[fd], b) \in Seq(Byte) /\ Len(Append(socket[fd], b)) = Len(socket[fd]) + 1
  BY <1>3
<1>5. TypeOK'
  <2>1. socket' \in [Fds -> Seq(Byte)]
    BY <1>2, <1>4 DEF Inv, TypeOK
  <2>2. typedBytes' \in 0..MaxTyped
    BY <1>1, <1>3
  <2> QED BY <1>1, <2>1, <2>2 DEF Inv, TypeOK
<1>6. FlushHasData' /\ IdsDistinct' /\ ArrivalsBounded' /\ BuffersFreed' /\ StreamsFramed'
  BY <1>1 DEF Inv, FlushHasData, IdsDistinct, ArrivalsBounded, BuffersFreed, StreamsFramed, Stream
<1>7. InputBounded'
  <2>1. ASSUME NEW f \in Fds PROVE Len(rbuf[f]) + Len(socket'[f]) <= typedBytes + 1
    <3>1. Len(rbuf[f]) \in Nat /\ Len(socket[f]) \in Nat /\ Len(rbuf[f]) + Len(socket[f]) <= typedBytes
      BY DEF Inv, TypeOK, InputBounded
    <3>2. Len(socket'[f]) = IF f = fd THEN Len(socket[f]) + 1 ELSE Len(socket[f])
      BY <1>2, <1>4 DEF Inv, TypeOK
    <3> DEFINE l == Len(socket[f])
               r == Len(rbuf[f])
    <3> HIDE DEF l, r
    <3>3. r \in Nat /\ l \in Nat /\ r + l <= typedBytes
      BY <3>1 DEF l, r
    <3>4. r + l <= typedBytes + 1 /\ r + (l + 1) <= typedBytes + 1
      BY <1>3, <3>3
    <3>5. Len(socket'[f]) = IF f = fd THEN l + 1 ELSE l
      BY <3>2 DEF l
    <3> QED BY <3>4, <3>5 DEF r
  <2> QED BY <1>1, <2>1 DEF InputBounded
<1> QED BY <1>5, <1>6, <1>7 DEF Inv

\* Every step keeps the invariant.
LEMMA NextInv == Inv /\ [Next]_vars => Inv'
<1> SUFFICES ASSUME Inv, [Next]_vars PROVE Inv'
  OBVIOUS
<1>1. CASE UNCHANGED vars
  BY <1>1, QuietInv
<1>2. CASE Next
  BY <1>2, QuietInv, AcceptInv, HandleInv, FlushInv, TypeInv DEF Next
<1> QED BY <1>1, <1>2

\* The invariant holds throughout.
THEOREM Invariance == Spec => []Inv
<1> QED BY InitialInv, NextInv, PTL DEF Spec

\* flush_client always has a client and something to send to it, so strlen is not
\* called for NULL, whoever has left earlier in the same scan.
THEOREM Flush == Spec => []FlushHasData
<1>1. Inv => FlushHasData
  BY DEF Inv
<1> QED BY <1>1, Invariance, PTL

\* However send cuts it, the stream to a client is one of whole messages, and that
\* of a new client starts with it (send_all, flush_client and the free in handle_client).
THEOREM Streams == Spec => []StreamsFramed
<1>1. Inv => StreamsFramed
  BY DEF Inv
<1> QED BY <1>1, Invariance, PTL

--------------------------------------------------------------------------------
(* The refinement. *)

\* What the mapping gives each client.
Mapped ==
    /\ \A fd \in active : /\ typed[ids[fd]] = Extracted(rbuf[fd] \o socket[fd])
                          /\ due[ids[fd]] = Unsent(wbuf[fd])
    /\ \A i \in Numbers \ online : typed[i] = <<>> /\ due[i] = <<>>
    /\ \A i \in Numbers : received[i] = Sent(got[i])
    /\ typed \in [Numbers -> Seq(Seq(Byte))]
    /\ due \in [Numbers -> Seq(Message)]
    /\ received \in [Numbers -> Seq(Message)]

\* The invariant makes the mapping one by descriptor.
LEMMA MappedNow == Inv => Mapped
<1> SUFFICES ASSUME Inv PROVE Mapped
  OBVIOUS
<1>1. ASSUME NEW fd \in active PROVE FdOf(ids[fd]) = fd
  BY DEF FdOf, Inv, IdsDistinct
<1>2. ASSUME NEW i \in online PROVE \E fd \in active : ids[fd] = i
  BY DEF online
<1>3. ASSUME NEW fd \in active
      PROVE  /\ typed[ids[fd]] = Extracted(rbuf[fd] \o socket[fd])
             /\ due[ids[fd]] = Unsent(wbuf[fd])
             /\ Extracted(rbuf[fd] \o socket[fd]) \in Seq(Seq(Byte)) /\ Unsent(wbuf[fd]) \in Seq(Message)
  <2>1. ids[fd] \in Numbers /\ ids[fd] \in online
    BY NumbersUsed
  <2>2. typed[ids[fd]] = Extracted(rbuf[fd] \o socket[fd]) /\ due[ids[fd]] = Unsent(wbuf[fd])
    BY <1>1, <2>1 DEF typed, due
  <2>3. rbuf[fd] \o socket[fd] \in Seq(Byte) /\ wbuf[fd] \in Seq(Half)
    BY DEF Inv, TypeOK
  <2> QED BY <2>2, <2>3, LineCountIs, StreamFacts
<1>4. \A i \in Numbers \ online : typed[i] = <<>> /\ due[i] = <<>>
  BY DEF typed, due
<1>5. \A i \in Numbers : received[i] = Sent(got[i]) /\ Sent(got[i]) \in Seq(Message)
  <2>1. \A i \in Numbers : got[i] \in Seq(Half)
    BY DEF Inv, TypeOK
  <2> QED BY <2>1, StreamFacts DEF received
<1>6. ASSUME NEW i \in Numbers PROVE typed[i] \in Seq(Seq(Byte)) /\ due[i] \in Seq(Message)
  <2>1. CASE i \in online
    <3>1. PICK fd \in active : ids[fd] = i
      BY <1>2, <2>1
    <3> QED BY <1>3, <3>1
  <2>2. CASE i \notin online
    <3>1. typed[i] = <<>> /\ due[i] = <<>>
      BY <1>4, <2>2
    <3> QED BY <3>1
  <2> QED BY <2>1, <2>2
<1>7. typed \in [Numbers -> Seq(Seq(Byte))] /\ due \in [Numbers -> Seq(Message)]
  <2>1. /\ typed = [i \in Numbers |-> typed[i]]
        /\ due = [i \in Numbers |-> due[i]]
    BY DEF typed, due
  <2> QED BY <1>6, <2>1
<1>8. received \in [Numbers -> Seq(Message)]
  <2>1. received = [i \in Numbers |-> received[i]]
    BY DEF received
  <2> QED BY <1>5, <2>1
<1> QED BY <1>3, <1>4, <1>5, <1>7, <1>8 DEF Mapped

\* And so in the next state.
LEMMA MappedNext == Inv' => Mapped'
  BY MappedNow, PTL

\* An empty buffer has no line and no message.
LEMMA EmptyBuffers == Extracted(<<>> \o <<>>) = <<>> /\ Unsent(<<>>) = <<>>
<1> DEFINE e == <<>> \o <<>>
<1>1. e \in Seq(Byte) /\ Len(e) = 0
  OBVIOUS
<1> HIDE DEF e
<1>2. Extracted(e) \in Seq(Seq(Byte)) /\ Len(Extracted(e)) = LineCount(e) /\ LineCount(e) = Ends(e, Len(e))
  BY <1>1, LineCountIs
<1>3. Len(Extracted(e)) = 0
  BY <1>1, <1>2, EndsFacts
<1>4. Extracted(e) = <<>>
  BY <1>2, <1>3, EmptySeq
<1>5. Unsent(<<>>) = <<>>
  BY DEF Unsent
<1> QED BY <1>4, <1>5 DEF e

\* Joining nothing.
LEMMA JoinNothing ==
  ASSUME NEW S, NEW s \in Seq(S)
  PROVE  s \o <<>> = s
  OBVIOUS

\* accept_client is an arrival.
LEMMA AcceptArrives == Inv /\ Inv' /\ accept_client => Chat!Arrive
<1> SUFFICES ASSUME Inv, Inv', accept_client PROVE Chat!Arrive
  OBVIOUS
<1> DEFINE ms == <<Arrived(next_id)>>
<1>1. PICK fd \in Fds :
          /\ fd \notin active
          /\ ids' = [ids EXCEPT ![fd] = next_id]
          /\ next_id' = next_id + 1
          /\ active' = active \cup {fd}
          /\ wbuf' = send_all(active, fd, ms)
          /\ socket' = [socket EXCEPT ![fd] = <<>>]
          /\ peer' = [peer EXCEPT ![fd] = "reads"]
  BY DEF accept_client, FreeFd
<1>2. sockfd \in rfds /\ rbuf' = rbuf /\ got' = got
  BY DEF accept_client
<1>3. next_id \in Numbers /\ next_id \in Nat /\ next_id < MaxId /\ next_id \notin online
  <2>1. next_id \in Numbers
    BY <1>2, NumbersUsed DEF Inv, ArrivalsBounded
  <2>2. next_id \notin online
    BY DEF online, Inv, TypeOK, IdsDistinct
  <2> QED BY <2>1, <2>2, Bounds DEF Numbers
<1>4. Mapped /\ Mapped'
  BY MappedNow, MappedNext
<1>5. ids'[fd] = next_id /\ socket'[fd] = <<>> /\ peer'[fd] = "reads"
      /\ \A f \in active : f # fd /\ ids'[f] = ids[f] /\ socket'[f] = socket[f] /\ peer'[f] = peer[f] /\ f \in Fds
  BY <1>1 DEF Inv, TypeOK
<1>6. online' = online \cup {next_id}
  BY <1>1, <1>5 DEF online
<1>7. hungUp' = hungUp
  <2>1. {f \in active' : peer'[f] = "closed"} = {f \in active : peer[f] = "closed"}
    BY <1>1, <1>5
  <2>2. hungUp' = {ids'[f] : f \in {f \in active : peer[f] = "closed"}}
    BY <2>1 DEF hungUp
  <2> QED BY <1>5, <2>2 DEF hungUp
<1>8. ms \in Seq(Message) /\ active \in SUBSET Fds
  <2>1. Arrived(next_id) \in Message
    BY <1>3 DEF Arrived, Message
  <2> QED BY <2>1 DEF Inv, TypeOK
<1> HIDE DEF ms
<1>9. \A f \in active : Unsent(wbuf'[f]) = Unsent(wbuf[f]) \o ms
  <2> TAKE f \in active
  <2>1. f \in Fds /\ f \in active \ {fd}
    BY <1>5
  <2> QED BY <1>1, <1>8, <2>1, SendAll
<1>10. wbuf'[fd] = <<>> /\ rbuf[fd] = <<>>
  <2>1. wbuf[fd] = <<>> /\ rbuf[fd] = <<>>
    BY <1>1 DEF Inv, BuffersFreed
  <2>2. wbuf'[fd] = wbuf[fd]
    BY <1>1, <1>8 DEF send_all
  <2> QED BY <2>1, <2>2
<1>11. ASSUME NEW i \in Numbers
       PROVE  /\ typed'[i] = typed[i]
              /\ due'[i] = IF i \in online THEN due[i] \o ms ELSE due[i]
  <2>1. CASE i \in online
    <3>1. PICK f \in active : ids[f] = i
      BY <2>1 DEF online
    <3>2. f \in active' /\ ids'[f] = i /\ rbuf'[f] = rbuf[f] /\ socket'[f] = socket[f]
      BY <1>1, <1>2, <1>5, <3>1
    <3>3. typed'[i] = Extracted(rbuf[f] \o socket[f]) /\ due'[i] = Unsent(wbuf'[f])
      BY <1>4, <3>2 DEF Mapped
    <3>4. typed[i] = Extracted(rbuf[f] \o socket[f]) /\ due[i] = Unsent(wbuf[f])
      BY <1>4, <3>1 DEF Mapped
    <3> QED BY <1>9, <2>1, <3>1, <3>3, <3>4
  <2>2. CASE i = next_id
    <3>1. typed[i] = <<>> /\ due[i] = <<>>
      BY <1>3, <1>4, <2>2 DEF Mapped
    <3>2. fd \in active' /\ ids'[fd] = i
      BY <1>1, <1>5, <2>2
    <3>3. typed'[i] = Extracted(rbuf'[fd] \o socket'[fd]) /\ due'[i] = Unsent(wbuf'[fd])
      BY <1>4, <3>2 DEF Mapped
    <3>4. rbuf'[fd] = <<>> /\ socket'[fd] = <<>> /\ wbuf'[fd] = <<>>
      BY <1>2, <1>5, <1>10
    <3> QED BY <1>3, <2>2, <3>1, <3>3, <3>4, EmptyBuffers
  <2>3. CASE i \notin online /\ i # next_id
    <3>1. i \notin online'
      BY <1>6, <2>3
    <3> QED BY <1>4, <2>3, <3>1 DEF Mapped
  <2> QED BY <2>1, <2>2, <2>3
<1>12. typed' = typed /\ received' = received
  <2>1. \A i \in Numbers : received'[i] = received[i]
    BY <1>2, <1>4 DEF Mapped
  <2> QED BY <1>4, <1>11, <2>1 DEF Mapped
<1>13. due' = [i \in Numbers |-> IF i \in online THEN due[i] \o ms ELSE due[i]]
  BY <1>4, <1>11 DEF Mapped
<1> QED BY <1>1, <1>3, <1>6, <1>7, <1>12, <1>13
        DEF Chat!Arrive, Chat!Owe, Chat!Id, Chat!Arrived, Arrived, ms, Numbers

\* The clients are the same while no one comes or goes.
LEMMA SameClients ==
  ASSUME UNCHANGED <<active, ids>>
  PROVE  online' = online /\ (peer' = peer => hungUp' = hungUp)
  BY DEF online, hungUp

\* A client that leaves had hung up.
LEMMA LeaverLeaves ==
  ASSUME Inv, Inv', NEW fd \in active, peer[fd] = "closed", ClientLeaves(fd),
         socket' = [socket EXCEPT ![fd] = <<>>],
         UNCHANGED <<ids, next_id, peer, got>>
  PROVE  Chat!Leave(ids[fd])
<1> DEFINE j == ids[fd]
           ms == <<Left(j)>>
<1>1. /\ active' = active \ {fd} /\ rbuf' = [rbuf EXCEPT ![fd] = <<>>]
      /\ wbuf' = [send_all(active, fd, ms) EXCEPT ![fd] = <<>>] /\ fd \in Fds
  BY DEF ClientLeaves, Inv, TypeOK
<1>2. Mapped /\ Mapped'
  BY MappedNow, MappedNext
<1>3. j \in Numbers /\ j \in online /\ j \in hungUp
  BY NumbersUsed DEF hungUp
<1>4. \A f \in active : f # fd => /\ ids[f] # j /\ rbuf'[f] = rbuf[f] /\ socket'[f] = socket[f]
                                  /\ f \in Fds /\ f \in active'
  BY <1>1 DEF Inv, TypeOK, IdsDistinct
<1>5. online' = online \ {j}
  BY <1>1, <1>4 DEF online
<1>6. hungUp' = hungUp \ {j}
  BY <1>1, <1>4 DEF hungUp
<1>7. ms \in Seq(Message) /\ active \in SUBSET Fds
  <2>1. Left(j) \in Message
    BY <1>1 DEF Left, Message, Inv, TypeOK
  <2> QED BY <2>1 DEF Inv, TypeOK
<1> HIDE DEF ms
<1>8. ASSUME NEW f \in active, f # fd PROVE Unsent(wbuf'[f]) = Unsent(wbuf[f]) \o ms
  <2> DEFINE w == send_all(active, fd, ms)
  <2>1. f \in Fds /\ f \in active \ {fd}
    BY <1>4, <1>8
  <2>2. Unsent(w[f]) = Unsent(wbuf[f]) \o ms
    BY <1>7, <2>1, SendAll
  <2>3. w \in [Fds -> Seq(Half)]
    BY <1>7, SendKeeps
  <2> HIDE DEF w
  <2>4. wbuf'[f] = w[f]
    BY <1>1, <1>8, <2>1, <2>3 DEF w
  <2> QED BY <2>2, <2>4
<1>9. ASSUME NEW i \in Numbers
      PROVE  /\ typed'[i] = IF i = j THEN <<>> ELSE typed[i]
             /\ due'[i] = IF i = j THEN <<>> ELSE IF i \in online \ {j} THEN due[i] \o ms ELSE due[i]
  <2>1. CASE i \in online \ {j}
    <3>1. PICK f \in active : ids[f] = i
      BY <2>1 DEF online
    <3>2. f # fd
      BY <2>1, <3>1
    <3>3. typed'[i] = Extracted(rbuf[f] \o socket[f]) /\ due'[i] = Unsent(wbuf'[f])
      BY <1>2, <1>4, <3>1, <3>2 DEF Mapped
    <3>4. typed[i] = Extracted(rbuf[f] \o socket[f]) /\ due[i] = Unsent(wbuf[f])
      BY <1>2, <3>1 DEF Mapped
    <3> QED BY <1>8, <2>1, <3>2, <3>3, <3>4
  <2>2. CASE i = j
    <3>1. i \notin online'
      BY <1>5, <2>2
    <3> QED BY <1>2, <2>2, <3>1 DEF Mapped
  <2>3. CASE i \notin online /\ i # j
    <3>1. i \notin online'
      BY <1>5, <2>3
    <3> QED BY <1>2, <2>3, <3>1 DEF Mapped
  <2> QED BY <2>1, <2>2, <2>3
<1>10. received' = received
  <2>1. \A i \in Numbers : received'[i] = received[i]
    BY <1>2 DEF Mapped
  <2> QED BY <1>2, <2>1 DEF Mapped
<1>11. typed' = [typed EXCEPT ![j] = <<>>]
  BY <1>2, <1>9 DEF Mapped
<1>12. due' = [[i \in Numbers |-> IF i \in online \ {j} THEN due[i] \o ms ELSE due[i]] EXCEPT ![j] = <<>>]
  BY <1>2, <1>9, ZenonT(40) DEF Mapped
<1> HIDE DEF j
<1>13. Chat!Leave(j)
  BY <1>3, <1>5, <1>6, <1>10, <1>11, <1>12
     DEF Chat!Leave, Chat!Owe, Chat!Id, Chat!Left, Left, ms, Numbers
<1> QED BY <1>13 DEF j

\* The lines that are complete are relayed, and there may be none.
LEMMA RelayRelays ==
  ASSUME Inv, Inv', NEW fd \in active, NEW n \in 1..Len(socket[fd]),
         Relay(fd, rbuf[fd] \o SubSeq(socket[fd], 1, n)),
         socket' = [socket EXCEPT ![fd] = SubSeq(socket[fd], n + 1, Len(socket[fd]))],
         UNCHANGED <<active, ids, next_id, peer, got>>
  PROVE  Chat!Relay(ids[fd]) \/ UNCHANGED Chat!vars
<1> DEFINE j == ids[fd]
           front == SubSeq(socket[fd], 1, n)
           back == SubSeq(socket[fd], n + 1, Len(socket[fd]))
           buf == rbuf[fd] \o front
           ms == Saids(fd, buf)
           all == Extracted(rbuf[fd] \o socket[fd])
           c == LineCount(buf)
<1>1. fd \in Fds /\ rbuf[fd] \in Seq(Byte) /\ socket[fd] \in Seq(Byte) /\ n \in 0..Len(socket[fd])
  BY DEF Inv, TypeOK
<1>2. front \in Seq(Byte) /\ back \in Seq(Byte) /\ front \o back = socket[fd]
  BY <1>1, Cutting, CutJoin
<1>3. rbuf' = [rbuf EXCEPT ![fd] = Rest(buf)] /\ wbuf' = send_all(active, fd, ms)
      /\ socket' = [socket EXCEPT ![fd] = back]
  BY DEF Relay, Saids
<1> HIDE DEF front, back
<1>4. buf \in Seq(Byte) /\ buf \o back = rbuf[fd] \o socket[fd]
  <2>1. buf \in Seq(Byte)
    BY <1>1, <1>2
  <2>2. (rbuf[fd] \o front) \o back = rbuf[fd] \o (front \o back)
    <3> DEFINE r == rbuf[fd]
    <3>1. r \in Seq(Byte) /\ front \in Seq(Byte) /\ back \in Seq(Byte)
      BY <1>1, <1>2
    <3> HIDE DEF r
    <3>2. (r \o front) \o back = r \o (front \o back)
      BY <3>1, JoinAssoc
    <3> QED BY <3>2 DEF r
  <2> QED BY <1>2, <2>1, <2>2
<1>5. ms \in Seq(Message) /\ ms = [k \in 1..c |-> Said(j, Extracted(buf)[k])] /\ active \in SUBSET Fds
  <2> HIDE DEF buf
  <2>1. ms \in Seq(Message)
    BY <1>1, <1>4, SaidsFacts
  <2> QED BY <2>1 DEF Saids, Inv, TypeOK
<1> HIDE DEF ms, buf
<1>6. /\ c \in 0..Len(all)
      /\ \A k \in 1..c : Extracted(buf)[k] = all[k]
      /\ Extracted(Rest(buf) \o back) = SubSeq(all, c + 1, Len(all))
  <2> DEFINE x == Extracted(buf \o back)
  <2>1. buf \in Seq(Byte) /\ back \in Seq(Byte)
    BY <1>2, <1>4
  <2>2. /\ LineCount(buf) \in 0..Len(x)
        /\ \A k \in 1..LineCount(buf) : Extracted(buf)[k] = x[k]
        /\ Extracted(Rest(buf) \o back) = SubSeq(x, LineCount(buf) + 1, Len(x))
    BY <2>1, LinesCut
  <2>3. x = all
    BY <1>4
  <2> HIDE DEF x, all
  <2> QED BY <2>2, <2>3
<1> HIDE DEF all, c
<1>7. Mapped /\ Mapped'
  BY MappedNow, MappedNext
<1>8. j \in Numbers /\ j \in online /\ typed[j] = all
  BY <1>7, NumbersUsed DEF Mapped, all
<1>9. \A f \in active : /\ f \in Fds
                        /\ f # fd => ids[f] # j /\ rbuf'[f] = rbuf[f] /\ socket'[f] = socket[f]
  BY <1>3 DEF Inv, TypeOK, IdsDistinct
<1>10. rbuf'[fd] = Rest(buf) /\ socket'[fd] = back
  BY <1>3 DEF Inv, TypeOK
<1>11. online' = online /\ hungUp' = hungUp
  BY SameClients
<1>12. ASSUME NEW f \in active
       PROVE  Unsent(wbuf'[f]) = IF f # fd THEN Unsent(wbuf[f]) \o ms ELSE Unsent(wbuf[f])
  <2>1. f \in Fds
    BY <1>9
  <2>2. Unsent(wbuf'[f]) = IF f \in active \ {fd} THEN Unsent(wbuf[f]) \o ms ELSE Unsent(wbuf[f])
    BY <1>3, <1>5, <2>1, SendAll
  <2> QED BY <2>2
<1>13. ASSUME NEW i \in Numbers
       PROVE  /\ typed'[i] = IF i = j THEN SubSeq(all, c + 1, Len(all)) ELSE typed[i]
              /\ due'[i] = IF i \in online \ {j} THEN due[i] \o ms ELSE due[i]
  <2>1. CASE i \in online \ {j}
    <3>1. PICK f \in active : ids[f] = i
      BY <2>1 DEF online
    <3>2. f # fd
      BY <2>1, <3>1
    <3>3. typed'[i] = Extracted(rbuf[f] \o socket[f]) /\ due'[i] = Unsent(wbuf'[f])
      BY <1>7, <1>9, <3>1, <3>2 DEF Mapped
    <3>4. typed[i] = Extracted(rbuf[f] \o socket[f]) /\ due[i] = Unsent(wbuf[f])
      BY <1>7, <3>1 DEF Mapped
    <3> QED BY <1>12, <2>1, <3>2, <3>3, <3>4
  <2>2. CASE i = j
    <3>1. typed'[i] = Extracted(Rest(buf) \o back) /\ due'[i] = Unsent(wbuf'[fd])
      BY <1>7, <1>10, <2>2 DEF Mapped
    <3>2. due[i] = Unsent(wbuf[fd])
      BY <1>7, <2>2 DEF Mapped
    <3> QED BY <1>6, <1>12, <2>2, <3>1, <3>2
  <2>3. CASE i \notin online
    BY <1>7, <1>8, <1>11, <2>3 DEF Mapped
  <2> QED BY <2>1, <2>2, <2>3
<1>14. received' = received
  <2>1. \A i \in Numbers : received'[i] = received[i]
    BY <1>7 DEF Mapped
  <2> QED BY <1>7, <2>1 DEF Mapped
<1>15. typed' = [typed EXCEPT ![j] = SubSeq(all, c + 1, Len(all))]
  BY <1>7, <1>13 DEF Mapped
<1>16. due' = [i \in Numbers |-> IF i \in online \ {j} THEN due[i] \o ms ELSE due[i]]
  BY <1>7, <1>13 DEF Mapped
<1>17. all \in Seq(Seq(Byte)) /\ Len(all) \in Nat
  BY <1>7, <1>8 DEF Mapped
<1> HIDE DEF j
<1>18. CASE c = 0
  <2>1. ms = <<>>
    BY <1>5, <1>18
  <2>2. SubSeq(all, c + 1, Len(all)) = all
    BY <1>17, <1>18
  <2>3. typed' = typed
    BY <1>7, <1>8, <1>15, <2>2 DEF Mapped
  <2>4. due' = due
    <3>1. \A i \in Numbers : due[i] \o ms = due[i]
      BY <1>7, <2>1, JoinNothing DEF Mapped
    <3>2. \A i \in Numbers : due'[i] = due[i]
      BY <1>16, <3>1
    <3> QED BY <1>7, <3>2 DEF Mapped
  <2> QED BY <1>11, <1>14, <2>3, <2>4 DEF Chat!vars
<1>19. CASE c > 0
  <2>1. c \in 1..Len(typed[j])
    BY <1>6, <1>8, <1>17, <1>19
  <2>2. ms = [k \in 1..c |-> Chat!Said(j, typed[j][k])]
    BY <1>5, <1>6, <1>8 DEF Chat!Said, Said
  <2>3. due' = Chat!Owe(online \ {j}, [k \in 1..c |-> Chat!Said(j, typed[j][k])])
    BY <1>16, <2>2 DEF Chat!Owe, Chat!Id, Numbers
  <2>4. typed' = [typed EXCEPT ![j] = SubSeq(typed[j], c + 1, Len(typed[j]))]
    BY <1>8, <1>15
  <2>5. Chat!Relay(j)
    BY <1>8, <1>11, <1>14, <2>1, <2>3, <2>4 DEF Chat!Relay
  <2> QED BY <2>5 DEF j
<1> QED BY <1>6, <1>17, <1>18, <1>19

\* flush_client is a reading of the messages whose last byte goes out.
LEMMA FlushReads ==
  ASSUME Inv, Inv', NEW fd \in Fds, flush_client(fd)
  PROVE  (\E i \in Chat!Id : Chat!Read(i)) \/ UNCHANGED Chat!vars
<1> DEFINE j == ids[fd]
           w == wbuf[fd]
           g == got[j]
<1>1. fd \in active /\ UNCHANGED <<active, ids, next_id, rbuf, socket, peer>>
  BY DEF flush_client, peerVars, Inv, TypeOK
<1>2. PICK n \in 1..Len(w) : /\ got' = [got EXCEPT ![j] = g \o SubSeq(w, 1, n)]
                             /\ wbuf' = [wbuf EXCEPT ![fd] = SubSeq(w, n + 1, Len(w))]
  BY DEF flush_client
<1>3. Mapped /\ Mapped'
  BY MappedNow, MappedNext
<1>4. j \in Numbers /\ j \in online /\ g \in Seq(Half) /\ w \in Seq(Half)
      /\ due[j] = Unsent(w) /\ received[j] = Sent(g)
  BY <1>1, <1>3, NumbersUsed DEF Inv, TypeOK, Mapped
<1>5. (Len(g) + Len(w)) % 2 = 0
  <2>1. Framed(g \o w)
    BY <1>1 DEF Inv, StreamsFramed, Stream
  <2>2. Len(g \o w) = Len(g) + Len(w)
    BY <1>4
  <2> QED BY <2>1, <2>2 DEF Framed
<1>6. PICK m \in 0..Len(Unsent(w)) :
          /\ Sent(g \o SubSeq(w, 1, n)) = Sent(g) \o SubSeq(Unsent(w), 1, m)
          /\ Unsent(SubSeq(w, n + 1, Len(w))) = SubSeq(Unsent(w), m + 1, Len(Unsent(w)))
  <2> HIDE DEF g, w
  <2> QED BY <1>4, <1>5, SentMoves
<1> DEFINE d == due[j]
           front == SubSeq(d, 1, m)
           back == SubSeq(d, m + 1, Len(d))
<1>7. got'[j] = g \o SubSeq(w, 1, n) /\ wbuf'[fd] = SubSeq(w, n + 1, Len(w))
  BY <1>2, <1>4 DEF Inv, TypeOK
<1>8. received'[j] = received[j] \o front /\ due'[j] = back
  <2>1. received'[j] = Sent(got'[j]) /\ due'[j] = Unsent(wbuf'[fd])
    BY <1>1, <1>3, <1>4 DEF Mapped
  <2> QED BY <1>4, <1>6, <1>7, <2>1
<1>9. ASSUME NEW i \in Numbers, i # j PROVE received'[i] = received[i] /\ due'[i] = due[i]
  <2>1. got'[i] = got[i]
    BY <1>2, <1>9 DEF Inv, TypeOK
  <2>2. received'[i] = received[i]
    BY <1>3, <2>1 DEF Mapped
  <2>3. due'[i] = due[i]
    <3>1. CASE i \in online
      <4>1. PICK f \in active : ids[f] = i
        BY <3>1 DEF online
      <4>2. f # fd /\ f \in Fds
        BY <1>9, <4>1 DEF Inv, TypeOK
      <4>3. wbuf'[f] = wbuf[f] /\ f \in active' /\ ids'[f] = i
        BY <1>1, <1>2, <4>1, <4>2 DEF Inv, TypeOK
      <4>4. due'[i] = Unsent(wbuf'[f]) /\ due[i] = Unsent(wbuf[f])
        BY <1>3, <4>1, <4>3 DEF Mapped
      <4> QED BY <4>3, <4>4
    <3>2. CASE i \notin online
      <4>1. i \notin online'
        BY <1>1, <3>2, SameClients
      <4> QED BY <1>3, <3>2, <4>1 DEF Mapped
    <3> QED BY <3>1, <3>2
  <2> QED BY <2>2, <2>3
<1>10. typed' = typed
  <2>1. ASSUME NEW i \in Numbers PROVE typed'[i] = typed[i]
    <3>1. CASE i \in online
      <4>1. PICK f \in active : ids[f] = i
        BY <3>1 DEF online
      <4>2. f \in active' /\ ids'[f] = i /\ rbuf'[f] = rbuf[f] /\ socket'[f] = socket[f]
        BY <1>1, <4>1
      <4>3. typed'[i] = Extracted(rbuf'[f] \o socket'[f]) /\ typed[i] = Extracted(rbuf[f] \o socket[f])
        BY <1>3, <4>1, <4>2 DEF Mapped
      <4> QED BY <4>2, <4>3
    <3>2. CASE i \notin online
      <4>1. i \notin online'
        BY <1>1, <3>2, SameClients
      <4> QED BY <1>3, <3>2, <4>1 DEF Mapped
    <3> QED BY <3>1, <3>2
  <2> QED BY <1>3, <2>1 DEF Mapped
<1>11. online' = online /\ hungUp' = hungUp
  BY <1>1, SameClients
<1>12. d \in Seq(Message) /\ m \in 0..Len(d) /\ Len(d) \in Nat /\ received[j] \in Seq(Message)
  BY <1>3, <1>4, <1>6 DEF Mapped
<1>13. received' = [received EXCEPT ![j] = received[j] \o front] /\ due' = [due EXCEPT ![j] = back]
  BY <1>3, <1>4, <1>8, <1>9 DEF Mapped
<1> HIDE DEF j, d
<1>14. CASE m = 0
  <2>1. front = <<>> /\ back = d
    BY <1>12, <1>14
  <2>2. received[j] \o front = received[j]
    BY <1>12, <2>1, JoinNothing
  <2>3. received' = received /\ due' = due
    BY <1>3, <1>4, <1>13, <2>1, <2>2 DEF Mapped, d
  <2> QED BY <1>1, <1>10, <1>11, <2>3 DEF Chat!vars
<1>15. CASE m > 0
  <2>1. m \in 1..Len(due[j])
    BY <1>12, <1>15 DEF d
  <2>2. j \in Chat!Id
    BY <1>4 DEF Chat!Id, Numbers
  <2>3. Chat!Read(j)
    BY <1>1, <1>4, <1>10, <1>11, <1>13, <2>1 DEF Chat!Read, d
  <2> QED BY <2>2, <2>3
<1> QED BY <1>12, <1>14, <1>15

\* A byte that ends a line makes it typed.
LEMMA TypeTypes ==
  ASSUME Inv, Inv', NEW fd \in Fds, PeerTypes(fd)
  PROVE  (\E i \in Chat!Id : Chat!Type(i)) \/ UNCHANGED Chat!vars
<1> DEFINE j == ids[fd]
           a == rbuf[fd] \o socket[fd]
<1>1. /\ fd \in active /\ peer[fd] # "closed" /\ typedBytes < MaxTyped
      /\ UNCHANGED <<active, ids, next_id, rbuf, wbuf, peer, got>>
  BY DEF PeerTypes
<1>2. PICK b \in Byte : socket' = [socket EXCEPT ![fd] = Append(socket[fd], b)]
  BY DEF PeerTypes
<1>3. Mapped /\ Mapped'
  BY MappedNow, MappedNext
<1>4. rbuf[fd] \in Seq(Byte) /\ socket[fd] \in Seq(Byte)
  BY DEF Inv, TypeOK
<1>5. a \in Seq(Byte) /\ Len(a) < MaxTyped
  <2>1. a \in Seq(Byte) /\ Len(a) = Len(rbuf[fd]) + Len(socket[fd])
    BY <1>4
  <2>2. Len(a) <= typedBytes /\ Len(a) \in Nat /\ typedBytes \in Nat /\ MaxTyped \in Nat
    BY <2>1, Bounds DEF Inv, TypeOK, InputBounded
  <2> DEFINE L == Len(a)
  <2>3. L <= typedBytes /\ L \in Nat /\ typedBytes \in Nat /\ MaxTyped \in Nat
    BY <2>2
  <2> HIDE DEF L
  <2>4. L < MaxTyped
    BY <1>1, <2>3
  <2> QED BY <2>1, <2>4 DEF L
<1>6. rbuf'[fd] \o socket'[fd] = a \o <<b>>
  <2>1. socket'[fd] = socket[fd] \o <<b>> /\ rbuf'[fd] = rbuf[fd]
    BY <1>1, <1>2, <1>4 DEF Inv, TypeOK
  <2> DEFINE r == rbuf[fd]
             s == socket[fd]
             t == <<b>>
  <2>2. r \in Seq(Byte) /\ s \in Seq(Byte) /\ t \in Seq(Byte)
    BY <1>4
  <2> HIDE DEF r, s, t
  <2>3. (r \o s) \o t = r \o (s \o t)
    BY <2>2, JoinAssoc
  <2> QED BY <2>1, <2>3 DEF r, s, t
<1>7. j \in Numbers /\ j \in online /\ typed[j] = Extracted(a) /\ typed'[j] = Extracted(a \o <<b>>)
  <2>1. typed'[j] = Extracted(rbuf'[fd] \o socket'[fd])
    BY <1>1, <1>3 DEF Mapped
  <2> QED BY <1>1, <1>3, <1>6, <2>1, NumbersUsed DEF Mapped
<1> HIDE DEF a
<1>8. ASSUME NEW i \in Numbers PROVE /\ due'[i] = due[i] /\ received'[i] = received[i]
                                     /\ i # j => typed'[i] = typed[i]
  <2>1. received'[i] = received[i]
    BY <1>1, <1>3 DEF Mapped
  <2>2. CASE i \in online
    <3>1. PICK f \in active : ids[f] = i
      BY <2>2 DEF online
    <3>2. f \in active' /\ ids'[f] = i /\ rbuf'[f] = rbuf[f] /\ wbuf'[f] = wbuf[f]
      BY <1>1, <3>1
    <3>3. i # j => socket'[f] = socket[f]
      BY <1>2, <3>1 DEF Inv, TypeOK
    <3>4. /\ typed'[i] = Extracted(rbuf'[f] \o socket'[f]) /\ typed[i] = Extracted(rbuf[f] \o socket[f])
          /\ due'[i] = Unsent(wbuf'[f]) /\ due[i] = Unsent(wbuf[f])
      BY <1>3, <3>1, <3>2 DEF Mapped
    <3> QED BY <2>1, <3>2, <3>3, <3>4
  <2>3. CASE i \notin online
    <3>1. i \notin online'
      BY <1>1, <2>3, SameClients
    <3> QED BY <1>3, <2>1, <2>3, <3>1 DEF Mapped
  <2> QED BY <2>2, <2>3
<1>9. due' = due /\ received' = received /\ online' = online /\ hungUp' = hungUp
  <2>1. due' = due /\ received' = received
    BY <1>3, <1>8 DEF Mapped
  <2> QED BY <1>1, <2>1, SameClients
<1>10. CASE b # "LF"
  <2>1. typed'[j] = typed[j]
    BY <1>5, <1>7, <1>10, ByteTyped
  <2>2. typed' = typed
    BY <1>3, <1>8, <2>1 DEF Mapped
  <2> QED BY <1>1, <1>9, <2>2 DEF Chat!vars
<1>11. CASE b = "LF"
  <2>1. PICK l \in Line : typed'[j] = Append(typed[j], l)
    BY <1>5, <1>7, <1>11, ByteTyped
  <2>2. typed' = [typed EXCEPT ![j] = Append(typed[j], l)]
    BY <1>3, <1>7, <1>8, <2>1 DEF Mapped
  <2>3. j \notin hungUp
    BY <1>1 DEF hungUp, Inv, IdsDistinct
  <2>4. j \in Chat!Id
    BY <1>7 DEF Chat!Id, Numbers
  <2> HIDE DEF j
  <2>5. Chat!Type(j)
    BY <1>1, <1>7, <1>9, <2>1, <2>2, <2>3 DEF Chat!Type, Line
  <2> QED BY <2>4, <2>5
<1> QED BY <1>10, <1>11

\* A step that leaves the clients and their buffers alone is none.
LEMMA QuietStutters ==
  ASSUME Inv, Inv', UNCHANGED <<active, ids, next_id, rbuf, wbuf, socket, got>>
  PROVE  UNCHANGED <<next_id, online, typed, due, received>>
<1>1. Mapped /\ Mapped'
  BY MappedNow, MappedNext
<1>2. online' = online
  BY SameClients
<1>3. ASSUME NEW i \in Numbers
      PROVE  typed'[i] = typed[i] /\ due'[i] = due[i] /\ received'[i] = received[i]
  <2>1. received'[i] = received[i]
    BY <1>1 DEF Mapped
  <2>2. CASE i \in online
    <3>1. PICK f \in active : ids[f] = i
      BY <2>2 DEF online
    <3>2. /\ typed'[i] = Extracted(rbuf[f] \o socket[f]) /\ typed[i] = Extracted(rbuf[f] \o socket[f])
          /\ due'[i] = Unsent(wbuf[f]) /\ due[i] = Unsent(wbuf[f])
      BY <1>1, <3>1 DEF Mapped
    <3> QED BY <2>1, <3>2
  <2>3. CASE i \notin online
    BY <1>1, <1>2, <2>1, <2>3 DEF Mapped
  <2> QED BY <2>2, <2>3
<1>4. typed' = typed /\ due' = due /\ received' = received
  BY <1>1, <1>3 DEF Mapped
<1> QED BY <1>2, <1>4

\* A peer that closes hangs up; one that is lazy does nothing.
LEMMA PeerHangsUp ==
  ASSUME Inv, Inv', NEW fd \in Fds, NEW p, PeerBecomes(fd, p)
  PROVE  (\E i \in Chat!Id : Chat!HangUp(i)) \/ UNCHANGED Chat!vars
<1> DEFINE j == ids[fd]
<1>1. /\ fd \in active /\ peer[fd] # "closed" /\ peer' = [peer EXCEPT ![fd] = p]
      /\ UNCHANGED <<active, ids, next_id, rbuf, wbuf, socket, got>>
  BY DEF PeerBecomes
<1>2. UNCHANGED <<next_id, online, typed, due, received>>
  BY <1>1, QuietStutters
<1>3. peer'[fd] = p /\ \A f \in active : f # fd => peer'[f] = peer[f]
  BY <1>1 DEF Inv, TypeOK
<1>4. j \in Numbers /\ j \in online /\ j \notin hungUp
  <2>1. j \notin hungUp
    BY <1>1 DEF hungUp, Inv, IdsDistinct
  <2> QED BY <1>1, <2>1, NumbersUsed
<1>5. CASE p = "closed"
  <2>1. {f \in active' : peer'[f] = "closed"} = {f \in active : peer[f] = "closed"} \cup {fd}
    BY <1>1, <1>3, <1>5
  <2>2. hungUp' = hungUp \cup {j}
    BY <1>1, <2>1 DEF hungUp
  <2>3. j \in Chat!Id
    BY <1>4 DEF Chat!Id, Numbers
  <2> HIDE DEF j
  <2>4. Chat!HangUp(j)
    BY <1>2, <1>4, <2>2 DEF Chat!HangUp
  <2> QED BY <2>3, <2>4
<1>6. CASE p # "closed"
  <2>1. {f \in active' : peer'[f] = "closed"} = {f \in active : peer[f] = "closed"}
    BY <1>1, <1>3, <1>6
  <2>2. hungUp' = hungUp
    BY <1>1, <2>1 DEF hungUp
  <2> QED BY <1>2, <2>2 DEF Chat!vars
<1> QED BY <1>5, <1>6

\* Every step is one of the abstract specification, or none.
LEMMA NextImplements == Inv /\ Inv' /\ [Next]_vars => [Chat!Next]_(Chat!vars)
<1> SUFFICES ASSUME Inv, Inv', [Next]_vars PROVE Chat!Next \/ UNCHANGED Chat!vars
  OBVIOUS
<1>1. ASSUME UNCHANGED <<active, ids, next_id, rbuf, wbuf, socket, got, peer>>
      PROVE  UNCHANGED Chat!vars
  BY <1>1, QuietStutters, SameClients DEF Chat!vars
<1>2. CASE UNCHANGED vars
  BY <1>1, <1>2 DEF vars, peerVars
<1>3. CASE Select \/ AcceptFails \/ Connect
  BY <1>1, <1>3 DEF Select, AcceptFails, Connect, peerVars
<1>4. ASSUME NEW fd \in Fds, SendBlocks(fd) \/ FlushFails(fd) \/ FlushKilled(fd) PROVE UNCHANGED Chat!vars
  BY <1>1, <1>4 DEF SendBlocks, FlushFails, FlushKilled, peerVars
<1>5. CASE accept_client
  BY <1>5, AcceptArrives DEF Chat!Next
<1>6. ASSUME NEW fd \in Fds, handle_client(fd) PROVE Chat!Next \/ UNCHANGED Chat!vars
  <2>1. fd \in active /\ UNCHANGED <<ids, next_id, peer, got>>
    BY <1>6 DEF handle_client, Inv, TypeOK
  <2>2. ids[fd] \in Chat!Id
    BY <2>1, NumbersUsed DEF Chat!Id, Numbers
  <2>3. \/ /\ peer[fd] = "closed" /\ ClientLeaves(fd)
           /\ socket' = [socket EXCEPT ![fd] = <<>>]
        \/ /\ \E n \in 1..Len(socket[fd]) :
                  /\ Relay(fd, rbuf[fd] \o SubSeq(socket[fd], 1, n))
                  /\ socket' = [socket EXCEPT ![fd] = SubSeq(socket[fd], n + 1, Len(socket[fd]))]
           /\ UNCHANGED active
    BY <1>6 DEF handle_client
  <2>4. Chat!Leave(ids[fd]) \/ Chat!Relay(ids[fd]) \/ UNCHANGED Chat!vars
    BY <2>1, <2>3, LeaverLeaves, RelayRelays
  <2> QED BY <2>2, <2>4 DEF Chat!Next
<1>7. ASSUME NEW fd \in Fds, flush_client(fd) PROVE Chat!Next \/ UNCHANGED Chat!vars
  BY <1>7, FlushReads DEF Chat!Next
<1>8. ASSUME NEW fd \in Fds, PeerTypes(fd) PROVE Chat!Next \/ UNCHANGED Chat!vars
  BY <1>8, TypeTypes DEF Chat!Next
<1>9. ASSUME NEW fd \in Fds, NEW p, PeerBecomes(fd, p) PROVE Chat!Next \/ UNCHANGED Chat!vars
  BY <1>9, PeerHangsUp DEF Chat!Next
<1> QED BY <1>2, <1>3, <1>4, <1>5, <1>6, <1>7, <1>8, <1>9 DEF Next

\* mini_serv.c implements the assignment, for any number of descriptors, connections
\* and bytes: numbers in the order of arrival, every line once and in order to all the
\* others, however recv and send cut the streams.
THEOREM Refinement == Spec => ChatSpec
<1>1. Init => Chat!Init
  <2> SUFFICES ASSUME Init PROVE Chat!Init
    OBVIOUS
  <2>1. next_id = 0 /\ online = {} /\ hungUp = {}
    BY DEF Init, online, hungUp
  <2>2. Sent(<<>>) = <<>>
    BY DEF Sent
  <2>3. /\ typed = [i \in Numbers |-> <<>>] /\ due = [i \in Numbers |-> <<>>]
        /\ received = [i \in Numbers |-> <<>>]
    BY <2>1, <2>2 DEF Init, typed, due, received, Numbers
  <2> QED BY <2>1, <2>3 DEF Chat!Init, Chat!Id, Numbers
<1> QED BY <1>1, NextImplements, Invariance, PTL DEF Spec, ChatSpec, Chat!Spec
================================================================================
