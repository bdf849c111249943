-------------------------------- MODULE BotProofs --------------------------------
(******************************************************************************)
(* The proofs about Bot: what a bot has sent and has still to send is always  *)
(* its registration and one answer to each line it was given, in order, byte  *)
(* by byte, for any number of bots, lines of any length and any room.         *)
(*                                                                            *)
(* First induction over numbers and what FlattenSeq computes; then the bytes  *)
(* of lines; then the inductive invariant, action by action.                  *)
(******************************************************************************)
EXTENDS Bot, SequenceTheorems, WellFoundedInduction, TLAPS

--------------------------------------------------------------------------------
(* Numbers. *)

\* A set of numbers that is not empty has a least element.
LEMMA LeastNumber ==
  ASSUME NEW T \in SUBSET Nat, T # {}
  PROVE  \E x \in T : \A y \in T : x <= y
<1> DEFINE R == OpToRel(<, Nat)
<1>1. IsWellFoundedOn(R, Nat)
  BY NatLessThanWellFounded
<1>2. \A x, y \in Nat : x < y => <<x, y>> \in R
  BY DEF OpToRel
<1> HIDE DEF R
<1>3. PICK x \in T : \A y \in T : ~ (<<y, x>> \in R)
  BY <1>1, WFMin
<1>4. \A y \in T : x <= y
  <2> TAKE y \in T
  <2>1. x \in Nat /\ y \in Nat /\ ~ (y < x)
    BY <1>2, <1>3
  <2> QED BY <2>1
<1> QED BY <1>4

\* Induction over a set of numbers.
LEMMA Induction ==
  ASSUME NEW P, P \subseteq Nat, 0 \in P, \A n \in P : n + 1 \in P
  PROVE  P = Nat
<1> DEFINE T == Nat \ P
<1>1. ASSUME T # {} PROVE FALSE
  <2>1. PICK x \in T : \A y \in T : x <= y
    BY <1>1, LeastNumber
  <2>2. x # 0 /\ x - 1 \in Nat /\ x - 1 \in P
    BY <2>1
  <2>3. (x - 1) + 1 = x
    BY <2>1
  <2> QED BY <2>1, <2>2, <2>3
<1> QED BY <1>1

--------------------------------------------------------------------------------
(* What FlattenSeq computes. *)

\* g holds the first m partial results of flattening ss.
Flattens(ss, m, g) ==
  g = [i \in 1..m |-> IF i = 1 THEN ss[i] ELSE g[i - 1] \o ss[i]]

\* There are partial results, as many as wanted.
LEMMA FlattensExists ==
  ASSUME NEW ss, NEW n \in Nat
  PROVE  \E g : Flattens(ss, n, g)
<1> DEFINE P == {m \in Nat : \E g : Flattens(ss, m, g)}
<1>1. 0 \in P
  <2>1. Flattens(ss, 0, [i \in 1..0 |-> ss[i]])
    BY DEF Flattens
  <2> QED BY <2>1
<1>2. ASSUME NEW m \in P PROVE m + 1 \in P
  <2>1. PICK g : Flattens(ss, m, g)
    BY <1>2
  <2> DEFINE h == [i \in 1..m + 1 |->
                     IF i = m + 1 THEN (IF m = 0 THEN ss[1] ELSE g[m] \o ss[m + 1]) ELSE g[i]]
  <2>2. m \in Nat
    OBVIOUS
  <2>3. ASSUME NEW i \in 1..m + 1
        PROVE  h[i] = IF i = 1 THEN ss[i] ELSE h[i - 1] \o ss[i]
    <3>1. CASE i = m + 1
      BY <2>2, <3>1
    <3>2. CASE i # m + 1
      <4>1. i \in 1..m /\ (i # 1 => i - 1 \in 1..m)
        BY <2>2, <3>2
      <4>2. g[i] = IF i = 1 THEN ss[i] ELSE g[i - 1] \o ss[i]
        BY <2>1, <4>1 DEF Flattens
      <4>3. h[i] = g[i] /\ (i # 1 => h[i - 1] = g[i - 1])
        BY <2>2, <3>2, <4>1
      <4> QED BY <4>2, <4>3
    <3> QED BY <3>1, <3>2
  <2>4. h = [i \in 1..m + 1 |-> h[i]]
    OBVIOUS
  <2> HIDE DEF h
  <2>5. Flattens(ss, m + 1, h)
    BY <2>3, <2>4 DEF Flattens
  <2> QED BY <2>2, <2>5
<1> HIDE DEF P
<1>3. P = Nat
  <2>1. P \subseteq Nat
    BY DEF P
  <2> QED BY <1>1, <1>2, <2>1, Induction
<1> QED BY <1>3 DEF P

\* They are determined.
LEMMA FlattensUnique ==
  ASSUME NEW ss, NEW n \in Nat, NEW g, NEW h, Flattens(ss, n, g), Flattens(ss, n, h)
  PROVE  \A i \in 1..n : g[i] = h[i]
<1> DEFINE T == {i \in 1..n : g[i] # h[i]}
<1>1. ASSUME T # {} PROVE FALSE
  <2>1. PICK i \in T : \A j \in T : i <= j
    <3>1. T \in SUBSET Nat
      OBVIOUS
    <3> HIDE DEF T
    <3> QED BY <1>1, <3>1, LeastNumber
  <2>2. i \in 1..n /\ g[i] # h[i]
    BY <2>1
  <2>3. i # 1
    BY <2>2 DEF Flattens
  <2>4. i - 1 \in 1..n /\ g[i - 1] = h[i - 1]
    BY <2>1, <2>2, <2>3
  <2>5. g[i] = g[i - 1] \o ss[i] /\ h[i] = h[i - 1] \o ss[i]
    BY <2>2, <2>3 DEF Flattens
  <2> QED BY <2>2, <2>4, <2>5
<1> QED BY <1>1

\* FlattenSeq is the last partial result.
LEMMA FlattenIsLast ==
  ASSUME NEW ss, Len(ss) \in Nat, Len(ss) # 0, NEW g, Flattens(ss, Len(ss), g)
  PROVE  FlattenSeq(ss) = g[Len(ss)]
<1> DEFINE F == CHOOSE h : h = [i \in 1..Len(ss) |-> IF i = 1 THEN ss[i] ELSE h[i - 1] \o ss[i]]
<1>1. F = [i \in 1..Len(ss) |-> IF i = 1 THEN ss[i] ELSE F[i - 1] \o ss[i]]
  BY DEF Flattens
<1>2. FlattenSeq(ss) = F[Len(ss)]
  BY DEF FlattenSeq
<1> HIDE DEF F
<1>3. Flattens(ss, Len(ss), F)
  BY <1>1 DEF Flattens
<1>4. Len(ss) \in 1..Len(ss)
  OBVIOUS
<1> QED BY <1>2, <1>3, <1>4, FlattensUnique

\* Flattening one sequence more appends it.
LEMMA FlattenAppend ==
  ASSUME NEW S, NEW ss \in Seq(Seq(S)), NEW t \in Seq(S)
  PROVE  FlattenSeq(Append(ss, t)) = FlattenSeq(ss) \o t
<1> DEFINE n == Len(ss)
           st == Append(ss, t)
<1>1. n \in Nat /\ Len(st) = n + 1 /\ st[n + 1] = t /\ \A i \in 1..n : st[i] = ss[i]
  OBVIOUS
<1>2. PICK g : Flattens(st, n + 1, g)
  <2> HIDE DEF n, st
  <2>1. n + 1 \in Nat
    BY <1>1
  <2> QED BY <2>1, FlattensExists
<1>3. FlattenSeq(st) = g[n + 1]
  <2> HIDE DEF n, st
  <2>1. Len(st) \in Nat /\ Len(st) # 0 /\ Flattens(st, Len(st), g)
    BY <1>1, <1>2
  <2> QED BY <1>1, <2>1, FlattenIsLast
<1>4. CASE n = 0
  <2>1. FlattenSeq(ss) = ss /\ ss = <<>>
    BY <1>4 DEF FlattenSeq
  <2>2. g[n + 1] = t
    BY <1>1, <1>2, <1>4 DEF Flattens
  <2>3. <<>> \o t = t
    OBVIOUS
  <2> QED BY <1>3, <2>1, <2>2, <2>3
<1>5. CASE n # 0
  <2> DEFINE h == [i \in 1..n |-> g[i]]
  <2>1. ASSUME NEW i \in 1..n
        PROVE  h[i] = IF i = 1 THEN ss[i] ELSE h[i - 1] \o ss[i]
    <3>1. i \in 1..n + 1 /\ (i # 1 => i - 1 \in 1..n)
      BY <1>1
    <3>2. g[i] = IF i = 1 THEN st[i] ELSE g[i - 1] \o st[i]
      <4> HIDE DEF st, n
      <4> QED BY <1>2, <3>1 DEF Flattens
    <3> QED BY <1>1, <3>1, <3>2
  <2>2. h = [i \in 1..n |-> h[i]]
    OBVIOUS
  <2>3. h[n] = g[n]
    BY <1>1, <1>5
  <2> HIDE DEF h
  <2>4. Flattens(ss, Len(ss), h)
    BY <2>1, <2>2 DEF Flattens
  <2>5. FlattenSeq(ss) = g[n]
    <3>1. Len(ss) \in Nat /\ Len(ss) # 0
      BY <1>1, <1>5
    <3>2. FlattenSeq(ss) = h[Len(ss)]
      BY <2>4, <3>1, FlattenIsLast
    <3> QED BY <2>3, <3>2
  <2>6. g[n + 1] = g[n] \o st[n + 1]
    <3>1. n + 1 \in 1..n + 1 /\ n + 1 # 1 /\ (n + 1) - 1 = n
      BY <1>1, <1>5
    <3> HIDE DEF n, st
    <3> QED BY <1>2, <3>1 DEF Flattens
  <2> QED BY <1>1, <1>3, <2>5, <2>6
<1> QED BY <1>4, <1>5

\* What is flattened is a sequence again.
LEMMA FlattenType ==
  ASSUME NEW S, NEW ss \in Seq(Seq(S))
  PROVE  FlattenSeq(ss) \in Seq(S)
<1> DEFINE n == Len(ss)
<1>1. n \in Nat
  OBVIOUS
<1>2. CASE n = 0
  <2>1. FlattenSeq(ss) = <<>>
    BY <1>2 DEF FlattenSeq
  <2> QED BY <2>1
<1>3. CASE n # 0
  <2>1. PICK g : Flattens(ss, n, g)
    <3> HIDE DEF n
    <3> QED BY <1>1, FlattensExists
  <2>2. FlattenSeq(ss) = g[n]
    BY <1>1, <1>3, <2>1, FlattenIsLast
  <2> DEFINE T == {i \in 1..n : g[i] \notin Seq(S)}
  <2>3. ASSUME T # {} PROVE FALSE
    <3>1. PICK i \in T : \A j \in T : i <= j
      <4>1. T \in SUBSET Nat
        OBVIOUS
      <4> HIDE DEF T
      <4> QED BY <2>3, <4>1, LeastNumber
    <3>2. i \in 1..n /\ g[i] \notin Seq(S) /\ ss[i] \in Seq(S)
      BY <3>1
    <3>3. i # 1
      BY <2>1, <3>2 DEF Flattens
    <3>4. i - 1 \in 1..n /\ g[i - 1] \in Seq(S)
      BY <3>1, <3>2, <3>3
    <3>5. g[i] = g[i - 1] \o ss[i]
      BY <2>1, <3>2, <3>3 DEF Flattens
    <3>6. \A s, t \in Seq(S) : s \o t \in Seq(S)
      OBVIOUS
    <3> QED BY <3>2, <3>4, <3>5, <3>6
  <2> QED BY <1>1, <1>3, <2>2, <2>3
<1> QED BY <1>2, <1>3

--------------------------------------------------------------------------------
(* The bytes of lines. *)

\* Position and rest: a byte is the r-th of the q-th line in one way only.
LEMMA OneWay ==
  ASSUME NEW L \in Nat, L # 0, NEW q \in Int, NEW r \in 0..L - 1
  PROVE  (L * q + r) \div L = q /\ (L * q + r) % L = r
OBVIOUS

\* Every position is some byte of some line.
LEMMA SomeWay ==
  ASSUME NEW L \in Nat, L # 0, NEW n \in Nat, NEW k \in 1..L * n
  PROVE  \E q \in 0..n - 1, r \in 0..L - 1 : k = L * q + r + 1
<1> DEFINE q == (k - 1) \div L
           r == (k - 1) % L
<1>0. L * n \in Int /\ k - 1 \in Nat /\ k <= L * n
  OBVIOUS
<1>1. q \in Int /\ r \in 0..L - 1 /\ k = L * q + r + 1
  BY <1>0
<1> HIDE DEF q, r
<1>2. q \in 0..n - 1
  <2>1. CASE q < 0
    <3>1. L * q <= L * (-1)
      BY <1>1, <2>1
    <3> QED BY <1>0, <1>1, <3>1
  <2>2. CASE q >= n
    <3>1. L * q >= L * n
      BY <1>1, <2>2
    <3> QED BY <1>0, <1>1, <3>1
  <2> QED BY <1>1, <2>1, <2>2
<1> QED BY <1>1, <1>2

\* The r-th byte of the q-th line, where it is in the stream.
LEMMA StreamAt ==
  ASSUME NEW S, NEW ls \in Seq(S), NEW q \in 0..Len(ls) - 1, NEW r \in 0..LineLen - 1
  PROVE  /\ LineLen * q + r + 1 \in 1..LineLen * Len(ls)
         /\ Stream(ls)[LineLen * q + r + 1] = <<ls[q + 1], r + 1>>
<1> DEFINE n == Len(ls)
           k == LineLen * q + r + 1
<1>0. LineLen \in Nat /\ LineLen # 0 /\ n \in Nat /\ q \in 0..n - 1
  BY BotAssumption
<1> HIDE DEF n
<1>1. LineLen * q + LineLen <= LineLen * n /\ LineLen * q >= 0 /\ LineLen * q \in Int
  <2>1. LineLen * q + LineLen = LineLen * (q + 1)
    BY <1>0
  <2>2. LineLen * (q + 1) <= LineLen * n
    BY <1>0
  <2> QED BY <1>0, <2>1, <2>2
<1>2. k \in 1..LineLen * n /\ k - 1 = LineLen * q + r
  BY <1>0, <1>1
<1>3. (k - 1) \div LineLen = q /\ (k - 1) % LineLen = r
  <2>1. q \in Int
    BY <1>0
  <2> HIDE DEF k
  <2> QED BY <1>0, <1>2, <2>1, OneWay
<1> HIDE DEF k
<1>4. Stream(ls)[k] = <<ls[((k - 1) \div LineLen) + 1], ((k - 1) % LineLen) + 1>>
  BY <1>2 DEF Stream, n
<1> QED BY <1>2, <1>3, <1>4 DEF k, n

\* The stream is LineLen times as long as the lines are many.
LEMMA StreamType ==
  ASSUME NEW S, NEW ls \in Seq(S)
  PROVE  /\ Stream(ls) \in Seq(S \X (1..LineLen))
         /\ Len(Stream(ls)) = LineLen * Len(ls)
         /\ LineLen * Len(ls) \in Nat
<1> DEFINE n == Len(ls)
           N == LineLen * n
<1>0. LineLen \in Nat /\ LineLen # 0 /\ n \in Nat
  BY BotAssumption
<1>1. N \in Nat
  <2> HIDE DEF n
  <2> QED BY <1>0
<1>2. Stream(ls) = [k \in 1..N |-> <<ls[((k - 1) \div LineLen) + 1], ((k - 1) % LineLen) + 1>>]
  BY DEF Stream
<1>3. ASSUME NEW k \in 1..N
      PROVE  Stream(ls)[k] \in S \X (1..LineLen)
  <2>1. PICK q \in 0..n - 1, r \in 0..LineLen - 1 : k = LineLen * q + r + 1
    <3> HIDE DEF n
    <3> QED BY <1>0, SomeWay
  <2>2. Stream(ls)[LineLen * q + r + 1] = <<ls[q + 1], r + 1>>
    BY StreamAt
  <2>3. ls[q + 1] \in S /\ r + 1 \in 1..LineLen
    BY <1>0
  <2> QED BY <2>1, <2>2, <2>3
<1> HIDE DEF N
<1>4. Stream(ls) = [k \in 1..N |-> Stream(ls)[k]]
  BY <1>2
<1>5. Stream(ls) \in [1..N -> S \X (1..LineLen)]
  BY <1>3, <1>4
<1>6. Stream(ls) \in Seq(S \X (1..LineLen)) /\ Len(Stream(ls)) = N
  BY <1>1, <1>5
<1> QED BY <1>1, <1>6 DEF N

\* The stream of lines and more lines.
LEMMA StreamConcat ==
  ASSUME NEW S, NEW ls \in Seq(S), NEW ms \in Seq(S)
  PROVE  Stream(ls \o ms) = Stream(ls) \o Stream(ms)
<1> DEFINE n == Len(ls)
           m == Len(ms)
           lm == ls \o ms
           A == Stream(ls)
           B == Stream(ms)
           C == Stream(lm)
           N == LineLen * n
           M == LineLen * m
           Q == S \X (1..LineLen)
<1>0. LineLen \in Nat /\ LineLen # 0 /\ n \in Nat /\ m \in Nat
  BY BotAssumption
<1>1. lm \in Seq(S) /\ Len(lm) = n + m
  OBVIOUS
<1>2. A \in Seq(Q) /\ Len(A) = N /\ N \in Nat
  BY StreamType
<1>3. B \in Seq(Q) /\ Len(B) = M /\ M \in Nat
  BY StreamType
<1>4. C \in Seq(Q) /\ Len(C) = N + M
  <2>1. C \in Seq(Q) /\ Len(C) = LineLen * (n + m)
    <3> HIDE DEF lm, Q
    <3>1. C \in Seq(Q) /\ Len(C) = LineLen * Len(lm)
      BY <1>1, StreamType DEF Q
    <3> QED BY <1>1, <3>1
  <2>2. LineLen * (n + m) = N + M
    <3> HIDE DEF n, m
    <3> QED BY <1>0
  <2> QED BY <2>1, <2>2
<1>5. ASSUME NEW k \in 1..N + M
      PROVE  C[k] = (A \o B)[k]
  <2>1. PICK q \in 0..(n + m) - 1, r \in 0..LineLen - 1 : k = LineLen * q + r + 1
    <3>1. k \in 1..LineLen * (n + m)
      <4> HIDE DEF n, m
      <4> QED BY <1>0
    <3>2. n + m \in Nat
      BY <1>0
    <3> DEFINE nm == n + m
    <3> HIDE DEF nm
    <3>3. \E q \in 0..nm - 1, r \in 0..LineLen - 1 : k = LineLen * q + r + 1
      BY <1>0, <3>1, <3>2, SomeWay DEF nm
    <3> QED BY <3>3 DEF nm
  <2>2. C[k] = <<lm[q + 1], r + 1>>
    <3>1. q \in 0..Len(lm) - 1
      BY <1>1
    <3> HIDE DEF lm
    <3> QED BY <1>1, <2>1, <3>1, StreamAt
  <2>3. CASE q < n
    <3>1. q \in 0..n - 1
      BY <1>0, <2>3
    <3>2. k \in 1..N /\ A[k] = <<ls[q + 1], r + 1>>
      BY <2>1, <3>1, StreamAt
    <3>3. (A \o B)[k] = A[k]
      <4> HIDE DEF A, B, N, M, Q
      <4> QED BY <1>2, <1>3, <3>2
    <3>4. lm[q + 1] = ls[q + 1]
      BY <1>0, <3>1
    <3> QED BY <2>2, <3>2, <3>3, <3>4
  <2>4. CASE q >= n
    <3> DEFINE p == q - n
    <3>1. p \in 0..m - 1
      BY <1>0, <2>4
    <3>2. LineLen * p + r + 1 \in 1..M /\ B[LineLen * p + r + 1] = <<ms[p + 1], r + 1>>
      <4> HIDE DEF p
      <4> QED BY <3>1, StreamAt
    <3>3. LineLen * p + r + 1 = k - N
      <4> HIDE DEF n
      <4> QED BY <1>0, <2>1
    <3>4. (A \o B)[k] = B[k - N]
      <4>1. k - N \in 1..M /\ k \in Int
        BY <1>2, <1>3, <3>2, <3>3
      <4>2. \A x, y \in Seq(Q) : \A j \in Int :
               j - Len(x) \in 1..Len(y) => (x \o y)[j] = y[j - Len(x)]
        OBVIOUS
      <4> HIDE DEF A, B, N, M, Q, p
      <4> QED BY <1>2, <1>3, <4>1, <4>2
    <3>5. lm[q + 1] = ms[p + 1]
      <4>1. q + 1 \in n + 1..n + m /\ (q + 1) - n = p + 1
        BY <1>0, <3>1, <2>4
      <4>2. \A j \in n + 1..n + m : lm[j] = ms[j - n]
        BY <1>0
      <4> HIDE DEF lm, n, p
      <4> QED BY <4>1, <4>2
    <3> QED BY <2>2, <3>2, <3>3, <3>4, <3>5
  <2>5. q < n \/ q >= n
    <3> HIDE DEF n, m
    <3> QED BY <1>0
  <2> QED BY <2>3, <2>4, <2>5
<1> HIDE DEF n, m, lm, A, B, C, N, M, Q
<1>6. (A \o B) \in Seq(Q) /\ Len(A \o B) = N + M
  BY <1>2, <1>3, ConcatProperties
<1>7. C = A \o B
  <2> DEFINE AB == A \o B
  <2>1. AB \in Seq(Q) /\ Len(AB) = Len(C) /\ \A k \in 1..Len(C) : C[k] = AB[k]
    BY <1>4, <1>5, <1>6
  <2> HIDE DEF AB
  <2>2. C = AB
    BY <1>4, <2>1
  <2> QED BY <2>2 DEF AB
<1> QED BY <1>7 DEF A, B, C, lm

\* The stream of one line.
LEMMA StreamOne ==
  ASSUME NEW S, NEW l \in S
  PROVE  Stream(<<l>>) = BytesOf(l) /\ BytesOf(l) \in Seq(S \X (1..LineLen)) /\ Len(BytesOf(l)) = LineLen
<1> DEFINE s == <<l>>
<1>0. LineLen \in Nat /\ LineLen # 0
  BY BotAssumption
<1>1. s \in Seq(S) /\ Len(s) = 1 /\ s[1] = l
  OBVIOUS
<1>2. BytesOf(l) \in Seq(S \X (1..LineLen)) /\ Len(BytesOf(l)) = LineLen
  BY <1>0 DEF BytesOf
<1> HIDE DEF s
<1>3. Stream(s) \in Seq(S \X (1..LineLen)) /\ Len(Stream(s)) = LineLen * Len(s)
  BY <1>1, StreamType
<1>4. LineLen * Len(s) = LineLen
  BY <1>0, <1>1
<1>5. ASSUME NEW k \in 1..LineLen
      PROVE  Stream(s)[k] = BytesOf(l)[k]
  <2> DEFINE r == k - 1
             q == 0
  <2>1. r \in 0..LineLen - 1 /\ q \in 0..Len(s) - 1 /\ LineLen * q + r + 1 = k /\ q + 1 = 1 /\ r + 1 = k
    BY <1>0, <1>1
  <2> HIDE DEF q, r
  <2>2. Stream(s)[LineLen * q + r + 1] = <<s[q + 1], r + 1>>
    BY <1>1, <2>1, StreamAt
  <2>3. BytesOf(l)[k] = <<l, k>>
    BY DEF BytesOf
  <2> QED BY <1>1, <2>1, <2>2, <2>3
<1>6. Stream(s) = BytesOf(l)
  <2> DEFINE A == Stream(s)
             B == BytesOf(l)
             Q == S \X (1..LineLen)
  <2>1. A \in Seq(Q) /\ B \in Seq(Q) /\ Len(A) = LineLen /\ Len(B) = LineLen
    BY <1>2, <1>3, <1>4
  <2>2. \A k \in 1..LineLen : A[k] = B[k]
    BY <1>5
  <2> HIDE DEF A, B, Q
  <2>3. A = B
    BY <1>0, <2>1, <2>2
  <2> QED BY <2>3 DEF A, B
<1> QED BY <1>2, <1>6 DEF s

\* What the socket has still to take of the outbox o if the first c bytes are sent.
Unsent(o, c) == SubSeq(Stream(o), c + 1, LineLen * Len(o))

\* Sequences of bytes: a suffix, with more behind it.
LEMMA SuffixConcat ==
  ASSUME NEW Q, NEW s \in Seq(Q), NEW t \in Seq(Q), NEW c \in 0..Len(s)
  PROVE  SubSeq(s \o t, c + 1, Len(s) + Len(t)) = SubSeq(s, c + 1, Len(s)) \o t
<1> DEFINE u == s \o t
           x == SubSeq(u, c + 1, Len(s) + Len(t))
           y == SubSeq(s, c + 1, Len(s))
           z == y \o t
<1>1. u \in Seq(Q) /\ Len(u) = Len(s) + Len(t)
  BY ConcatProperties
<1>2. /\ x \in Seq(Q) /\ Len(x) = (Len(s) + Len(t)) - c
      /\ \A i \in 1..(Len(s) + Len(t)) - c : x[i] = u[c + i]
  <2> HIDE DEF u
  <2> QED BY <1>1
<1>3. y \in Seq(Q) /\ Len(y) = Len(s) - c /\ \A i \in 1..Len(s) - c : y[i] = s[c + i]
  OBVIOUS
<1>4. z \in Seq(Q) /\ Len(z) = (Len(s) + Len(t)) - c
  <2> HIDE DEF y
  <2>1. z \in Seq(Q) /\ Len(z) = Len(y) + Len(t)
    BY <1>3, ConcatProperties
  <2> HIDE DEF z
  <2> QED BY <1>3, <2>1
<1>5. ASSUME NEW i \in 1..(Len(s) + Len(t)) - c
      PROVE  x[i] = z[i]
  <2>1. CASE i <= Len(s) - c
    <3>1. u[c + i] = s[c + i]
      BY <2>1
    <3>2. z[i] = y[i]
      <4> HIDE DEF y
      <4> QED BY <1>3, <2>1
    <3> QED BY <1>2, <1>3, <2>1, <3>1, <3>2
  <2>2. CASE i > Len(s) - c
    <3>1. u[c + i] = t[(c + i) - Len(s)]
      BY <2>2
    <3>2. z[i] = t[i - (Len(s) - c)]
      <4> HIDE DEF y
      <4> QED BY <1>3, <2>2
    <3>3. (c + i) - Len(s) = i - (Len(s) - c)
      OBVIOUS
    <3> QED BY <1>2, <3>1, <3>2, <3>3
  <2> QED BY <2>1, <2>2
<1> HIDE DEF x, z
<1>6. x = z
  BY <1>2, <1>4, <1>5
<1> QED BY <1>6 DEF x, z, y, u

\* More lines in the outbox are more bytes behind those that are there.
LEMMA UnsentConcat ==
  ASSUME NEW S, NEW o \in Seq(S), NEW r \in Seq(S), NEW c \in 0..LineLen * Len(o)
  PROVE  Unsent(o \o r, c) = Unsent(o, c) \o Stream(r)
<1> DEFINE A == Stream(o)
           B == Stream(r)
           Q == S \X (1..LineLen)
<1>1. A \in Seq(Q) /\ Len(A) = LineLen * Len(o) /\ B \in Seq(Q) /\ Len(B) = LineLen * Len(r)
  BY StreamType
<1>2. Stream(o \o r) = A \o B
  BY StreamConcat
<1>3. LineLen * Len(o \o r) = Len(A) + Len(B)
  <2>1. Len(o \o r) = Len(o) + Len(r) /\ Len(o) \in Nat /\ Len(r) \in Nat /\ LineLen \in Nat
    BY BotAssumption
  <2>2. \A x, y, z \in Nat : x * (y + z) = x * y + x * z
    OBVIOUS
  <2> QED BY <1>1, <2>1, <2>2
<1>4. c \in 0..Len(A)
  BY <1>1
<1> HIDE DEF A, B, Q
<1>5. SubSeq(A \o B, c + 1, Len(A) + Len(B)) = SubSeq(A, c + 1, Len(A)) \o B
  BY <1>1, <1>4, SuffixConcat
<1> QED BY <1>1, <1>2, <1>3, <1>5 DEF Unsent, A, B

\* A stream begins with the bytes of its first line.
LEMMA StreamFirst ==
  ASSUME NEW S, NEW o \in Seq(S), o # <<>>
  PROVE  Stream(o) = BytesOf(o[1]) \o Stream(Tail(o))
<1> DEFINE h == <<o[1]>>
           t == Tail(o)
<1>1. o[1] \in S /\ h \in Seq(S) /\ t \in Seq(S) /\ o = h \o t
  OBVIOUS
<1>2. Stream(h \o t) = Stream(h) \o Stream(t)
  <2> HIDE DEF h, t
  <2> QED BY <1>1, StreamConcat
<1>3. Stream(h) = BytesOf(o[1])
  BY <1>1, StreamOne
<1> QED BY <1>1, <1>2, <1>3

\* One send that cuts the line, or ends inside it.
LEMMA SendPart ==
  ASSUME NEW S, NEW o \in Seq(S), o # <<>>, NEW c \in 0..LineLen - 1, NEW n \in 1..LineLen - c
  PROVE  SubSeq(BytesOf(o[1]), c + 1, c + n) \o Unsent(o, c + n) = Unsent(o, c)
<1> DEFINE A == BytesOf(o[1])
           B == Stream(Tail(o))
           Q == S \X (1..LineLen)
           U == A \o B
           N == LineLen * Len(o)
           e == c + n
<1>0. LineLen \in Nat /\ c \in Nat /\ n \in Nat
  BY BotAssumption
<1>1. Stream(o) = U
  BY StreamFirst
<1>2. o[1] \in S /\ Tail(o) \in Seq(S)
  OBVIOUS
<1>3. A \in Seq(Q) /\ Len(A) = LineLen /\ B \in Seq(Q)
  BY <1>2, StreamOne, StreamType
<1>4. U \in Seq(Q) /\ Len(U) = N /\ N \in Nat
  BY <1>1, StreamType
<1>5. Len(U) = Len(A) + Len(B)
  <2> HIDE DEF A, B, Q
  <2> QED BY <1>3, ConcatProperties
<1>6. e \in Nat /\ e <= LineLen /\ c <= e /\ LineLen <= N
  <2> HIDE DEF A, B, U, N
  <2> QED BY <1>0, <1>3, <1>4, <1>5
<1> HIDE DEF A, B, U, N, Q
<1>7. SubSeq(A, c + 1, e) = SubSeq(U, c + 1, e)
  <2>1. \A i \in 1..LineLen : U[i] = A[i]
    BY <1>0, <1>3 DEF U
  <2> DEFINE x == SubSeq(A, c + 1, e)
             y == SubSeq(U, c + 1, e)
  <2> HIDE DEF e
  <2>2. x \in Seq(Q) /\ Len(x) = e - c /\ \A i \in 1..e - c : x[i] = A[c + i]
    BY <1>0, <1>3, <1>6
  <2>3. y \in Seq(Q) /\ Len(y) = e - c /\ \A i \in 1..e - c : y[i] = U[c + i]
    BY <1>0, <1>4, <1>6
  <2>4. \A i \in 1..e - c : c + i \in 1..LineLen
    BY <1>0, <1>6
  <2> HIDE DEF x, y
  <2>5. e - c \in Nat
    BY <1>0, <1>6
  <2>6. \A i \in 1..e - c : x[i] = y[i]
    BY <2>1, <2>2, <2>3, <2>4
  <2>7. x = y
    BY <2>2, <2>3, <2>5, <2>6
  <2> QED BY <2>7 DEF x, y
<1>8. SubSeq(U, c + 1, e) \o SubSeq(U, e + 1, N) = SubSeq(U, c + 1, N)
  <2> DEFINE m == c + 1
  <2>1. m \in 1..Len(U) + 1 /\ e \in m - 1..Len(U) /\ N \in e..Len(U)
    BY <1>0, <1>4, <1>6
  <2> HIDE DEF m, e
  <2>2. SubSeq(U, m, e) \o SubSeq(U, e + 1, N) = SubSeq(U, m, N)
    BY <1>4, <2>1, ConcatAdjacentSubSeq
  <2> QED BY <2>2 DEF m
<1> QED BY <1>1, <1>7, <1>8 DEF Unsent, A, N

\* After the last byte of a line comes the first of the next.
LEMMA LineSent ==
  ASSUME NEW S, NEW o \in Seq(S), o # <<>>
  PROVE  Unsent(o, LineLen) = Unsent(Tail(o), 0)
<1> DEFINE A == BytesOf(o[1])
           t == Tail(o)
           B == Stream(t)
           Q == S \X (1..LineLen)
           N == LineLen * Len(o)
<1>0. LineLen \in Nat
  BY BotAssumption
<1>1. Stream(o) = A \o B
  BY StreamFirst
<1>2. o[1] \in S /\ t \in Seq(S)
  OBVIOUS
<1>3. A \in Seq(Q) /\ Len(A) = LineLen
  BY <1>2, StreamOne
<1>4. B \in Seq(Q) /\ Len(B) = LineLen * Len(t) /\ LineLen * Len(t) \in Nat
  <2> HIDE DEF t
  <2> QED BY <1>2, StreamType
<1>5. A \o B \in Seq(Q) /\ Len(A \o B) = N
  BY <1>1, StreamType
<1>6. Len(A \o B) = Len(A) + Len(B)
  <2> HIDE DEF A, B, Q
  <2> QED BY <1>3, <1>4, ConcatProperties
<1>7. Unsent(o, LineLen) = SubSeq(A \o B, LineLen + 1, Len(A) + Len(B))
  BY <1>1, <1>5, <1>6 DEF Unsent
<1>8. Unsent(t, 0) = SubSeq(B, 1, Len(B))
  BY <1>4 DEF Unsent
<1> HIDE DEF A, B, Q, N, t
<1>9. SubSeq(A \o B, LineLen + 1, Len(A) + Len(B)) = SubSeq(A, LineLen + 1, Len(A)) \o B
  <2>1. LineLen \in 0..Len(A)
    BY <1>0, <1>3
  <2> QED BY <1>3, <1>4, <2>1, SuffixConcat
<1>10. SubSeq(A, LineLen + 1, Len(A)) = <<>>
  BY <1>0, <1>3
<1>11. SubSeq(B, 1, Len(B)) = B /\ <<>> \o B = B
  BY <1>4
<1> QED BY <1>7, <1>8, <1>9, <1>10, <1>11 DEF t

--------------------------------------------------------------------------------
(* Lines and answers. *)

Nicks == Bots \cup {"", "user", "#chan"}

Cmds == {"PASS", "NICK", "USER", "PING", "PONG", "001", "JOIN", "PRIVMSG", "QUIT"}

\* Strings, with the answers named: no prover knows that a literal is in STRING.
Words == STRING \cup {"pong", "bye", "unknown"}

Lines == [cmd : Cmds, from : Nicks, target : Nicks, text : Seq(Words)]

Bytes == Lines \X (1..LineLen)

\* What line i of hs asks for.
SaidTo(hs, i) ==
  CASE hs[i].cmd = "PING"    -> <<Plain("PONG")>>
    [] hs[i].cmd = "001"     -> IF \E j \in 1..i - 1 : hs[j].cmd = "001"
                                THEN <<>> ELSE <<Plain("JOIN")>>
    [] hs[i].cmd = "PRIVMSG" -> Answer(hs[i])
    [] OTHER                 -> <<>>

\* The lines the bot, the server and the people make are lines.
LEMMA LineType ==
  ASSUME NEW c \in Cmds, NEW f \in Nicks, NEW t \in Nicks, NEW x \in Seq(Words)
  PROVE  Line(c, f, t, x) \in Lines
BY DEF Line, Lines

LEMMA PlainType ==
  ASSUME NEW c \in Cmds
  PROVE  Plain(c) \in Lines
<1>1. "" \in Nicks
  BY DEF Nicks
<1>2. <<>> \in Seq(Words)
  OBVIOUS
<1> QED BY <1>1, <1>2 DEF Plain, Line, Lines

LEMMA ReplyType ==
  ASSUME NEW x \in Seq(Words), IsCommand(x)
  PROVE  Reply(x) \in Seq(Words)
<1>1. <<"pong">> \in Seq(Words) /\ <<"bye">> \in Seq(Words) /\ <<"unknown">> \in Seq(Words)
  <2>1. "pong" \in Words /\ "bye" \in Words /\ "unknown" \in Words
    BY DEF Words
  <2> QED BY <2>1
<1>2. x # <<>>
  BY Zenon DEF IsCommand
<1>3. Tail(x) \in Seq(Words)
  BY <1>2
<1> QED BY <1>1, <1>3 DEF Reply

LEMMA AnswerType ==
  ASSUME NEW l \in Lines
  PROVE  Answer(l) \in Seq(Lines)
<1> DEFINE q == IF l.text = <<"!quit">> THEN <<Plain("QUIT")>> ELSE <<>>
           p == IF IsCommand(l.text) /\ Reply(l.text) # <<>>
                THEN <<Line("PRIVMSG", "", replyTarget(l), Reply(l.text))>> ELSE <<>>
<1>1. q \in Seq(Lines)
  <2>1. "QUIT" \in Cmds
    BY DEF Cmds
  <2>2. Plain("QUIT") \in Lines
    BY <2>1, PlainType
  <2> QED BY <2>2
<1>2. p \in Seq(Lines)
  <2>1. CASE IsCommand(l.text)
    <3>1. l.text \in Seq(Words) /\ l.target \in Nicks /\ l.from \in Nicks
      BY DEF Lines
    <3>2. replyTarget(l) \in Nicks /\ "" \in Nicks
      BY <3>1 DEF replyTarget, Nicks
    <3>3. Reply(l.text) \in Seq(Words)
      BY <2>1, <3>1, ReplyType
    <3>4. Line("PRIVMSG", "", replyTarget(l), Reply(l.text)) \in Lines
      <4>1. "PRIVMSG" \in Cmds
        BY DEF Cmds
      <4> DEFINE t == replyTarget(l)
                 x == Reply(l.text)
      <4>2. t \in Nicks /\ x \in Seq(Words)
        BY <3>2, <3>3
      <4> HIDE DEF t, x
      <4>3. Line("PRIVMSG", "", t, x) \in Lines
        BY <3>2, <4>1, <4>2 DEF Line, Lines
      <4> QED BY <4>3 DEF t, x
    <3> DEFINE v == Line("PRIVMSG", "", replyTarget(l), Reply(l.text))
    <3>5. p = <<v>> \/ p = <<>>
      BY Zenon
    <3>6. v \in Lines
      BY <3>4
    <3>7. (\A e \in Lines : <<e>> \in Seq(Lines)) /\ <<>> \in Seq(Lines)
      OBVIOUS
    <3> HIDE DEF v, p
    <3> QED BY <3>5, <3>6, <3>7, Zenon
  <2>2. CASE ~IsCommand(l.text)
    BY <2>2
  <2> QED BY <2>1, <2>2
<1>3. Answer(l) = q \o p
  BY DEF Answer
<1> HIDE DEF q, p
<1> QED BY <1>1, <1>2, <1>3

\* What is said to a bot at any time is a sequence of lines.
LEMMA SaidType ==
  ASSUME NEW hs \in Seq(Lines), NEW i \in 1..Len(hs)
  PROVE  SaidTo(hs, i) \in Seq(Lines)
<1>1. <<Plain("PONG")>> \in Seq(Lines) /\ <<Plain("JOIN")>> \in Seq(Lines) /\ <<>> \in Seq(Lines)
  <2>1. "PONG" \in Cmds /\ "JOIN" \in Cmds
    BY DEF Cmds
  <2>2. Plain("PONG") \in Lines /\ Plain("JOIN") \in Lines
    BY <2>1, PlainType
  <2> QED BY <2>2
<1>2. Answer(hs[i]) \in Seq(Lines)
  <2>1. hs[i] \in Lines
    OBVIOUS
  <2> QED BY <2>1, AnswerType
<1> QED BY <1>1, <1>2 DEF SaidTo

\* Asked is a sequence of lines.
LEMMA AskedType ==
  ASSUME NEW hs \in Seq(Lines)
  PROVE  Asked(hs) \in Seq(Lines)
<1> DEFINE ss == [i \in DOMAIN hs |-> SaidTo(hs, i)]
<1>1. DOMAIN hs = 1..Len(hs) /\ Len(hs) \in Nat
  OBVIOUS
<1>2. ss \in [1..Len(hs) -> Seq(Lines)]
  BY <1>1, SaidType
<1>3. ss \in Seq(Seq(Lines))
  BY <1>1, <1>2
<1>4. Asked(hs) = FlattenSeq(ss)
  BY DEF Asked, SaidTo
<1> HIDE DEF ss
<1> QED BY <1>3, <1>4, FlattenType

\* One line more asks for what it asks for, behind the rest.
LEMMA AskedAppend ==
  ASSUME NEW hs \in Seq(Lines), NEW l \in Lines
  PROVE  Asked(Append(hs, l)) = Asked(hs) \o SaidTo(Append(hs, l), Len(hs) + 1)
<1> DEFINE n == Len(hs)
           hl == Append(hs, l)
           ss == [i \in DOMAIN hs |-> SaidTo(hs, i)]
           sl == [i \in DOMAIN hl |-> SaidTo(hl, i)]
           t == SaidTo(hl, n + 1)
<1>1. /\ DOMAIN hs = 1..n /\ n \in Nat /\ hl \in Seq(Lines) /\ DOMAIN hl = 1..n + 1 /\ Len(hl) = n + 1
      /\ \A i \in 1..n : hl[i] = hs[i]
  OBVIOUS
<1>2. ss \in [1..n -> Seq(Lines)]
  BY <1>1, SaidType
<1>3. ss \in Seq(Seq(Lines)) /\ Len(ss) = n
  BY <1>1, <1>2
<1>4. t \in Seq(Lines)
  <2> HIDE DEF hl
  <2> DEFINE k == n + 1
  <2>1. k \in 1..Len(hl)
    BY <1>1
  <2> HIDE DEF k
  <2>2. SaidTo(hl, k) \in Seq(Lines)
    BY <1>1, <2>1, SaidType
  <2> QED BY <2>2 DEF k
<1>5. \A i \in 1..n : SaidTo(hl, i) = SaidTo(hs, i)
  <2> TAKE i \in 1..n
  <2>1. hl[i] = hs[i] /\ \A j \in 1..i - 1 : hl[j] = hs[j]
    BY <1>1
  <2> HIDE DEF hl
  <2> QED BY <2>1 DEF SaidTo
<1>6. Asked(hs) = FlattenSeq(ss) /\ Asked(hl) = FlattenSeq(sl)
  BY DEF Asked, SaidTo
<1>7. sl = Append(ss, t)
  <2> DEFINE st == Append(ss, t)
             Z == Seq(Lines)
  <2>1. /\ st \in Seq(Z) /\ Len(st) = n + 1 /\ st[n + 1] = t
        /\ \A i \in 1..n : st[i] = ss[i]
    <3>1. \A u \in Seq(Z) : \A v \in Z :
            /\ Append(u, v) \in Seq(Z) /\ Len(Append(u, v)) = Len(u) + 1
            /\ Append(u, v)[Len(u) + 1] = v
            /\ \A i \in 1..Len(u) : Append(u, v)[i] = u[i]
      <4> HIDE DEF Z
      <4> QED OBVIOUS
    <3> HIDE DEF ss, t, n
    <3> QED BY <1>3, <1>4, <3>1
  <2>2. sl = [i \in 1..n + 1 |-> SaidTo(hl, i)]
    BY <1>1
  <2>3. ASSUME NEW i \in 1..n + 1
        PROVE  SaidTo(hl, i) = st[i]
    <3>1. CASE i = n + 1
      BY <2>1, <3>1
    <3>2. CASE i # n + 1
      <4>1. i \in 1..n
        BY <1>1, <3>2
      <4>2. ss[i] = SaidTo(hs, i)
        BY <1>1, <4>1
      <4> HIDE DEF st, ss, hl
      <4> QED BY <1>5, <2>1, <4>1, <4>2
    <3> QED BY <3>1, <3>2
  <2> HIDE DEF st, sl, Z
  <2>4. st = [i \in 1..n + 1 |-> st[i]]
    BY <1>1, <2>1
  <2>5. sl = st
    BY <2>2, <2>3, <2>4
  <2> QED BY <2>5 DEF st
<1> HIDE DEF ss, sl, t, hl
<1>8. FlattenSeq(Append(ss, t)) = FlattenSeq(ss) \o t
  BY <1>3, <1>4, FlattenAppend
<1> QED BY <1>6, <1>7, <1>8 DEF t, hl

--------------------------------------------------------------------------------
(* The inductive invariant. *)

States == {"start", "poll", "lines", "flush", "returned", "failed", "unconnected"}

TypeOK ==
  /\ pc \in [Bots -> States]
  /\ running \in [Bots -> BOOLEAN] /\ joined \in [Bots -> BOOLEAN]
  /\ writable \in [Bots -> BOOLEAN]
  /\ lineBuffer \in [Bots -> Seq(Bytes)] /\ toBot \in [Bots -> Seq(Bytes)]
  /\ toServer \in [Bots -> Seq(Bytes)] /\ sent \in [Bots -> Seq(Bytes)]
  /\ outbox \in [Bots -> Seq(Lines)] /\ handled \in [Bots -> Seq(Lines)]
  /\ cut \in [Bots -> 0..LineLen - 1]
  /\ up \subseteq Bots /\ members \subseteq Bots /\ says \in Nat

\* Where a bot is in its loop, and its outbox: flushOutput is entered with something
\* to send, a cut line is in the outbox, run returns with an empty one.
LoopInv(b) ==
  /\ outbox[b] = <<>> => cut[b] = 0
  /\ pc[b] = "flush" => outbox[b] # <<>>
  /\ pc[b] = "lines" /\ writable[b] => outbox[b] # <<>>
  /\ pc[b] = "returned" => ~running[b] /\ outbox[b] = <<>>

\* What the flags remember of the lines that were handled.
FlagsInv(b) ==
  /\ joined[b] <=> \E j \in 1..Len(handled[b]) : handled[b][j].cmd = "001"
  /\ ~running[b] => \E k \in 1..Len(Asked(handled[b])) : Asked(handled[b])[k] = Plain("QUIT")

\* What is sent and what is still to be sent.
StreamInv(b) ==
  IF pc[b] \in {"start", "unconnected"}
  THEN sent[b] = <<>> /\ handled[b] = <<>> /\ outbox[b] = <<>>
  ELSE sent[b] \o Unsent(outbox[b], cut[b]) = Stream(Registration(b) \o Asked(handled[b]))

BotInv(b) == LoopInv(b) /\ FlagsInv(b) /\ StreamInv(b)

Inv == TypeOK /\ \A b \in Bots : BotInv(b)

\* LineLen is a number that is not 0.
LEMMA LenFact == LineLen \in Nat /\ LineLen # 0 /\ 0 \in 0..LineLen - 1
BY BotAssumption

\* The registration is two or three lines.
LEMMA RegType ==
  ASSUME NEW b
  PROVE  Registration(b) \in Seq(Lines)
<1>1. "PASS" \in Cmds /\ "NICK" \in Cmds /\ "USER" \in Cmds
  BY DEF Cmds
<1>2. Plain("PASS") \in Lines /\ Plain("NICK") \in Lines /\ Plain("USER") \in Lines
  BY <1>1, PlainType
<1>3. (IF b \in WithPassword THEN <<Plain("PASS")>> ELSE <<>>) \in Seq(Lines)
  BY <1>2
<1> QED BY <1>2, <1>3 DEF Registration

\* A line on the wire.
LEMMA BytesType ==
  ASSUME NEW l \in Lines
  PROVE  BytesOf(l) \in Seq(Bytes) /\ Len(BytesOf(l)) = LineLen
BY StreamOne DEF Bytes

\* The line the buffer begins with, as the last of its bytes names it.
LEMMA FirstLine ==
  ASSUME NEW s \in Seq(Bytes), Len(s) >= LineLen
  PROVE  s[LineLen][1] \in Lines
<1>1. s[LineLen] \in Bytes
  BY LenFact
<1> QED BY <1>1 DEF Bytes

\* What handleMessage puts into the outbox is lines.
LEMMA ReactionType ==
  ASSUME NEW b, NEW l \in Lines
  PROVE  Reaction(b, l) \in Seq(Lines)
<1>1. <<Plain("PONG")>> \in Seq(Lines) /\ <<Plain("JOIN")>> \in Seq(Lines) /\ <<>> \in Seq(Lines)
  <2>1. "PONG" \in Cmds /\ "JOIN" \in Cmds
    BY DEF Cmds
  <2>2. Plain("PONG") \in Lines /\ Plain("JOIN") \in Lines
    BY <2>1, PlainType
  <2> QED BY <2>2
<1>2. Answer(l) \in Seq(Lines)
  BY AnswerType
<1> QED BY <1>1, <1>2, Zenon DEF Reaction

\* What the server sends goes to the end of what is under way.
LEMMA TellType ==
  ASSUME toBot \in [Bots -> Seq(Bytes)], NEW S, NEW l \in Lines
  PROVE  Tell(S, l) \in [Bots -> Seq(Bytes)]
<1>1. ASSUME NEW b \in Bots
      PROVE  (IF b \in S \cap up THEN toBot[b] \o BytesOf(l) ELSE toBot[b]) \in Seq(Bytes)
  <2>1. toBot[b] \in Seq(Bytes) /\ BytesOf(l) \in Seq(Bytes)
    BY BytesType
  <2>2. toBot[b] \o BytesOf(l) \in Seq(Bytes)
    BY <2>1, ConcatProperties
  <2> QED BY <2>1, <2>2
<1> QED BY <1>1 DEF Tell

\* The parts of TypeOK that the bots, the connections and the environment hold.
BotTypeOK ==
  /\ pc \in [Bots -> States]
  /\ running \in [Bots -> BOOLEAN] /\ joined \in [Bots -> BOOLEAN]
  /\ writable \in [Bots -> BOOLEAN]
  /\ lineBuffer \in [Bots -> Seq(Bytes)] /\ sent \in [Bots -> Seq(Bytes)]
  /\ outbox \in [Bots -> Seq(Lines)] /\ handled \in [Bots -> Seq(Lines)]
  /\ cut \in [Bots -> 0..LineLen - 1]

\* The bots' part is the bots' business.
LEMMA BotTypeStays == ASSUME BotTypeOK, UNCHANGED botVars PROVE BotTypeOK'
BY DEF BotTypeOK, botVars

LEMMA TypeSplit ==
  TypeOK <=> /\ BotTypeOK
             /\ toBot \in [Bots -> Seq(Bytes)] /\ toServer \in [Bots -> Seq(Bytes)]
             /\ up \subseteq Bots /\ members \subseteq Bots /\ says \in Nat
BY DEF TypeOK, BotTypeOK

\* connectToServer.
LEMMA TypeConnect == ASSUME TypeOK, NEW b \in Bots, connectToServer(b) PROVE TypeOK'
<1>1. "poll" \in States /\ "unconnected" \in States
  BY DEF States
<1>2. pc' \in [Bots -> States]
  BY <1>1 DEF TypeOK, connectToServer
<1>3. outbox' \in [Bots -> Seq(Lines)]
  <2>1. Registration(b) \in Seq(Lines)
    BY RegType
  <2> QED BY <2>1 DEF TypeOK, connectToServer
<1>4. up' \subseteq Bots
  BY DEF TypeOK, connectToServer
<1> QED BY <1>2, <1>3, <1>4 DEF TypeOK, connectToServer, netVars

\* run throws.
LEMMA TypeFail == ASSUME TypeOK, NEW b \in Bots, Fail(b) PROVE TypeOK'
<1>1. "failed" \in States
  BY DEF States
<1> QED BY <1>1 DEF TypeOK, Fail, netVars, envVars

\* One recv.
LEMMA TypeRead == ASSUME TypeOK, NEW b \in Bots, readFromServer(b) PROVE TypeOK'
<1>1. PICK n \in 1..Len(toBot[b]) :
         /\ lineBuffer' = [lineBuffer EXCEPT ![b] = @ \o SubSeq(toBot[b], 1, n)]
         /\ toBot' = [toBot EXCEPT ![b] = SubSeq(@, n + 1, Len(@))]
  BY DEF readFromServer
<1> DEFINE s == toBot[b]
<1>2. s \in Seq(Bytes) /\ lineBuffer[b] \in Seq(Bytes)
  BY DEF TypeOK
<1>3. SubSeq(s, 1, n) \in Seq(Bytes) /\ SubSeq(s, n + 1, Len(s)) \in Seq(Bytes)
  BY <1>2
<1>4. lineBuffer[b] \o SubSeq(s, 1, n) \in Seq(Bytes)
  BY <1>2, <1>3, ConcatProperties
<1>5. lineBuffer' \in [Bots -> Seq(Bytes)] /\ toBot' \in [Bots -> Seq(Bytes)]
  BY <1>1, <1>3, <1>4 DEF TypeOK
<1>6. "lines" \in States /\ CanSend(b) \in BOOLEAN
  BY DEF States, CanSend
<1>7. writable' \in [Bots -> BOOLEAN]
  BY <1>6 DEF TypeOK, readFromServer
<1>8. pc' \in [Bots -> States]
  BY <1>6 DEF TypeOK, readFromServer
<1> QED BY <1>5, <1>7, <1>8 DEF TypeOK, readFromServer, envVars

\* POLLOUT alone.
LEMMA TypePoll == ASSUME TypeOK, NEW b \in Bots, PollWritable(b) PROVE TypeOK'
<1>1. "flush" \in States
  BY DEF States
<1> QED BY <1>1 DEF TypeOK, PollWritable, netVars, envVars

\* Where run goes on is a place.
LEMMA ContinueType ==
  ASSUME NEW r, NEW o
  PROVE  Continue(r, o) \in States
BY DEF Continue, States

\* handleMessage.
LEMMA TypeHandle == ASSUME TypeOK, NEW b \in Bots, handleMessage(b) PROVE TypeOK'
<1> DEFINE l == lineBuffer[b][LineLen][1]
           s == lineBuffer[b]
<1>1. s \in Seq(Bytes) /\ Len(s) >= LineLen
  BY DEF TypeOK, handleMessage
<1>2. l \in Lines
  <2> HIDE DEF s
  <2>1. s[LineLen][1] \in Lines
    BY <1>1, FirstLine
  <2> QED BY <2>1 DEF s
<1> HIDE DEF l
<1>3. /\ outbox' = [outbox EXCEPT ![b] = @ \o Reaction(b, l)]
      /\ joined' = [joined EXCEPT ![b] = @ \/ Joins(b, l)]
      /\ running' = [running EXCEPT ![b] = @ /\ ~(l.cmd = "PRIVMSG" /\ l.text = <<"!quit">>)]
      /\ handled' = [handled EXCEPT ![b] = Append(@, l)]
  BY DEF handleMessage, l
<1>4. outbox' \in [Bots -> Seq(Lines)]
  <2>1. outbox[b] \in Seq(Lines) /\ Reaction(b, l) \in Seq(Lines)
    BY <1>2, ReactionType DEF TypeOK
  <2>2. outbox[b] \o Reaction(b, l) \in Seq(Lines)
    BY <2>1, ConcatProperties
  <2> QED BY <1>3, <2>2 DEF TypeOK
<1>5. handled' \in [Bots -> Seq(Lines)]
  <2>1. handled[b] \in Seq(Lines)
    BY DEF TypeOK
  <2>2. Append(handled[b], l) \in Seq(Lines)
    BY <1>2, <2>1
  <2> QED BY <1>3, <2>2 DEF TypeOK
<1>6. joined' \in [Bots -> BOOLEAN]
  BY <1>3, Zenon DEF TypeOK
<1>7. running' \in [Bots -> BOOLEAN]
  BY <1>3, Zenon DEF TypeOK
<1>8. lineBuffer' \in [Bots -> Seq(Bytes)]
  <2>1. SubSeq(s, LineLen + 1, Len(s)) \in Seq(Bytes)
    <3> HIDE DEF s
    <3> QED BY <1>1, LenFact
  <2> QED BY <2>1 DEF TypeOK, handleMessage
<1> QED BY <1>4, <1>5, <1>6, <1>7, <1>8 DEF TypeOK, handleMessage, netVars, envVars

\* The loop over the complete lines ends.
LEMMA TypeLinesDone == ASSUME TypeOK, NEW b \in Bots, LinesDone(b) PROVE TypeOK'
<1>1. "flush" \in States /\ Continue(running[b], outbox[b]) \in States
  BY ContinueType DEF States
<1>2. pc' \in [Bots -> States]
  BY <1>1 DEF TypeOK, LinesDone
<1> QED BY <1>2 DEF TypeOK, LinesDone, netVars, envVars

\* One send, in the terms of the code: how many bytes, whether the line is whole.
Sends(b, n) ==
  LET bytes == SubSeq(BytesOf(outbox[b][1]), cut[b] + 1, cut[b] + n)
      whole == cut[b] + n = LineLen
      rest  == IF whole THEN Tail(outbox[b]) ELSE outbox[b]
  IN  /\ sent' = [sent EXCEPT ![b] = @ \o bytes]
      /\ toServer' = [toServer EXCEPT ![b] = IF b \in up THEN @ \o bytes ELSE @]
      /\ cut' = [cut EXCEPT ![b] = IF whole THEN 0 ELSE @ + n]
      /\ outbox' = [outbox EXCEPT ![b] = rest]
      /\ pc' = [pc EXCEPT ![b] = IF whole /\ rest # <<>> THEN "flush"
                                 ELSE Continue(running[b], rest)]

\* What flushOutput does is such a send.
LEMMA FlushSends ==
  ASSUME NEW b, flushOutput(b)
  PROVE  /\ pc[b] = "flush"
         /\ \E n \in 1..LineLen - cut[b] : Sends(b, n)
         /\ UNCHANGED <<running, joined, lineBuffer, writable, handled, toBot, up, members, says>>
BY DEF flushOutput, Sends, envVars

\* One send.
LEMMA TypeFlush ==
  ASSUME TypeOK, NEW b \in Bots, LoopInv(b), flushOutput(b)
  PROVE  TypeOK'
<1>1. PICK n \in 1..LineLen - cut[b] : Sends(b, n)
  BY FlushSends
<1> DEFINE o == outbox[b]
           c == cut[b]
           A == BytesOf(o[1])
           bytes == SubSeq(A, c + 1, c + n)
           rest == IF c + n = LineLen THEN Tail(o) ELSE o
<1>2. o \in Seq(Lines) /\ o # <<>> /\ c \in 0..LineLen - 1
  BY FlushSends DEF LoopInv, TypeOK
<1>3. o[1] \in Lines /\ Tail(o) \in Seq(Lines)
  BY <1>2
<1>4. A \in Seq(Bytes) /\ Len(A) = LineLen
  BY <1>3, BytesType
<1>5. bytes \in Seq(Bytes)
  <2>1. n \in 1..LineLen - c
    OBVIOUS
  <2> HIDE DEF A, c
  <2> QED BY <1>2, <1>4, <2>1, LenFact
<1>6. sent' \in [Bots -> Seq(Bytes)]
  <2>1. sent[b] \in Seq(Bytes)
    BY DEF TypeOK
  <2>2. sent[b] \o bytes \in Seq(Bytes)
    <3> HIDE DEF bytes
    <3> QED BY <1>5, <2>1, ConcatProperties
  <2> QED BY <1>1, <2>2 DEF TypeOK, Sends
<1>7. toServer' \in [Bots -> Seq(Bytes)]
  <2>1. toServer[b] \in Seq(Bytes)
    BY DEF TypeOK
  <2>2. toServer[b] \o bytes \in Seq(Bytes)
    <3> HIDE DEF bytes
    <3> QED BY <1>5, <2>1, ConcatProperties
  <2> QED BY <1>1, <2>1, <2>2 DEF TypeOK, Sends
<1>8. cut' \in [Bots -> 0..LineLen - 1]
  <2>1. (IF c + n = LineLen THEN 0 ELSE c + n) \in 0..LineLen - 1
    <3> HIDE DEF c
    <3> QED BY <1>2, LenFact DEF c
  <2> QED BY <1>1, <2>1 DEF TypeOK, Sends
<1>9. outbox' \in [Bots -> Seq(Lines)]
  <2>1. rest \in Seq(Lines)
    BY <1>2, <1>3
  <2> QED BY <1>1, <2>1 DEF TypeOK, Sends
<1>10. pc' \in [Bots -> States]
  <2>1. Continue(running[b], rest) \in States /\ "flush" \in States
    BY ContinueType DEF States
  <2> QED BY <1>1, <2>1 DEF TypeOK, Sends
<1> QED BY <1>6, <1>7, <1>8, <1>9, <1>10, FlushSends DEF TypeOK

\* The server reads a line.
LEMMA TypeServerReads == ASSUME TypeOK, NEW b \in Bots, ServerReads(b) PROVE TypeOK'
<1> DEFINE s == toServer[b]
           l == s[LineLen][1]
<1>1. s \in Seq(Bytes) /\ Len(s) >= LineLen /\ UNCHANGED botVars
  BY DEF TypeOK, ServerReads
<1>2. l \in Lines
  <2> HIDE DEF s
  <2> QED BY <1>1, FirstLine
<1>3. SubSeq(s, LineLen + 1, Len(s)) \in Seq(Bytes) /\ <<>> \in Seq(Bytes)
  <2> HIDE DEF s
  <2> QED BY <1>1, LenFact
<1>4. toServer' \in [Bots -> Seq(Bytes)]
  BY <1>3 DEF TypeOK, ServerReads
<1>5. up' \subseteq Bots
  BY DEF TypeOK, ServerReads
<1>6. members' \subseteq Bots
  <2> HIDE DEF l
  <2>1. members' = CASE l.cmd = "JOIN" -> members \cup {b}
                     [] l.cmd = "QUIT" -> members \ {b}
                     [] OTHER          -> members
    BY DEF ServerReads, l
  <2> QED BY <2>1 DEF TypeOK
<1>7. toBot' \in [Bots -> Seq(Bytes)]
  <2> DEFINE S == IF l.target = "#chan" THEN members \ {b} ELSE {l.target}
             m == Line("PRIVMSG", b, l.target, l.text)
  <2>1. toBot' \in {Tell({b}, Plain("001")), Tell({b}, Plain("JOIN")), Tell(S, m), toBot}
    <3> HIDE DEF l
    <3>1. toBot' = CASE l.cmd = "USER"    -> Tell({b}, Plain("001"))
                     [] l.cmd = "JOIN"    -> Tell({b}, Plain("JOIN"))
                     [] l.cmd = "PRIVMSG" -> Tell(S, m)
                     [] OTHER             -> toBot
      BY DEF ServerReads, l
    <3> HIDE DEF S, m
    <3> QED BY <3>1, Zenon
  <2>2. "001" \in Cmds /\ "JOIN" \in Cmds /\ "PRIVMSG" \in Cmds
    BY DEF Cmds
  <2>3. Plain("001") \in Lines /\ Plain("JOIN") \in Lines
    BY <2>2, PlainType
  <2>4. m \in Lines
    <3>1. b \in Nicks /\ l.target \in Nicks /\ l.text \in Seq(Words)
      <4> HIDE DEF l
      <4> QED BY <1>2 DEF Lines, Nicks
    <3> DEFINE t == l.target
               x == l.text
    <3> HIDE DEF t, x
    <3>2. Line("PRIVMSG", b, t, x) \in Lines
      BY <2>2, <3>1 DEF Line, Lines, t, x
    <3> QED BY <3>2 DEF t, x
  <2>5. toBot \in [Bots -> Seq(Bytes)]
    BY DEF TypeOK
  <2>6. /\ Tell({b}, Plain("001")) \in [Bots -> Seq(Bytes)]
        /\ Tell({b}, Plain("JOIN")) \in [Bots -> Seq(Bytes)]
    BY <2>3, <2>5, TellType
  <2>7. Tell(S, m) \in [Bots -> Seq(Bytes)]
    <3> HIDE DEF S, m
    <3> QED BY <2>4, <2>5, TellType
  <2> HIDE DEF S, m
  <2> QED BY <2>1, <2>5, <2>6, <2>7
<1>8. BotTypeOK' /\ says' \in Nat
  <2>1. BotTypeOK'
    BY <1>1, BotTypeStays, TypeSplit
  <2> QED BY <2>1 DEF TypeOK, ServerReads
<1> QED BY <1>4, <1>5, <1>6, <1>7, <1>8 DEF TypeOK, BotTypeOK

\* The server and the people do what they do.
LEMMA TypeEnv ==
  ASSUME TypeOK,
         UserSays \/ \E b \in Bots : ServerNotices(b) \/ ServerCloses(b) \/ ServerAsks(b)
  PROVE  TypeOK' /\ UNCHANGED botVars
<1>0. MaxSays \in Nat /\ toBot \in [Bots -> Seq(Bytes)] /\ BotTypeOK
  BY BotAssumption, TypeSplit
<1>1. CASE UserSays
  <2>1. PICK text \in Says, to \in members \cup {"#chan"} :
           toBot' = Tell(IF to = "#chan" THEN members ELSE {to}, Line("PRIVMSG", "user", to, text))
    BY <1>1 DEF UserSays
  <2> DEFINE S == IF to = "#chan" THEN members ELSE {to}
             m == Line("PRIVMSG", "user", to, text)
  <2>2. text \in Seq(STRING)
    BY BotAssumption
  <2>3. text \in Seq(Words)
    BY <2>2 DEF Words
  <2>4. to \in Nicks /\ "user" \in Nicks
    BY DEF Nicks, TypeOK
  <2>5. "PRIVMSG" \in Cmds
    BY DEF Cmds
  <2>6. m \in Lines
    BY <2>3, <2>4, <2>5 DEF Line, Lines
  <2> HIDE DEF S, m
  <2>7. toBot' \in [Bots -> Seq(Bytes)]
    <3>1. Tell(S, m) \in [Bots -> Seq(Bytes)]
      BY <1>0, <2>6, TellType
    <3> QED BY <2>1, <3>1 DEF S, m
  <2>8. UNCHANGED botVars
    BY <1>1 DEF UserSays
  <2>9. BotTypeOK'
    BY <1>0, <2>8, BotTypeStays
  <2>10. toServer' = toServer /\ up' = up /\ members' = members /\ says' = says + 1
    BY <1>1 DEF UserSays
  <2>11. toServer' \in [Bots -> Seq(Bytes)] /\ up' \subseteq Bots /\ members' \subseteq Bots /\ says' \in Nat
    BY <2>10 DEF TypeOK
  <2>12. TypeOK'
    BY <2>7, <2>9, <2>11 DEF TypeOK, BotTypeOK
  <2> QED BY <2>8, <2>12
<1>2. ASSUME NEW b \in Bots, ServerNotices(b) \/ ServerCloses(b)
      PROVE  TypeOK' /\ UNCHANGED botVars
  <2>1. UNCHANGED botVars /\ UNCHANGED netVars /\ Gone(b) /\ (says' = says \/ says' = says + 1)
    BY <1>2 DEF ServerNotices, ServerCloses
  <2>2. BotTypeOK'
    BY <1>0, <2>1, BotTypeStays
  <2>3. /\ toBot' \in [Bots -> Seq(Bytes)] /\ toServer' \in [Bots -> Seq(Bytes)]
        /\ up' \subseteq Bots /\ members' \subseteq Bots
    BY <1>0, <2>1, TypeSplit DEF Gone, netVars
  <2>4. says' \in Nat
    BY <1>0, <2>1, TypeSplit
  <2> QED BY <2>1, <2>2, <2>3, <2>4 DEF TypeOK, BotTypeOK
<1>3. ASSUME NEW b \in Bots, ServerAsks(b)
      PROVE  TypeOK' /\ UNCHANGED botVars
  <2>1. PICK c \in {"PING", "001"} : toBot' = Tell({b}, Plain(c))
    BY <1>3 DEF ServerAsks
  <2>2. c \in Cmds
    BY DEF Cmds
  <2>3. Plain(c) \in Lines
    BY <2>2, PlainType
  <2>4. Tell({b}, Plain(c)) \in [Bots -> Seq(Bytes)]
    BY <1>0, <2>3, TellType
  <2>5. UNCHANGED botVars /\ UNCHANGED <<toServer, up, members>> /\ says' = says + 1
    BY <1>3 DEF ServerAsks
  <2>6. BotTypeOK'
    BY <1>0, <2>5, BotTypeStays
  <2>7. /\ toBot' \in [Bots -> Seq(Bytes)] /\ toServer' \in [Bots -> Seq(Bytes)]
        /\ up' \subseteq Bots /\ members' \subseteq Bots /\ says' \in Nat
    <3>1. toBot' \in [Bots -> Seq(Bytes)]
      BY <2>1, <2>4
    <3>2. toServer' \in [Bots -> Seq(Bytes)] /\ up' \subseteq Bots /\ members' \subseteq Bots
      BY <2>5 DEF TypeOK
    <3>3. says' \in Nat
      BY <2>5 DEF TypeOK
    <3> QED BY <3>1, <3>2, <3>3
  <2>8. TypeOK'
    BY <2>6, <2>7 DEF TypeOK, BotTypeOK
  <2> QED BY <2>5, <2>8
<1> QED BY <1>1, <1>2, <1>3

--------------------------------------------------------------------------------
(* The invariant, action by action. *)

SameBot(x) ==
  /\ pc'[x] = pc[x] /\ running'[x] = running[x] /\ joined'[x] = joined[x]
  /\ outbox'[x] = outbox[x] /\ cut'[x] = cut[x] /\ writable'[x] = writable[x]
  /\ handled'[x] = handled[x] /\ sent'[x] = sent[x]

\* A bot of which nothing changes keeps its invariant.
LEMMA BotStays ==
  ASSUME NEW x, SameBot(x), BotInv(x)
  PROVE  BotInv(x)'
<1>1. LoopInv(x)'
  BY DEF SameBot, BotInv, LoopInv
<1>2. FlagsInv(x)'
  BY DEF SameBot, BotInv, FlagsInv
<1>3. StreamInv(x)'
  BY DEF SameBot, BotInv, StreamInv
<1> QED BY <1>1, <1>2, <1>3 DEF BotInv

\* A step of one bot leaves the others alone.
LEMMA OtherBots ==
  ASSUME TypeOK, NEW b \in Bots, NEW x \in Bots, x # b, BotStep(b)
  PROVE  SameBot(x)
<1>1. CASE connectToServer(b)
  BY <1>1 DEF connectToServer, TypeOK, SameBot
<1>2. CASE Fail(b)
  BY <1>2 DEF Fail, TypeOK, SameBot
<1>3. CASE readFromServer(b)
  BY <1>3 DEF readFromServer, TypeOK, SameBot
<1>4. CASE PollWritable(b)
  BY <1>4 DEF PollWritable, TypeOK, SameBot
<1>5. CASE handleMessage(b)
  BY <1>5 DEF handleMessage, TypeOK, SameBot
<1>6. CASE LinesDone(b)
  BY <1>6 DEF LinesDone, TypeOK, SameBot
<1>7. CASE flushOutput(b)
  BY <1>7 DEF flushOutput, TypeOK, SameBot
<1> QED BY <1>1, <1>2, <1>3, <1>4, <1>5, <1>6, <1>7 DEF BotStep, ServerGone, SendFails

\* No line asks for nothing.
LEMMA AskedNothing == Asked(<<>>) = <<>>
<1> DEFINE ss == [i \in DOMAIN <<>> |-> SaidTo(<<>>, i)]
<1>1. ss = <<>>
  OBVIOUS
<1>2. Asked(<<>>) = FlattenSeq(ss)
  BY DEF Asked, SaidTo
<1>3. FlattenSeq(<<>>) = <<>>
  BY DEF FlattenSeq
<1> QED BY <1>1, <1>2, <1>3

\* An outbox of which nothing is sent is all to be sent.
LEMMA UnsentAll ==
  ASSUME NEW o \in Seq(Lines)
  PROVE  Unsent(o, 0) = Stream(o) /\ <<>> \o Stream(o) = Stream(o)
<1> DEFINE A == Stream(o)
<1>1. A \in Seq(Bytes) /\ Len(A) = LineLen * Len(o)
  BY StreamType DEF Bytes
<1>2. Unsent(o, 0) = SubSeq(A, 1, Len(A))
  BY <1>1 DEF Unsent
<1> HIDE DEF A
<1>3. SubSeq(A, 1, Len(A)) = A /\ <<>> \o A = A
  BY <1>1
<1> QED BY <1>2, <1>3 DEF A

\* connectToServer puts the registration into the outbox.
LEMMA InvConnect ==
  ASSUME TypeOK, NEW b \in Bots, BotInv(b), connectToServer(b)
  PROVE  BotInv(b)'
<1>1. /\ pc[b] = "start" /\ sent[b] = <<>> /\ handled[b] = <<>> /\ outbox[b] = <<>> /\ cut[b] = 0
      /\ sent' = sent /\ handled' = handled /\ cut' = cut /\ running' = running /\ joined' = joined
  BY DEF connectToServer, BotInv, StreamInv, LoopInv
<1>2. CASE pc' = [pc EXCEPT ![b] = "poll"] /\ outbox' = [outbox EXCEPT ![b] = Registration(b)]
  <2>1. pc'[b] = "poll" /\ outbox'[b] = Registration(b)
    BY <1>2 DEF TypeOK
  <2>2. LoopInv(b)'
    BY <1>1, <2>1 DEF LoopInv
  <2>3. FlagsInv(b)'
    BY <1>1 DEF FlagsInv, BotInv
  <2>4. Registration(b) \o <<>> = Registration(b)
    BY RegType
  <2>5. Unsent(Registration(b), 0) = Stream(Registration(b)) /\ <<>> \o Stream(Registration(b)) = Stream(Registration(b))
    BY RegType, UnsentAll
  <2>6. sent'[b] \o Unsent(outbox'[b], cut'[b]) = Stream(Registration(b) \o Asked(handled'[b]))
    BY <1>1, <2>1, <2>4, <2>5, AskedNothing
  <2>7. StreamInv(b)'
    BY <2>1, <2>6 DEF StreamInv
  <2> QED BY <2>2, <2>3, <2>7 DEF BotInv
<1>3. CASE pc' = [pc EXCEPT ![b] = "unconnected"] /\ outbox' = outbox
  <2>1. pc'[b] = "unconnected" /\ outbox'[b] = <<>>
    BY <1>1, <1>3 DEF TypeOK
  <2>2. LoopInv(b)'
    BY <1>1, <2>1 DEF LoopInv
  <2>3. FlagsInv(b)'
    BY <1>1 DEF FlagsInv, BotInv
  <2>4. StreamInv(b)'
    BY <1>1, <2>1 DEF StreamInv
  <2> QED BY <2>2, <2>3, <2>4 DEF BotInv
<1> QED BY <1>2, <1>3 DEF connectToServer

\* A bot of which pc and POLLOUT change, inside the loop.
LEMMA InvMoves ==
  ASSUME NEW b, BotInv(b), pc[b] \notin {"start", "unconnected"},
         pc'[b] \notin {"start", "unconnected"},
         running'[b] = running[b], joined'[b] = joined[b], outbox'[b] = outbox[b],
         cut'[b] = cut[b], handled'[b] = handled[b], sent'[b] = sent[b],
         pc'[b] = "flush" => outbox[b] # <<>>,
         pc'[b] = "lines" /\ writable'[b] => outbox[b] # <<>>,
         pc'[b] = "returned" => ~running[b] /\ outbox[b] = <<>>
  PROVE  BotInv(b)'
<1>1. LoopInv(b)'
  BY DEF BotInv, LoopInv
<1>2. FlagsInv(b)'
  BY DEF BotInv, FlagsInv
<1>3. StreamInv(b)'
  BY DEF BotInv, StreamInv
<1> QED BY <1>1, <1>2, <1>3 DEF BotInv

\* run throws from its loop.
LEMMA InvFail ==
  ASSUME TypeOK, NEW b \in Bots, BotInv(b), pc[b] \in {"poll", "flush"}, Fail(b)
  PROVE  BotInv(b)'
<1>1. pc'[b] = "failed"
  BY DEF Fail, TypeOK
<1>2. UNCHANGED <<running, joined, outbox, cut, writable, handled, sent>>
  BY DEF Fail
<1> QED BY <1>1, <1>2, InvMoves

\* One recv; poll asked for POLLOUT only if there was output.
LEMMA InvRead ==
  ASSUME TypeOK, NEW b \in Bots, BotInv(b), readFromServer(b)
  PROVE  BotInv(b)'
<1>1. pc'[b] = "lines" /\ pc[b] = "poll" /\ (writable'[b] <=> CanSend(b))
  BY DEF readFromServer, TypeOK
<1>2. UNCHANGED <<running, joined, outbox, cut, handled, sent>>
  BY DEF readFromServer
<1>3. writable'[b] => outbox[b] # <<>>
  BY <1>1 DEF CanSend
<1> QED BY <1>1, <1>2, <1>3, InvMoves

\* POLLOUT alone.
LEMMA InvPoll ==
  ASSUME TypeOK, NEW b \in Bots, BotInv(b), PollWritable(b)
  PROVE  BotInv(b)'
<1>1. pc'[b] = "flush" /\ pc[b] = "poll" /\ outbox[b] # <<>>
  BY DEF PollWritable, TypeOK, CanSend
<1>2. UNCHANGED <<running, joined, outbox, cut, handled, sent>>
  BY DEF PollWritable
<1> QED BY <1>1, <1>2, InvMoves

\* The loop over the lines ends; run goes on to flush only with output.
LEMMA InvLinesDone ==
  ASSUME TypeOK, NEW b \in Bots, BotInv(b), LinesDone(b)
  PROVE  BotInv(b)'
<1>1. pc[b] = "lines" /\ pc'[b] = IF writable[b] THEN "flush" ELSE Continue(running[b], outbox[b])
  BY DEF LinesDone, TypeOK
<1>2. UNCHANGED <<running, joined, outbox, cut, writable, handled, sent>>
  BY DEF LinesDone
<1>3. writable[b] => outbox[b] # <<>>
  BY <1>1 DEF BotInv, LoopInv
<1>4. /\ pc'[b] \in {"poll", "returned", "flush"}
      /\ pc'[b] = "returned" => ~running[b] /\ outbox[b] = <<>>
      /\ pc'[b] = "flush" => outbox[b] # <<>>
  BY <1>1, <1>3 DEF Continue
<1> QED BY <1>1, <1>2, <1>4, InvMoves

\* What handleMessage puts into the outbox is what the line asks for.
LEMMA ReactionIsAsked ==
  ASSUME TypeOK, NEW b \in Bots, FlagsInv(b), NEW l \in Lines
  PROVE  Reaction(b, l) = SaidTo(Append(handled[b], l), Len(handled[b]) + 1)
<1> DEFINE hs == handled[b]
           n == Len(hs)
           hl == Append(hs, l)
<1>1. hs \in Seq(Lines)
  BY DEF TypeOK
<1>2. n \in Nat /\ hl[n + 1] = l /\ \A j \in 1..n : hl[j] = hs[j]
  BY <1>1
<1>3. joined[b] <=> \E j \in 1..n : hs[j].cmd = "001"
  BY DEF FlagsInv
<1> HIDE DEF hl, hs
<1>4. joined[b] <=> \E j \in 1..(n + 1) - 1 : hl[j].cmd = "001"
  <2>1. (n + 1) - 1 = n
    BY <1>2
  <2> QED BY <1>2, <1>3, <2>1
<1> HIDE DEF n
<1> DEFINE k == n + 1
           J == \E j \in 1..k - 1 : hl[j].cmd = "001"
<1>5. joined[b] <=> J
  BY <1>4
<1>6. SaidTo(hl, k) =
        CASE l.cmd = "PING"    -> <<Plain("PONG")>>
          [] l.cmd = "001"     -> IF J THEN <<>> ELSE <<Plain("JOIN")>>
          [] l.cmd = "PRIVMSG" -> Answer(l)
          [] OTHER             -> <<>>
  BY <1>2 DEF SaidTo
<1> HIDE DEF J, k
<1>7. Reaction(b, l) = SaidTo(hl, k)
  <2>1. CASE l.cmd = "PING"
    BY <1>6, <2>1, Zenon DEF Reaction, Joins
  <2>2. CASE l.cmd = "001"
    BY <1>5, <1>6, <2>2 DEF Reaction, Joins
  <2>3. CASE l.cmd = "PRIVMSG"
    BY <1>6, <2>3 DEF Reaction, Joins
  <2>4. CASE l.cmd \notin {"PING", "001", "PRIVMSG"}
    BY <1>6, <2>4 DEF Reaction, Joins
  <2> QED BY <2>1, <2>2, <2>3, <2>4
<1> QED BY <1>7 DEF k, n, hl, hs

\* !quit asks for QUIT, whatever else.
LEMMA QuitIsAsked ==
  ASSUME NEW b, NEW l \in Lines, l.cmd = "PRIVMSG", l.text = <<"!quit">>
  PROVE  1 \in 1..Len(Reaction(b, l)) /\ Reaction(b, l)[1] = Plain("QUIT")
<1> DEFINE p == IF IsCommand(l.text) /\ Reply(l.text) # <<>>
                THEN <<Line("PRIVMSG", "", replyTarget(l), Reply(l.text))>> ELSE <<>>
           v == Line("PRIVMSG", "", replyTarget(l), Reply(l.text))
           u == Plain("QUIT")
<1>1. Reaction(b, l) = <<u>> \o p
  BY DEF Reaction, Joins, Answer
<1>2. p = <<v>> \/ p = <<>>
  BY Zenon
<1> HIDE DEF p, v, u
<1>3. (<<u>> \o p)[1] = u /\ 1 \in 1..Len(<<u>> \o p)
  <2>1. (<<u>> \o <<v>>)[1] = u /\ 1 \in 1..Len(<<u>> \o <<v>>)
    OBVIOUS
  <2>2. (<<u>> \o <<>>)[1] = u /\ 1 \in 1..Len(<<u>> \o <<>>)
    OBVIOUS
  <2> QED BY <1>2, <2>1, <2>2
<1> QED BY <1>1, <1>3 DEF u

\* handleMessage: one line more, and behind the outbox what it asks for.
LEMMA InvHandle ==
  ASSUME TypeOK, NEW b \in Bots, BotInv(b), handleMessage(b)
  PROVE  BotInv(b)'
<1> DEFINE s == lineBuffer[b]
           l == s[LineLen][1]
           o == outbox[b]
           c == cut[b]
           hs == handled[b]
           R == Reaction(b, l)
           A == Asked(hs)
           hl == Append(hs, l)
<1>1. s \in Seq(Bytes) /\ Len(s) >= LineLen
  BY DEF TypeOK, handleMessage
<1>2. l \in Lines
  <2> HIDE DEF s
  <2> QED BY <1>1, FirstLine
<1>3. o \in Seq(Lines) /\ hs \in Seq(Lines) /\ c \in 0..LineLen - 1
  BY DEF TypeOK
<1>4. /\ outbox'[b] = o \o R /\ handled'[b] = hl
      /\ joined'[b] <=> (joined[b] \/ Joins(b, l))
      /\ running'[b] <=> (running[b] /\ ~(l.cmd = "PRIVMSG" /\ l.text = <<"!quit">>))
      /\ pc[b] = "lines"
      /\ pc'[b] = pc[b] /\ cut'[b] = c /\ writable'[b] = writable[b] /\ sent'[b] = sent[b]
  <2> HIDE DEF l
  <2>1. /\ outbox' = [outbox EXCEPT ![b] = @ \o Reaction(b, l)]
        /\ joined' = [joined EXCEPT ![b] = @ \/ Joins(b, l)]
        /\ running' = [running EXCEPT ![b] = @ /\ ~(l.cmd = "PRIVMSG" /\ l.text = <<"!quit">>)]
        /\ handled' = [handled EXCEPT ![b] = Append(@, l)]
    BY DEF handleMessage, l
  <2>2. outbox'[b] = o \o R /\ handled'[b] = hl
    BY <2>1 DEF TypeOK
  <2>3. joined'[b] <=> (joined[b] \/ Joins(b, l))
    BY <2>1, Zenon DEF TypeOK
  <2>4. running'[b] <=> (running[b] /\ ~(l.cmd = "PRIVMSG" /\ l.text = <<"!quit">>))
    BY <2>1, Zenon DEF TypeOK
  <2>5. pc[b] = "lines" /\ UNCHANGED <<pc, cut, writable, sent>>
    BY DEF handleMessage
  <2> QED BY <2>2, <2>3, <2>4, <2>5
<1>5. R \in Seq(Lines) /\ A \in Seq(Lines)
  <2>1. R \in Seq(Lines)
    <3> HIDE DEF l
    <3> QED BY <1>2, ReactionType
  <2>2. A \in Seq(Lines)
    BY <1>3, AskedType
  <2> QED BY <2>1, <2>2
<1>6. Asked(hl) = A \o R
  <2> HIDE DEF l
  <2>1. FlagsInv(b)
    BY DEF BotInv
  <2>2. R = SaidTo(hl, Len(hs) + 1)
    BY <1>2, <2>1, ReactionIsAsked
  <2>3. Asked(hl) = Asked(hs) \o SaidTo(hl, Len(hs) + 1)
    BY <1>2, <1>3, AskedAppend
  <2> QED BY <2>2, <2>3
<1> HIDE DEF s, l
<1>7. LoopInv(b)'
  <2>1. /\ o = <<>> => c = 0
        /\ writable[b] => o # <<>>
    BY <1>4 DEF BotInv, LoopInv
  <2>2. o \o R = <<>> => o = <<>>
    <3> HIDE DEF o, R
    <3> QED BY <1>3, <1>5
  <2> HIDE DEF o, R, c
  <2> QED BY <1>4, <2>1, <2>2 DEF LoopInv
<1>8. FlagsInv(b)'
  <2>1. joined'[b] <=> \E j \in 1..Len(handled'[b]) : handled'[b][j].cmd = "001"
    <3>1. joined[b] <=> \E j \in 1..Len(hs) : hs[j].cmd = "001"
      BY DEF BotInv, FlagsInv
    <3>2. joined'[b] <=> (joined[b] \/ l.cmd = "001")
      BY <1>4, Zenon DEF Joins
    <3> HIDE DEF hs
    <3>3. Len(hl) = Len(hs) + 1 /\ hl[Len(hs) + 1] = l /\ \A j \in 1..Len(hs) : hl[j] = hs[j]
      BY <1>2, <1>3
    <3>4. Len(hs) \in Nat
      BY <1>3
    <3> HIDE DEF hl
    <3>5. (\E j \in 1..Len(hl) : hl[j].cmd = "001") <=> (l.cmd = "001" \/ \E j \in 1..Len(hs) : hs[j].cmd = "001")
      <4> DEFINE n == Len(hs)
      <4>1. Len(hl) = n + 1 /\ hl[n + 1] = l /\ n \in Nat /\ \A j \in 1..n : hl[j] = hs[j]
        BY <3>3, <3>4
      <4> HIDE DEF n
      <4>2. (\E j \in 1..Len(hl) : hl[j].cmd = "001") <=> (l.cmd = "001" \/ \E j \in 1..n : hs[j].cmd = "001")
        BY <4>1
      <4> QED BY <4>2 DEF n
    <3> QED BY <1>4, <3>1, <3>2, <3>5
  <2>2. ASSUME ~running'[b]
        PROVE  \E k \in 1..Len(Asked(handled'[b])) : Asked(handled'[b])[k] = Plain("QUIT")
    <3> DEFINE B == A \o R
    <3>1. Asked(handled'[b]) = B
      BY <1>4, <1>6
    <3>2. /\ Len(B) = Len(A) + Len(R)
          /\ \A i \in 1..Len(A) + Len(R) : B[i] = IF i <= Len(A) THEN A[i] ELSE R[i - Len(A)]
          /\ Len(A) \in Nat /\ Len(R) \in Nat
      <4> HIDE DEF A, R
      <4> QED BY <1>5, ConcatProperties
    <3> HIDE DEF A, R, B
    <3>3. CASE ~running[b]
      <4>1. PICK k \in 1..Len(A) : A[k] = Plain("QUIT")
        BY <3>3 DEF BotInv, FlagsInv, A
      <4>2. k \in 1..Len(B) /\ B[k] = A[k]
        BY <3>2
      <4> QED BY <3>1, <4>1, <4>2
    <3>4. CASE l.cmd = "PRIVMSG" /\ l.text = <<"!quit">>
      <4>1. 1 \in 1..Len(R) /\ R[1] = Plain("QUIT")
        BY <1>2, <3>4, QuitIsAsked DEF R
      <4> DEFINE k == Len(A) + 1
      <4>2. k \in 1..Len(B) /\ k - Len(A) = 1 /\ ~(k <= Len(A))
        BY <3>2, <4>1
      <4>3. B[k] = R[1]
        <5> HIDE DEF k
        <5> QED BY <3>2, <4>2
      <4> QED BY <3>1, <4>1, <4>2, <4>3
    <3>5. ~running[b] \/ (l.cmd = "PRIVMSG" /\ l.text = <<"!quit">>)
      BY <1>4, <2>2, Zenon
    <3> QED BY <3>3, <3>4, <3>5
  <2> QED BY <2>1, <2>2 DEF FlagsInv
<1>9. StreamInv(b)'
  <2>1. sent[b] \o Unsent(o, c) = Stream(Registration(b) \o A)
    BY <1>4 DEF BotInv, StreamInv
  <2>2. c \in 0..LineLen * Len(o)
    <3>1. CASE o = <<>>
      BY <1>3, <3>1, LenFact DEF BotInv, LoopInv
    <3>2. CASE o # <<>>
      <4> DEFINE n == Len(o)
      <4>1. n \in Nat /\ n >= 1
        BY <1>3, <3>2
      <4> HIDE DEF n, c
      <4>2. LineLen * n >= LineLen
        BY <4>1, LenFact
      <4>3. c \in 0..LineLen * n
        BY <1>3, <4>1, <4>2, LenFact
      <4> QED BY <4>3 DEF n
    <3> QED BY <3>1, <3>2
  <2>3. Unsent(o \o R, c) = Unsent(o, c) \o Stream(R)
    <3> HIDE DEF o, R, c
    <3> QED BY <1>3, <1>5, <2>2, UnsentConcat
  <2>4. Registration(b) \o (A \o R) = (Registration(b) \o A) \o R /\ Registration(b) \o A \in Seq(Lines)
    <3> DEFINE G == Registration(b)
    <3>1. G \in Seq(Lines)
      BY RegType
    <3> HIDE DEF A, R, G
    <3>2. G \o (A \o R) = (G \o A) \o R
      BY <1>5, <3>1, ConcatAssociative
    <3>3. G \o A \in Seq(Lines)
      BY <1>5, <3>1, ConcatProperties
    <3> QED BY <3>2, <3>3 DEF G
  <2>5. Stream((Registration(b) \o A) \o R) = Stream(Registration(b) \o A) \o Stream(R)
    <3> DEFINE G == Registration(b) \o A
    <3> HIDE DEF G, R
    <3>1. Stream(G \o R) = Stream(G) \o Stream(R)
      BY <1>5, <2>4, StreamConcat DEF G
    <3> QED BY <3>1 DEF G
  <2>6. sent[b] \in Seq(Bytes) /\ Unsent(o, c) \in Seq(Bytes) /\ Stream(R) \in Seq(Bytes)
    <3>1. sent[b] \in Seq(Bytes)
      BY DEF TypeOK
    <3>2. Stream(R) \in Seq(Bytes)
      <4> HIDE DEF R
      <4> QED BY <1>5, StreamType DEF Bytes
    <3>3. Stream(o) \in Seq(Bytes) /\ Len(Stream(o)) = LineLen * Len(o)
      BY <1>3, StreamType DEF Bytes
    <3>4. Unsent(o, c) \in Seq(Bytes)
      <4> DEFINE x == Stream(o)
                 e == LineLen * Len(o)
      <4>1. x \in Seq(Bytes) /\ Len(x) = e /\ c \in 0..e
        BY <2>2, <3>3
      <4> HIDE DEF x, e, c
      <4>2. SubSeq(x, c + 1, e) \in Seq(Bytes)
        BY <4>1
      <4> QED BY <4>2 DEF Unsent, x, e
    <3> QED BY <3>1, <3>2, <3>4
  <2>7. sent[b] \o (Unsent(o, c) \o Stream(R)) = (sent[b] \o Unsent(o, c)) \o Stream(R)
    <3> DEFINE x == sent[b]
               y == Unsent(o, c)
               z == Stream(R)
    <3>1. x \in Seq(Bytes) /\ y \in Seq(Bytes) /\ z \in Seq(Bytes)
      BY <2>6
    <3> HIDE DEF x, y, z
    <3>2. x \o (y \o z) = (x \o y) \o z
      BY <3>1, ConcatAssociative
    <3> QED BY <3>2 DEF x, y, z
  <2> HIDE DEF o, R, c, A, hl
  <2>8. sent'[b] \o Unsent(outbox'[b], cut'[b]) = Stream(Registration(b) \o Asked(handled'[b]))
    BY <1>4, <1>6, <2>1, <2>3, <2>4, <2>5, <2>7
  <2> QED BY <1>4, <2>8 DEF StreamInv
<1> QED BY <1>7, <1>8, <1>9 DEF BotInv

\* One send: what was to be sent first is sent.
LEMMA InvFlush ==
  ASSUME TypeOK, NEW b \in Bots, BotInv(b), flushOutput(b)
  PROVE  BotInv(b)'
<1>1. PICK n \in 1..LineLen - cut[b] : Sends(b, n)
  BY FlushSends
<1> DEFINE o == outbox[b]
           c == cut[b]
           bytes == SubSeq(BytesOf(o[1]), c + 1, c + n)
           rest == IF c + n = LineLen THEN Tail(o) ELSE o
           d == IF c + n = LineLen THEN 0 ELSE c + n
<1>2. /\ o \in Seq(Lines) /\ o # <<>> /\ c \in 0..LineLen - 1 /\ n \in 1..LineLen - c
      /\ pc[b] = "flush"
  BY FlushSends DEF BotInv, LoopInv, TypeOK
<1>3. /\ sent'[b] = sent[b] \o bytes /\ cut'[b] = d /\ outbox'[b] = rest
      /\ pc'[b] = IF c + n = LineLen /\ rest # <<>> THEN "flush" ELSE Continue(running[b], rest)
      /\ running' = running /\ joined' = joined /\ handled' = handled /\ writable' = writable
  BY <1>1, FlushSends DEF Sends, TypeOK
<1>4. /\ pc'[b] \in {"poll", "returned", "flush"}
      /\ pc'[b] = "returned" => ~running[b] /\ rest = <<>>
      /\ pc'[b] = "flush" => rest # <<>>
  <2> HIDE DEF rest
  <2> QED BY <1>3 DEF Continue
<1>5. rest = <<>> => d = 0
  BY <1>2
<1>6. LoopInv(b)'
  <2> HIDE DEF rest, d
  <2> QED BY <1>3, <1>4, <1>5 DEF LoopInv
<1>7. FlagsInv(b)'
  BY <1>3 DEF FlagsInv, BotInv
<1>8. StreamInv(b)'
  <2>1. sent[b] \o Unsent(o, c) = Stream(Registration(b) \o Asked(handled[b]))
    BY <1>2 DEF BotInv, StreamInv
  <2>2. bytes \o Unsent(o, c + n) = Unsent(o, c)
    <3> HIDE DEF o, c
    <3> QED BY <1>2, SendPart
  <2>3. Unsent(o, c + n) = Unsent(rest, d)
    <3>1. CASE c + n = LineLen
      <4>1. Unsent(o, LineLen) = Unsent(Tail(o), 0)
        BY <1>2, LineSent
      <4> QED BY <3>1, <4>1
    <3>2. CASE c + n # LineLen
      BY <3>2
    <3> QED BY <3>1, <3>2
  <2>4. bytes \in Seq(Bytes) /\ Unsent(rest, d) \in Seq(Bytes) /\ sent[b] \in Seq(Bytes)
    <3>1. sent[b] \in Seq(Bytes) /\ o[1] \in Lines
      BY <1>2 DEF TypeOK
    <3>2. bytes \in Seq(Bytes)
      <4> DEFINE x == BytesOf(o[1])
      <4>1. x \in Seq(Bytes) /\ Len(x) = LineLen
        BY <3>1, BytesType
      <4> HIDE DEF x, c
      <4>2. SubSeq(x, c + 1, c + n) \in Seq(Bytes)
        BY <1>2, <4>1, LenFact
      <4> QED BY <4>2 DEF x
    <3>3. Unsent(o, c + n) \in Seq(Bytes)
      <4> DEFINE x == Stream(o)
                 k == Len(o)
                 e == LineLen * k
                 y == c + n
      <4>1. x \in Seq(Bytes) /\ Len(x) = e /\ e \in Nat
        BY <1>2, StreamType DEF Bytes
      <4>2. k \in Nat /\ y \in Nat
        BY <1>2, LenFact
      <4> HIDE DEF x, k, y
      <4> HIDE DEF e
      <4>4. SubSeq(x, y + 1, e) \in Seq(Bytes)
        BY <4>1, <4>2
      <4> QED BY <4>4 DEF Unsent, x, e, k, y
    <3> QED BY <2>3, <3>1, <3>2, <3>3
  <2>5. (sent[b] \o bytes) \o Unsent(rest, d) = sent[b] \o (bytes \o Unsent(rest, d))
    <3> DEFINE x == sent[b]
               z == Unsent(rest, d)
    <3>1. x \in Seq(Bytes) /\ bytes \in Seq(Bytes) /\ z \in Seq(Bytes)
      BY <2>4
    <3> HIDE DEF x, bytes, z
    <3>2. (x \o bytes) \o z = x \o (bytes \o z)
      BY <3>1, ConcatAssociative
    <3> QED BY <3>2 DEF x, z
  <2> HIDE DEF bytes, rest, d, o, c
  <2>6. sent'[b] \o Unsent(outbox'[b], cut'[b]) = Stream(Registration(b) \o Asked(handled'[b]))
    BY <1>3, <2>1, <2>2, <2>3, <2>5
  <2> QED BY <1>4, <2>6 DEF StreamInv
<1> QED BY <1>6, <1>7, <1>8 DEF BotInv

--------------------------------------------------------------------------------
(* The theorems. *)

\* A bot that has not been started has sent nothing.
LEMMA InvInit == Init => Inv
<1> SUFFICES ASSUME Init PROVE Inv
  OBVIOUS
<1>1. TypeOK
  <2>1. "start" \in States /\ <<>> \in Seq(Bytes) /\ <<>> \in Seq(Lines)
    BY DEF States
  <2> QED BY <2>1, LenFact DEF Init, TypeOK
<1>2. ASSUME NEW b \in Bots PROVE BotInv(b)
  <2>1. /\ pc[b] = "start" /\ running[b] /\ ~joined[b] /\ outbox[b] = <<>> /\ cut[b] = 0
        /\ handled[b] = <<>> /\ sent[b] = <<>>
    BY DEF Init
  <2>2. LoopInv(b)
    BY <2>1 DEF LoopInv
  <2>3. FlagsInv(b)
    BY <2>1 DEF FlagsInv
  <2>4. StreamInv(b)
    BY <2>1 DEF StreamInv
  <2> QED BY <2>2, <2>3, <2>4 DEF BotInv
<1> QED BY <1>1, <1>2 DEF Inv

\* Every step keeps the invariant.
LEMMA InvNext == Inv /\ [Next]_vars => Inv'
<1> SUFFICES ASSUME Inv, [Next]_vars PROVE Inv'
  OBVIOUS
<1>0. TypeOK /\ \A x \in Bots : BotInv(x)
  BY DEF Inv
<1>1. ASSUME UNCHANGED botVars PROVE \A x \in Bots : BotInv(x)'
  <2> TAKE x \in Bots
  <2>1. SameBot(x)
    BY <1>1 DEF botVars, SameBot
  <2> QED BY <1>0, <2>1, BotStays
<1>2. ASSUME NEW b \in Bots, BotStep(b) PROVE Inv'
  <2>1. BotInv(b) /\ LoopInv(b)
    BY <1>0 DEF BotInv
  <2>2. \A x \in Bots \ {b} : BotInv(x)'
    <3> TAKE x \in Bots \ {b}
    <3>1. SameBot(x)
      BY <1>0, <1>2, OtherBots
    <3> QED BY <1>0, <3>1, BotStays
  <2>3. TypeOK' /\ BotInv(b)'
    <3>1. CASE connectToServer(b)
      BY <1>0, <2>1, <3>1, TypeConnect, InvConnect
    <3>2. CASE ServerGone(b)
      BY <1>0, <2>1, <3>2, TypeFail, InvFail DEF ServerGone
    <3>3. CASE readFromServer(b)
      BY <1>0, <2>1, <3>3, TypeRead, InvRead
    <3>4. CASE PollWritable(b)
      BY <1>0, <2>1, <3>4, TypePoll, InvPoll
    <3>5. CASE handleMessage(b)
      BY <1>0, <2>1, <3>5, TypeHandle, InvHandle
    <3>6. CASE LinesDone(b)
      BY <1>0, <2>1, <3>6, TypeLinesDone, InvLinesDone
    <3>7. CASE flushOutput(b)
      BY <1>0, <2>1, <3>7, TypeFlush, InvFlush
    <3>8. CASE SendFails(b)
      BY <1>0, <2>1, <3>8, TypeFail, InvFail DEF SendFails
    <3> QED BY <1>2, <3>1, <3>2, <3>3, <3>4, <3>5, <3>6, <3>7, <3>8 DEF BotStep
  <2> QED BY <2>2, <2>3 DEF Inv
<1>3. ASSUME NEW b \in Bots, ServerReads(b) PROVE Inv'
  <2>1. TypeOK'
    BY <1>0, <1>3, TypeServerReads
  <2>2. UNCHANGED botVars
    BY <1>3 DEF ServerReads
  <2> QED BY <1>1, <2>1, <2>2 DEF Inv
<1>4. CASE UserSays \/ \E b \in Bots : ServerNotices(b) \/ ServerCloses(b) \/ ServerAsks(b)
  <2>1. TypeOK' /\ UNCHANGED botVars
    BY <1>0, <1>4, TypeEnv
  <2> QED BY <1>1, <2>1 DEF Inv
<1>5. CASE UNCHANGED vars
  <2>1. TypeOK'
    BY <1>0, <1>5 DEF TypeOK, vars, botVars, netVars, envVars
  <2>2. UNCHANGED botVars
    BY <1>5 DEF vars
  <2> QED BY <1>1, <2>1, <2>2 DEF Inv
<1> QED BY <1>2, <1>3, <1>4, <1>5 DEF Next

\* The inductive invariant holds in every behaviour of the bots, the server and the
\* people in the channel: Bot::run, readFromServer, handleMessage, flushOutput.
THEOREM Invariant == Spec => []Inv
BY InvInit, InvNext, PTL DEF Spec

\* Whatever recv and send cut, whenever the server closes or a !quit comes: the bytes a
\* bot has sent and those that are left of its outbox are its registration and the
\* answers to the lines it was given, in their order (Bot::flushOutput, handleMessage).
THEOREM BotAnswersInOrder == Spec => []AnswersInOrder
<1>1. Inv => AnswersInOrder
  BY DEF Inv, BotInv, StreamInv, AnswersInOrder, Unsent
<1> QED BY <1>1, Invariant, PTL

\* run returns only when a !quit was handled and every byte of every answer has been
\* taken by send, QUIT's last byte among them (Bot::run, the loop after _running).
THEOREM BotReturnsWithAllSent == Spec => []ReturnsWithAllSent
<1>1. ASSUME Inv, NEW b \in Bots, pc[b] = "returned"
      PROVE  /\ <<Plain("QUIT"), LineLen>> \in Range(sent[b])
             /\ Len(sent[b]) = LineLen * Len(Registration(b) \o Asked(handled[b]))
  <2> DEFINE A == Asked(handled[b])
             G == Registration(b) \o A
             R == Registration(b)
             s == sent[b]
  <2>1. TypeOK /\ BotInv(b)
    BY <1>1 DEF Inv
  <2>2. ~running[b] /\ outbox[b] = <<>> /\ cut[b] = 0
    BY <1>1, <2>1 DEF BotInv, LoopInv
  <2>3. s \in Seq(Bytes) /\ handled[b] \in Seq(Lines)
    BY <2>1 DEF TypeOK
  <2>4. A \in Seq(Lines) /\ R \in Seq(Lines)
    BY <2>3, AskedType, RegType
  <2>5. G \in Seq(Lines) /\ Len(G) = Len(R) + Len(A)
        /\ \A i \in 1..Len(R) + Len(A) : G[i] = IF i <= Len(R) THEN R[i] ELSE A[i - Len(R)]
    <3> HIDE DEF A, R
    <3> QED BY <2>4, ConcatProperties DEF R
  <2>6. s = Stream(G)
    <3>1. s \o Unsent(<<>>, 0) = Stream(G)
      BY <1>1, <2>1, <2>2 DEF BotInv, StreamInv
    <3>2. Unsent(<<>>, 0) = <<>>
      <4>1. <<>> \in Seq(Lines) /\ Len(<<>>) = 0
        OBVIOUS
      <4>2. Stream(<<>>) \in Seq(Bytes) /\ Len(Stream(<<>>)) = LineLen * 0
        BY <4>1, StreamType DEF Bytes
      <4>3. Stream(<<>>) = <<>>
        BY <4>2, LenFact
      <4>4. Unsent(<<>>, 0) = Stream(<<>>)
        BY <4>1, UnsentAll
      <4> QED BY <4>3, <4>4
    <3> HIDE DEF s
    <3>3. s \o <<>> = s
      BY <2>3
    <3> QED BY <3>1, <3>2, <3>3
  <2>7. PICK k \in 1..Len(A) : A[k] = Plain("QUIT")
    BY <2>1, <2>2 DEF BotInv, FlagsInv
  <2> HIDE DEF A, G, R, s
  <2> DEFINE q == (Len(R) + k) - 1
             r == LineLen - 1
             i == LineLen * q + r + 1
  <2>8. q \in 0..Len(G) - 1 /\ r \in 0..LineLen - 1 /\ r + 1 = LineLen
    BY <2>4, <2>5, LenFact
  <2>9. G[q + 1] = Plain("QUIT")
    <3> DEFINE j == q + 1
    <3>1. j \in 1..Len(R) + Len(A) /\ ~(j <= Len(R)) /\ j - Len(R) = k
      BY <2>4
    <3> HIDE DEF q, j
    <3>2. G[j] = A[k]
      BY <2>5, <3>1
    <3> QED BY <2>7, <3>2 DEF j
  <2> HIDE DEF q, r
  <2>10. i \in 1..LineLen * Len(G) /\ Stream(G)[i] = <<G[q + 1], r + 1>>
    BY <2>5, <2>8, StreamAt
  <2>11. Len(s) = LineLen * Len(G)
    BY <2>5, <2>6, StreamType
  <2>12. i \in DOMAIN s /\ s[i] = <<Plain("QUIT"), LineLen>>
    <3> HIDE DEF i
    <3>1. DOMAIN s = 1..LineLen * Len(G)
      BY <2>3, <2>11 DEF s
    <3> QED BY <2>6, <2>8, <2>9, <2>10, <3>1
  <2>13. <<Plain("QUIT"), LineLen>> \in Range(s)
    BY <2>12, Zenon DEF Range
  <2> QED BY <2>11, <2>13 DEF s, G, A, R
<1>2. Inv => ReturnsWithAllSent
  BY <1>1 DEF ReturnsWithAllSent
<1> QED BY <1>2, Invariant, PTL
================================================================================
