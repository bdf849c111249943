---------------------------- MODULE NamesProofs ----------------------------
(* Names and lines of any length over any characters: IrcStringCompare is a  *)
(* strict order whose keys are names, Parser::parse returns what a line says *)
(* and what privmsg writes is read back.                                     *)
EXTENDS Words, FiniteSetTheorems, SequenceTheorems, WellFoundedInduction, TLAPS

(* irc_tolower maps character codes to numbers. *)
LEMMA LowerType == \A x \in CharCodes : irc_tolower(x) \in Int
  BY DEF irc_tolower, CharCodes

(* The length the loop of operator() runs to. *)
LEMMA MinLenFact ==
  ASSUME NEW s \in Strings, NEW t \in Strings
  PROVE  /\ MinLen(s, t) \in Nat
         /\ MinLen(s, t) <= Len(s) /\ MinLen(s, t) <= Len(t)
         /\ MinLen(s, t) = Len(s) \/ MinLen(s, t) = Len(t)
         /\ MinLen(s, t) = MinLen(t, s)
  BY DEF MinLen, Strings

(* A character inside the common length, in lower case, is a number. *)
LEMMA LowerAt ==
  ASSUME NEW s \in Strings, NEW i \in 1..Len(s)
  PROVE  irc_tolower(s[i]) \in Int
<1>1. s[i] \in CharCodes
  BY DEF Strings
<1> QED BY <1>1, LowerType

(* No string is before itself. *)
LEMMA Irreflexive ==
  ASSUME NEW s \in Strings
  PROVE  ~IrcStringCompare(s, s)
<1>1. ASSUME NEW i \in 1..MinLen(s, s)
      PROVE  ~(irc_tolower(s[i]) < irc_tolower(s[i]))
  <2>1. i \in 1..Len(s)
    BY MinLenFact
  <2> QED BY <2>1, LowerAt
<1>2. ~(Len(s) < Len(s))
  BY DEF Strings
<1> QED BY <1>1, <1>2 DEF IrcStringCompare

(* The order is transitive: of the two positions that decide the two         *)
(* comparisons, the earlier one decides the third.                           *)
LEMMA Transitive ==
  ASSUME NEW s \in Strings, NEW t \in Strings, NEW u \in Strings,
         IrcStringCompare(s, t), IrcStringCompare(t, u)
  PROVE  IrcStringCompare(s, u)
<1> DEFINE L(x) == irc_tolower(x)
<1>0. /\ Len(s) \in Nat /\ Len(t) \in Nat /\ Len(u) \in Nat
      /\ \A i \in 1..Len(s) : L(s[i]) \in Int
      /\ \A i \in 1..Len(t) : L(t[i]) \in Int
      /\ \A i \in 1..Len(u) : L(u[i]) \in Int
  BY LowerAt DEF Strings
<1> HIDE DEF L
<1>1. CASE \E i \in 1..MinLen(s, t) : SameUpTo(s, t, i - 1) /\ L(s[i]) < L(t[i])
  <2>1. PICK i \in 1..MinLen(s, t) : SameUpTo(s, t, i - 1) /\ L(s[i]) < L(t[i])
    BY <1>1
  <2>2. CASE \E k \in 1..MinLen(t, u) : SameUpTo(t, u, k - 1) /\ L(t[k]) < L(u[k])
    <3>1. PICK k \in 1..MinLen(t, u) : SameUpTo(t, u, k - 1) /\ L(t[k]) < L(u[k])
      BY <2>2
    <3>2. CASE i <= k
      <4>1. /\ i \in 1..MinLen(s, u)
            /\ i \in 1..Len(s) /\ i \in 1..Len(t) /\ i \in 1..Len(u)
        BY <1>0, <3>1, <3>2 DEF MinLen
      <4>2. SameUpTo(s, u, i - 1)
        BY <1>0, <2>1, <3>1, <3>2, MinLenFact DEF SameUpTo
      <4>3. L(s[i]) < L(u[i])
        <5>1. i < k => L(t[i]) = L(u[i])
          BY <1>0, <3>1, MinLenFact DEF SameUpTo, L
        <5>2. L(s[i]) \in Int /\ L(t[i]) \in Int /\ L(u[i]) \in Int
          BY <1>0, <4>1
        <5>3. i = k \/ i < k
          BY <3>2, <4>1, MinLenFact
        <5> QED BY <5>1, <5>2, <5>3, <2>1, <3>1
      <4> QED BY <4>1, <4>2, <4>3 DEF IrcStringCompare, L
    <3>3. CASE k < i
      <4>1. k \in 1..MinLen(s, u)
        BY <1>0, <3>1, <3>3 DEF MinLen
      <4>2. SameUpTo(s, u, k - 1)
        BY <1>0, <2>1, <3>1, <3>3, MinLenFact DEF SameUpTo
      <4>3. L(s[k]) = L(t[k])
        BY <1>0, <2>1, <3>1, <3>3, MinLenFact DEF SameUpTo, L
      <4> QED BY <4>1, <4>2, <4>3, <3>1 DEF IrcStringCompare, L
    <3> QED BY <3>2, <3>3, <1>0, MinLenFact
  <2>3. CASE SameUpTo(t, u, MinLen(t, u)) /\ Len(t) < Len(u)
    <3>1. i \in 1..MinLen(s, u) /\ i \in 1..MinLen(t, u)
      BY <1>0, <2>3 DEF MinLen
    <3>2. SameUpTo(s, u, i - 1)
      BY <1>0, <2>1, <2>3, <3>1, MinLenFact DEF SameUpTo
    <3>3. L(t[i]) = L(u[i])
      BY <2>3, <3>1 DEF SameUpTo, L
    <3> QED BY <3>1, <3>2, <3>3, <2>1 DEF IrcStringCompare, L
  <2> QED BY <2>2, <2>3 DEF IrcStringCompare, L
<1>2. CASE SameUpTo(s, t, MinLen(s, t)) /\ Len(s) < Len(t)
  <2>1. CASE \E k \in 1..MinLen(t, u) : SameUpTo(t, u, k - 1) /\ L(t[k]) < L(u[k])
    <3>1. PICK k \in 1..MinLen(t, u) : SameUpTo(t, u, k - 1) /\ L(t[k]) < L(u[k])
      BY <2>1
    <3>2. CASE k <= Len(s)
      <4>1. k \in 1..MinLen(s, u) /\ k \in 1..MinLen(s, t)
        BY <1>0, <1>2, <3>1, <3>2 DEF MinLen
      <4>2. SameUpTo(s, u, k - 1)
        BY <1>0, <1>2, <3>1, <4>1, MinLenFact DEF SameUpTo
      <4>3. L(s[k]) = L(t[k])
        BY <1>2, <4>1 DEF SameUpTo, L
      <4> QED BY <4>1, <4>2, <4>3, <3>1 DEF IrcStringCompare, L
    <3>3. CASE Len(s) < k
      <4>1. /\ MinLen(s, u) = Len(s) /\ MinLen(s, t) = Len(s)
            /\ Len(s) < Len(u)
        BY <1>0, <1>2, <3>1, <3>3 DEF MinLen
      <4>2. SameUpTo(s, u, MinLen(s, u))
        BY <1>0, <1>2, <3>1, <3>3, <4>1 DEF SameUpTo
      <4> QED BY <4>1, <4>2 DEF IrcStringCompare
    <3> QED BY <3>2, <3>3, <1>0, MinLenFact
  <2>2. CASE SameUpTo(t, u, MinLen(t, u)) /\ Len(t) < Len(u)
    <3>1. /\ MinLen(s, u) = Len(s) /\ MinLen(s, t) = Len(s)
          /\ MinLen(t, u) = Len(t) /\ Len(s) < Len(u)
      BY <1>0, <1>2, <2>2 DEF MinLen
    <3>2. SameUpTo(s, u, MinLen(s, u))
      BY <1>0, <1>2, <2>2, <3>1 DEF SameUpTo
    <3> QED BY <3>1, <3>2 DEF IrcStringCompare
  <2> QED BY <2>1, <2>2 DEF IrcStringCompare, L
<1> QED BY <1>1, <1>2 DEF IrcStringCompare, L

(* A set of natural numbers that is not empty has a least one. *)
LEMMA LeastNumber ==
  ASSUME NEW T \in SUBSET Nat, T # {}
  PROVE  \E m \in T : \A n \in T : m <= n
<1> DEFINE R == OpToRel(<, Nat)
<1>1. IsWellFoundedOn(R, Nat)
  BY NatLessThanWellFounded
<1>2. \A x \in Nat, y \in Nat : x < y => <<x, y>> \in R
  BY DEF OpToRel
<1> HIDE DEF R
<1>3. PICK m \in T : \A n \in T : ~(<<n, m>> \in R)
  BY <1>1, WFMin
<1>4. ASSUME NEW n \in T
      PROVE  m <= n
  <2>1. m \in Nat /\ n \in Nat
    OBVIOUS
  <2>2. ~(n < m)
    BY <1>2, <1>3, <2>1
  <2> QED BY <2>1, <2>2
<1> QED BY <1>4

(* Two strings are one key exactly if they have one length and no            *)
(* difference: the least position of a difference would decide.              *)
LEMMA KeyIsFold ==
  ASSUME NEW s \in Strings, NEW t \in Strings
  PROVE  ~IrcStringCompare(s, t) /\ ~IrcStringCompare(t, s)
           <=> Len(s) = Len(t) /\ SameUpTo(s, t, Len(s))
<1> DEFINE n == MinLen(s, t)
           D == {i \in 1..n : irc_tolower(s[i]) # irc_tolower(t[i])}
<1>0. /\ Len(s) \in Nat /\ Len(t) \in Nat
      /\ n \in Nat /\ n <= Len(s) /\ n <= Len(t)
      /\ n = Len(s) \/ n = Len(t)
      /\ MinLen(t, s) = n
  BY MinLenFact DEF Strings
<1>1. ASSUME NEW i \in 1..n
      PROVE  irc_tolower(s[i]) \in Int /\ irc_tolower(t[i]) \in Int
  <2>1. i \in 1..Len(s) /\ i \in 1..Len(t)
    BY <1>0
  <2> QED BY <2>1, LowerAt
<1>2. CASE D = {}
  <2>1. SameUpTo(s, t, n) /\ SameUpTo(t, s, n)
    BY <1>2 DEF SameUpTo
  <2>2. ASSUME NEW i \in 1..n
        PROVE  /\ ~(irc_tolower(s[i]) < irc_tolower(t[i]))
               /\ ~(irc_tolower(t[i]) < irc_tolower(s[i]))
    BY <1>1, <1>2
  <2>3. IrcStringCompare(s, t) <=> Len(s) < Len(t)
    BY <1>0, <2>1, <2>2 DEF IrcStringCompare
  <2>4. IrcStringCompare(t, s) <=> Len(t) < Len(s)
    BY <1>0, <2>1, <2>2 DEF IrcStringCompare
  <2>5. Len(s) = Len(t) => SameUpTo(s, t, Len(s))
    BY <1>0, <2>1
  <2> QED BY <1>0, <2>3, <2>4, <2>5
<1>3. CASE D # {}
  <2>1. PICK i \in D : \A k \in D : i <= k
    <3>1. D \in SUBSET Nat
      BY <1>0
    <3> QED BY <3>1, <1>3, LeastNumber
  <2>2. i \in 1..n /\ irc_tolower(s[i]) # irc_tolower(t[i])
    BY <2>1
  <2>3. SameUpTo(s, t, i - 1) /\ SameUpTo(t, s, i - 1)
    <3>1. ASSUME NEW j \in 1..(i - 1)
          PROVE  irc_tolower(s[j]) = irc_tolower(t[j])
      <4>1. j \in 1..n /\ ~(i <= j)
        BY <1>0, <2>2
      <4> QED BY <2>1, <4>1
    <3> QED BY <3>1 DEF SameUpTo
  <2>4. IrcStringCompare(s, t) \/ IrcStringCompare(t, s)
    <3>1. \/ irc_tolower(s[i]) < irc_tolower(t[i])
          \/ irc_tolower(t[i]) < irc_tolower(s[i])
      BY <1>1, <2>2
    <3> QED BY <1>0, <2>2, <2>3, <3>1 DEF IrcStringCompare
  <2>5. ~(Len(s) = Len(t) /\ SameUpTo(s, t, Len(s)))
    BY <1>0, <2>2 DEF SameUpTo
  <2> QED BY <2>4, <2>5
<1> QED BY <1>2, <1>3

(* irc_tolower takes two characters to one exactly if they are the two cases *)
(* of one character.                                                         *)
LEMMA FoldIsCase ==
  ASSUME NEW x \in CharCodes, NEW y \in CharCodes
  PROVE  irc_tolower(x) = irc_tolower(y)
           <=> x = y \/ {<<x, y>>, <<y, x>>} \cap CasePairs # {}
<1> DEFINE Cases(u, v) == \/ u \in 65..90 /\ v = u + 32
                          \/ u \in 91..93 /\ v = u + 32
                          \/ u = 126 /\ v = 94
<1>1. ASSUME NEW u \in CharCodes, NEW v \in CharCodes
      PROVE  <<u, v>> \in CasePairs <=> Cases(u, v)
  <2>1. ASSUME u \in 65..90, v = u + 32
        PROVE  <<u, v>> \in CasePairs
    <3>1. u - 65 \in 0..25 /\ u = 65 + (u - 65) /\ v = 97 + (u - 65)
      BY <2>1
    <3> QED BY <3>1 DEF CasePairs
  <2>2. ASSUME <<u, v>> \in {<<65 + k, 97 + k>> : k \in 0..25}
        PROVE  Cases(u, v)
    BY <2>2
  <2>3. <<u, v>> \in {<<91, 123>>, <<92, 124>>, <<93, 125>>, <<126, 94>>}
          <=> (u \in 91..93 /\ v = u + 32) \/ (u = 126 /\ v = 94)
    BY DEF CharCodes
  <2> QED BY <2>1, <2>2, <2>3 DEF CasePairs
<1>2. {<<x, y>>, <<y, x>>} \cap CasePairs # {} <=> Cases(x, y) \/ Cases(y, x)
  <2> HIDE DEF Cases
  <2>1. {<<x, y>>, <<y, x>>} \cap CasePairs # {}
          <=> <<x, y>> \in CasePairs \/ <<y, x>> \in CasePairs
    BY Zenon
  <2> QED BY <2>1, <1>1
<1>3. irc_tolower(x) = irc_tolower(y) <=> x = y \/ Cases(x, y) \/ Cases(y, x)
  BY DEF irc_tolower, CharCodes
<1> QED BY <1>2, <1>3

-----------------------------------------------------------------------------
(* The scanner of Parser. *)

(* skipSeparators stops at the first character that is no blank. *)
LEMMA SkipFact ==
  ASSUME NEW s \in Strings, NEW p \in 1..Len(s) + 1
  PROVE  /\ skipSeparators(s, p) \in p..Len(s) + 1
         /\ skipSeparators(s, p) <= Len(s) => s[skipSeparators(s, p)] # SPACE
         /\ \A r \in p..skipSeparators(s, p) - 1 : s[r] = SPACE
<1> DEFINE n == Len(s)
           T == {q \in p..n + 1 : q = n + 1 \/ s[q] # SPACE}
           OK(q) == /\ q = n + 1 \/ (s[q] = SPACE) = FALSE
                    /\ \A r \in p..q - 1 : (s[r] = SPACE) # FALSE
           Stops(q) == /\ q = n + 1 \/ s[q] # SPACE
                       /\ \A r \in p..q - 1 : s[r] = SPACE
<1>0. n \in Nat /\ p \in 1..n + 1
  BY DEF Strings
<1> HIDE DEF n
<1>1. PICK q \in T : \A r \in T : q <= r
  <2>1. T \in SUBSET Nat /\ n + 1 \in T
    BY <1>0
  <2> HIDE DEF T
  <2> QED BY <2>1, LeastNumber
<1>2. \A x : OK(x) <=> Stops(x)
  BY Zenon
<1>3. q \in p..n + 1 /\ Stops(q)
  BY <1>0, <1>1
<1>4. q \in p..n + 1 /\ OK(q)
  <2> HIDE DEF OK, Stops
  <2> QED BY <1>2, <1>3
<1> DEFINE k == CHOOSE x \in p..n + 1 : OK(x)
<1>5. k \in p..n + 1 /\ OK(k)
  <2> HIDE DEF OK
  <2> QED BY <1>4
<1>6. skipSeparators(s, p) = k
  BY DEF skipSeparators, First, n
<1> HIDE DEF k
<1>7. /\ k \in p..n + 1
      /\ k <= n => s[k] # SPACE
      /\ \A r \in p..k - 1 : s[r] = SPACE
  <2>1. k \in p..n + 1 /\ Stops(k)
    <3> HIDE DEF OK, Stops
    <3> QED BY <1>2, <1>5
  <2> QED BY <1>0, <2>1
<1> QED BY <1>6, <1>7 DEF n

(* readToken stops at the first blank. *)
LEMMA EndFact ==
  ASSUME NEW s \in Strings, NEW p \in 1..Len(s) + 1
  PROVE  /\ tokenEnd(s, p) \in p..Len(s) + 1
         /\ tokenEnd(s, p) <= Len(s) => s[tokenEnd(s, p)] = SPACE
         /\ \A r \in p..tokenEnd(s, p) - 1 : s[r] # SPACE
<1> DEFINE n == Len(s)
           T == {q \in p..n + 1 : q = n + 1 \/ s[q] = SPACE}
           OK(q) == /\ q = n + 1 \/ (s[q] = SPACE) = TRUE
                    /\ \A r \in p..q - 1 : (s[r] = SPACE) # TRUE
           Stops(q) == /\ q = n + 1 \/ s[q] = SPACE
                       /\ \A r \in p..q - 1 : s[r] # SPACE
<1>0. n \in Nat /\ p \in 1..n + 1
  BY DEF Strings
<1> HIDE DEF n
<1>1. PICK q \in T : \A r \in T : q <= r
  <2>1. T \in SUBSET Nat /\ n + 1 \in T
    BY <1>0
  <2> HIDE DEF T
  <2> QED BY <2>1, LeastNumber
<1>2. \A x : OK(x) <=> Stops(x)
  BY Zenon
<1>3. q \in p..n + 1 /\ Stops(q)
  BY <1>0, <1>1
<1>4. q \in p..n + 1 /\ OK(q)
  <2> HIDE DEF OK, Stops
  <2> QED BY <1>2, <1>3
<1> DEFINE k == CHOOSE x \in p..n + 1 : OK(x)
<1>5. k \in p..n + 1 /\ OK(k)
  <2> HIDE DEF OK
  <2> QED BY <1>4
<1>6. tokenEnd(s, p) = k
  BY DEF tokenEnd, First, n
<1> HIDE DEF k
<1>7. /\ k \in p..n + 1
      /\ k <= n => s[k] = SPACE
      /\ \A r \in p..k - 1 : s[r] # SPACE
  <2>1. k \in p..n + 1 /\ Stops(k)
    <3> HIDE DEF OK, Stops
    <3> QED BY <1>2, <1>5
  <2> QED BY <1>0, <2>1
<1> QED BY <1>6, <1>7 DEF n

(* The position that has these properties is the one. *)
LEMMA SkipIs ==
  ASSUME NEW s \in Strings, NEW p \in 1..Len(s) + 1, NEW q \in p..Len(s) + 1,
         q <= Len(s) => s[q] # SPACE, \A r \in p..q - 1 : s[r] = SPACE
  PROVE  skipSeparators(s, p) = q
<1> DEFINE n == Len(s)
           k == skipSeparators(s, p)
<1>0. n \in Nat /\ p \in 1..n + 1 /\ q \in p..n + 1 /\ (q <= n => s[q] # SPACE)
  BY DEF Strings
<1>1. k \in p..n + 1 /\ (k <= n => s[k] # SPACE) /\ \A r \in p..k - 1 : s[r] = SPACE
  BY SkipFact
<1> HIDE DEF k, n
<1>2. ~(k < q)
  BY <1>0, <1>1
<1>3. ~(q < k)
  BY <1>0, <1>1
<1>4. k = q
  BY <1>0, <1>1, <1>2, <1>3
<1> QED BY <1>4 DEF k

LEMMA EndIs ==
  ASSUME NEW s \in Strings, NEW p \in 1..Len(s) + 1, NEW q \in p..Len(s) + 1,
         q <= Len(s) => s[q] = SPACE, \A r \in p..q - 1 : s[r] # SPACE
  PROVE  tokenEnd(s, p) = q
<1> DEFINE n == Len(s)
           k == tokenEnd(s, p)
<1>0. n \in Nat /\ p \in 1..n + 1 /\ q \in p..n + 1 /\ (q <= n => s[q] = SPACE)
  BY DEF Strings
<1>1. k \in p..n + 1 /\ (k <= n => s[k] = SPACE) /\ \A r \in p..k - 1 : s[r] # SPACE
  BY EndFact
<1> HIDE DEF k, n
<1>2. ~(k < q)
  BY <1>0, <1>1
<1>3. ~(q < k)
  BY <1>0, <1>1
<1>4. k = q
  BY <1>0, <1>1, <1>2, <1>3
<1> QED BY <1>4 DEF k

(* A word has at least one character. *)
LEMMA EndBehind ==
  ASSUME NEW s \in Strings, NEW q \in 1..Len(s), s[q] # SPACE
  PROVE  tokenEnd(s, q) \in q + 1..Len(s) + 1
<1> DEFINE n == Len(s)
           k == tokenEnd(s, q)
<1>0. n \in Nat /\ q \in 1..n /\ q \in 1..n + 1
  BY DEF Strings
<1>1. k \in q..n + 1 /\ (k <= n => s[k] = SPACE)
  BY <1>0, EndFact
<1> HIDE DEF k, n
<1>2. k # q
  BY <1>0, <1>1
<1>3. k \in q + 1..n + 1
  BY <1>0, <1>1, <1>2
<1> QED BY <1>3 DEF k, n

(* What the loop of parse does at position p, if g holds what it does later. *)
ParamsFrom(s, p, g) ==
  LET q == skipSeparators(s, p)
  IN  IF q > Len(s) THEN <<>>
      ELSE IF s[q] = COLON THEN <<SubSeq(s, q + 1, Len(s))>>
      ELSE <<readToken(s, q)>> \o g[tokenEnd(s, q)]

(* It does it later: the position behind a word is behind the word.          *)
LEMMA ParamsLater ==
  ASSUME NEW s \in Strings, NEW p \in 1..Len(s) + 1, NEW g, NEW h,
         \A r \in p + 1..Len(s) + 1 : g[r] = h[r]
  PROVE  ParamsFrom(s, p, g) = ParamsFrom(s, p, h)
<1> DEFINE n == Len(s)
           q == skipSeparators(s, p)
           e == tokenEnd(s, q)
<1>0. n \in Nat /\ p \in 1..n + 1
  BY DEF Strings
<1>1. q \in p..n + 1 /\ (q <= n => s[q] # SPACE)
  BY SkipFact
<1>2. ASSUME ~(q > n)
      PROVE  g[e] = h[e]
  <2> HIDE DEF q
  <2>1. q \in 1..n /\ s[q] # SPACE
    <3> HIDE DEF n
    <3> QED BY <1>0, <1>1, <1>2
  <2>2. e \in q + 1..n + 1
    BY <2>1, EndBehind
  <2> HIDE DEF e
  <2>3. e \in p + 1..n + 1
    <3> HIDE DEF n
    <3> QED BY <1>0, <1>1, <2>2
  <2> QED BY <2>3
<1> HIDE DEF q
<1>3. /\ ParamsFrom(s, p, g) = IF q > n THEN <<>>
            ELSE IF s[q] = COLON THEN <<SubSeq(s, q + 1, n)>> ELSE <<readToken(s, q)>> \o g[e]
      /\ ParamsFrom(s, p, h) = IF q > n THEN <<>>
            ELSE IF s[q] = COLON THEN <<SubSeq(s, q + 1, n)>> ELSE <<readToken(s, q)>> \o h[e]
  BY DEF ParamsFrom, q
<1> QED BY <1>2, <1>3

(* Induction over a set of numbers. *)
LEMMA Induction ==
  ASSUME NEW P, P \subseteq Nat, 0 \in P, \A n \in P : n + 1 \in P
  PROVE  P = Nat
<1> DEFINE T == Nat \ P
<1>1. ASSUME T # {} PROVE FALSE
  <2>1. PICK x \in T : \A y \in T : x <= y
    BY <1>1, LeastNumber
  <2>2. x # 0 /\ x - 1 \in Nat /\ x - 1 \in P
    BY <2>1
  <2>3. (x - 1) + 1 = x
    BY <2>1
  <2> QED BY <2>1, <2>2, <2>3
<1> QED BY <1>1

(* There is a function that the recursion describes, from any position on:   *)
(* it is made from the end of the line to its beginning.                     *)
LEMMA ParamsExist ==
  ASSUME NEW s \in Strings
  PROVE  \E g : g = [p \in 1..Len(s) + 1 |-> ParamsFrom(s, p, g)]
<1> DEFINE n == Len(s)
           From(k, g) == g = [p \in k..n + 1 |-> ParamsFrom(s, p, g)]
           P == {m \in Nat : m <= n => \E g : From((n + 1) - m, g)}
<1>0. n \in Nat
  BY DEF Strings
<1>1. 0 \in P
  <2> DEFINE N == n + 1
             g == [p \in N..N |-> <<>>]
  <2>1. N \in 1..Len(s) + 1 /\ ~(N <= n)
    BY <1>0
  <2>2. ParamsFrom(s, N, g) = <<>>
    <3> HIDE DEF N, g
    <3>1. skipSeparators(s, N) \in N..n + 1
      BY <2>1, SkipFact
    <3>2. skipSeparators(s, N) > n
      BY <1>0, <3>1 DEF N
    <3> QED BY <3>2 DEF ParamsFrom
  <2>3. \A p \in N..N : p = N
    BY <1>0
  <2>4. g = [p \in N..N |-> ParamsFrom(s, p, g)]
    <3>1. \A p \in N..N : ParamsFrom(s, p, g) = <<>>
      BY <2>2, <2>3
    <3> HIDE DEF N
    <3> QED BY <3>1
  <2>5. From((n + 1) - 0, g)
    <3>1. (n + 1) - 0 = N
      BY <1>0
    <3> HIDE DEF g
    <3> QED BY <2>4, <3>1
  <2> QED BY <2>5
<1>2. ASSUME NEW m \in P PROVE m + 1 \in P
  <2> SUFFICES ASSUME m + 1 <= n
               PROVE  \E h : From((n + 1) - (m + 1), h)
    OBVIOUS
  <2>1. m \in Nat /\ m <= n
    BY <1>0
  <2> DEFINE k == (n + 1) - m
             j == (n + 1) - (m + 1)
  <2>2. PICK g : From(k, g)
    BY <1>2, <2>1
  <2>3. k = j + 1 /\ j \in 1..n /\ j \in 1..n + 1
    BY <1>0, <2>1
  <2> DEFINE h == [p \in j..n + 1 |-> IF p = j THEN ParamsFrom(s, j, g) ELSE g[p]]
  <2>4. \A r \in k..n + 1 : h[r] = g[r]
    <3> HIDE DEF k, j
    <3> QED BY <1>0, <2>3
  <2>5. ASSUME NEW p \in j..n + 1
        PROVE  h[p] = ParamsFrom(s, p, h)
    <3>1. p \in 1..n + 1
      <4> HIDE DEF n, j
      <4> QED BY <1>0, <2>3
    <3>2. \A r \in p + 1..n + 1 : g[r] = h[r]
      <4>1. \A r \in p + 1..n + 1 : r \in k..n + 1
        <5> HIDE DEF n, j, k
        <5> QED BY <1>0, <2>3
      <4> HIDE DEF h, k
      <4> QED BY <2>4, <4>1
    <3>3. ParamsFrom(s, p, g) = ParamsFrom(s, p, h)
      <4> HIDE DEF h
      <4> QED BY <3>1, <3>2, ParamsLater
    <3>4. CASE p = j
      BY <3>3, <3>4
    <3>5. CASE p # j
      <4>1. p \in k..n + 1
        <5> HIDE DEF n, j, k
        <5> QED BY <1>0, <2>3, <3>5
      <4>2. h[p] = g[p]
        BY <2>4, <4>1
      <4>3. g[p] = ParamsFrom(s, p, g)
        <5> HIDE DEF k
        <5> QED BY <2>2, <4>1
      <4> QED BY <3>3, <4>2, <4>3
    <3> QED BY <3>4, <3>5
  <2>6. h = [p \in j..n + 1 |-> h[p]]
    OBVIOUS
  <2> HIDE DEF h, j
  <2>7. From(j, h)
    BY <2>5, <2>6
  <2> QED BY <2>7 DEF j
<1>3. P = Nat
  <2>1. P \subseteq Nat
    OBVIOUS
  <2> HIDE DEF P
  <2> QED BY <1>1, <1>2, <2>1, Induction
<1>4. n \in P
  BY <1>0, <1>3
<1>5. \E g : From((n + 1) - n, g)
  BY <1>0, <1>4
<1>6. (n + 1) - n = 1
  BY <1>0
<1> QED BY <1>5, <1>6

(* So the equation of readParams is one that it satisfies. *)
LEMMA ReadParamsEq ==
  ASSUME NEW s \in Strings, NEW p \in 1..Len(s) + 1
  PROVE  readParams(s, p) =
           LET q == skipSeparators(s, p)
           IN  IF q > Len(s) THEN <<>>
               ELSE IF s[q] = COLON THEN <<SubSeq(s, q + 1, Len(s))>>
               ELSE <<readToken(s, q)>> \o readParams(s, tokenEnd(s, q))
<1> DEFINE F == CHOOSE g : g = [x \in 1..Len(s) + 1 |->
                  LET q == skipSeparators(s, x)
                  IN  IF q > Len(s) THEN <<>>
                      ELSE IF s[q] = COLON THEN <<SubSeq(s, q + 1, Len(s))>>
                      ELSE <<readToken(s, q)>> \o g[tokenEnd(s, q)]]
<1>1. F = [x \in 1..Len(s) + 1 |-> ParamsFrom(s, x, F)]
  BY ParamsExist DEF ParamsFrom
<1>2. \A x : readParams(s, x) = F[x]
  BY DEF readParams
<1> HIDE DEF F
<1>3. F[p] = ParamsFrom(s, p, F)
  BY <1>1
<1> QED BY <1>2, <1>3 DEF ParamsFrom

-----------------------------------------------------------------------------
(* The words of a line. *)

(* The words that begin at p or behind it. *)
StartsFrom(s, p) == {i \in WordStarts(s) : i >= p}

(* p is not inside a word. *)
Between(s, p) == p \in 1..Len(s) + 1 /\ (p = 1 \/ p = Len(s) + 1 \/ s[p] = SPACE)

(* The smallest of some numbers. *)
LEMMA SmallestIs ==
  ASSUME NEW S \in SUBSET Int, NEW x \in S, \A y \in S : x <= y, NEW d
  PROVE  Smallest(S, d) = x
<1> DEFINE k == CHOOSE i \in S : \A j \in S : i <= j
<1>1. k \in S /\ \A j \in S : k <= j
  OBVIOUS
<1>2. Smallest(S, d) = k
  BY DEF Smallest
<1> HIDE DEF k
<1>3. k <= x /\ x <= k /\ k \in Int /\ x \in Int
  BY <1>1
<1>4. k = x
  BY <1>3
<1> QED BY <1>2, <1>4

LEMMA SmallestNone == \A d : Smallest({}, d) = d
BY DEF Smallest

(* readToken reads the word that begins there. *)
LEMMA TokenIsWord ==
  ASSUME NEW s \in Strings, NEW p \in 1..Len(s)
  PROVE  Word(s, p) = readToken(s, p)
<1> DEFINE n == Len(s)
           e == tokenEnd(s, p)
           B == {j \in p..n : s[j] = SPACE}
<1>0. n \in Nat /\ p \in 1..n /\ p \in 1..n + 1
  BY DEF Strings
<1>1. e \in p..n + 1 /\ (e <= n => s[e] = SPACE) /\ \A r \in p..e - 1 : s[r] # SPACE
  BY <1>0, EndFact
<1> HIDE DEF e, n
<1>2. Smallest(B, n + 1) = e
  <2>1. CASE e <= n
    <3>1. B \in SUBSET Int /\ e \in B /\ \A y \in B : e <= y
      BY <1>0, <1>1, <2>1
    <3> HIDE DEF B
    <3> QED BY <3>1, SmallestIs
  <2>2. CASE e = n + 1
    <3>1. B = {}
      BY <1>0, <1>1, <2>2
    <3> QED BY <2>2, <3>1, SmallestNone
  <2> QED BY <1>0, <1>1, <2>1, <2>2
<1> QED BY <1>2 DEF Word, readToken, e, n

(* From a position between words, skipSeparators goes to the next word.      *)
LEMMA NextWord ==
  ASSUME NEW s \in Strings, NEW p, Between(s, p)
  PROVE  LET q == skipSeparators(s, p)
         IN  IF q > Len(s) THEN StartsFrom(s, p) = {}
             ELSE q \in StartsFrom(s, p) /\ \A i \in StartsFrom(s, p) : q <= i
<1> DEFINE n == Len(s)
           q == skipSeparators(s, p)
           A == StartsFrom(s, p)
<1>0. n \in Nat /\ p \in 1..n + 1 /\ (p = 1 \/ p = n + 1 \/ s[p] = SPACE) /\ DOMAIN s = 1..n
  BY DEF Strings, Between
<1>1. q \in p..n + 1 /\ (q <= n => s[q] # SPACE) /\ \A r \in p..q - 1 : s[r] = SPACE
  BY <1>0, SkipFact
<1>2. A = {i \in 1..n : s[i] # SPACE /\ (i = 1 \/ s[i - 1] = SPACE) /\ i >= p}
  BY <1>0 DEF StartsFrom, WordStarts
<1> HIDE DEF q, n, A
<1>3. CASE q > n
  <2>1. A = {}
    BY <1>0, <1>1, <1>2, <1>3
  <2> QED BY <1>3, <2>1 DEF q, n, A
<1>4. CASE ~(q > n)
  <2>1. q \in A
    BY <1>0, <1>1, <1>2, <1>4
  <2>2. \A i \in A : q <= i
    BY <1>0, <1>1, <1>2, <1>4
  <2> QED BY <1>4, <2>1, <2>2 DEF q, n, A
<1> QED BY <1>3, <1>4

(* Behind a word, the words behind it begin. *)
LEMMA BehindWord ==
  ASSUME NEW s \in Strings, NEW q \in 1..Len(s), s[q] # SPACE
  PROVE  /\ Between(s, tokenEnd(s, q))
         /\ {i \in WordStarts(s) : i > q} = StartsFrom(s, tokenEnd(s, q))
<1> DEFINE n == Len(s)
           e == tokenEnd(s, q)
<1>0. n \in Nat /\ q \in 1..n /\ q \in 1..n + 1 /\ DOMAIN s = 1..n
  BY DEF Strings
<1>1. e \in q..n + 1 /\ (e <= n => s[e] = SPACE) /\ \A r \in q..e - 1 : s[r] # SPACE
  BY <1>0, EndFact
<1>2. e \in q + 1..n + 1
  BY EndBehind
<1> HIDE DEF e, n
<1>3. Between(s, e)
  BY <1>0, <1>1, <1>2 DEF Between, n
<1>4. ASSUME NEW i \in WordStarts(s)
      PROVE  i > q <=> i >= e
  <2>1. i \in 1..n /\ s[i] # SPACE /\ (i = 1 \/ s[i - 1] = SPACE)
    BY <1>0 DEF WordStarts
  <2>2. ASSUME i > q PROVE i >= e
    <3>1. s[i - 1] = SPACE /\ i - 1 >= q /\ i - 1 \in Int
      BY <1>0, <2>1, <2>2
    <3>2. ~(i - 1 <= e - 1)
      <4>1. ASSUME i - 1 <= e - 1 PROVE i - 1 \in q..e - 1
        BY <1>0, <1>2, <3>1, <4>1
      <4> QED BY <1>1, <3>1, <4>1
    <3> QED BY <1>0, <1>2, <2>1, <3>2
  <2>3. ASSUME i >= e PROVE i > q
    BY <1>0, <1>2, <2>1, <2>3
  <2> QED BY <2>2, <2>3
<1> QED BY <1>3, <1>4 DEF StartsFrom, e

(* What the parameters ps of a line are that are read from p on: the words   *)
(* up to one with a colon in front, and that one with all that follows.      *)
Trail(s, p) == Smallest({i \in StartsFrom(s, p) : s[i] = COLON}, Len(s) + 1)

Middle(s, p) == {i \in StartsFrom(s, p) : i < Trail(s, p)}

ParamsSay(s, p, ps) ==
  /\ ps \in Seq(Strings)
  /\ Len(ps) = Cardinality(Middle(s, p)) + (IF Trail(s, p) <= Len(s) THEN 1 ELSE 0)
  /\ \A i \in Middle(s, p) :
        ps[Cardinality({j \in Middle(s, p) : j <= i})] = Word(s, i)
  /\ Trail(s, p) <= Len(s) => ps[Len(ps)] = SubSeq(s, Trail(s, p) + 1, Len(s))

(* A part of a line is a string. *)
LEMMA PartType ==
  ASSUME NEW s \in Strings, NEW i \in 1..Len(s) + 1, NEW j \in 0..Len(s)
  PROVE  SubSeq(s, i, j) \in Strings
BY DEF Strings

LEMMA TokenType ==
  ASSUME NEW s \in Strings, NEW p \in 1..Len(s) + 1
  PROVE  readToken(s, p) \in Strings
<1> DEFINE n == Len(s)
           e == tokenEnd(s, p)
           j == e - 1
<1>0. n \in Nat /\ p \in 1..n + 1
  BY DEF Strings
<1>1. e \in p..n + 1
  BY EndFact
<1> HIDE DEF e
<1>2. j \in 0..n
  <2> HIDE DEF n
  <2> QED BY <1>0, <1>1
<1> HIDE DEF j
<1>3. SubSeq(s, p, j) \in Strings
  BY <1>2, PartType
<1> QED BY <1>3 DEF readToken, e, j

(* Where the trailing parameter begins. *)
LEMMA TrailFact ==
  ASSUME NEW s \in Strings, NEW p
  PROVE  /\ Trail(s, p) \in 1..Len(s) + 1
         /\ Trail(s, p) <= Len(s) => Trail(s, p) \in StartsFrom(s, p) /\ s[Trail(s, p)] = COLON
         /\ \A i \in StartsFrom(s, p) : s[i] = COLON => Trail(s, p) <= i
         /\ Middle(s, p) \in SUBSET (1..Len(s))
<1> DEFINE n == Len(s)
           C == {i \in StartsFrom(s, p) : s[i] = COLON}
           t == Trail(s, p)
<1>0. n \in Nat /\ DOMAIN s = 1..n
  BY DEF Strings
<1>1. StartsFrom(s, p) \in SUBSET (1..n)
  BY <1>0 DEF StartsFrom, WordStarts
<1>2. Middle(s, p) \in SUBSET (1..n)
  BY <1>1 DEF Middle
<1>3. t = Smallest(C, n + 1)
  BY DEF Trail
<1>4. CASE C = {}
  <2>1. t = n + 1
    BY <1>3, <1>4, SmallestNone
  <2> QED BY <1>0, <1>2, <1>4, <2>1
<1>5. CASE C # {}
  <2>1. C \in SUBSET Nat /\ C \in SUBSET Int /\ C \in SUBSET (1..n)
    BY <1>0, <1>1
  <2>2. PICK x \in C : \A y \in C : x <= y
    <3> HIDE DEF C
    <3> QED BY <1>5, <2>1, LeastNumber
  <2>3. t = x
    <3> HIDE DEF C, t
    <3> QED BY <1>3, <2>1, <2>2, SmallestIs
  <2>4. x \in 1..n /\ x \in StartsFrom(s, p) /\ s[x] = COLON
    BY <1>1
  <2> HIDE DEF t
  <2>5. /\ t \in 1..n + 1
        /\ t \in StartsFrom(s, p) /\ s[t] = COLON
        /\ \A i \in StartsFrom(s, p) : s[i] = COLON => t <= i
    BY <1>0, <2>2, <2>3, <2>4
  <2> QED BY <1>2, <2>5 DEF t
<1> QED BY <1>4, <1>5

(* One word in front: the words from p on are the one at q and those behind. *)
LEMMA OneMore ==
  ASSUME NEW s \in Strings, NEW p, Between(s, p), NEW q, q = skipSeparators(s, p),
         q <= Len(s), s[q] # COLON
  PROVE  LET e == tokenEnd(s, q)
         IN  /\ q \in 1..Len(s) /\ s[q] # SPACE /\ q >= p
             /\ Between(s, e) /\ e > q
             /\ Trail(s, p) = Trail(s, e)
             /\ Middle(s, p) = {q} \cup Middle(s, e)
             /\ \A i \in Middle(s, e) : q < i
<1> DEFINE n == Len(s)
           e == tokenEnd(s, q)
<1>0. n \in Nat /\ p \in 1..n + 1
  BY DEF Strings, Between
<1>1. q \in p..n + 1 /\ s[q] # SPACE
  BY <1>0, SkipFact
<1>2. q \in 1..n /\ q >= p /\ q \in Int
  <2> HIDE DEF n
  <2> QED BY <1>0, <1>1 DEF n
<1>3. Between(s, e) /\ {i \in WordStarts(s) : i > q} = StartsFrom(s, e)
  BY <1>1, <1>2, BehindWord
<1>4. e > q
  <2>1. e \in q + 1..n + 1
    BY <1>1, <1>2, EndBehind
  <2> HIDE DEF e, n
  <2> QED BY <1>2, <2>1
<1>5. q \in StartsFrom(s, p) /\ \A i \in StartsFrom(s, p) : q <= i
  <2>1. ~(q > n)
    <3> HIDE DEF n
    <3> QED BY <1>0, <1>2
  <2> QED BY <2>1, NextWord
<1> HIDE DEF e
<1>6. StartsFrom(s, p) = {q} \cup StartsFrom(s, e)
  <2>1. \A i \in WordStarts(s) : i \in Int
    BY DEF WordStarts, Strings
  <2>2. \A i \in WordStarts(s) : i > q => i >= p
    <3> HIDE DEF n
    <3> QED BY <1>0, <1>2, <2>1
  <2>3. \A i \in WordStarts(s) : i >= p => i = q \/ i > q
    <3>1. \A i \in WordStarts(s) : i >= p => q <= i
      BY <1>5 DEF StartsFrom
    <3> QED BY <1>2, <2>1, <3>1
  <2>4. StartsFrom(s, p) = {i \in WordStarts(s) : i >= p}
    BY DEF StartsFrom
  <2> QED BY <1>3, <1>5, <2>2, <2>3, <2>4
<1>7. \A i \in StartsFrom(s, e) : q < i
  <2>1. \A i \in WordStarts(s) : i \in Int
    BY DEF WordStarts, Strings
  <2>2. \A i \in StartsFrom(s, e) : i \in WordStarts(s) /\ i > q
    BY <1>3
  <2> QED BY <1>2, <2>1, <2>2
<1>8. Trail(s, p) = Trail(s, e)
  <2>1. {i \in StartsFrom(s, p) : s[i] = COLON} = {i \in StartsFrom(s, e) : s[i] = COLON}
    BY <1>6
  <2> QED BY <2>1 DEF Trail
<1>9. q < Trail(s, e)
  <2> DEFINE t == Trail(s, e)
  <2>1. t \in 1..n + 1 /\ (t <= n => t \in StartsFrom(s, e))
    BY TrailFact
  <2> HIDE DEF t
  <2>2. CASE t <= n
    BY <1>7, <2>1, <2>2 DEF t
  <2>3. CASE t = n + 1
    <3> HIDE DEF n
    <3>1. q < t
      BY <1>0, <1>2, <2>3
    <3> QED BY <3>1 DEF t
  <2>4. t <= n \/ t = n + 1
    <3> HIDE DEF n
    <3> QED BY <1>0, <2>1
  <2> QED BY <2>2, <2>3, <2>4
<1>10. Middle(s, p) = {q} \cup Middle(s, e)
  BY <1>6, <1>8, <1>9 DEF Middle
<1>11. \A i \in Middle(s, e) : q < i
  BY <1>7 DEF Middle
<1> QED BY <1>1, <1>2, <1>3, <1>4, <1>8, <1>10, <1>11 DEF e

(* A word in front is one more to count. *)
LEMMA CountOneMore ==
  ASSUME NEW n \in Nat, NEW M \in SUBSET (1..n), NEW q \in Int, \A i \in M : q < i
  PROVE  /\ Cardinality({q} \cup M) = Cardinality(M) + 1
         /\ Cardinality(M) \in Nat
         /\ \A i \in M : /\ Cardinality({j \in {q} \cup M : j <= i})
                              = Cardinality({j \in M : j <= i}) + 1
                         /\ Cardinality({j \in M : j <= i}) \in 1..Cardinality(M)
         /\ Cardinality({j \in {q} \cup M : j <= q}) = 1
<1>1. IsFiniteSet(1..n)
  <2> DEFINE z == 1
  <2>1. z \in Int /\ n \in Int
    OBVIOUS
  <2> HIDE DEF z
  <2>2. IsFiniteSet(z..n)
    BY <2>1, FS_Interval
  <2> QED BY <2>2 DEF z
<1>2. IsFiniteSet(M) /\ Cardinality(M) \in Nat
  BY <1>1, FS_Subset, FS_CardinalityType
<1>3. q \notin M
  OBVIOUS
<1>4. Cardinality({q} \cup M) = Cardinality(M) + 1
  <2>1. {q} \cup M = M \cup {q}
    OBVIOUS
  <2>2. Cardinality(M \cup {q}) = IF q \in M THEN Cardinality(M) ELSE Cardinality(M) + 1
    BY <1>2, FS_AddElement
  <2> QED BY <1>3, <2>1, <2>2
<1>5. ASSUME NEW i \in M
      PROVE  /\ Cardinality({j \in {q} \cup M : j <= i}) = Cardinality({j \in M : j <= i}) + 1
             /\ Cardinality({j \in M : j <= i}) \in 1..Cardinality(M)
  <2> DEFINE N == {j \in M : j <= i}
  <2>1. IsFiniteSet(N) /\ Cardinality(N) <= Cardinality(M) /\ Cardinality(N) \in Nat
    <3>1. N \subseteq M
      OBVIOUS
    <3> HIDE DEF N
    <3> QED BY <1>2, <3>1, FS_Subset, FS_CardinalityType
  <2>2. i \in N
    OBVIOUS
  <2>3. q \notin N /\ {j \in {q} \cup M : j <= i} = N \cup {q}
    OBVIOUS
  <2> HIDE DEF N
  <2>4. Cardinality(N) # 0
    BY <2>1, <2>2, FS_EmptySet
  <2>5. Cardinality(N \cup {q}) = IF q \in N THEN Cardinality(N) ELSE Cardinality(N) + 1
    BY <2>1, FS_AddElement
  <2>6. Cardinality(N) \in 1..Cardinality(M)
    BY <1>2, <2>1, <2>4
  <2> QED BY <2>3, <2>5, <2>6 DEF N
<1>6. Cardinality({j \in {q} \cup M : j <= q}) = 1
  <2>1. {j \in {q} \cup M : j <= q} = {q}
    <3>1. q <= q /\ \A j \in M : ~(j <= q)
      OBVIOUS
    <3> QED BY <3>1, Zenon
  <2>2. Cardinality({q}) = 1
    BY FS_Singleton
  <2> QED BY <2>1, <2>2
<1> QED BY <1>2, <1>4, <1>5, <1>6

(* One word and what is behind it. *)
LEMMA ParamsStep ==
  ASSUME NEW s \in Strings, NEW p, Between(s, p), NEW q, q = skipSeparators(s, p),
         q <= Len(s), s[q] # COLON,
         NEW ps, ParamsSay(s, tokenEnd(s, q), ps)
  PROVE  ParamsSay(s, p, <<readToken(s, q)>> \o ps)
<1> DEFINE n == Len(s)
           e == tokenEnd(s, q)
           w == readToken(s, q)
           qs == <<w>> \o ps
           M == Middle(s, e)
           t == Trail(s, e)
           cm == Cardinality(M)
<1>0. n \in Nat
  BY DEF Strings
<1>1. /\ q \in 1..n /\ q \in Int
      /\ Trail(s, p) = t /\ Middle(s, p) = {q} \cup M /\ \A i \in M : q < i
  <2>1. /\ q \in 1..n
        /\ Trail(s, p) = t /\ Middle(s, p) = {q} \cup M /\ \A i \in M : q < i
    BY OneMore
  <2> QED BY <2>1
<1>2. M \in SUBSET (1..n) /\ t \in 1..n + 1
  BY TrailFact
<1>3. /\ ps \in Seq(Strings) /\ Len(ps) = cm + (IF t <= n THEN 1 ELSE 0)
      /\ \A i \in M : ps[Cardinality({j \in M : j <= i})] = Word(s, i)
      /\ t <= n => ps[Len(ps)] = SubSeq(s, t + 1, n)
  BY DEF ParamsSay
<1>4. w \in Strings /\ Word(s, q) = w
  <2>1. q \in 1..n + 1
    <3> HIDE DEF n
    <3> QED BY <1>0, <1>1
  <2> QED BY <1>1, <2>1, TokenType, TokenIsWord
<1> HIDE DEF w, M, t, n, e
<1>5. /\ Cardinality({q} \cup M) = cm + 1 /\ cm \in Nat
      /\ \A i \in M : /\ Cardinality({j \in {q} \cup M : j <= i})
                           = Cardinality({j \in M : j <= i}) + 1
                      /\ Cardinality({j \in M : j <= i}) \in 1..cm
      /\ Cardinality({j \in {q} \cup M : j <= q}) = 1
  BY <1>0, <1>1, <1>2, CountOneMore
<1> HIDE DEF cm
<1>6. /\ qs \in Seq(Strings) /\ Len(qs) = Len(ps) + 1 /\ qs[1] = w
      /\ \A k \in 1..Len(ps) : qs[k + 1] = ps[k]
  <2>1. <<w>> \in Seq(Strings) /\ Len(<<w>>) = 1 /\ <<w>>[1] = w
    BY <1>4
  <2> DEFINE ws == <<w>>
  <2>2. ws \in Seq(Strings) /\ Len(ws) = 1 /\ ws[1] = w
    BY <2>1
  <2> HIDE DEF ws
  <2>3. /\ ws \o ps \in Seq(Strings) /\ Len(ws \o ps) = 1 + Len(ps) /\ (ws \o ps)[1] = w
        /\ \A k \in 1..Len(ps) : (ws \o ps)[k + 1] = ps[k]
    <3> DEFINE m == Len(ps)
    <3>1. /\ ws \o ps \in Seq(Strings) /\ Len(ws \o ps) = 1 + m /\ m \in Nat
          /\ \A x \in 1..1 + m : (ws \o ps)[x] = IF x <= 1 THEN ws[x] ELSE ps[x - 1]
      <4>1. /\ ws \o ps \in Seq(Strings) /\ Len(ws \o ps) = Len(ws) + Len(ps)
            /\ \A x \in 1..Len(ws) + Len(ps) :
                  (ws \o ps)[x] = IF x <= Len(ws) THEN ws[x] ELSE ps[x - Len(ws)]
        BY <1>3, <2>2, ConcatProperties
      <4>2. m \in Nat
        BY <1>3
      <4> HIDE DEF m
      <4> QED BY <2>2, <4>1, <4>2 DEF m
    <3> HIDE DEF m
    <3>2. (ws \o ps)[1] = w
      BY <2>2, <3>1
    <3>3. ASSUME NEW k \in 1..m PROVE (ws \o ps)[k + 1] = ps[k]
      <4> DEFINE x == k + 1
      <4>1. x \in 1..1 + m /\ ~(x <= 1) /\ x - 1 = k
        BY <3>1
      <4> HIDE DEF x
      <4>2. (ws \o ps)[x] = ps[k]
        BY <3>1, <4>1
      <4> QED BY <4>2 DEF x
    <3> QED BY <3>1, <3>2, <3>3 DEF m
  <2>4. Len(ps) \in Nat
    BY <1>3
  <2> QED BY <2>3, <2>4 DEF ws
<1> HIDE DEF qs
<1> DEFINE m == Len(ps)
<1>7. m \in Nat /\ m = cm + (IF t <= n THEN 1 ELSE 0)
  BY <1>3
<1>8. Len(qs) = (cm + 1) + (IF t <= n THEN 1 ELSE 0)
  <2> HIDE DEF m
  <2>1. Len(qs) = m + 1
    BY <1>6 DEF m
  <2>2. CASE t <= n
    BY <1>5, <1>7, <2>1, <2>2
  <2>3. CASE ~(t <= n)
    BY <1>5, <1>7, <2>1, <2>3
  <2> QED BY <2>2, <2>3
<1>9. ASSUME NEW i \in {q} \cup M
      PROVE  qs[Cardinality({j \in {q} \cup M : j <= i})] = Word(s, i)
  <2>1. CASE i = q
    BY <1>4, <1>5, <1>6, <2>1
  <2>2. CASE i \in M
    <3> DEFINE k == Cardinality({j \in M : j <= i})
    <3>1. k \in 1..cm /\ Cardinality({j \in {q} \cup M : j <= i}) = k + 1 /\ ps[k] = Word(s, i)
      BY <1>3, <1>5, <2>2
    <3> HIDE DEF k
    <3>2. k \in 1..m
      <4>1. cm <= m
        <5> HIDE DEF m
        <5> QED BY <1>5, <1>7
      <4> HIDE DEF m
      <4> QED BY <1>5, <1>7, <3>1, <4>1
    <3>3. qs[k + 1] = ps[k]
      BY <1>6, <3>2
    <3> QED BY <3>1, <3>3
  <2> QED BY <2>1, <2>2
<1>10. t <= n => qs[Len(qs)] = SubSeq(s, t + 1, n)
  <2> SUFFICES ASSUME t <= n PROVE qs[Len(qs)] = SubSeq(s, t + 1, n)
    OBVIOUS
  <2>1. m \in 1..m
    <3> HIDE DEF m
    <3> QED BY <1>5, <1>7
  <2>2. qs[m + 1] = ps[m]
    BY <1>6, <2>1
  <2>3. Len(qs) = m + 1
    BY <1>6
  <2> QED BY <1>3, <2>2, <2>3
<1> QED BY <1>1, <1>5, <1>6, <1>8, <1>9, <1>10 DEF ParamsSay, qs, w, n

(* The loop reads the parameters that the line has from there on. *)
LEMMA ParamsAreSaid ==
  ASSUME NEW s \in Strings, NEW p, Between(s, p)
  PROVE  ParamsSay(s, p, readParams(s, p))
<1> DEFINE n == Len(s)
           Bad == {m \in 0..n : ~ParamsSay(s, (n + 1) - m, readParams(s, (n + 1) - m))
                                /\ Between(s, (n + 1) - m)}
<1>0. n \in Nat
  BY DEF Strings
<1>1. ASSUME Bad # {} PROVE FALSE
  <2>1. PICK m \in Bad : \A k \in Bad : m <= k
    <3>1. Bad \in SUBSET Nat
      BY <1>0
    <3> HIDE DEF Bad
    <3> QED BY <1>1, <3>1, LeastNumber
  <2> DEFINE x == (n + 1) - m
             q == skipSeparators(s, x)
             e == tokenEnd(s, q)
  <2>2. m \in 0..n /\ Between(s, x) /\ ~ParamsSay(s, x, readParams(s, x))
    BY <2>1
  <2>3. x \in 1..n + 1 /\ x = (n + 1) - m
    <3> HIDE DEF n
    <3> QED BY <1>0, <2>2
  <2> HIDE DEF x
  <2>4. readParams(s, x) = IF q > n THEN <<>>
                           ELSE IF s[q] = COLON THEN <<SubSeq(s, q + 1, n)>>
                           ELSE <<readToken(s, q)>> \o readParams(s, e)
    BY <2>3, ReadParamsEq
  <2>5. IF q > n THEN StartsFrom(s, x) = {}
        ELSE q \in StartsFrom(s, x) /\ \A i \in StartsFrom(s, x) : q <= i
    BY <2>2, NextWord
  <2>6. q \in x..n + 1
    BY <2>3, SkipFact
  <2> HIDE DEF q
  <2>7. CASE q > n
    <3>1. {i \in StartsFrom(s, x) : s[i] = COLON} = {} /\ Middle(s, x) = {}
      BY <2>5, <2>7 DEF Middle
    <3>2. Trail(s, x) = n + 1
      BY <3>1, SmallestNone DEF Trail
    <3>3. ~(Trail(s, x) <= n)
      <4> HIDE DEF n
      <4> QED BY <1>0, <3>2
    <3>4. Cardinality(Middle(s, x)) = 0
      BY <3>1, FS_EmptySet
    <3>5. <<>> \in Seq(Strings) /\ Len(<<>>) = 0
      OBVIOUS
    <3>6. ParamsSay(s, x, <<>>)
      BY <3>1, <3>3, <3>4, <3>5 DEF ParamsSay
    <3> QED BY <2>2, <2>4, <2>7, <3>6
  <2>8. CASE ~(q > n) /\ s[q] = COLON
    <3> DEFINE C == {i \in StartsFrom(s, x) : s[i] = COLON}
    <3>1. StartsFrom(s, x) \in SUBSET (1..n)
      BY DEF StartsFrom, WordStarts, Strings
    <3>2. C \in SUBSET Int /\ q \in C /\ \A y \in C : q <= y
      BY <2>5, <2>8, <3>1
    <3>3. Trail(s, x) = q
      <4> HIDE DEF C
      <4>1. Smallest(C, n + 1) = q
        BY <3>2, SmallestIs
      <4> QED BY <4>1 DEF Trail, C
    <3>4. q \in 1..n
      BY <2>5, <2>8, <3>1
    <3>5. Middle(s, x) = {}
      <4>1. \A i \in StartsFrom(s, x) : ~(i < q)
        BY <2>5, <2>8, <3>1, <3>4
      <4> QED BY <3>3, <4>1 DEF Middle
    <3>6. Cardinality(Middle(s, x)) = 0
      BY <3>5, FS_EmptySet
    <3> DEFINE w == SubSeq(s, q + 1, n)
    <3>7. w \in Strings
      <4>1. q + 1 \in 1..n + 1 /\ n \in 0..n
        <5> HIDE DEF n
        <5> QED BY <1>0, <3>4
      <4> DEFINE y == q + 1
      <4> HIDE DEF y
      <4>2. SubSeq(s, y, n) \in Strings
        BY <4>1, PartType DEF y
      <4> QED BY <4>2 DEF y
    <3> HIDE DEF w
    <3>8. <<w>> \in Seq(Strings) /\ Len(<<w>>) = 1 /\ <<w>>[1] = w
      BY <3>7
    <3>9. q <= n
      BY <3>4
    <3>10. ParamsSay(s, x, <<w>>)
      <4> DEFINE ws == <<w>>
      <4> HIDE DEF ws
      <4>1. ws \in Seq(Strings) /\ Len(ws) = 0 + 1 /\ ws[Len(ws)] = w
        BY <3>8 DEF ws
      <4>2. ParamsSay(s, x, ws)
        BY <3>3, <3>5, <3>6, <3>9, <4>1 DEF ParamsSay, w
      <4> QED BY <4>2 DEF ws
    <3> QED BY <2>2, <2>4, <2>8, <3>10 DEF w
  <2>9. CASE ~(q > n) /\ s[q] # COLON
    <3>0. q <= n
      <4>1. x \in Int
        BY <2>3
      <4> HIDE DEF n
      <4> QED BY <1>0, <2>6, <2>9, <4>1
    <3>1. q \in 1..n /\ q >= x /\ Between(s, e) /\ e > q
      BY <2>2, <2>9, <3>0, OneMore DEF q
    <3>2. ParamsSay(s, e, readParams(s, e))
      <4> DEFINE k == (n + 1) - e
      <4>1. e \in 1..n + 1
        BY <3>1 DEF Between
      <4> HIDE DEF e
      <4>2. k \in 0..n /\ (n + 1) - k = e /\ ~(m <= k)
        <5> HIDE DEF n
        <5> QED BY <1>0, <2>2, <2>3, <3>1, <4>1
      <4> HIDE DEF k
      <4>3. k \notin Bad
        BY <2>1, <4>2
      <4> QED BY <3>1, <4>2, <4>3
    <3> DEFINE ps == readParams(s, e)
    <3> HIDE DEF ps
    <3>3. ParamsSay(s, x, <<readToken(s, q)>> \o ps)
      <4>1. q = skipSeparators(s, x) /\ q <= Len(s) /\ s[q] # COLON
        BY <2>9, <3>0 DEF q
      <4>2. ParamsSay(s, tokenEnd(s, q), ps)
        BY <3>2 DEF ps
      <4> HIDE DEF e
      <4> QED BY <2>2, <4>1, <4>2, ParamsStep
    <3> QED BY <2>2, <2>4, <2>9, <3>3 DEF ps
  <2> QED BY <2>7, <2>8, <2>9
<1>2. p \in 1..n + 1
  BY DEF Between
<1>3. (n + 1) - ((n + 1) - p) = p /\ (n + 1) - p \in 0..n
  <2> HIDE DEF n
  <2> QED BY <1>0, <1>2
<1> DEFINE k == (n + 1) - p
<1>4. k \in 0..n /\ (n + 1) - k = p /\ k \notin Bad
  BY <1>1, <1>3
<1> HIDE DEF k
<1> QED BY <1>4

(* The part of Says that is about the parameters, for a command at k. *)
LEMMA CommandSays ==
  ASSUME NEW s \in Strings, NEW k \in 1..Len(s), s[k] # SPACE
  PROVE  LET after  == {i \in WordStarts(s) : i > k}
             trail  == Smallest({i \in after : s[i] = COLON}, Len(s) + 1)
             middle == {i \in after : i < trail}
             ps     == readParams(s, tokenEnd(s, k))
         IN  /\ Len(ps) = Cardinality(middle) + (IF trail <= Len(s) THEN 1 ELSE 0)
             /\ \A i \in middle : ps[Cardinality({j \in middle : j <= i})] = Word(s, i)
             /\ trail <= Len(s) => ps[Len(ps)] = SubSeq(s, trail + 1, Len(s))
<1> DEFINE e == tokenEnd(s, k)
<1>1. Between(s, e) /\ {i \in WordStarts(s) : i > k} = StartsFrom(s, e)
  BY BehindWord
<1>2. ParamsSay(s, e, readParams(s, e))
  <2> HIDE DEF e
  <2> QED BY <1>1, ParamsAreSaid
<1> HIDE DEF e
<1>3. /\ Smallest({i \in StartsFrom(s, e) : s[i] = COLON}, Len(s) + 1) = Trail(s, e)
      /\ {i \in StartsFrom(s, e) : i < Trail(s, e)} = Middle(s, e)
  BY DEF Trail, Middle
<1>4. LET ps == readParams(s, e)
      IN  /\ Len(ps) = Cardinality(Middle(s, e)) + (IF Trail(s, e) <= Len(s) THEN 1 ELSE 0)
          /\ \A i \in Middle(s, e) : ps[Cardinality({j \in Middle(s, e) : j <= i})] = Word(s, i)
          /\ Trail(s, e) <= Len(s) => ps[Len(ps)] = SubSeq(s, Trail(s, e) + 1, Len(s))
  BY <1>2 DEF ParamsSay
<1> QED BY <1>1, <1>3, <1>4 DEF e

(* What parse makes of a line without its terminator. *)
Parsed(s) ==
  LET p == prefixEnd(s)
  IN  IF p > Len(s) THEN NoMessage
      ELSE Message(prefixOf(s), upperCommand(readToken(s, p)), readParams(s, tokenEnd(s, p)))

(* Where the command is, in the terms of the words and in those of the code: *)
(* 0 and past the end both say that there is none.                           *)
CommandAt(s) ==
  LET starts == WordStarts(s)
      first  == Smallest(starts, 0)
  IN  IF first # 0 /\ s[first] = COLON THEN Smallest(starts \ {first}, 0) ELSE first

(* The first word, and whether it is a prefix. *)
LEMMA FirstWord ==
  ASSUME NEW s \in Strings
  PROVE  LET p == skipSeparators(s, 1)
         IN  /\ p \in 1..Len(s) + 1
             /\ p > Len(s) => WordStarts(s) = {} /\ Smallest(WordStarts(s), 0) = 0
             /\ p <= Len(s) => p \in WordStarts(s) /\ Smallest(WordStarts(s), 0) = p
<1> DEFINE n == Len(s)
           z == 1
           p == skipSeparators(s, z)
           S == WordStarts(s)
<1>0. n \in Nat /\ z \in 1..n + 1
  BY DEF Strings
<1>1. Between(s, z) /\ S \in SUBSET (1..n) /\ StartsFrom(s, z) = S
  BY <1>0 DEF Between, WordStarts, StartsFrom, Strings
<1> HIDE DEF z, S
<1>2. p \in z..n + 1
  BY <1>0, SkipFact
<1>3. IF p > n THEN StartsFrom(s, z) = {}
      ELSE p \in StartsFrom(s, z) /\ \A i \in StartsFrom(s, z) : p <= i
  BY <1>1, NextWord
<1> HIDE DEF p
<1>4. p \in 1..n + 1
  BY <1>2 DEF z
<1>5. p > n => S = {} /\ Smallest(S, 0) = 0
  BY <1>1, <1>3, SmallestNone
<1>6. p <= n => p \in S /\ Smallest(S, 0) = p
  <2> SUFFICES ASSUME p <= n PROVE p \in S /\ Smallest(S, 0) = p
    OBVIOUS
  <2>1. ~(p > n)
    <3> HIDE DEF n
    <3> QED BY <1>0, <1>4
  <2>2. S \in SUBSET Int /\ p \in S /\ \A i \in S : p <= i
    BY <1>1, <1>3, <2>1
  <2> QED BY <2>2, SmallestIs
<1> QED BY <1>4, <1>5, <1>6 DEF p, z, S, n

(* The word behind the first. *)
LEMMA SecondWord ==
  ASSUME NEW s \in Strings, NEW p, p = skipSeparators(s, 1), p <= Len(s)
  PROVE  LET e == tokenEnd(s, p)
             q == skipSeparators(s, e)
         IN  /\ q \in e..Len(s) + 1 /\ e \in p + 1..Len(s) + 1 /\ p \in 1..Len(s) /\ s[p] # SPACE
             /\ q > Len(s) => Smallest(WordStarts(s) \ {p}, 0) = 0
             /\ q <= Len(s) => s[q] # SPACE /\ Smallest(WordStarts(s) \ {p}, 0) = q
<1> DEFINE n == Len(s)
           e == tokenEnd(s, p)
           q == skipSeparators(s, e)
           S == WordStarts(s)
           A == {i \in S : i > p}
<1>0. n \in Nat /\ DOMAIN s = 1..n
  BY DEF Strings
<1>1. p \in S /\ Smallest(S, 0) = p
  BY FirstWord
<1>2. p \in 1..n /\ s[p] # SPACE /\ S \in SUBSET (1..n)
  BY <1>0, <1>1 DEF WordStarts
<1>3. \A i \in S : p <= i
  <2>1. S \in SUBSET Nat /\ S # {} /\ S \in SUBSET Int
    BY <1>1, <1>2
  <2> HIDE DEF S
  <2>2. PICK y \in S : \A i \in S : y <= i
    BY <2>1, LeastNumber
  <2> DEFINE d == 0
  <2> HIDE DEF d
  <2>3. Smallest(S, d) = y
    BY <2>1, <2>2, SmallestIs
  <2> QED BY <1>1, <2>2, <2>3 DEF d
<1>4. S \ {p} = A
  <2>1. \A i \in S : i \in Int
    BY <1>2
  <2> HIDE DEF S, n
  <2>2. \A i \in S : i # p <=> i > p
    BY <1>2, <1>3, <2>1
  <2> QED BY <2>2, Zenon
<1>5. e \in p + 1..n + 1 /\ Between(s, e) /\ A = StartsFrom(s, e)
  BY <1>2, EndBehind, BehindWord
<1>6. e \in 1..n + 1
  BY <1>5 DEF Between
<1> HIDE DEF e
<1>7. q \in e..n + 1 /\ (q <= n => s[q] # SPACE)
  BY <1>6, SkipFact
<1>8. IF q > n THEN A = {} ELSE q \in A /\ \A i \in A : q <= i
  BY <1>5, NextWord
<1> HIDE DEF q
<1>9. q > n => Smallest(A, 0) = 0
  BY <1>8, SmallestNone
<1>10. q <= n => Smallest(A, 0) = q
  <2> SUFFICES ASSUME q <= n PROVE Smallest(A, 0) = q
    OBVIOUS
  <2>1. ~(q > n)
    <3> HIDE DEF n
    <3> QED BY <1>0, <1>6, <1>7
  <2>2. A \in SUBSET Int /\ q \in A /\ \A i \in A : q <= i
    BY <1>2, <1>8, <2>1
  <2> HIDE DEF A
  <2> QED BY <2>2, SmallestIs
<1>11. /\ q > n => Smallest(S \ {p}, 0) = 0
       /\ q <= n => s[q] # SPACE /\ Smallest(S \ {p}, 0) = q
  <2> HIDE DEF A, S
  <2> QED BY <1>4, <1>7, <1>9, <1>10
<1> HIDE DEF A, S
<1> QED BY <1>2, <1>5, <1>7, <1>11 DEF q, e, S

(* The token of a prefix is its word without the colon. *)
LEMMA PrefixToken ==
  ASSUME NEW s \in Strings, NEW p \in 1..Len(s), s[p] # SPACE
  PROVE  /\ tokenEnd(s, p + 1) = tokenEnd(s, p)
         /\ readToken(s, p + 1) = Tail(Word(s, p))
<1> DEFINE n == Len(s)
           e == tokenEnd(s, p)
           x == p + 1
<1>0. n \in Nat /\ p \in 1..n /\ p \in 1..n + 1 /\ x \in 1..n + 1
  BY DEF Strings
<1>1. e \in p..n + 1 /\ (e <= n => s[e] = SPACE) /\ \A r \in p..e - 1 : s[r] # SPACE
  BY <1>0, EndFact
<1>2. e \in p + 1..n + 1
  BY EndBehind
<1> HIDE DEF e
<1>3. \A r \in x..e - 1 : s[r] # SPACE
  <2> HIDE DEF n
  <2>1. \A r \in x..e - 1 : r \in p..e - 1
    BY <1>0, <1>2
  <2> QED BY <1>1, <2>1
<1>4. e \in x..n + 1
  BY <1>2
<1> HIDE DEF x
<1>5. tokenEnd(s, x) = e
  BY <1>0, <1>1, <1>3, <1>4, EndIs
<1>6. Word(s, p) = SubSeq(s, p, e - 1)
  BY TokenIsWord DEF readToken, e
<1>7. readToken(s, x) = SubSeq(s, x, e - 1)
  BY <1>5 DEF readToken
<1>8. Tail(SubSeq(s, p, e - 1)) = SubSeq(s, x, e - 1)
  <2> DEFINE d == e - 1
             y == SubSeq(s, p, d)
             w == Tail(y)
             v == SubSeq(s, x, d)
  <2>1. d \in p..n /\ s \in Seq(CharCodes) /\ Len(s) = n
    <3> HIDE DEF n
    <3> QED BY <1>0, <1>2 DEF n, Strings
  <2> HIDE DEF d, n
  <2>2. y \in Seq(CharCodes) /\ Len(y) = (d - p) + 1 /\ \A i \in 1..(d - p) + 1 : y[i] = s[(p + i) - 1]
    BY <1>0, <2>1
  <2>3. v \in Seq(CharCodes) /\ Len(v) = d - p /\ \A i \in 1..d - p : v[i] = s[p + i]
    BY <1>0, <2>1 DEF x
  <2> HIDE DEF y, v
  <2>4. w \in Seq(CharCodes) /\ Len(w) = d - p /\ \A i \in 1..d - p : w[i] = y[i + 1]
    BY <1>0, <2>1, <2>2
  <2>5. \A i \in 1..d - p : w[i] = v[i]
    <3> TAKE i \in 1..d - p
    <3>1. i + 1 \in 1..(d - p) + 1 /\ (p + (i + 1)) - 1 = p + i
      BY <1>0, <2>1
    <3> QED BY <2>2, <2>3, <2>4, <3>1
  <2> HIDE DEF w
  <2>6. w = v
    BY <2>3, <2>4, <2>5
  <2> QED BY <2>6 DEF w, v, y, d
<1> QED BY <1>5, <1>6, <1>7, <1>8 DEF x, e

(* parse finds the command where it is. *)
LEMMA CommandFound ==
  ASSUME NEW s \in Strings
  PROVE  LET k == CommandAt(s)
         IN  /\ k = 0 => prefixEnd(s) > Len(s)
             /\ k # 0 => k \in 1..Len(s) /\ s[k] # SPACE /\ prefixEnd(s) = k
<1> DEFINE n == Len(s)
           p == skipSeparators(s, 1)
           e == tokenEnd(s, p)
           q == skipSeparators(s, e)
           S == WordStarts(s)
           first == Smallest(S, 0)
           k == CommandAt(s)
<1>0. n \in Nat
  BY DEF Strings
<1>1. /\ p \in 1..n + 1
      /\ p > n => first = 0
      /\ p <= n => first = p
  BY FirstWord
<1>2. k = IF first # 0 /\ s[first] = COLON THEN Smallest(S \ {first}, 0) ELSE first
  BY DEF CommandAt
<1>3. prefixEnd(s) = IF p > n \/ s[p] # COLON THEN p
                     ELSE IF tokenEnd(s, p + 1) > n THEN n + 1
                     ELSE skipSeparators(s, tokenEnd(s, p + 1))
  BY DEF prefixEnd
<1>4. ASSUME p <= n
      PROVE  /\ q \in e..n + 1 /\ e \in p + 1..n + 1 /\ p \in 1..n /\ s[p] # SPACE
             /\ q > n => Smallest(S \ {p}, 0) = 0
             /\ q <= n => s[q] # SPACE /\ Smallest(S \ {p}, 0) = q
  BY <1>4, SecondWord
<1>5. ASSUME p <= n
      PROVE  tokenEnd(s, p + 1) = e
  <2> HIDE DEF p
  <2> QED BY <1>4, <1>5, PrefixToken
<1> HIDE DEF p, first, S, k
<1>6. CASE p > n
  <2>1. k = 0
    BY <1>1, <1>2, <1>6
  <2> QED BY <1>3, <1>6, <2>1 DEF k
<1>7. CASE p <= n /\ s[p] # COLON
  <2>1. k = p /\ p \in 1..n /\ s[p] # SPACE
    BY <1>1, <1>2, <1>4, <1>7
  <2>2. ~(p > n) /\ k # 0
    <3> HIDE DEF n
    <3> QED BY <1>0, <2>1
  <2> QED BY <1>3, <1>7, <2>1, <2>2 DEF k
<1>8. CASE p <= n /\ s[p] = COLON
  <2>1. p \in 1..n /\ first = p
    BY <1>1, <1>4, <1>8
  <2>2. ~(p > n) /\ first # 0 /\ s[first] = COLON
    <3> HIDE DEF n
    <3> QED BY <1>0, <1>8, <2>1
  <2>3. k = Smallest(S \ {p}, 0)
    BY <1>2, <2>1, <2>2
  <2>4. prefixEnd(s) = IF e > n THEN n + 1 ELSE q
    BY <1>3, <1>5, <1>8, <2>2
  <2>5. q \in e..n + 1 /\ e \in Int /\ e > 0
    <3>1. q \in e..n + 1 /\ e \in p + 1..n + 1
      BY <1>4, <1>8
    <3> HIDE DEF e, q, n
    <3> QED BY <1>0, <2>1, <3>1
  <2> HIDE DEF e, q
  <2>6. CASE e > n
    <3>1. q > n /\ n + 1 > n
      <4> HIDE DEF n
      <4> QED BY <1>0, <2>5, <2>6
    <3>2. k = 0
      BY <1>4, <1>8, <2>3, <3>1 DEF e, q
    <3> QED BY <2>4, <2>6, <3>1, <3>2 DEF k
  <2>7. CASE ~(e > n) /\ q > n
    <3>1. k = 0
      BY <1>4, <1>8, <2>3, <2>7 DEF e, q
    <3> QED BY <2>4, <2>7, <3>1 DEF k
  <2>8. CASE ~(e > n) /\ ~(q > n)
    <3>1. q \in 1..n /\ q <= n /\ q # 0
      <4> HIDE DEF n
      <4> QED BY <1>0, <2>5, <2>8
    <3>2. k = q /\ s[q] # SPACE
      BY <1>4, <1>8, <2>3, <3>1 DEF e, q
    <3> QED BY <2>4, <2>8, <3>1, <3>2 DEF k
  <2> QED BY <2>6, <2>7, <2>8
<1>9. p > n \/ p <= n
  <2> HIDE DEF n
  <2> QED BY <1>0, <1>1
<1> QED BY <1>6, <1>7, <1>8, <1>9

(* What parse makes of a line is what the line says. *)
LEMMA ParsedSays ==
  ASSUME NEW s \in Strings
  PROVE  Says(s, Parsed(s))
<1> DEFINE n == Len(s)
           p == skipSeparators(s, 1)
           S == WordStarts(s)
           first == Smallest(S, 0)
           pre == first # 0 /\ s[first] = COLON
           k == CommandAt(s)
           m == Parsed(s)
           after == {i \in S : i > k}
           trail == Smallest({i \in after : s[i] = COLON}, n + 1)
           middle == {i \in after : i < trail}
           ps == readParams(s, tokenEnd(s, k))
<1>0. n \in Nat
  BY DEF Strings
<1>1. k = 0 => prefixEnd(s) > n
  BY CommandFound
<1>2. k # 0 => k \in 1..n /\ s[k] # SPACE /\ prefixEnd(s) = k
  BY CommandFound
<1>3. CASE k = 0
  <2>1. m = NoMessage
    BY <1>1, <1>3 DEF Parsed
  <2> QED BY <1>3, <2>1 DEF Says, CommandAt
<1>4. CASE k # 0
  <2>1. k \in 1..n /\ s[k] # SPACE /\ prefixEnd(s) = k /\ ~(k > n)
    <3> HIDE DEF k, n
    <3> QED BY <1>0, <1>2, <1>4
  <2>2. m = Message(prefixOf(s), upperCommand(readToken(s, k)), ps)
    BY <2>1 DEF Parsed
  <2>3. m.prefix = prefixOf(s) /\ m.command = upperCommand(readToken(s, k)) /\ m.params = ps
    BY <2>2 DEF Message
  <2>4. m.command = upperCommand(Word(s, k))
    <3> HIDE DEF k
    <3> QED BY <2>1, <2>3, TokenIsWord
  <2>5. m.prefix = IF pre THEN Tail(Word(s, first)) ELSE <<>>
    <3>1. p \in 1..n + 1 /\ (p > n => first = 0) /\ (p <= n => first = p /\ p \in S)
      BY FirstWord
    <3>2. prefixOf(s) = IF p <= n /\ s[p] = COLON THEN readToken(s, p + 1) ELSE <<>>
      BY DEF prefixOf
    <3> HIDE DEF p, first
    <3>3. CASE p <= n
      <4>1. p \in 1..n /\ first # 0 /\ first = p
        <5> HIDE DEF n
        <5> QED BY <1>0, <3>1, <3>3
      <4>2. s[p] # SPACE
        BY <3>1, <3>3 DEF WordStarts
      <4>3. readToken(s, p + 1) = Tail(Word(s, p))
        BY <4>1, <4>2, PrefixToken
      <4> QED BY <2>3, <3>2, <3>3, <4>1, <4>3
    <3>4. CASE ~(p <= n)
      <4>1. first = 0
        <5> HIDE DEF n
        <5> QED BY <1>0, <3>1, <3>4
      <4> QED BY <2>3, <3>2, <3>4, <4>1
    <3> QED BY <3>3, <3>4
  <2>6. /\ Len(ps) = Cardinality(middle) + (IF trail <= n THEN 1 ELSE 0)
        /\ \A i \in middle : ps[Cardinality({j \in middle : j <= i})] = Word(s, i)
        /\ trail <= n => ps[Len(ps)] = SubSeq(s, trail + 1, n)
    <3> HIDE DEF k
    <3> QED BY <2>1, CommandSays
  <2>7. k = IF pre THEN Smallest(S \ {first}, 0) ELSE first
    BY DEF CommandAt
  <2> HIDE DEF m, ps
  <2>8. /\ Len(m.params) = Cardinality(middle) + (IF trail <= n THEN 1 ELSE 0)
        /\ \A i \in middle : m.params[Cardinality({j \in middle : j <= i})] = Word(s, i)
        /\ trail <= n => m.params[Len(m.params)] = SubSeq(s, trail + 1, n)
    BY <2>3, <2>6
  <2>9. Says(s, m)
    <3> HIDE DEF k
    <3> QED BY <1>4, <2>4, <2>5, <2>7, <2>8 DEF Says
  <2> QED BY <2>9 DEF m
<1> QED BY <1>3, <1>4

(* A line without its terminator is a string. *)
LEMMA StripType ==
  ASSUME NEW ln \in Strings
  PROVE  removeIrcLineTerminator(ln) \in Strings
BY DEF removeIrcLineTerminator, Strings

-----------------------------------------------------------------------------
(* What the formatters write. *)

(* Two strings, one behind the other. *)
LEMMA Cat ==
  ASSUME NEW s \in Strings, NEW t \in Strings
  PROVE  /\ s \o t \in Strings /\ Len(s \o t) = Len(s) + Len(t)
         /\ Len(s) \in Nat /\ Len(t) \in Nat
         /\ \A i \in 1..Len(s) : (s \o t)[i] = s[i]
         /\ \A i \in 1..Len(t) : (s \o t)[Len(s) + i] = t[i]
<1> DEFINE w == s \o t
<1>1. /\ w \in Strings /\ Len(w) = Len(s) + Len(t) /\ Len(s) \in Nat /\ Len(t) \in Nat
      /\ \A i \in 1..Len(s) + Len(t) : w[i] = IF i <= Len(s) THEN s[i] ELSE t[i - Len(s)]
  BY ConcatProperties DEF Strings
<1> HIDE DEF w
<1>2. \A i \in 1..Len(s) : w[i] = s[i]
  BY <1>1
<1>3. ASSUME NEW i \in 1..Len(t)
      PROVE  w[Len(s) + i] = t[i]
  <2> DEFINE x == Len(s)
             k == x + i
  <2>1. k \in 1..x + Len(t) /\ ~(k <= x) /\ k - x = i
    BY <1>1
  <2> HIDE DEF x, k
  <2>2. w[k] = t[i]
    BY <1>1, <2>1 DEF x
  <2> QED BY <2>2 DEF k, x
<1> QED BY <1>1, <1>2, <1>3 DEF w

(* A line of privmsg without its terminator; X is the prefix as written. *)
Body(X, u, v) == X \o PRIVMSG \o <<SPACE>> \o u \o <<SPACE, COLON>> \o v

(* The line s has the command at x + 1, behind it u, which is of length h,   *)
(* and then v, which is of length l.                                         *)
Layout(s, u, v, x, h, l) ==
  /\ Len(s) = x + h + l + 4
  /\ s[x + 1] = 80 /\ s[x + 2] = SPACE
  /\ \A i \in 1..h : s[x + 2 + i] = u[i]
  /\ s[x + h + 3] = SPACE /\ s[x + h + 4] = COLON
  /\ \A i \in 1..l : s[x + h + 4 + i] = v[i]

(* Where its parts are. *)
LEMMA BodyFact ==
  ASSUME NEW X \in Strings, NEW u \in Strings, NEW v \in Strings,
         NEW x, x = Len(X), NEW h, h = Len(u), NEW l, l = Len(v)
  PROVE  /\ Body(X, u, v) \in Strings /\ x \in Nat /\ h \in Nat /\ l \in Nat
         /\ \A i \in 1..x : Body(X, u, v)[i] = X[i]
         /\ Layout(Body(X, u, v), u, v, x, h, l)
<1> DEFINE s1 == X \o PRIVMSG
           sp == <<SPACE>>
           s2 == s1 \o sp
           s3 == s2 \o u
           sc == <<SPACE, COLON>>
           s4 == s3 \o sc
           s5 == s4 \o v
<1>0. /\ PRIVMSG \in Strings /\ Len(PRIVMSG) = 1 /\ PRIVMSG[1] = 80
      /\ sp \in Strings /\ Len(sp) = 1 /\ sp[1] = SPACE
      /\ sc \in Strings /\ Len(sc) = 2 /\ sc[1] = SPACE /\ sc[2] = COLON
  BY DEF PRIVMSG, SPACE, COLON, Strings, CharCodes
<1>00. PRIVMSG \in Strings /\ sp \in Strings /\ sc \in Strings
  BY <1>0
<1> HIDE DEF sp, sc
<1>1. /\ s1 \in Strings /\ Len(s1) = x + 1 /\ x \in Nat
      /\ \A i \in 1..x : s1[i] = X[i]
      /\ s1[x + 1] = 80
  <2>1. /\ s1 \in Strings /\ Len(s1) = Len(X) + Len(PRIVMSG) /\ Len(X) \in Nat
        /\ \A i \in 1..Len(X) : s1[i] = X[i]
        /\ \A i \in 1..Len(PRIVMSG) : s1[Len(X) + i] = PRIVMSG[i]
    BY <1>00, Cat, Zenon
  <2> HIDE DEF s1
  <2> QED BY <1>0, <2>1
<1> HIDE DEF s1
<1>2. /\ s2 \in Strings /\ Len(s2) = x + 2
      /\ \A i \in 1..x + 1 : s2[i] = s1[i]
      /\ s2[x + 2] = SPACE
  <2>1. /\ s2 \in Strings /\ Len(s2) = Len(s1) + Len(sp)
        /\ \A i \in 1..Len(s1) : s2[i] = s1[i]
        /\ \A i \in 1..Len(sp) : s2[Len(s1) + i] = sp[i]
    <3>1. s1 \in Strings
      BY <1>1
    <3> QED BY <1>00, <3>1, Cat, Zenon
  <2> HIDE DEF s2
  <2>2. s2[(x + 1) + 1] = SPACE
    BY <1>0, <1>1, <2>1
  <2>3. (x + 1) + 1 = x + 2
    BY <1>1
  <2>4. Len(s2) = x + 2
    BY <1>0, <1>1, <2>1
  <2>5. \A i \in 1..x + 1 : s2[i] = s1[i]
    BY <1>1, <2>1
  <2>6. s2[x + 2] = SPACE
    BY <2>2, <2>3
  <2> QED BY <2>1, <2>4, <2>5, <2>6
<1> HIDE DEF s2
<1>3. /\ s3 \in Strings /\ Len(s3) = x + h + 2 /\ h \in Nat
      /\ \A i \in 1..x + 2 : s3[i] = s2[i]
      /\ \A i \in 1..h : s3[x + 2 + i] = u[i]
  <2>1. /\ s3 \in Strings /\ Len(s3) = Len(s2) + Len(u) /\ Len(u) \in Nat
        /\ \A i \in 1..Len(s2) : s3[i] = s2[i]
        /\ \A i \in 1..Len(u) : s3[Len(s2) + i] = u[i]
    BY <1>2, Cat
  <2> HIDE DEF s3
  <2>2. h \in Nat /\ \A i \in 1..h : s3[Len(s2) + i] = u[i]
    BY <2>1
  <2>3. \A i \in 1..h : s3[x + 2 + i] = u[i]
    BY <1>2, <2>2
  <2>4. Len(s3) = x + h + 2
    BY <1>1, <1>2, <2>1
  <2>5. \A i \in 1..x + 2 : s3[i] = s2[i]
    BY <1>2, <2>1
  <2> QED BY <2>1, <2>2, <2>3, <2>4, <2>5
<1> HIDE DEF s3
<1>4. /\ s4 \in Strings /\ Len(s4) = x + h + 4
      /\ \A i \in 1..x + h + 2 : s4[i] = s3[i]
      /\ s4[x + h + 3] = SPACE /\ s4[x + h + 4] = COLON
  <2>1. /\ s4 \in Strings /\ Len(s4) = Len(s3) + Len(sc)
        /\ \A i \in 1..Len(s3) : s4[i] = s3[i]
        /\ \A i \in 1..Len(sc) : s4[Len(s3) + i] = sc[i]
    <3>1. s3 \in Strings
      BY <1>3
    <3> QED BY <1>00, <3>1, Cat, Zenon
  <2> HIDE DEF s4
  <2>2. s4[(x + h + 2) + 1] = SPACE /\ s4[(x + h + 2) + 2] = COLON
    <3>1. 1 \in 1..Len(sc) /\ 2 \in 1..Len(sc)
      BY <1>0
    <3> QED BY <1>0, <1>3, <2>1, <3>1
  <2>3. (x + h + 2) + 1 = x + h + 3 /\ (x + h + 2) + 2 = x + h + 4
    BY <1>1, <1>3
  <2> QED BY <1>0, <1>1, <1>3, <2>1, <2>2, <2>3
<1> HIDE DEF s4
<1>5. /\ s5 \in Strings /\ Len(s5) = x + h + 4 + l /\ l \in Nat
      /\ \A i \in 1..x + h + 4 : s5[i] = s4[i]
      /\ \A i \in 1..l : s5[x + h + 4 + i] = v[i]
  <2>1. /\ s5 \in Strings /\ Len(s5) = Len(s4) + Len(v) /\ Len(v) \in Nat
        /\ \A i \in 1..Len(s4) : s5[i] = s4[i]
        /\ \A i \in 1..Len(v) : s5[Len(s4) + i] = v[i]
    BY <1>4, Cat
  <2> HIDE DEF s5
  <2>2. l \in Nat /\ \A i \in 1..l : s5[Len(s4) + i] = v[i]
    BY <2>1
  <2>3. \A i \in 1..l : s5[x + h + 4 + i] = v[i]
    BY <1>4, <2>2
  <2>4. Len(s5) = x + h + 4 + l
    BY <1>4, <2>1
  <2>5. \A i \in 1..x + h + 4 : s5[i] = s4[i]
    BY <1>4, <2>1
  <2> QED BY <2>1, <2>2, <2>3, <2>4, <2>5
<1>6. Body(X, u, v) = s5
  BY DEF Body, s1, s2, s3, s4, sp, sc
<1> HIDE DEF s5
<1>7. \A i \in 1..x + h + 2 : s5[i] = s3[i]
  BY <1>1, <1>3, <1>4, <1>5
<1>8. \A i \in 1..x + 2 : s5[i] = s2[i]
  BY <1>1, <1>3, <1>7
<1>9. (\A i \in 1..x : s5[i] = X[i]) /\ s5[x + 1] = 80 /\ s5[x + 2] = SPACE
  BY <1>1, <1>2, <1>8
<1>10. \A i \in 1..h : s5[x + 2 + i] = u[i]
  <2> TAKE i \in 1..h
  <2> DEFINE k == x + 2 + i
  <2>1. k \in 1..x + h + 2
    BY <1>1, <1>3
  <2>2. s3[k] = u[i]
    BY <1>3
  <2> HIDE DEF k
  <2>3. s5[k] = u[i]
    BY <1>7, <2>1, <2>2
  <2> QED BY <2>3 DEF k
<1>11. s5[x + h + 3] = SPACE /\ s5[x + h + 4] = COLON
  <2>1. x + h + 3 \in 1..x + h + 4 /\ x + h + 4 \in 1..x + h + 4
    BY <1>1, <1>3
  <2> QED BY <1>4, <1>5, <2>1
<1>12. x + h + 4 + l = x + h + l + 4
  BY <1>1, <1>3, <1>5
<1>13. Layout(s5, u, v, x, h, l)
  BY <1>5, <1>9, <1>10, <1>11, <1>12 DEF Layout
<1> QED BY <1>1, <1>3, <1>5, <1>6, <1>9, <1>13

(* A part of s with the characters of t is t. *)
LEMMA PartIs ==
  ASSUME NEW s \in Strings, NEW t \in Strings, NEW i \in Nat, i >= 1,
         NEW e \in Nat, e <= Len(s), Len(t) = (e - i) + 1,
         \A j \in 1..Len(t) : s[(i + j) - 1] = t[j]
  PROVE  SubSeq(s, i, e) = t
<1> DEFINE k == Len(t)
           w == SubSeq(s, i, e)
<1>0. k \in Nat /\ Len(s) \in Nat /\ (e - i) + 1 = k
  BY DEF Strings
<1>1. w \in Seq(CharCodes) /\ Len(w) = k /\ \A j \in 1..k : w[j] = s[(i + j) - 1]
  <2> HIDE DEF k
  <2> QED BY <1>0 DEF Strings
<1>2. t \in Seq(CharCodes) /\ Len(t) = k /\ \A j \in 1..k : s[(i + j) - 1] = t[j]
  BY DEF Strings
<1> HIDE DEF w, k
<1>3. \A j \in 1..k : w[j] = t[j]
  BY <1>1, <1>2
<1>4. w = t
  BY <1>0, <1>1, <1>2, <1>3
<1> QED BY <1>4 DEF w

(* A part of one letter. *)
LEMMA OneLetter ==
  ASSUME NEW s \in Strings, NEW p \in 1..Len(s), s[p] = 80
  PROVE  SubSeq(s, p, p) = PRIVMSG
<1> DEFINE w == SubSeq(s, p, p)
           y == PRIVMSG
<1>1. w \in Seq(CharCodes) /\ Len(w) = 1 /\ w[1] = 80
  BY DEF Strings
<1>2. y \in Seq(CharCodes) /\ Len(y) = 1 /\ y[1] = 80
  BY DEF PRIVMSG, CharCodes
<1> HIDE DEF w, y
<1>3. \A i \in 1..1 : w[i] = y[i]
  BY <1>1, <1>2
<1>4. w = y
  BY <1>1, <1>2, <1>3
<1> QED BY <1>4 DEF w, y

(* The terminator comes off again. *)
LEMMA Strip ==
  ASSUME NEW s \in Strings
  PROVE  removeIrcLineTerminator(s \o <<CR, LF>>) = s
<1> DEFINE t == <<CR, LF>>
           ln == s \o t
           n == Len(s)
<1>0. t \in Strings /\ Len(t) = 2 /\ t[1] = CR /\ t[2] = LF
  BY DEF CR, LF, Strings, CharCodes
<1> HIDE DEF t
<1>1. /\ ln \in Strings /\ Len(ln) = n + 2 /\ n \in Nat
      /\ \A i \in 1..n : ln[i] = s[i]
      /\ ln[n + 1] = CR /\ ln[n + 2] = LF
  <2>1. /\ ln \in Strings /\ Len(ln) = Len(s) + Len(t) /\ Len(s) \in Nat
        /\ \A i \in 1..Len(s) : ln[i] = s[i]
        /\ \A i \in 1..Len(t) : ln[Len(s) + i] = t[i]
    BY <1>0, Cat
  <2> HIDE DEF ln
  <2>2. 1 \in 1..Len(t) /\ 2 \in 1..Len(t)
    BY <1>0
  <2> QED BY <1>0, <2>1, <2>2
<1> HIDE DEF ln
<1>2. Len(ln) >= 2 /\ Len(ln) - 1 = n + 1 /\ Len(ln) - 2 = n
  <2> HIDE DEF n
  <2> QED BY <1>1
<1>3. removeIrcLineTerminator(ln) = SubSeq(ln, 1, n)
  BY <1>1, <1>2 DEF removeIrcLineTerminator
<1>4. SubSeq(ln, 1, n) = s
  <2> DEFINE w == SubSeq(ln, 1, n)
  <2>1. w \in Seq(CharCodes) /\ Len(w) = n /\ \A j \in 1..n : w[j] = ln[j]
    <3> HIDE DEF n
    <3> QED BY <1>1 DEF Strings
  <2>2. s \in Seq(CharCodes) /\ Len(s) = n
    BY DEF Strings
  <2> HIDE DEF w, n
  <2>3. w = s
    BY <1>1, <2>1, <2>2
  <2> QED BY <2>3 DEF w
<1> QED BY <1>3, <1>4 DEF ln, t

(* A word of such a line: a target has no blank in it and no colon in front. *)
Target(u) == Len(u) >= 1 /\ u[1] # COLON /\ \A i \in 1..Len(u) : u[i] # SPACE

(* What is read from a line with a command of one letter at x + 1, a target  *)
(* behind it and a text behind a colon: these three.                         *)
LEMMA BodyRead ==
  ASSUME NEW s \in Strings, NEW u \in Strings, NEW v \in Strings, Target(u),
         NEW x \in Nat, NEW h \in Nat, h = Len(u), NEW l \in Nat, l = Len(v),
         Layout(s, u, v, x, h, l)
  PROVE  /\ tokenEnd(s, x + 1) = x + 2
         /\ readToken(s, x + 1) = PRIVMSG
         /\ readParams(s, x + 2) = <<u, v>>
<1> DEFINE n == Len(s)
           p1 == x + 1
           p2 == x + 2
           p3 == x + 3
           e  == x + h + 3
           t  == x + h + 4
<1> USE DEF Layout
<1>0. h >= 1 /\ u[1] # COLON /\ \A i \in 1..h : u[i] # SPACE
  BY DEF Target
<1>1. /\ n \in Nat /\ p1 \in 1..n + 1 /\ p2 \in 1..n + 1 /\ p3 \in 1..n + 1
      /\ e \in 1..n + 1 /\ t \in 1..n + 1
      /\ p2 \in p1..n + 1 /\ p3 \in p2..n + 1 /\ e \in p3..n + 1 /\ t \in e..n + 1
      /\ p2 - 1 = p1 /\ p3 - 1 = p2 /\ e - 1 = x + h + 2 /\ t - 1 = e
      /\ p1 <= n /\ p2 <= n /\ p3 <= n /\ e <= n /\ t <= n
      /\ (p1 + 1) - 1 = p1 /\ p3 \in Nat \ {0} /\ p1 \in Nat \ {0} /\ t + 1 \in Nat \ {0}
      /\ (p3 + h) - 1 = e - 1 /\ ((t + 1) + l) - 1 = n
  BY <1>0
<1>2. /\ s[p1] = 80 /\ s[p2] = SPACE /\ s[e] = SPACE /\ s[t] = COLON
      /\ \A j \in 1..h : s[(p3 + j) - 1] = u[j]
      /\ \A j \in 1..l : s[((t + 1) + j) - 1] = v[j]
  <2>1. \A j \in 1..h : (p3 + j) - 1 = x + 2 + j
    OBVIOUS
  <2>2. \A j \in 1..l : ((t + 1) + j) - 1 = x + h + 4 + j
    OBVIOUS
  <2>3. \A j \in 1..h : s[(p3 + j) - 1] = u[j]
    <3> HIDE DEF p3
    <3> QED BY <2>1
  <2>4. \A j \in 1..l : s[((t + 1) + j) - 1] = v[j]
    <3> HIDE DEF t
    <3> QED BY <2>2
  <2> QED BY <2>3, <2>4
<1>3. s[p3] = u[1]
  BY <1>0
<1>4. ASSUME NEW r \in p3..e - 1
      PROVE  s[r] # SPACE
  <2> DEFINE j == (r - p3) + 1
  <2>1. j \in 1..h /\ (p3 + j) - 1 = r
    BY <1>1
  <2> HIDE DEF j, p3
  <2> QED BY <2>1, <1>2, <1>0
<1>5. 80 # SPACE /\ COLON # SPACE
  BY DEF COLON, SPACE
<1> HIDE DEF Layout, n, p1, p2, p3, e, t
<1>6. tokenEnd(s, p1) = p2
  <2>0. \A r \in p1..p2 - 1 : r = p1
    BY <1>1
  <2>1. \A r \in p1..p2 - 1 : s[r] # SPACE
    BY <2>0, <1>2, <1>5
  <2>2. p1 \in 1..Len(s) + 1 /\ p2 \in p1..Len(s) + 1
    BY <1>1 DEF n
  <2>3. p2 <= Len(s) => s[p2] = SPACE
    BY <1>2
  <2> QED BY <2>1, <2>2, <2>3, EndIs
<1>7. skipSeparators(s, p2) = p3
  <2>0. \A r \in p2..p3 - 1 : r = p2
    BY <1>1
  <2>1. \A r \in p2..p3 - 1 : s[r] = SPACE
    BY <2>0, <1>2
  <2>2. p2 \in 1..Len(s) + 1 /\ p3 \in p2..Len(s) + 1
    BY <1>1 DEF n
  <2>3. p3 <= Len(s) => s[p3] # SPACE
    BY <1>3, <1>0
  <2> QED BY <2>1, <2>2, <2>3, SkipIs
<1>8. tokenEnd(s, p3) = e
  <2>1. p3 \in 1..Len(s) + 1 /\ e \in p3..Len(s) + 1
    BY <1>1 DEF n
  <2>2. e <= Len(s) => s[e] = SPACE
    BY <1>2
  <2>3. \A r \in p3..e - 1 : s[r] # SPACE
    BY <1>4
  <2> QED BY <2>1, <2>2, <2>3, EndIs
<1>9. skipSeparators(s, e) = t
  <2>0. \A r \in e..t - 1 : r = e
    BY <1>1
  <2>1. \A r \in e..t - 1 : s[r] = SPACE
    BY <2>0, <1>2
  <2>2. e \in 1..Len(s) + 1 /\ t \in e..Len(s) + 1
    BY <1>1 DEF n
  <2>3. t <= Len(s) => s[t] # SPACE
    BY <1>2, <1>5
  <2> QED BY <2>1, <2>2, <2>3, SkipIs
<1>10. readToken(s, p1) = PRIVMSG
  <2>1. p1 \in 1..Len(s) /\ p2 - 1 = p1
    BY <1>1 DEF n
  <2>2. SubSeq(s, p1, p1) = PRIVMSG
    BY <2>1, <1>2, OneLetter
  <2> QED BY <2>1, <2>2, <1>6 DEF readToken
<1>11. readToken(s, p3) = u
  <2> DEFINE k == e - 1
  <2>1. /\ k \in Nat /\ p3 \in Nat /\ p3 >= 1 /\ k <= Len(s) /\ Len(u) = (k - p3) + 1
        /\ \A j \in 1..Len(u) : s[(p3 + j) - 1] = u[j]
    BY <1>1, <1>2 DEF n
  <2> HIDE DEF k
  <2>2. SubSeq(s, p3, k) = u
    BY <2>1, PartIs
  <2> QED BY <2>2, <1>8 DEF readToken, k
<1>12. SubSeq(s, t + 1, n) = v
  <2> DEFINE i == t + 1
  <2>0. i \in Nat /\ i >= 1 /\ n \in Nat /\ l = (n - i) + 1 /\ n = Len(s)
    BY <1>1 DEF n
  <2>1. \A j \in 1..l : s[(i + j) - 1] = v[j]
    BY <1>2
  <2> HIDE DEF i
  <2>2. /\ i \in Nat /\ i >= 1 /\ n \in Nat /\ n <= Len(s) /\ Len(v) = (n - i) + 1
        /\ \A j \in 1..Len(v) : s[(i + j) - 1] = v[j]
    BY <2>0, <2>1
  <2>3. SubSeq(s, i, n) = v
    BY <2>2, PartIs
  <2> QED BY <2>3 DEF i
<1>13. readParams(s, e) = <<v>>
  <2>1. e \in 1..Len(s) + 1 /\ ~(t > Len(s))
    BY <1>1 DEF n
  <2>2. readParams(s, e) = <<SubSeq(s, t + 1, Len(s))>>
    BY <2>1, <1>2, <1>9, ReadParamsEq
  <2> QED BY <2>2, <1>12 DEF n
<1>14. readParams(s, p2) = <<u>> \o <<v>>
  <2>1. p2 \in 1..Len(s) + 1 /\ ~(p3 > Len(s)) /\ s[p3] # COLON
    BY <1>1, <1>3, <1>0 DEF n
  <2>2. readParams(s, p2) = <<readToken(s, p3)>> \o readParams(s, tokenEnd(s, p3))
    BY <2>1, <1>7, ReadParamsEq
  <2> QED BY <2>2, <1>8, <1>11, <1>13
<1>15. <<u>> \o <<v>> = <<u, v>>
  <2> DEFINE y == <<u>>
             z == <<v>>
             w == y \o z
  <2>1. y \in Seq(Strings) /\ z \in Seq(Strings) /\ Len(y) = 1 /\ Len(z) = 1
    OBVIOUS
  <2>2. /\ w \in Seq(Strings) /\ Len(w) = Len(y) + Len(z)
        /\ \A i \in 1..Len(y) + Len(z) : w[i] = IF i <= Len(y) THEN y[i] ELSE z[i - Len(y)]
    <3>1. y \in Seq(Strings) /\ z \in Seq(Strings)
      BY <2>1
    <3> HIDE DEF y, z
    <3> QED BY <3>1, ConcatProperties
  <2>3. y[1] = u /\ z[1] = v
    OBVIOUS
  <2> HIDE DEF y, z, w
  <2>4. Len(w) = 2 /\ w[1] = u /\ w[2] = v
    BY <2>1, <2>2, <2>3
  <2>5. w = <<w[1], w[2]>>
    <3> DEFINE w2 == <<w[1], w[2]>>
    <3>1. w \in Seq(Strings) /\ w2 \in Seq(Strings) /\ Len(w2) = 2 /\ w2[1] = w[1] /\ w2[2] = w[2]
      BY <2>2, <2>4
    <3>2. \A i \in 1..2 : i = 1 \/ i = 2
      OBVIOUS
    <3> HIDE DEF w2
    <3>3. w2 = w
      BY <2>4, <3>1, <3>2
    <3> QED BY <3>3 DEF w2
  <2> QED BY <2>4, <2>5 DEF w, y, z
<1> QED BY <1>6, <1>10, <1>14, <1>15 DEF p1, p2

(* A nickname is a word, without a hash in front. *)
LEMMA NickIsWord ==
  ASSUME NEW u \in Strings, isValidNickname(u)
  PROVE  Target(u) /\ u[1] # HASH
<1>1. /\ Len(u) \in Nat /\ Len(u) >= 1
      /\ u[1] \in CharCodes /\ (isLetter(u[1]) \/ isSpecial(u[1]))
  <2>1. Len(u) \in 1..NickLen /\ (isLetter(u[1]) \/ isSpecial(u[1]))
    BY DEF isValidNickname
  <2>2. Len(u) \in Nat /\ Len(u) >= 1
    BY <2>1, NickLenAssumption
  <2>3. u[1] \in CharCodes
    BY <2>2 DEF Strings
  <2> QED BY <2>1, <2>2, <2>3
<1>2. u[1] # COLON /\ u[1] # HASH /\ u[1] # SPACE
  <2>1. \A y \in {COLON, HASH, SPACE} : ~isLetter(y) /\ ~isSpecial(y)
    BY DEF isLetter, isSpecial, COLON, HASH, SPACE
  <2> QED BY <1>1, <2>1, Zenon
<1>3. ASSUME NEW i \in 1..Len(u), i # 1
      PROVE  u[i] # SPACE
  <2>1. i \in 2..Len(u) /\ u[i] \in CharCodes
    BY <1>1, <1>3 DEF Strings
  <2>2. isNicknameChar(u[i])
    BY <2>1 DEF isValidNickname
  <2>3. ~isNicknameChar(SPACE)
    BY DEF isNicknameChar, isLetter, isDigit, isSpecial, SPACE
  <2> QED BY <2>2, <2>3
<1> QED BY <1>1, <1>2, <1>3 DEF Target

(* A channel name is a word, with a hash in front. *)
LEMMA ChannelIsWord ==
  ASSUME NEW u \in Strings, isValidChannelName(u)
  PROVE  Target(u) /\ u[1] = HASH
<1>1. Len(u) \in Nat /\ Len(u) >= 1 /\ u[1] = HASH
  BY DEF isValidChannelName, Strings
<1>2. u[1] # COLON /\ u[1] # SPACE
  BY <1>1 DEF COLON, HASH, SPACE
<1>3. ASSUME NEW i \in 1..Len(u), i # 1
      PROVE  u[i] # SPACE
  <2>1. i \in 2..Len(u)
    BY <1>1, <1>3
  <2> QED BY <2>1 DEF isValidChannelName, isChannelStringChar
<1> QED BY <1>1, <1>2, <1>3 DEF Target

(* A line that begins with the command has no prefix. *)
LEMMA NoPrefixRead ==
  ASSUME NEW s \in Strings, Len(s) >= 1, s[1] = 80
  PROVE  prefixEnd(s) = 1 /\ prefixOf(s) = <<>>
<1> DEFINE p == 1
<1>1. p \in 1..Len(s) + 1 /\ p \in p..Len(s) + 1 /\ ~(p > Len(s))
  BY DEF Strings
<1>2. s[p] # SPACE /\ s[p] # COLON
  BY DEF SPACE, COLON
<1>3. \A r \in p..p - 1 : s[r] = SPACE
  OBVIOUS
<1> HIDE DEF p
<1>4. skipSeparators(s, p) = p
  BY <1>1, <1>2, <1>3, SkipIs
<1>5. skipSeparators(s, 1) = p
  BY <1>4 DEF p
<1>6. prefixEnd(s) = p
  BY <1>1, <1>2, <1>5 DEF prefixEnd
<1>7. prefixOf(s) = <<>>
  BY <1>1, <1>2, <1>5 DEF prefixOf
<1> QED BY <1>6, <1>7 DEF p

(* The line s has a colon, w, which is of length k, and the command.         *)
Prefixed(s, w, k) ==
  /\ Len(s) >= k + 3 /\ s[1] = COLON
  /\ \A i \in 1..k : s[1 + i] = w[i]
  /\ s[k + 2] = SPACE /\ s[k + 3] = 80

(* In such a line a word w is the prefix. *)
LEMMA PrefixRead ==
  ASSUME NEW s \in Strings, NEW w \in Strings, NEW k \in Nat, k = Len(w), k >= 1,
         \A i \in 1..k : w[i] # SPACE, Prefixed(s, w, k)
  PROVE  prefixEnd(s) = k + 3 /\ prefixOf(s) = w
<1> DEFINE n == Len(s)
           p == 1
           q == 2
           e == k + 2
           t == k + 3
<1> USE DEF Prefixed
<1>1. /\ n \in Nat /\ p \in 1..n + 1 /\ p \in p..n + 1 /\ p + 1 = q /\ q \in 1..n + 1
      /\ e \in q..n + 1 /\ e \in 1..n + 1 /\ t \in e..n + 1 /\ t - 1 = e
      /\ ~(p > n) /\ p <= n /\ ~(e > n) /\ e <= n /\ t <= n
      /\ q \in Nat /\ q >= 1 /\ e - 1 \in Nat /\ e - 1 <= n /\ k = ((e - 1) - q) + 1
  BY DEF Strings
<1>2. s[p] = COLON /\ s[p] # SPACE /\ s[e] = SPACE /\ s[t] # SPACE
  BY DEF COLON, SPACE
<1>3. \A r \in p..p - 1 : s[r] = SPACE
  OBVIOUS
<1>4. \A j \in 1..k : s[(q + j) - 1] = w[j]
  <2>1. \A j \in 1..k : (q + j) - 1 = 1 + j
    OBVIOUS
  <2> HIDE DEF q
  <2> QED BY <2>1
<1>5. ASSUME NEW r \in q..e - 1
      PROVE  s[r] # SPACE
  <2> DEFINE j == (r - q) + 1
  <2>1. j \in 1..k /\ (q + j) - 1 = r
    OBVIOUS
  <2> HIDE DEF j, q, e
  <2> QED BY <2>1, <1>4
<1>6. \A r \in e..t - 1 : s[r] = SPACE
  <2>1. \A r \in e..t - 1 : r = e
    OBVIOUS
  <2> HIDE DEF e, t
  <2> QED BY <2>1, <1>2
<1> HIDE DEF Prefixed, p, q, e, t
<1>7. skipSeparators(s, p) = p
  <2>1. p \in 1..Len(s) + 1 /\ p \in p..Len(s) + 1 /\ s[p] # SPACE
    BY <1>1, <1>2
  <2> QED BY <2>1, <1>3, SkipIs
<1>8. tokenEnd(s, q) = e
  <2>1. q \in 1..Len(s) + 1 /\ e \in q..Len(s) + 1 /\ s[e] = SPACE
    BY <1>1, <1>2
  <2> QED BY <2>1, <1>5, EndIs
<1>9. skipSeparators(s, e) = t
  <2>1. e \in 1..Len(s) + 1 /\ t \in e..Len(s) + 1 /\ s[t] # SPACE
    BY <1>1, <1>2
  <2> QED BY <2>1, <1>6, SkipIs
<1>10. readToken(s, q) = w
  <2> DEFINE f == e - 1
  <2>1. /\ f \in Nat /\ q \in Nat /\ q >= 1 /\ f <= Len(s) /\ Len(w) = (f - q) + 1
        /\ \A j \in 1..Len(w) : s[(q + j) - 1] = w[j]
    BY <1>1, <1>4
  <2> HIDE DEF f
  <2>2. SubSeq(s, q, f) = w
    BY <2>1, PartIs
  <2> QED BY <2>2, <1>8 DEF readToken, f
<1>11. skipSeparators(s, 1) = p
  BY <1>7 DEF p
<1>12. prefixEnd(s) = t
  BY <1>1, <1>2, <1>8, <1>9, <1>11 DEF prefixEnd
<1>13. prefixOf(s) = w
  BY <1>1, <1>2, <1>10, <1>11 DEF prefixOf
<1> QED BY <1>12, <1>13 DEF t

(* A prefix as privmsg writes it. *)
Prefix(w) == IF w = <<>> THEN <<>> ELSE <<COLON>> \o w \o <<SPACE>>

(* Where its parts are. *)
LEMMA PrefixFact ==
  ASSUME NEW w \in Strings, w # <<>>, NEW k, k = Len(w)
  PROVE  /\ Prefix(w) \in Strings /\ k \in Nat /\ k >= 1 /\ Len(Prefix(w)) = k + 2
         /\ Prefix(w)[1] = COLON /\ Prefix(w)[k + 2] = SPACE
         /\ \A i \in 1..k : Prefix(w)[1 + i] = w[i]
<1> DEFINE co == <<COLON>>
           sp == <<SPACE>>
           s1 == co \o w
           s2 == s1 \o sp
<1>0. /\ co \in Strings /\ Len(co) = 1 /\ co[1] = COLON
      /\ sp \in Strings /\ Len(sp) = 1 /\ sp[1] = SPACE
  BY DEF SPACE, COLON, Strings, CharCodes
<1>1. co \in Strings /\ sp \in Strings
  BY <1>0
<1>2. k \in Nat /\ k >= 1
  BY DEF Strings
<1> HIDE DEF co, sp
<1>3. /\ s1 \in Strings /\ Len(s1) = Len(co) + Len(w)
      /\ \A i \in 1..Len(co) : s1[i] = co[i]
      /\ \A i \in 1..Len(w) : s1[Len(co) + i] = w[i]
  BY <1>1, Cat, Zenon
<1> HIDE DEF s1
<1>4. /\ Len(s1) = k + 1 /\ s1[1] = COLON
      /\ \A i \in 1..k : s1[1 + i] = w[i]
  BY <1>0, <1>2, <1>3
<1>5. /\ s2 \in Strings /\ Len(s2) = Len(s1) + Len(sp)
      /\ \A i \in 1..Len(s1) : s2[i] = s1[i]
      /\ \A i \in 1..Len(sp) : s2[Len(s1) + i] = sp[i]
  <2>1. s1 \in Strings
    BY <1>3
  <2> QED BY <2>1, <1>1, Cat, Zenon
<1> HIDE DEF s2
<1>6. Len(s2) = k + 2 /\ s2[1] = COLON
  BY <1>0, <1>2, <1>4, <1>5
<1>7. s2[k + 2] = SPACE
  <2>1. 1 \in 1..Len(sp) /\ Len(s1) + 1 = k + 2
    BY <1>0, <1>2, <1>4
  <2>2. s2[Len(s1) + 1] = SPACE
    BY <1>0, <1>5, <2>1
  <2> QED BY <2>1, <2>2
<1>8. \A i \in 1..k : s2[1 + i] = w[i]
  <2> TAKE i \in 1..k
  <2> DEFINE j == 1 + i
  <2>1. j \in 1..Len(s1) /\ s1[j] = w[i]
    BY <1>2, <1>4
  <2> HIDE DEF j
  <2>2. s2[j] = w[i]
    BY <1>5, <2>1
  <2> QED BY <2>2 DEF j
<1>9. Prefix(w) = s2
  BY DEF Prefix, s2, s1, co, sp
<1> QED BY <1>2, <1>5, <1>6, <1>7, <1>8, <1>9

(* What privmsg writes, without its terminator. *)
LEMMA PrivmsgIs ==
  ASSUME NEW w \in Strings, NEW u \in Strings, NEW v \in Strings, Prefix(w) \in Strings
  PROVE  removeIrcLineTerminator(privmsg(w, u, v)) = Body(Prefix(w), u, v)
<1> DEFINE X == Prefix(w)
           s == Body(X, u, v)
           x == Len(X)
           h == Len(u)
           l == Len(v)
<1>1. s \in Strings
  <2> HIDE DEF X
  <2> QED BY BodyFact DEF X
<1>2. privmsg(w, u, v) = s \o <<CR, LF>>
  BY DEF privmsg, Body, Prefix
<1> HIDE DEF s
<1>3. removeIrcLineTerminator(s \o <<CR, LF>>) = s
  BY <1>1, Strip
<1> QED BY <1>2, <1>3 DEF s

(* What is read from what privmsg writes. *)
LEMMA FormattedRead ==
  ASSUME NEW w \in Strings, NEW u \in Strings, NEW v \in Strings,
         w = <<>> \/ Target(w), Target(u)
  PROVE  parse(privmsg(w, u, v)) = Message(w, PRIVMSG, <<u, v>>)
<1> DEFINE X == Prefix(w)
           s == Body(X, u, v)
           x == Len(X)
           h == Len(u)
           l == Len(v)
           n == Len(s)
<1>1. X \in Strings
  <2>1. CASE w = <<>>
    BY <2>1 DEF Prefix, Strings
  <2>2. CASE w # <<>>
    BY <2>2, PrefixFact
  <2> QED BY <2>1, <2>2
<1>2. removeIrcLineTerminator(privmsg(w, u, v)) = s
  BY <1>1, PrivmsgIs
<1> HIDE DEF X
<1>3. h = Len(u) /\ l = Len(v) /\ x = Len(X)
  OBVIOUS
<1> HIDE DEF x, h, l
<1>4. /\ s \in Strings /\ x \in Nat /\ h \in Nat /\ l \in Nat
      /\ \A i \in 1..x : s[i] = X[i]
      /\ Layout(s, u, v, x, h, l)
  BY <1>1, <1>3, BodyFact
<1> HIDE DEF s
<1>5. /\ tokenEnd(s, x + 1) = x + 2
      /\ readToken(s, x + 1) = PRIVMSG
      /\ readParams(s, x + 2) = <<u, v>>
  BY <1>3, <1>4, BodyRead
<1>6. prefixEnd(s) = x + 1 /\ prefixOf(s) = w
  <2>1. CASE w = <<>>
    <3>1. x = 0
      BY <2>1, <1>3 DEF X, Prefix
    <3>2. Len(s) >= 1 /\ s[1] = 80 /\ x + 1 = 1
      BY <3>1, <1>4 DEF Layout
    <3> QED BY <3>2, <2>1, <1>4, NoPrefixRead
  <2>2. CASE w # <<>>
    <3> DEFINE k == Len(w)
    <3>1. /\ k \in Nat /\ k >= 1 /\ Len(X) = k + 2
          /\ X[1] = COLON /\ X[k + 2] = SPACE
          /\ \A i \in 1..k : X[1 + i] = w[i]
      BY <2>2, PrefixFact DEF X
    <3>2. \A i \in 1..k : w[i] # SPACE
      BY <2>2 DEF Target
    <3> HIDE DEF k
    <3>3. x = k + 2
      BY <3>1, <1>3
    <3>4. Len(s) >= k + 3 /\ s[1] = COLON /\ s[k + 2] = SPACE
      BY <3>1, <3>3, <1>4 DEF Layout
    <3>5. s[k + 3] = 80 /\ x + 1 = k + 3
      <4>1. x + 1 = k + 3
        BY <3>1, <3>3
      <4> QED BY <4>1, <1>4 DEF Layout
    <3>6. \A i \in 1..k : s[1 + i] = w[i]
      <4> TAKE i \in 1..k
      <4> DEFINE j == 1 + i
      <4>1. j \in 1..x /\ X[j] = w[i]
        BY <3>1, <3>3
      <4> HIDE DEF j
      <4>2. s[j] = w[i]
        BY <4>1, <1>4
      <4> QED BY <4>2 DEF j
    <3>7. k = Len(w) /\ s \in Strings /\ k \in Nat /\ k >= 1
      BY <3>1, <1>4 DEF k
    <3>8. Prefixed(s, w, k)
      BY <3>4, <3>5, <3>6 DEF Prefixed
    <3>9. prefixEnd(s) = k + 3 /\ prefixOf(s) = w
      BY <3>2, <3>7, <3>8, PrefixRead
    <3> QED BY <3>5, <3>9
  <2> QED BY <2>1, <2>2
<1>7. upperCommand(PRIVMSG) = PRIVMSG
  <2> DEFINE y == upperCommand(PRIVMSG)
             z == PRIVMSG
  <2>1. z = [i \in 1..1 |-> 80]
    BY DEF PRIVMSG
  <2>2. y = [i \in DOMAIN z |-> IF z[i] \in 97..122 THEN z[i] - 32 ELSE z[i]]
    BY DEF upperCommand
  <2> HIDE DEF y, z
  <2>3. DOMAIN z = 1..1 /\ \A i \in 1..1 : z[i] = 80 /\ ~(z[i] \in 97..122)
    BY <2>1
  <2>4. y = [i \in 1..1 |-> 80]
    BY <2>2, <2>3
  <2>5. y = z
    BY <2>1, <2>4
  <2> QED BY <2>5 DEF y, z
<1>8. ~(x + 1 > Len(s))
  BY <1>4 DEF Layout
<1> QED BY <1>2, <1>5, <1>6, <1>7, <1>8 DEF parse

-----------------------------------------------------------------------------

(* The strings of every behaviour are strings. *)
THEOREM TypeCorrect == Spec => []TypeOK
<1>1. Init => TypeOK
  BY DEF Init, TypeOK, Strings
<1>2. ASSUME TypeOK, [Next]_vars
      PROVE  TypeOK'
  <2>1. \A s \in Strings : \A t : Extended(s, t) => t \in Strings
    BY CharsAssumption DEF Extended, Strings
  <2>2. \A s \in Strings, x \in LineChars : Append(s, x) \in Strings
    BY CharsAssumption DEF Strings
  <2> QED BY <2>1, <2>2, <1>2 DEF TypeOK, Next, Name, Line, vars
<1> QED BY <1>1, <1>2, PTL DEF Spec

(* The order of the maps is a strict order: any three strings of any length. *)
THEOREM OrderIsStrict == Spec => []StrictlyOrdered
<1>1. TypeOK => StrictlyOrdered
  BY Irreflexive, Transitive DEF TypeOK, StrictlyOrdered
<1> QED BY <1>1, TypeCorrect, PTL

(* Two strings of any length are one key of the maps exactly if they are one *)
(* name up to the case of their characters.                                  *)
THEOREM KeysAreNamesAlways == Spec => []KeysAreNames
<1>1. ASSUME TypeOK
      PROVE  KeysAreNames
  <2>1. a \in Strings /\ b \in Strings
    BY <1>1 DEF TypeOK
  <2>2. ASSUME Len(a) = Len(b)
        PROVE  SameUpTo(a, b, Len(a))
                 <=> \A i \in 1..Len(a) :
                       \/ a[i] = b[i]
                       \/ {<<a[i], b[i]>>, <<b[i], a[i]>>} \cap CasePairs # {}
    <3>1. \A i \in 1..Len(a) : a[i] \in CharCodes /\ b[i] \in CharCodes
      BY <2>1, <2>2 DEF Strings
    <3> QED BY <3>1, FoldIsCase DEF SameUpTo
  <2> QED BY <2>1, <2>2, KeyIsFold DEF KeysAreNames, SameName
<1> QED BY <1>1, TypeCorrect, PTL

(* parse returns what a line says, for lines of any length over any          *)
(* characters: skipSeparators, readToken and the loop over the parameters    *)
(* agree with the words of the line.                                         *)
THEOREM ParsesTheGrammarAlways == Spec => []ParsesTheGrammar
<1>1. ASSUME TypeOK
      PROVE  ParsesTheGrammar
  <2> DEFINE s == removeIrcLineTerminator(line)
  <2>1. s \in Strings
    BY <1>1, StripType DEF TypeOK
  <2>2. parse(line) = Parsed(s)
    BY DEF parse, Parsed
  <2> HIDE DEF s
  <2>3. Says(s, Parsed(s))
    BY <2>1, ParsedSays
  <2> QED BY <2>2, <2>3 DEF ParsesTheGrammar, s
<1> QED BY <1>1, TypeCorrect, PTL

(* What the server's and the bot's formatters write is read back as it was   *)
(* meant, for prefixes, targets and texts of any length: no name that        *)
(* isValidNickname or isValidChannelName accepts can end a word early or be  *)
(* taken for the text, and no name is both.                                  *)
THEOREM FormattedIsReadBackAlways == Spec => []FormattedIsReadBack
<1>1. ASSUME TypeOK
      PROVE  FormattedIsReadBack
  <2>1. a \in Strings /\ b \in Strings /\ c \in Strings
    BY <1>1 DEF TypeOK
  <2>2. ~(isValidNickname(b) /\ isValidChannelName(b))
    BY <2>1, NickIsWord, ChannelIsWord
  <2>3. ASSUME a = <<>> \/ isValidNickname(a), isValidNickname(b) \/ isValidChannelName(b)
        PROVE  LET m == parse(privmsg(a, b, c))
               IN  /\ m.prefix = a /\ m.command = PRIVMSG
                   /\ hasParam(m, 1) /\ ~hasParam(m, 2)
                   /\ getSingleParam(m, 0) = b
                   /\ getSingleParam(m, 1) = c
    <3> DEFINE m == parse(privmsg(a, b, c))
    <3>1. a = <<>> \/ Target(a)
      BY <2>1, <2>3, NickIsWord
    <3>2. Target(b)
      BY <2>1, <2>3, NickIsWord, ChannelIsWord
    <3>3. m = Message(a, PRIVMSG, <<b, c>>)
      BY <2>1, <3>1, <3>2, FormattedRead
    <3> HIDE DEF m
    <3>4. m.prefix = a /\ m.command = PRIVMSG /\ m.params = <<b, c>>
      BY <3>3 DEF Message
    <3>5. Len(m.params) = 2 /\ m.params[1] = b /\ m.params[2] = c
      BY <3>4
    <3>6. hasParam(m, 0) /\ hasParam(m, 1) /\ ~hasParam(m, 2)
      BY <3>5 DEF hasParam
    <3>7. getSingleParam(m, 0) = b /\ getSingleParam(m, 1) = c
      BY <3>5, <3>6 DEF getSingleParam
    <3> QED BY <3>4, <3>6, <3>7 DEF m
  <2> QED BY <2>2, <2>3 DEF FormattedIsReadBack
<1> QED BY <1>1, TypeCorrect, PTL
=============================================================================
