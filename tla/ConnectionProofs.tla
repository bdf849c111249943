---------------------------- MODULE ConnectionProofs ----------------------------
(******************************************************************************)
(* The proofs about Connection: the receive buffer is bounded, output is      *)
(* delivered in order and the lines popped are those of the stream, for all   *)
(* sizes of lines, of recv and of the stream.                                 *)
(******************************************************************************)
EXTENDS Connection, FiniteSetTheorems, SequenceTheorems, WellFoundedInduction, TLAPS

\* A slice of a sequence.
LEMMA Slice ==
  ASSUME NEW S, NEW s \in Seq(S), NEW a \in Nat \ {0}, NEW b \in 0..Len(s)
  PROVE  /\ SubSeq(s, a, b) \in Seq(S)
         /\ Len(SubSeq(s, a, b)) = IF a <= b THEN b - a + 1 ELSE 0
         /\ \A j \in 1..b - a + 1 : SubSeq(s, a, b)[j] = s[a + j - 1]
<1>1. a \in Int /\ b \in Int /\ \A j \in a..b : s[j] \in S
  BY LenProperties, ElementOfSeq
<1> QED BY <1>1, SubSeqProperties

\* The bytes that bufferSend appends.
LEMMA Numbered ==
  ASSUME NEW n \in Nat, NEW q \in Nat
  PROVE  /\ [j \in 1..n |-> q + j] \in Seq(Nat)
         /\ Len([j \in 1..n |-> q + j]) = n
  OBVIOUS

\* The variables keep their types.
THEOREM TypeCorrect == Spec => []TypeOK
<1>1. Init => TypeOK
  BY ConnectionAssumption DEF Init, TypeOK
<1>2. TypeOK /\ [Next]_vars => TypeOK'
  <2> SUFFICES ASSUME TypeOK, [Next]_vars PROVE TypeOK'
    OBVIOUS
  <2> USE ConnectionAssumption DEF TypeOK
  <2>1. CASE PeerSend
    <3>1. PICK b \in Byte : input' = Append(input, b)
      BY <2>1 DEF PeerSend
    <3>2. input' \in Seq(Byte) /\ Len(input') = Len(input) + 1
      BY <3>1
    <3> QED BY <2>1, <3>2 DEF PeerSend, outVars
  <2>2. CASE readFromSocket
    <3>1. PICK n \in 1..BufSize : /\ read + n <= Len(input)
                                  /\ read' = read + n
                                  /\ recvBuffer' = recvBuffer \o SubSeq(input, read + 1, read + n)
      BY <2>2 DEF readFromSocket
    <3>2. SubSeq(input, read + 1, read + n) \in Seq(Byte)
      BY <3>1, Slice, SMTT(30)
    <3>3. recvBuffer' \in Seq(Byte) /\ read' \in 0..Len(input)
      BY <3>1, <3>2
    <3> QED BY <2>2, <3>3 DEF readFromSocket, outVars
  <2>3. CASE EndOfInput
    BY <2>3 DEF EndOfInput, outVars
  <2>4. CASE popLine
    <3>1. PICK p \in 1..Len(recvBuffer) :
             /\ lines' = Append(lines, WithoutCR(recvBuffer, 1, p - 1))
             /\ recvBuffer' = SubSeq(recvBuffer, p + 1, Len(recvBuffer))
      BY <2>4 DEF popLine
    <3>2. \A e \in 0..Len(recvBuffer) : SubSeq(recvBuffer, 1, e) \in Seq(Byte)
      OBVIOUS
    <3>3. WithoutCR(recvBuffer, 1, p - 1) \in Seq(Byte)
      BY <3>2 DEF WithoutCR
    <3>4. lines' \in Seq(Seq(Byte))
      BY <3>1, <3>3
    <3>5. recvBuffer' \in Seq(Byte)
      BY <3>1, SMTT(30)
    <3> QED BY <2>4, <3>4, <3>5 DEF popLine, outVars
  <2>5. CASE AllPopped
    BY <2>5 DEF AllPopped, outVars
  <2>6. CASE bufferSend
    <3>1. PICK n \in 1..MaxOutput - queued :
             /\ queued' = queued + n
             /\ sendBuffer' = sendBuffer \o [j \in 1..n |-> queued + j]
      BY <2>6 DEF bufferSend
    <3>2. [j \in 1..n |-> queued + j] \in Seq(Nat)
      BY <3>1
    <3>3. sendBuffer' \in Seq(Nat) /\ queued' \in 0..MaxOutput
      BY <3>1, <3>2
    <3> QED BY <2>6, <3>3 DEF bufferSend, inVars
  <2>7. CASE writeToSocket
    <3>1. PICK n \in 1..Len(sendBuffer) :
             /\ delivered' = delivered \o SubSeq(sendBuffer, 1, n)
             /\ sendBuffer' = SubSeq(sendBuffer, n + 1, Len(sendBuffer))
      BY <2>7 DEF writeToSocket
    <3>2. /\ SubSeq(sendBuffer, 1, n) \in Seq(Nat)
          /\ SubSeq(sendBuffer, n + 1, Len(sendBuffer)) \in Seq(Nat)
      <4> HIDE DEF TypeOK
      <4>1. sendBuffer \in Seq(Nat) /\ Len(sendBuffer) \in Nat
        BY DEF TypeOK
      <4>2. /\ n \in 0..Len(sendBuffer) /\ n + 1 \in Nat \ {0}
            /\ 1 \in Nat \ {0} /\ Len(sendBuffer) \in 0..Len(sendBuffer)
        BY <4>1
      <4> QED BY <4>1, <4>2, Slice, Zenon
    <3>3. delivered' \in Seq(Nat)
      BY <3>1, <3>2
    <3>4. sendBuffer' \in Seq(Nat)
      BY <3>1, <3>2
    <3> QED BY <2>7, <3>3, <3>4 DEF writeToSocket, inVars
  <2>8. CASE UNCHANGED vars
    BY <2>8 DEF vars, inVars, outVars
  <2> QED BY <2>1, <2>2, <2>3, <2>4, <2>5, <2>6, <2>7, <2>8 DEF Next
<1> QED BY <1>1, <1>2, PTL DEF Spec

--------------------------------------------------------------------------------
(* The receive buffer. *)

\* Why it is bounded: while the server waits there is no LF in the buffer, so an LF
\* in it comes from the last recv, and less than one recv follows it.
BufferInv ==
    /\ Len(recvBuffer) <= MaxWaiting + BufSize
    /\ state = "poll" => /\ Len(recvBuffer) <= MaxWaiting
                         /\ ~hasCompleteLine(recvBuffer)
    /\ state = "pop" =>
           /\ ~hasCompleteLine(recvBuffer) => Len(recvBuffer) <= MaxWaiting
           /\ \A p \in 1..Len(recvBuffer) :
                  recvBuffer[p] = "LF" => Len(recvBuffer) - p <= BufSize - 1

\* One recv keeps the bound: an LF it brings is in what it appends, and without
\* one the buffer is rejected beyond MaxLine.
LEMMA ReadBounded == TypeOK /\ BufferInv /\ readFromSocket => BufferInv'
<1> SUFFICES ASSUME TypeOK, BufferInv, readFromSocket PROVE BufferInv'
  OBVIOUS
<1> USE ConnectionAssumption
<1>1. PICK n \in 1..BufSize :
         /\ read + n <= Len(input)
         /\ recvBuffer' = recvBuffer \o SubSeq(input, read + 1, read + n)
  BY DEF readFromSocket
<1> DEFINE chunk == SubSeq(input, read + 1, read + n)
<1>2. /\ recvBuffer \in Seq(Byte) /\ chunk \in Seq(Byte) /\ Len(chunk) = n
      /\ Len(recvBuffer) \in Nat /\ n \in Nat /\ BufSize \in Nat /\ MaxLine \in Nat
  BY <1>1, Slice, SMTT(30) DEF TypeOK
<1> HIDE DEF chunk
<1>3. /\ Len(recvBuffer') = Len(recvBuffer) + n
      /\ \A p \in 1..Len(recvBuffer) : recvBuffer'[p] = recvBuffer[p]
  BY <1>1, <1>2, ConcatProperties DEF chunk
<1>4. state = "poll" /\ Len(recvBuffer) <= MaxWaiting /\ ~hasCompleteLine(recvBuffer)
  BY DEF readFromSocket, BufferInv
<1>5. \A p \in 1..Len(recvBuffer') :
         recvBuffer'[p] = "LF" => Len(recvBuffer') - p <= BufSize - 1
  <2> SUFFICES ASSUME NEW p \in 1..Len(recvBuffer'), recvBuffer'[p] = "LF"
               PROVE  Len(recvBuffer') - p <= BufSize - 1
    OBVIOUS
  <2>1. p \notin 1..Len(recvBuffer)
    BY <1>3, <1>4 DEF hasCompleteLine
  <2>2. p \in Nat /\ p > Len(recvBuffer) /\ n <= BufSize
    BY <2>1, <1>2, <1>3
  <2> QED BY <2>2, <1>2, <1>3
<1>6. state' # "poll"
  BY DEF readFromSocket
<1>7. state' = "pop" /\ ~hasCompleteLine(recvBuffer') => Len(recvBuffer') <= MaxWaiting
  <2> SUFFICES ASSUME state' = "pop", ~hasCompleteLine(recvBuffer'), Len(recvBuffer') > MaxLine
               PROVE  FALSE
    BY <1>2, <1>3 DEF MaxWaiting
  <2>1. isLineTooLong(recvBuffer')
    BY <1>2, <1>3 DEF isLineTooLong, hasCompleteLine
  <2> QED BY <2>1 DEF readFromSocket
<1>8. MaxWaiting \in Nat
  BY <1>2 DEF MaxWaiting
<1>9. Len(recvBuffer') <= MaxWaiting + BufSize
  <2>1. Len(recvBuffer) <= MaxWaiting /\ n <= BufSize
    BY <1>2, <1>4
  <2> QED BY <2>1, <1>2, <1>3, <1>8
<1> QED BY <1>5, <1>6, <1>7, <1>9 DEF BufferInv

\* Popping a line leaves less than one recv.
LEMMA PopBounded == TypeOK /\ BufferInv /\ popLine => BufferInv'
<1> SUFFICES ASSUME TypeOK, BufferInv, popLine PROVE BufferInv'
  OBVIOUS
<1> USE ConnectionAssumption
<1>1. PICK p \in 1..Len(recvBuffer) :
         /\ recvBuffer[p] = "LF"
         /\ recvBuffer' = SubSeq(recvBuffer, p + 1, Len(recvBuffer))
  BY DEF popLine, FirstLF
<1>2. /\ recvBuffer \in Seq(Byte) /\ Len(recvBuffer) \in Nat
      /\ BufSize \in Nat \ {0} /\ MaxLine \in Nat
  BY DEF TypeOK
<1>3. /\ Len(recvBuffer') = Len(recvBuffer) - p
      /\ \A q \in 1..Len(recvBuffer') : recvBuffer'[q] = recvBuffer[p + q]
  BY <1>1, <1>2, Slice
<1>4. state = "pop" /\ state' \in {"pop", "ended"}
  BY DEF popLine
<1>5. \A q \in 1..Len(recvBuffer) : recvBuffer[q] = "LF" => Len(recvBuffer) - q <= BufSize - 1
  BY <1>4 DEF BufferInv
<1>6. \A q \in 1..Len(recvBuffer') : recvBuffer'[q] = "LF" => Len(recvBuffer') - q <= BufSize - 1
  BY <1>1, <1>2, <1>3, <1>5
<1>7. Len(recvBuffer') <= BufSize - 1
  BY <1>1, <1>3, <1>5
<1>8. BufSize - 1 <= MaxWaiting /\ MaxWaiting \in Nat
  BY <1>2 DEF MaxWaiting
<1>9. Len(recvBuffer') <= MaxWaiting /\ Len(recvBuffer') <= MaxWaiting + BufSize
  BY <1>1, <1>2, <1>3, <1>7, <1>8
<1> QED BY <1>4, <1>6, <1>9 DEF BufferInv

\* The receive buffer of a connection never exceeds the longer of a line and a
\* recv by more than one recv, whatever the peer sends (with the sizes of the code
\* 8193 bytes), although isLineTooLong looks at the first line only.
THEOREM BoundedBuffer == Spec => []RecvBufferBounded
<1>1. Init => BufferInv
  BY ConnectionAssumption DEF Init, BufferInv, MaxWaiting, hasCompleteLine
<1>2. TypeOK /\ BufferInv /\ [Next]_vars => BufferInv'
  <2> SUFFICES ASSUME TypeOK, BufferInv, [Next]_vars PROVE BufferInv'
    OBVIOUS
  <2>1. CASE PeerSend \/ bufferSend \/ writeToSocket \/ UNCHANGED vars
    <3>1. UNCHANGED <<recvBuffer, state>>
      BY <2>1 DEF PeerSend, bufferSend, writeToSocket, vars, inVars
    <3> QED BY <3>1 DEF BufferInv
  <2>2. CASE EndOfInput
    BY <2>2 DEF EndOfInput, BufferInv
  <2>3. CASE AllPopped
    BY <2>3 DEF AllPopped, BufferInv
  <2> QED BY <2>1, <2>2, <2>3, ReadBounded, PopBounded DEF Next
<1>3. BufferInv => RecvBufferBounded
  BY DEF BufferInv, RecvBufferBounded
<1> QED BY <1>1, <1>2, <1>3, TypeCorrect, PTL DEF Spec

--------------------------------------------------------------------------------
(* The send buffer. *)

\* OutputIsFifo byte by byte.
FifoInv ==
    /\ Len(delivered) + Len(sendBuffer) = queued
    /\ \A j \in 1..Len(delivered) : delivered[j] = j
    /\ \A j \in 1..Len(sendBuffer) : sendBuffer[j] = Len(delivered) + j

\* bufferSend appends the next bytes.
LEMMA SendFifo == TypeOK /\ FifoInv /\ bufferSend => FifoInv'
<1> SUFFICES ASSUME TypeOK, FifoInv, bufferSend PROVE FifoInv'
  OBVIOUS
<1>1. PICK n \in 1..MaxOutput - queued :
         /\ queued' = queued + n
         /\ sendBuffer' = sendBuffer \o [j \in 1..n |-> queued + j]
  BY DEF bufferSend
<1> DEFINE new == [j \in 1..n |-> queued + j]
<1>2. /\ sendBuffer \in Seq(Nat) /\ delivered \in Seq(Nat) /\ queued \in Nat /\ n \in Nat
      /\ Len(sendBuffer) \in Nat /\ Len(delivered) \in Nat
  BY <1>1, ConnectionAssumption DEF TypeOK
<1>3. new \in Seq(Nat) /\ Len(new) = n /\ \A j \in 1..n : new[j] = queued + j
  BY <1>2, Numbered
<1> HIDE DEF new
<1>4. sendBuffer' = sendBuffer \o new /\ delivered' = delivered
  BY <1>1 DEF bufferSend, new
<1>5. /\ Len(sendBuffer') = Len(sendBuffer) + n
      /\ \A j \in 1..Len(sendBuffer') :
             sendBuffer'[j] = IF j <= Len(sendBuffer) THEN sendBuffer[j]
                              ELSE new[j - Len(sendBuffer)]
  <2>1. /\ Len(sendBuffer \o new) = Len(sendBuffer) + Len(new)
        /\ \A j \in 1..Len(sendBuffer) + Len(new) :
               (sendBuffer \o new)[j] = IF j <= Len(sendBuffer) THEN sendBuffer[j]
                                        ELSE new[j - Len(sendBuffer)]
    BY <1>2, <1>3, ConcatProperties, Zenon
  <2> QED BY <2>1, <1>3, <1>4
<1>6. Len(delivered) + Len(sendBuffer) = queued
  BY DEF FifoInv
<1>7. ASSUME NEW j \in 1..Len(sendBuffer') PROVE sendBuffer'[j] = Len(delivered) + j
  <2>1. j \in Nat /\ j >= 1 /\ j <= Len(sendBuffer) + n
    BY <1>2, <1>5
  <2>2. CASE j <= Len(sendBuffer)
    <3>1. sendBuffer[j] = Len(delivered) + j
      BY <1>2, <2>1, <2>2 DEF FifoInv
    <3> QED BY <3>1, <2>2, <1>5
  <2>3. CASE j > Len(sendBuffer)
    <3>1. sendBuffer'[j] = new[j - Len(sendBuffer)]
      BY <1>2, <1>5, <2>1, <2>3
    <3>2. new[j - Len(sendBuffer)] = queued + (j - Len(sendBuffer))
      BY <1>2, <1>3, <2>1, <2>3
    <3>3. queued + (j - Len(sendBuffer)) = Len(delivered) + j
      <4>1. Len(sendBuffer) \in Nat /\ Len(delivered) \in Nat /\ queued \in Nat /\ j \in Nat
        BY <1>2, <2>1
      <4> QED BY <4>1, <1>6
    <3> QED BY <3>1, <3>2, <3>3
  <2> QED BY <2>1, <2>2, <2>3, <1>2
<1>8. \A j \in 1..Len(delivered') : delivered'[j] = j
  BY <1>4 DEF FifoInv
<1>9. queued' = queued + n
  BY <1>1
<1>10. Len(delivered') + Len(sendBuffer') = queued'
  <2>1. Len(delivered') = Len(delivered) /\ Len(sendBuffer') = Len(sendBuffer) + n
    BY <1>4, <1>5
  <2>2. Len(sendBuffer) \in Nat /\ Len(delivered) \in Nat /\ n \in Nat
    BY <1>2
  <2> QED BY <2>1, <2>2, <1>6, <1>9
<1> QED BY <1>4, <1>7, <1>8, <1>10 DEF FifoInv

\* writeToSocket takes the first bytes and keeps the rest.
LEMMA WriteFifo == TypeOK /\ FifoInv /\ writeToSocket => FifoInv'
<1> SUFFICES ASSUME TypeOK, FifoInv, writeToSocket PROVE FifoInv'
  OBVIOUS
<1>1. PICK n \in 1..Len(sendBuffer) :
         /\ delivered' = delivered \o SubSeq(sendBuffer, 1, n)
         /\ sendBuffer' = SubSeq(sendBuffer, n + 1, Len(sendBuffer))
  BY DEF writeToSocket
<1> DEFINE out == SubSeq(sendBuffer, 1, n)
<1>2. /\ sendBuffer \in Seq(Nat) /\ delivered \in Seq(Nat) /\ queued \in Nat /\ n \in Nat
      /\ Len(sendBuffer) \in Nat /\ Len(delivered) \in Nat
  BY <1>1, ConnectionAssumption, SMTT(30) DEF TypeOK
<1>3. out \in Seq(Nat) /\ Len(out) = n /\ \A j \in 1..n : out[j] = sendBuffer[j]
  BY <1>1, <1>2, Slice
<1>4. /\ Len(sendBuffer') = Len(sendBuffer) - n
      /\ \A j \in 1..Len(sendBuffer') : sendBuffer'[j] = sendBuffer[n + j]
  BY <1>1, <1>2, Slice
<1> HIDE DEF out
<1>5. /\ Len(delivered') = Len(delivered) + n
      /\ \A j \in 1..Len(delivered') :
             delivered'[j] = IF j <= Len(delivered) THEN delivered[j]
                             ELSE out[j - Len(delivered)]
  BY <1>1, <1>2, <1>3, ConcatProperties DEF out
<1>6. \A j \in 1..Len(delivered') : delivered'[j] = j
  BY <1>1, <1>2, <1>3, <1>5, SMTT(30) DEF FifoInv
<1>7. \A j \in 1..Len(sendBuffer') : sendBuffer'[j] = Len(delivered') + j
  BY <1>1, <1>2, <1>4, <1>5 DEF FifoInv
<1>8. queued' = queued
  BY DEF writeToSocket
<1>9. Len(delivered') + Len(sendBuffer') = queued'
  <2>1. Len(delivered) + Len(sendBuffer) = queued
    BY DEF FifoInv
  <2>2. /\ Len(sendBuffer) \in Nat /\ Len(delivered) \in Nat /\ n \in Nat
        /\ Len(delivered') = Len(delivered) + n /\ Len(sendBuffer') = Len(sendBuffer) - n
    BY <1>2, <1>4, <1>5
  <2> QED BY <2>1, <2>2, <1>8
<1> QED BY <1>6, <1>7, <1>9 DEF FifoInv

\* Output is delivered in order, nothing lost or repeated, however send splits it.
THEOREM OutputInOrder == Spec => []OutputIsFifo
<1>1. Init => FifoInv
  BY DEF Init, FifoInv
<1>2. TypeOK /\ FifoInv /\ [Next]_vars => FifoInv'
  <2> SUFFICES ASSUME TypeOK, FifoInv, [Next]_vars PROVE FifoInv'
    OBVIOUS
  <2>1. CASE PeerSend \/ readFromSocket \/ EndOfInput \/ popLine \/ AllPopped \/ UNCHANGED vars
    <3>1. UNCHANGED outVars
      BY <2>1 DEF PeerSend, readFromSocket, EndOfInput, popLine, AllPopped, vars
    <3> QED BY <3>1 DEF outVars, FifoInv
  <2> QED BY <2>1, SendFifo, WriteFifo DEF Next
<1>3. TypeOK /\ FifoInv => OutputIsFifo
  <2> SUFFICES ASSUME TypeOK, FifoInv PROVE delivered \o sendBuffer = [j \in 1..queued |-> j]
    BY DEF OutputIsFifo
  <2> DEFINE all == delivered \o sendBuffer
  <2>1. /\ sendBuffer \in Seq(Nat) /\ delivered \in Seq(Nat) /\ queued \in Nat
        /\ Len(sendBuffer) \in Nat /\ Len(delivered) \in Nat
    BY ConnectionAssumption DEF TypeOK
  <2>2. all \in Seq(Nat) /\ Len(all) = queued
    BY <2>1, ConcatProperties DEF FifoInv
  <2>3. \A j \in 1..queued : all[j] = j
    BY <2>1, ConcatProperties DEF FifoInv
  <2> HIDE DEF all
  <2>4. all = [j \in 1..queued |-> all[j]]
    BY <2>2, LenProperties
  <2> QED BY <2>3, <2>4 DEF all
<1> QED BY <1>1, <1>2, <1>3, TypeCorrect, PTL DEF Spec

--------------------------------------------------------------------------------
(* The lines of a stream. *)

\* A set of numbers that is not empty has a least element.
LEMMA LeastNumber ==
  ASSUME NEW T \in SUBSET Nat, T # {}
  PROVE  \E x \in T : \A y \in T : x <= y
<1> DEFINE R == OpToRel(<, Nat)
<1>1. IsWellFoundedOn(R, Nat)
  BY NatLessThanWellFounded
<1>2. \A x, y \in Nat : x < y => <<x, y>> \in R
  BY DEF OpToRel
<1> HIDE DEF R
<1>3. PICK x \in T : \A y \in T : ~ (<<y, x>> \in R)
  BY <1>1, WFMin
<1>4. \A y \in T : x <= y
  <2> TAKE y \in T
  <2>1. x \in Nat /\ y \in Nat /\ ~ (y < x)
    BY <1>2, <1>3
  <2> QED BY <2>1
<1> QED BY <1>4

\* The line ends among the first j bytes of s, and their number.
EndsIn(s, j) == {i \in 1..j : s[i] = "LF"}
Ends(s, j) == Cardinality(EndsIn(s, j))

\* How their number grows: by one at an LF, and not without one.
LEMMA EndsFacts ==
  ASSUME NEW s, NEW j \in Nat
  PROVE  /\ IsFiniteSet(EndsIn(s, j)) /\ Ends(s, j) \in Nat
         /\ j = 0 => Ends(s, j) = 0
         /\ \A i \in 0..j : Ends(s, i) <= Ends(s, j)
         /\ \A i \in 0..j : (\A n \in i + 1..j : s[n] # "LF") => Ends(s, i) = Ends(s, j)
         /\ j > 0 /\ s[j] = "LF" => Ends(s, j) = Ends(s, j - 1) + 1
<1>1. \A i \in Nat : IsFiniteSet(EndsIn(s, i))
  <2> TAKE i \in Nat
  <2>1. IsFiniteSet(1..i) /\ EndsIn(s, i) \in SUBSET (1..i)
    BY FS_Interval DEF EndsIn
  <2> QED BY <2>1, FS_Subset
<1>2. \A i \in Nat : Ends(s, i) \in Nat
  BY <1>1, FS_CardinalityType DEF Ends
<1>3. j = 0 => Ends(s, j) = 0
  <2>1. j = 0 => EndsIn(s, j) = {}
    BY DEF EndsIn
  <2> QED BY <2>1, FS_EmptySet DEF Ends
<1>4. ASSUME NEW i \in 0..j PROVE Ends(s, i) <= Ends(s, j)
  <2>1. EndsIn(s, i) \in SUBSET EndsIn(s, j)
    BY DEF EndsIn
  <2> QED BY <1>1, <2>1, FS_Subset DEF Ends
<1>5. ASSUME NEW i \in 0..j, \A n \in i + 1..j : s[n] # "LF" PROVE Ends(s, i) = Ends(s, j)
  <2>1. EndsIn(s, i) = EndsIn(s, j)
    BY <1>5 DEF EndsIn
  <2> QED BY <2>1 DEF Ends
<1>6. ASSUME j > 0, s[j] = "LF" PROVE Ends(s, j) = Ends(s, j - 1) + 1
  <2>1. j - 1 \in Nat
    BY <1>6
  <2>2. EndsIn(s, j) = EndsIn(s, j - 1) \cup {j} /\ j \notin EndsIn(s, j - 1)
    BY <1>6 DEF EndsIn
  <2> QED BY <1>1, <2>1, <2>2, FS_AddElement DEF Ends
<1> QED BY <1>1, <1>2, <1>3, <1>4, <1>5, <1>6

\* There are as many lines as line ends, and the LF behind k - 1 others ends line k.
LEMMA LineEndIs ==
  ASSUME NEW s \in Seq(Byte)
  PROVE  /\ Len(s) \in Nat
         /\ Cardinality(LFs(s)) = Ends(s, Len(s)) /\ Ends(s, Len(s)) \in Nat
         /\ \A j \in 1..Len(s) : s[j] = "LF" => LineEnd(s, Ends(s, j)) = j
<1>1. DOMAIN s = 1..Len(s) /\ Len(s) \in Nat
  OBVIOUS
<1>2. Cardinality(LFs(s)) = Ends(s, Len(s)) /\ Ends(s, Len(s)) \in Nat
  BY <1>1, EndsFacts DEF LFs, Ends, EndsIn
<1>3. ASSUME NEW j \in 1..Len(s), s[j] = "LF" PROVE LineEnd(s, Ends(s, j)) = j
  <2>1. \A i \in LFs(s) : {n \in LFs(s) : n <= i} = EndsIn(s, i)
    BY <1>1 DEF LFs, EndsIn
  <2>2. \A i \in LFs(s) : Ends(s, i) = Ends(s, i - 1) + 1 /\ Ends(s, i - 1) \in Nat
    <3> TAKE i \in LFs(s)
    <3>1. i \in Nat /\ i > 0 /\ i - 1 \in Nat /\ s[i] = "LF"
      BY <1>1 DEF LFs
    <3> QED BY <3>1, EndsFacts
  <2>3. j \in LFs(s)
    BY <1>1, <1>3 DEF LFs
  <2>4. ASSUME NEW i \in LFs(s), Ends(s, i) = Ends(s, j) PROVE i = j
    <3>1. i \in Nat /\ j \in Nat /\ i > 0 /\ j > 0
      BY <1>1 DEF LFs
    <3>2. ASSUME i < j PROVE FALSE
      <4>1. j - 1 \in Nat /\ i \in 0..j - 1
        BY <3>1, <3>2
      <4>2. Ends(s, i) <= Ends(s, j - 1)
        BY <4>1, EndsFacts
      <4> QED BY <2>2, <2>3, <2>4, <4>2
    <3>3. ASSUME j < i PROVE FALSE
      <4>1. i - 1 \in Nat /\ j \in 0..i - 1
        BY <3>1, <3>3
      <4>2. Ends(s, j) <= Ends(s, i - 1)
        BY <4>1, EndsFacts
      <4> QED BY <2>2, <2>3, <2>4, <4>2
    <3> QED BY <3>1, <3>2, <3>3
  <2>5. Ends(s, j) # 0
    BY <2>2, <2>3
  <2>6. \A i \in LFs(s) : Cardinality({n \in LFs(s) : n <= i}) = Ends(s, i)
    BY <2>1 DEF Ends
  <2>7. \A k : k # 0 => LineEnd(s, k) = CHOOSE i \in LFs(s) : Cardinality({n \in LFs(s) : n <= i}) = k
    BY DEF LineEnd
  <2>8. LineEnd(s, Ends(s, j)) = CHOOSE i \in LFs(s) : Cardinality({n \in LFs(s) : n <= i}) = Ends(s, j)
    BY <2>5, <2>7
  <2>9. \A i \in LFs(s) : Cardinality({n \in LFs(s) : n <= i}) = Ends(s, j) <=> i = j
    BY <2>3, <2>4, <2>6
  <2> QED BY <2>3, <2>8, <2>9
<1> QED BY <1>1, <1>2, <1>3

\* Every line has an end, and behind it are the LFs of the lines that follow.
LEMMA LineEnds ==
  ASSUME NEW s \in Seq(Byte), NEW k \in 0..Cardinality(LFs(s))
  PROVE  /\ LineEnd(s, k) \in 0..Len(s)
         /\ Ends(s, LineEnd(s, k)) = k
         /\ k > 0 => LineEnd(s, k) > 0 /\ s[LineEnd(s, k)] = "LF"
<1>0. k \in Nat /\ k <= Ends(s, Len(s)) /\ Len(s) \in Nat
  BY LineEndIs
<1>2. CASE k = 0
  <2>1. Ends(s, 0) = 0
    BY EndsFacts
  <2> QED BY <1>0, <1>2, <2>1 DEF LineEnd
<1>3. CASE k > 0
  <2> DEFINE T == {j \in 0..Len(s) : Ends(s, j) >= k}
  <2>1. Len(s) \in T /\ T \in SUBSET Nat
    BY <1>0
  <2>2. PICK j \in T : \A i \in T : j <= i
    <3> HIDE DEF T
    <3> QED BY <2>1, LeastNumber
  <2>3. Ends(s, 0) = 0
    BY EndsFacts
  <2>4. j \in Nat /\ j # 0
    BY <1>0, <1>3, <2>3
  <2>5. j - 1 \in Nat /\ j - 1 \notin T /\ j - 1 \in 0..j /\ j - 1 \in 0..Len(s)
    BY <2>2, <2>4
  <2>6. Ends(s, j - 1) < k /\ Ends(s, j - 1) \in Nat /\ Ends(s, j) \in Nat
    <3>1. Ends(s, j - 1) \in Nat /\ Ends(s, j) \in Nat
      BY <2>4, <2>5, EndsFacts
    <3> QED BY <1>0, <2>5, <3>1
  <2>7. s[j] = "LF"
    <3> SUFFICES ASSUME s[j] # "LF" PROVE FALSE
      OBVIOUS
    <3>1. \A n \in (j - 1) + 1..j : s[n] # "LF"
      BY <2>4
    <3>2. Ends(s, j - 1) = Ends(s, j)
      BY <2>4, <2>5, <3>1, EndsFacts
    <3> QED BY <1>0, <2>2, <2>6, <3>2
  <2>8. Ends(s, j) = k
    <3>1. Ends(s, j) = Ends(s, j - 1) + 1
      BY <2>4, <2>7, EndsFacts
    <3> QED BY <1>0, <2>2, <2>6, <3>1
  <2>9. LineEnd(s, k) = j /\ j \in 1..Len(s)
    BY <2>4, <2>7, <2>8, LineEndIs
  <2> QED BY <2>7, <2>8, <2>9
<1> QED BY <1>0, <1>2, <1>3

\* The bytes of s from b to e are those of t behind its first d.
Same(s, t, d, b, e) == d + e <= Len(t) /\ \A j \in b..e : t[d + j] = s[j]

\* Two slices with the same bytes are the same, and the same without a CR.
LEMMA SameSlice ==
  ASSUME NEW s \in Seq(Byte), NEW t \in Seq(Byte), NEW d \in Nat,
         NEW b \in Nat \ {0}, NEW e \in 0..Len(s), b <= e + 1, Same(s, t, d, b, e)
  PROVE  /\ SubSeq(s, b, e) = SubSeq(t, d + b, d + e)
         /\ WithoutCR(s, b, e) = WithoutCR(t, d + b, d + e)
         /\ WithoutCR(s, b, e) \in Seq(Byte)
<1>0. /\ Len(s) \in Nat /\ Len(t) \in Nat /\ e \in Nat /\ b \in Nat
      /\ d + e <= Len(t) /\ \A j \in b..e : t[d + j] = s[j]
  BY DEF Same
<1>1. ASSUME NEW z \in {e - 1, e}, b <= z + 1, z \in Nat
      PROVE  SubSeq(s, b, z) = SubSeq(t, d + b, d + z) /\ SubSeq(s, b, z) \in Seq(Byte)
  <2> DEFINE u == SubSeq(s, b, z)
             v == SubSeq(t, d + b, d + z)
  <2>1. z \in 0..Len(s) /\ z <= e
    BY <1>0, <1>1
  <2>2. u \in Seq(Byte) /\ u = [i \in 1..(z - b) + 1 |-> s[(b + i) - 1]]
    BY <1>0, <1>1, <2>1
  <2>3. v = [i \in 1..(z - b) + 1 |-> t[d + ((b + i) - 1)]]
    BY <1>0, <1>1, <2>1
  <2>4. \A i \in 1..(z - b) + 1 : (b + i) - 1 \in b..e
    BY <1>0, <1>1, <2>1
  <2>5. \A i \in 1..(z - b) + 1 : s[(b + i) - 1] = t[d + ((b + i) - 1)]
    BY <1>0, <2>4
  <2> HIDE DEF u, v
  <2>6. u = v
    BY <2>2, <2>3, <2>5
  <2> QED BY <2>2, <2>6 DEF u, v
<1>2. SubSeq(s, b, e) = SubSeq(t, d + b, d + e) /\ SubSeq(s, b, e) \in Seq(Byte)
  BY <1>0, <1>1
<1>3. CASE e >= b /\ s[e] = "CR"
  <2>1. t[d + e] = "CR" /\ d + e >= d + b /\ d + (e - 1) = (d + e) - 1
    BY <1>0, <1>3
  <2>2. SubSeq(s, b, e - 1) = SubSeq(t, d + b, d + (e - 1)) /\ SubSeq(s, b, e - 1) \in Seq(Byte)
    BY <1>0, <1>1, <1>3
  <2>3. WithoutCR(s, b, e) = SubSeq(s, b, e - 1)
    BY <1>3 DEF WithoutCR
  <2>4. WithoutCR(t, d + b, d + e) = SubSeq(t, d + b, (d + e) - 1)
    BY <2>1 DEF WithoutCR
  <2> QED BY <1>2, <2>1, <2>2, <2>3, <2>4
<1>4. CASE ~ (e >= b /\ s[e] = "CR")
  <2>1. ~ (d + e >= d + b /\ t[d + e] = "CR")
    BY <1>0, <1>4
  <2>3. WithoutCR(s, b, e) = SubSeq(s, b, e)
    BY <1>4 DEF WithoutCR
  <2>4. WithoutCR(t, d + b, d + e) = SubSeq(t, d + b, d + e)
    BY <2>1 DEF WithoutCR
  <2> QED BY <1>2, <2>3, <2>4
<1> QED BY <1>3, <1>4

\* The order of two lines' ends.
LEMMA EndsOrdered ==
  ASSUME NEW s \in Seq(Byte), NEW k \in 1..Cardinality(LFs(s))
  PROVE  /\ LineEnd(s, k) \in 1..Len(s) /\ LineEnd(s, k - 1) \in 0..Len(s)
         /\ LineEnd(s, k - 1) < LineEnd(s, k)
<1>1. Cardinality(LFs(s)) \in Nat /\ Len(s) \in Nat
  BY LineEndIs
<1>2. k \in 0..Cardinality(LFs(s)) /\ k - 1 \in 0..Cardinality(LFs(s)) /\ k > 0
  BY <1>1
<1> DEFINE i == LineEnd(s, k - 1)
           j == LineEnd(s, k)
<1>3. /\ i \in 0..Len(s) /\ Ends(s, i) = k - 1
      /\ j \in 1..Len(s) /\ Ends(s, j) = k
  BY <1>1, <1>2, LineEnds
<1> HIDE DEF i, j
<1>4. ASSUME j <= i PROVE FALSE
  <2>1. i \in Nat /\ j \in 0..i
    BY <1>1, <1>3, <1>4
  <2>2. Ends(s, j) <= Ends(s, i)
    BY <2>1, EndsFacts
  <2> QED BY <1>2, <1>3, <2>2
<1> QED BY <1>1, <1>3, <1>4 DEF i, j

\* The lines of a stream are a sequence, one for each LF.
LEMMA LinesAre ==
  ASSUME NEW s \in Seq(Byte)
  PROVE  /\ Lines(s) \in Seq(Seq(Byte)) /\ Len(Lines(s)) = Cardinality(LFs(s))
         /\ Cardinality(LFs(s)) \in Nat
<1>1. Cardinality(LFs(s)) \in Nat /\ Len(s) \in Nat
  BY LineEndIs
<1>2. ASSUME NEW k \in 1..Cardinality(LFs(s))
      PROVE  WithoutCR(s, LineEnd(s, k - 1) + 1, LineEnd(s, k) - 1) \in Seq(Byte)
  <2> DEFINE b == LineEnd(s, k - 1) + 1
             e == LineEnd(s, k) - 1
  <2>1. LineEnd(s, k) \in 1..Len(s) /\ LineEnd(s, k - 1) \in 0..Len(s) /\ LineEnd(s, k - 1) < LineEnd(s, k)
    BY EndsOrdered
  <2>2. b \in Nat \ {0} /\ e \in 0..Len(s) /\ b <= e + 1
    BY <1>1, <2>1
  <2> HIDE DEF b, e
  <2>5. PICK d \in Nat : d = 0
    OBVIOUS
  <2>3. Same(s, s, d, b, e)
    BY <1>1, <2>2, <2>5 DEF Same
  <2>4. WithoutCR(s, b, e) \in Seq(Byte)
    BY <2>2, <2>3, SameSlice
  <2> QED BY <2>4 DEF b, e
<1>3. Lines(s) \in [1..Cardinality(LFs(s)) -> Seq(Byte)]
  BY <1>2 DEF Lines
<1> QED BY <1>1, <1>3

\* More bytes do not change the lines that are there.
LEMMA LinesBefore ==
  ASSUME NEW a \in Seq(Byte), NEW c \in Seq(Byte), Len(a) <= Len(c),
         \A i \in 1..Len(a) : c[i] = a[i]
  PROVE  /\ Cardinality(LFs(a)) <= Cardinality(LFs(c))
         /\ \A k \in 0..Cardinality(LFs(a)) : LineEnd(c, k) = LineEnd(a, k)
         /\ \A k \in 1..Cardinality(LFs(a)) : Lines(c)[k] = Lines(a)[k]
<1>1. \A j \in 0..Len(a) : Ends(c, j) = Ends(a, j)
  <2> TAKE j \in 0..Len(a)
  <2>1. EndsIn(c, j) = EndsIn(a, j)
    BY DEF EndsIn
  <2> QED BY <2>1 DEF Ends
<1>2. /\ Cardinality(LFs(a)) \in Nat /\ Cardinality(LFs(c)) \in Nat /\ Len(a) \in Nat /\ Len(c) \in Nat
      /\ Cardinality(LFs(a)) = Ends(a, Len(a)) /\ Cardinality(LFs(c)) = Ends(c, Len(c))
  BY LineEndIs
<1>3. Cardinality(LFs(a)) <= Cardinality(LFs(c))
  <2>1. Ends(c, Len(a)) <= Ends(c, Len(c)) /\ Ends(c, Len(a)) = Ends(a, Len(a))
    BY <1>1, <1>2, EndsFacts
  <2> QED BY <1>2, <2>1
<1>4. ASSUME NEW k \in 0..Cardinality(LFs(a)) PROVE LineEnd(c, k) = LineEnd(a, k)
  <2>1. CASE k = 0
    BY <2>1 DEF LineEnd
  <2>2. CASE k > 0
    <3> DEFINE j == LineEnd(a, k)
    <3>1. j \in 1..Len(a) /\ Ends(a, j) = k /\ a[j] = "LF"
      BY <1>2, <2>2, LineEnds
    <3> HIDE DEF j
    <3>2. j \in 1..Len(c) /\ c[j] = "LF" /\ Ends(c, j) = k
      BY <1>1, <1>2, <3>1
    <3>3. LineEnd(c, k) = j
      BY <3>2, LineEndIs
    <3> QED BY <3>3 DEF j
  <2> QED BY <1>2, <2>1, <2>2
<1>5. ASSUME NEW k \in 1..Cardinality(LFs(a)) PROVE Lines(c)[k] = Lines(a)[k]
  <2> DEFINE b == LineEnd(a, k - 1) + 1
             e == LineEnd(a, k) - 1
  <2>1. LineEnd(a, k) \in 1..Len(a) /\ LineEnd(a, k - 1) \in 0..Len(a) /\ LineEnd(a, k - 1) < LineEnd(a, k)
    BY EndsOrdered
  <2>2. /\ b \in Nat \ {0} /\ e \in 0..Len(a) /\ b <= e + 1
    BY <1>2, <2>1
  <2>3. k \in 1..Cardinality(LFs(c)) /\ k - 1 \in 0..Cardinality(LFs(a)) /\ k \in 0..Cardinality(LFs(a))
    BY <1>2, <1>3
  <2>4. Lines(a)[k] = WithoutCR(a, b, e)
    BY DEF Lines
  <2>5. Lines(c)[k] = WithoutCR(c, b, e)
    BY <1>4, <2>3 DEF Lines
  <2> HIDE DEF b, e
  <2>6. PICK d \in Nat : d = 0
    OBVIOUS
  <2>7. Same(a, c, d, b, e)
    BY <1>2, <2>2, <2>6 DEF Same
  <2>8. WithoutCR(a, b, e) = WithoutCR(c, d + b, d + e)
    BY <2>2, <2>7, SameSlice
  <2>9. d + b = b /\ d + e = e
    BY <1>2, <2>2, <2>6
  <2> QED BY <2>4, <2>5, <2>8, <2>9
<1> QED BY <1>3, <1>4, <1>5

\* The first LF behind the end of line k ends line k + 1; if there is none, line k
\* is the last.
LEMMA NextLine ==
  ASSUME NEW s \in Seq(Byte), NEW k \in 0..Cardinality(LFs(s))
  PROVE  LET e == LineEnd(s, k) IN
         /\ \A p \in 1..Len(s) - e :
                s[e + p] = "LF" /\ (\A j \in 1..p - 1 : s[e + j] # "LF") =>
                    /\ k + 1 <= Cardinality(LFs(s))
                    /\ LineEnd(s, k + 1) = e + p
                    /\ Lines(s)[k + 1] = WithoutCR(s, e + 1, (e + p) - 1)
         /\ (\A j \in 1..Len(s) - e : s[e + j] # "LF") => k = Cardinality(LFs(s))
<1> DEFINE e == LineEnd(s, k)
<1>1. /\ Cardinality(LFs(s)) \in Nat /\ Len(s) \in Nat
      /\ Cardinality(LFs(s)) = Ends(s, Len(s))
  BY LineEndIs
<1>2. e \in 0..Len(s) /\ Ends(s, e) = k /\ k \in Nat
  BY <1>1, LineEnds
<1>d. e = LineEnd(s, k)
  OBVIOUS
<1> HIDE DEF e
<1>3. ASSUME NEW p \in 1..Len(s) - e, s[e + p] = "LF", \A j \in 1..p - 1 : s[e + j] # "LF"
      PROVE  /\ k + 1 <= Cardinality(LFs(s))
             /\ LineEnd(s, k + 1) = e + p
             /\ Lines(s)[k + 1] = WithoutCR(s, e + 1, (e + p) - 1)
  <2> DEFINE f == (e + p) - 1
             g == e + p
  <2>1. /\ f \in Nat /\ e \in 0..f /\ g \in Nat /\ g > 0 /\ g - 1 = f
        /\ g \in 1..Len(s) /\ g \in 0..Len(s)
    BY <1>1, <1>2
  <2>2. \A n \in e + 1..f : s[n] # "LF"
    <3> TAKE n \in e + 1..f
    <3>1. n - e \in 1..p - 1 /\ e + (n - e) = n
      BY <1>1, <1>2
    <3> QED BY <1>3, <3>1
  <2>3. s[g] = "LF"
    BY <1>3
  <2> HIDE DEF f, g
  <2>4. Ends(s, e) = Ends(s, f)
    BY <2>1, <2>2, EndsFacts
  <2>5. Ends(s, g) = Ends(s, g - 1) + 1
    BY <2>1, <2>3, EndsFacts
  <2>6. Ends(s, g) = k + 1
    BY <1>2, <2>1, <2>4, <2>5
  <2>7. k + 1 <= Cardinality(LFs(s))
    <3>1. Ends(s, g) <= Ends(s, Len(s))
      BY <1>1, <2>1, EndsFacts
    <3> QED BY <1>1, <2>6, <3>1
  <2>8. LineEnd(s, k + 1) = g
    BY <2>1, <2>3, <2>6, LineEndIs
  <2>9. Lines(s)[k + 1] = WithoutCR(s, LineEnd(s, (k + 1) - 1) + 1, LineEnd(s, k + 1) - 1)
    <3>1. k + 1 \in 1..Cardinality(LFs(s))
      BY <1>1, <1>2, <2>7
    <3> QED BY <3>1 DEF Lines
  <2>10. (k + 1) - 1 = k
    BY <1>2
  <2> QED BY <1>d, <2>7, <2>8, <2>9, <2>10 DEF g
<1>4. ASSUME \A j \in 1..Len(s) - e : s[e + j] # "LF" PROVE k = Cardinality(LFs(s))
  <2>1. \A n \in e + 1..Len(s) : s[n] # "LF"
    <3> TAKE n \in e + 1..Len(s)
    <3>1. n - e \in 1..Len(s) - e /\ e + (n - e) = n
      BY <1>1, <1>2
    <3> QED BY <1>4, <3>1
  <2>2. Ends(s, e) = Ends(s, Len(s))
    BY <1>1, <1>2, <2>1, EndsFacts
  <2> QED BY <1>1, <1>2, <2>2
<1> QED BY <1>3, <1>4 DEF e

--------------------------------------------------------------------------------
(* The lines popped. *)

\* What recv has returned, and where the line at the head of the buffer begins.
Arrived == SubSeq(input, 1, read)
LineStart == LineEnd(Arrived, Len(lines))

\* LinesIndependentOfChunks, byte by byte.
LinesInv ==
    /\ Len(lines) <= Cardinality(LFs(Arrived))
    /\ \A k \in 1..Len(lines) : lines[k] = Lines(Arrived)[k]
    /\ Len(recvBuffer) = read - LineStart
    /\ \A j \in 1..Len(recvBuffer) : recvBuffer[j] = Arrived[LineStart + j]
    /\ state = "poll" => Len(lines) = Cardinality(LFs(Arrived))
    /\ state = "rejected" => isLineTooLong(recvBuffer)

\* What arrived, and where its lines are.
ArrivedFacts ==
    /\ Arrived \in Seq(Byte) /\ Len(Arrived) = read /\ read \in Nat /\ Len(input) \in Nat
    /\ read <= Len(input) /\ Len(recvBuffer) \in Nat /\ Len(lines) \in Nat
    /\ \A j \in 1..read : Arrived[j] = input[j]
    /\ Cardinality(LFs(Arrived)) \in Nat
    /\ Len(lines) <= Cardinality(LFs(Arrived)) =>
           Len(lines) \in 0..Cardinality(LFs(Arrived)) /\ LineStart \in 0..read

\* They hold in every state with the right types.
LEMMA ArrivedIs == TypeOK => ArrivedFacts
<1> HAVE TypeOK
<1>1. /\ input \in Seq(Byte) /\ read \in 0..Len(input) /\ Len(input) \in Nat /\ read \in Nat
      /\ Len(recvBuffer) \in Nat /\ Len(lines) \in Nat
  BY DEF TypeOK
<1>2. Arrived \in Seq(Byte) /\ Len(Arrived) = read /\ \A j \in 1..read : Arrived[j] = input[j]
  BY <1>1 DEF Arrived
<1>3. Cardinality(LFs(Arrived)) \in Nat
  BY <1>2, LineEndIs
<1>4. ASSUME Len(lines) <= Cardinality(LFs(Arrived))
      PROVE  Len(lines) \in 0..Cardinality(LFs(Arrived)) /\ LineStart \in 0..read
  <2>1. Len(lines) \in 0..Cardinality(LFs(Arrived))
    BY <1>1, <1>3, <1>4
  <2> QED BY <1>2, <2>1, LineEnds DEF LineStart
<1> QED BY <1>1, <1>2, <1>3, <1>4 DEF ArrivedFacts

\* What the peer sends is not there yet, and what the server does with a buffer
\* that has no line leaves the lines alone.
LEMMA LinesKept ==
  ASSUME TypeOK, LinesInv, UNCHANGED <<read, recvBuffer, lines, state>>, Arrived' = Arrived
  PROVE  LinesInv'
  BY DEF LinesInv, LineStart

\* The bytes of one recv follow those that arrived before.
LEMMA ReadLines == TypeOK /\ TypeOK' /\ LinesInv /\ readFromSocket => LinesInv'
<1> SUFFICES ASSUME TypeOK, TypeOK', LinesInv, readFromSocket PROVE LinesInv'
  OBVIOUS
<1>1. PICK n \in 1..BufSize :
         /\ read + n <= Len(input) /\ read' = read + n
         /\ recvBuffer' = recvBuffer \o SubSeq(input, read + 1, read + n)
  BY DEF readFromSocket
<1> DEFINE a == Arrived
           c == Arrived'
           h == LineStart
<1>2. n \in Nat /\ n > 0
  BY <1>1, ConnectionAssumption
<1>3. input' = input /\ lines' = lines
  BY DEF readFromSocket
<1>4. /\ a \in Seq(Byte) /\ Len(a) = read /\ read \in Nat /\ Len(input) \in Nat
      /\ Len(recvBuffer) \in Nat /\ Len(lines) \in Nat /\ \A j \in 1..read : a[j] = input[j]
      /\ Cardinality(LFs(a)) \in Nat
      /\ Len(lines) \in 0..Cardinality(LFs(a)) /\ h \in 0..read
  BY ArrivedIs DEF ArrivedFacts, LinesInv
<1>5. /\ c \in Seq(Byte) /\ Len(c) = read + n /\ \A j \in 1..read + n : c[j] = input[j]
      /\ Cardinality(LFs(c)) \in Nat
  <2>1. TypeOK' => ArrivedFacts'
    BY ArrivedIs, PTL
  <2>2. /\ c \in Seq(Byte) /\ Len(c) = read' /\ \A j \in 1..read' : c[j] = input'[j]
        /\ Cardinality(LFs(c)) \in Nat
    BY <2>1 DEF ArrivedFacts
  <2> QED BY <1>1, <1>3, <2>2
<1>d. /\ LineStart' = LineEnd(c, Len(lines')) /\ h = LineEnd(a, Len(lines))
      /\ (\A j \in 1..Len(recvBuffer) : recvBuffer[j] = a[h + j]) /\ Len(recvBuffer) = read - h
      /\ (\A k \in 1..Len(lines) : lines[k] = Lines(a)[k])
  BY DEF LineStart, LinesInv
<1>g. ASSUME /\ Len(lines') <= Cardinality(LFs(c))
             /\ \A k \in 1..Len(lines') : lines'[k] = Lines(c)[k]
             /\ Len(recvBuffer') = read' - h
             /\ \A j \in 1..Len(recvBuffer') : recvBuffer'[j] = c[h + j]
             /\ h = LineStart'
             /\ state' # "poll"
             /\ state' = "rejected" => isLineTooLong(recvBuffer')
      PROVE  LinesInv'
  BY <1>g DEF LinesInv
<1> HIDE DEF a, c, h
<1>6. Len(a) <= Len(c) /\ \A j \in 1..Len(a) : c[j] = a[j]
  BY <1>2, <1>4, <1>5, SMTT(30)
<1>7. /\ Cardinality(LFs(a)) <= Cardinality(LFs(c))
      /\ LineEnd(c, Len(lines)) = LineEnd(a, Len(lines))
      /\ \A k \in 1..Len(lines) : Lines(c)[k] = Lines(a)[k]
  <2>1. /\ Cardinality(LFs(a)) <= Cardinality(LFs(c))
        /\ \A k \in 0..Cardinality(LFs(a)) : LineEnd(c, k) = LineEnd(a, k)
        /\ \A k \in 1..Cardinality(LFs(a)) : Lines(c)[k] = Lines(a)[k]
    BY <1>4, <1>5, <1>6, LinesBefore
  <2> QED BY <1>4, <2>1
<1> DEFINE chunk == SubSeq(input, read + 1, read + n)
           l == Len(recvBuffer)
<1>8. chunk \in Seq(Byte) /\ Len(chunk) = n /\ \A j \in 1..n : chunk[j] = input[read + j]
  BY <1>1, <1>2, <1>4, SMTT(30) DEF TypeOK
<1>9. recvBuffer' = recvBuffer \o chunk /\ recvBuffer \in Seq(Byte) /\ l \in Nat /\ l = read - h
  BY <1>1, <1>4, <1>d DEF TypeOK
<1> HIDE DEF chunk
<1>10. /\ Len(recvBuffer') = l + n
       /\ \A j \in 1..l : recvBuffer'[j] = recvBuffer[j]
       /\ \A j \in 1..n : recvBuffer'[l + j] = chunk[j]
  <2> DEFINE r == recvBuffer
  <2>1. r \in Seq(Byte) /\ l = Len(r)
    BY <1>9
  <2> HIDE DEF r
  <2>2. /\ Len(r \o chunk) = Len(r) + Len(chunk)
        /\ \A j \in 1..Len(r) : (r \o chunk)[j] = r[j]
        /\ \A j \in 1..Len(chunk) : (r \o chunk)[Len(r) + j] = chunk[j]
    BY <1>8, <2>1
  <2> QED BY <1>8, <1>9, <2>1, <2>2 DEF r
<1>11. \A j \in 1..l : recvBuffer[j] = a[h + j]
  BY <1>d
<1> HIDE DEF l
<1>12. Len(recvBuffer') = read' - h
  BY <1>1, <1>2, <1>4, <1>9, <1>10
<1>13. ASSUME NEW j \in 1..Len(recvBuffer') PROVE recvBuffer'[j] = c[h + j]
  <2>1. CASE j <= l
    <3>1. j \in 1..l /\ h + j \in 1..read /\ h + j \in 1..Len(a)
      BY <1>4, <1>9, <1>10, <2>1
    <3> QED BY <1>6, <1>10, <1>11, <3>1
  <2>2. CASE j > l
    <3>1. j - l \in 1..n /\ l + (j - l) = j /\ read + (j - l) = h + j /\ h + j \in 1..read + n
      BY <1>2, <1>4, <1>9, <1>10, <2>2
    <3>2. recvBuffer'[j] = chunk[j - l] /\ chunk[j - l] = input[h + j]
      BY <1>8, <1>10, <3>1
    <3> QED BY <1>5, <3>1, <3>2
  <2>3. j \in Nat
    BY <1>2, <1>9, <1>10
  <2> QED BY <1>9, <2>1, <2>2, <2>3
<1>14. Len(lines') <= Cardinality(LFs(c)) /\ \A k \in 1..Len(lines') : lines'[k] = Lines(c)[k]
  BY <1>3, <1>4, <1>5, <1>7, <1>d, SMTT(30)
<1>15. h = LineStart'
  BY <1>3, <1>7, <1>d
<1>16. state' # "poll" /\ (state' = "rejected" => isLineTooLong(recvBuffer'))
  BY DEF readFromSocket
<1> QED BY <1>12, <1>13, <1>14, <1>15, <1>16, <1>g

\* The line popped is the next line of the stream.
LEMMA PopLines == TypeOK /\ LinesInv /\ popLine => LinesInv'
<1> SUFFICES ASSUME TypeOK, LinesInv, popLine PROVE LinesInv'
  OBVIOUS
<1>1. PICK p \in 1..Len(recvBuffer) :
         /\ FirstLF(recvBuffer, p)
         /\ lines' = Append(lines, WithoutCR(recvBuffer, 1, p - 1))
         /\ recvBuffer' = SubSeq(recvBuffer, p + 1, Len(recvBuffer))
  BY DEF popLine
<1> DEFINE a == Arrived
           h == LineStart
           k == Len(lines)
           l == Len(recvBuffer)
<1>2. input' = input /\ read' = read /\ Arrived' = a
  BY DEF popLine, Arrived
<1>3. /\ a \in Seq(Byte) /\ Len(a) = read /\ read \in Nat
      /\ l \in Nat /\ k \in Nat /\ Cardinality(LFs(a)) \in Nat
      /\ k \in 0..Cardinality(LFs(a)) /\ h \in 0..read
  BY ArrivedIs DEF ArrivedFacts, LinesInv
<1>4. /\ h = LineEnd(a, k) /\ l = read - h /\ LineStart' = LineEnd(Arrived', Len(lines'))
      /\ \A j \in 1..l : recvBuffer[j] = a[h + j]
      /\ \A i \in 1..k : lines[i] = Lines(a)[i]
  BY DEF LineStart, LinesInv
<1>5. p \in 1..l /\ recvBuffer[p] = "LF" /\ \A j \in 1..p - 1 : recvBuffer[j] # "LF"
  BY <1>1 DEF FirstLF
<1>6. recvBuffer \in Seq(Byte) /\ lines \in Seq(Seq(Byte))
  BY DEF TypeOK
<1>g. ASSUME /\ Len(lines') <= Cardinality(LFs(a))
             /\ \A i \in 1..Len(lines') : lines'[i] = Lines(a)[i]
             /\ Len(recvBuffer') = read - (h + p)
             /\ \A j \in 1..Len(recvBuffer') : recvBuffer'[j] = a[(h + p) + j]
             /\ LineStart' = h + p
      PROVE  LinesInv'
  <2>1. state' # "poll" /\ state' # "rejected"
    BY DEF popLine
  <2> QED BY <1>2, <1>g, <2>1 DEF LinesInv
<1>7. LET e == LineEnd(a, k) IN
      \A q \in 1..Len(a) - e :
                a[e + q] = "LF" /\ (\A j \in 1..q - 1 : a[e + j] # "LF") =>
                    /\ k + 1 <= Cardinality(LFs(a))
                    /\ LineEnd(a, k + 1) = e + q
                    /\ Lines(a)[k + 1] = WithoutCR(a, e + 1, (e + q) - 1)
  <2> HIDE DEF a, k
  <2> QED BY <1>3, NextLine
<1>8. /\ recvBuffer' = SubSeq(recvBuffer, p + 1, l) /\ Len(lines') = k + 1
      /\ \A i \in 1..k : lines'[i] = lines[i]
      /\ lines'[k + 1] = WithoutCR(recvBuffer, 1, p - 1)
  <2> DEFINE w == WithoutCR(recvBuffer, 1, p - 1)
  <2>1. PICK b \in Nat \ {0}, e \in 0..l, d \in Nat : b = 1 /\ e = p - 1 /\ d = 0
    BY <1>3, <1>5
  <2>2. b <= e + 1 /\ Same(recvBuffer, recvBuffer, d, b, e)
    BY <1>3, <1>5, <2>1 DEF Same
  <2>3. WithoutCR(recvBuffer, b, e) \in Seq(Byte)
    BY <1>6, <2>1, <2>2, SameSlice
  <2>4. w \in Seq(Byte)
    BY <2>1, <2>3
  <2> HIDE DEF w
  <2>5. lines' = Append(lines, w)
    BY <1>1 DEF w
  <2>6. Len(lines') = k + 1 /\ lines'[k + 1] = w /\ \A i \in 1..k : lines'[i] = lines[i]
    BY <1>6, <2>4, <2>5
  <2> QED BY <1>1, <2>6 DEF w
<1> HIDE DEF a, h, k, l
<1>9. /\ k + 1 <= Cardinality(LFs(a))
      /\ LineEnd(a, k + 1) = h + p
      /\ Lines(a)[k + 1] = WithoutCR(a, h + 1, (h + p) - 1)
  <2>1. p \in 1..Len(a) - h
    BY <1>3, <1>4, <1>5
  <2>2. a[h + p] = "LF"
    BY <1>4, <1>5
  <2>3. \A j \in 1..p - 1 : a[h + j] # "LF"
    <3> TAKE j \in 1..p - 1
    <3>1. j \in 1..l
      BY <1>3, <1>5
    <3> QED BY <1>4, <1>5, <3>1
  <2> QED BY <1>4, <1>7, <2>1, <2>2, <2>3
<1>10. WithoutCR(recvBuffer, 1, p - 1) = WithoutCR(a, h + 1, (h + p) - 1)
  <2>1. PICK b \in Nat \ {0}, e \in 0..l : b = 1 /\ e = p - 1
    BY <1>3, <1>5
  <2>2. b <= e + 1 /\ h \in Nat /\ h + b = h + 1 /\ h + e = (h + p) - 1
    BY <1>3, <1>5, <2>1
  <2>3. Same(recvBuffer, a, h, b, e)
    <3>1. h + e <= Len(a)
      BY <1>3, <1>4, <1>5, <2>1
    <3>2. \A j \in b..e : j \in 1..l
      BY <1>3, <1>5, <2>1
    <3> QED BY <1>4, <3>1, <3>2 DEF Same
  <2>4. WithoutCR(recvBuffer, b, e) = WithoutCR(a, h + b, h + e)
    <3>1. e \in 0..Len(recvBuffer)
      BY DEF l
    <3> QED BY <1>3, <1>6, <2>2, <2>3, <3>1, SameSlice
  <2> QED BY <2>1, <2>2, <2>4
<1>11. ASSUME NEW i \in 1..Len(lines') PROVE lines'[i] = Lines(a)[i]
  <2>1. i \in 1..k \/ i = k + 1
    BY <1>3, <1>8
  <2>2. i \in 1..k => lines'[i] = Lines(a)[i]
    BY <1>4, <1>8
  <2>3. lines'[k + 1] = Lines(a)[k + 1]
    BY <1>8, <1>9, <1>10
  <2> QED BY <2>1, <2>2, <2>3
<1>12. /\ Len(recvBuffer') = l - p
       /\ \A j \in 1..l - p : recvBuffer'[j] = recvBuffer[p + j]
  <2>1. l = Len(recvBuffer)
    BY DEF l
  <2> QED BY <1>3, <1>5, <1>6, <1>8, <2>1, SMTT(30)
<1>13. Len(recvBuffer') = read - (h + p)
  BY <1>3, <1>4, <1>5, <1>12
<1>14. ASSUME NEW j \in 1..Len(recvBuffer') PROVE recvBuffer'[j] = a[(h + p) + j]
  <2>1. j \in 1..l - p /\ p + j \in 1..l /\ h + (p + j) = (h + p) + j
    BY <1>3, <1>5, <1>12
  <2> QED BY <1>4, <1>12, <2>1
<1>15. LineStart' = h + p
  BY <1>2, <1>4, <1>8, <1>9
<1>16. Len(lines') <= Cardinality(LFs(a))
  BY <1>8, <1>9
<1> QED BY <1>11, <1>13, <1>14, <1>15, <1>16, <1>g

\* When the loop over the lines ends, no line that arrived is left.
LEMMA PoppedAll == TypeOK /\ LinesInv /\ AllPopped => LinesInv'
<1> SUFFICES ASSUME TypeOK, LinesInv, AllPopped PROVE LinesInv'
  OBVIOUS
<1> DEFINE a == Arrived
           h == LineStart
           k == Len(lines)
<1>1. UNCHANGED <<read, recvBuffer, lines>> /\ Arrived' = a /\ LineStart' = h /\ state' = "poll"
  BY DEF AllPopped, Arrived, LineStart
<1>2. /\ a \in Seq(Byte) /\ Len(a) = read /\ read \in Nat
      /\ k \in 0..Cardinality(LFs(a)) /\ h \in 0..read
  BY ArrivedIs DEF ArrivedFacts, LinesInv
<1>3. Len(recvBuffer) = read - h /\ \A j \in 1..Len(recvBuffer) : recvBuffer[j] = a[h + j]
  BY DEF LinesInv
<1>4. \A j \in 1..Len(a) - h : a[h + j] # "LF"
  BY <1>2, <1>3 DEF AllPopped, hasCompleteLine
<1>5. k = Cardinality(LFs(a))
  <2>1. h = LineEnd(a, k)
    BY DEF LineStart
  <2> HIDE DEF a, h, k
  <2>2. LET e == LineEnd(a, k) IN (\A j \in 1..Len(a) - e : a[e + j] # "LF") => k = Cardinality(LFs(a))
    BY <1>2, NextLine
  <2> QED BY <1>4, <2>1, <2>2
<1> QED BY <1>1, <1>5 DEF LinesInv

\* Why the lines are right: the buffer is what arrived behind the lines popped.
THEOREM LinesInvariant == Spec => []LinesInv
<1>1. Init => LinesInv
  <2> SUFFICES ASSUME Init PROVE LinesInv
    OBVIOUS
  <2>1. TypeOK /\ lines = <<>> /\ recvBuffer = <<>> /\ read = 0 /\ state = "poll"
    BY ConnectionAssumption DEF Init, TypeOK
  <2>2. Arrived \in Seq(Byte) /\ Len(Arrived) = 0 /\ Len(lines) = 0 /\ Len(recvBuffer) = 0
    BY <2>1, ArrivedIs DEF ArrivedFacts
  <2>3. Cardinality(LFs(Arrived)) = 0 /\ LineStart = 0
    <3>1. LFs(Arrived) = {}
      BY <2>2 DEF LFs
    <3> QED BY <2>2, <3>1, FS_EmptySet DEF LineStart, LineEnd
  <2> QED BY <2>1, <2>2, <2>3 DEF LinesInv
<1>2. TypeOK /\ TypeOK' /\ LinesInv /\ [Next]_vars => LinesInv'
  <2> SUFFICES ASSUME TypeOK, TypeOK', LinesInv, [Next]_vars PROVE LinesInv'
    OBVIOUS
  <2>1. CASE PeerSend
    <3>1. PICK b \in Byte : input' = Append(input, b)
      BY <2>1 DEF PeerSend
    <3>2. SubSeq(Append(input, b), 1, read) = SubSeq(input, 1, read)
      BY DEF TypeOK
    <3>3. Arrived' = Arrived /\ UNCHANGED <<read, recvBuffer, lines, state>>
      BY <2>1, <3>1, <3>2 DEF PeerSend, Arrived
    <3> QED BY <3>3, LinesKept
  <2>2. CASE bufferSend \/ writeToSocket \/ UNCHANGED vars
    <3>1. Arrived' = Arrived /\ UNCHANGED <<read, recvBuffer, lines, state>>
      BY <2>2 DEF bufferSend, writeToSocket, vars, inVars, Arrived
    <3> QED BY <3>1, LinesKept
  <2>3. CASE EndOfInput
    <3>1. Arrived' = Arrived /\ LineStart' = LineStart /\ UNCHANGED <<read, recvBuffer, lines>> /\ state' = "ended"
      BY <2>3 DEF EndOfInput, Arrived, LineStart
    <3> QED BY <3>1 DEF LinesInv
  <2> QED BY <2>1, <2>2, <2>3, ReadLines, PopLines, PoppedAll DEF Next
<1> QED BY <1>1, <1>2, TypeCorrect, PTL DEF Spec

\* However the stream is cut into recvs, the lines popped are its lines, in order
\* and each once, and the buffer holds the rest of what arrived.
THEOREM LinesOfTheStream == Spec => []LinesIndependentOfChunks
<1>1. TypeOK /\ LinesInv => LinesIndependentOfChunks
  <2> SUFFICES ASSUME TypeOK, LinesInv PROVE LinesIndependentOfChunks
    OBVIOUS
  <2> DEFINE a == Arrived
             h == LineStart
             k == Len(lines)
             l == Len(recvBuffer)
  <2>1. /\ a \in Seq(Byte) /\ Len(a) = read /\ read \in Nat /\ Len(input) \in Nat
        /\ read <= Len(input) /\ l \in Nat /\ k \in Nat
        /\ \A j \in 1..read : a[j] = input[j]
        /\ k \in 0..Cardinality(LFs(a)) /\ h \in 0..read
    BY ArrivedIs DEF ArrivedFacts, LinesInv
  <2>2. Lines(a) \in Seq(Seq(Byte)) /\ Len(Lines(a)) = Cardinality(LFs(a)) /\ Cardinality(LFs(a)) \in Nat
    <3> HIDE DEF a
    <3> QED BY <2>1, LinesAre
  <2>3. input \in Seq(Byte) /\ recvBuffer \in Seq(Byte) /\ lines \in Seq(Seq(Byte))
    BY DEF TypeOK
  <2>4. /\ \A i \in 1..k : lines[i] = Lines(a)[i]
        /\ l = read - h
        /\ \A j \in 1..l : recvBuffer[j] = a[h + j]
        /\ state = "poll" => k = Cardinality(LFs(a))
    BY DEF LinesInv
  <2>g. ASSUME /\ k <= Len(Lines(a))
               /\ lines = SubSeq(Lines(a), 1, k)
               /\ recvBuffer = SubSeq(input, h + 1, read)
               /\ state = "poll" => k = Len(Lines(a))
        PROVE  LinesIndependentOfChunks
    BY <2>g DEF LinesIndependentOfChunks, Arrived, LineStart
  <2>l. l = Len(recvBuffer) /\ k = Len(lines)
    OBVIOUS
  <2> HIDE DEF a, h, k, l
  <2>5. lines = SubSeq(Lines(a), 1, k)
    <3> DEFINE t == Lines(a)
    <3>1. t \in Seq(Seq(Byte)) /\ k \in 0..Len(t) /\ \A i \in 1..k : lines[i] = t[i]
      BY <2>1, <2>2, <2>4
    <3> HIDE DEF t
    <3>2. /\ SubSeq(t, 1, k) \in Seq(Seq(Byte)) /\ Len(SubSeq(t, 1, k)) = k
          /\ \A i \in 1..k : SubSeq(t, 1, k)[i] = t[i]
      BY <3>1
    <3>3. lines = SubSeq(t, 1, k)
      BY <2>3, <2>l, <3>1, <3>2
    <3> QED BY <3>3 DEF t
  <2>6. recvBuffer = SubSeq(input, h + 1, read)
    <3>1. SubSeq(input, h + 1, read) = [j \in 1..l |-> input[h + j]]
      BY <2>1, <2>3, <2>4
    <3>2. \A j \in 1..l : h + j \in 1..read
      BY <2>1, <2>4
    <3>3. \A j \in 1..l : recvBuffer[j] = input[h + j]
      BY <2>1, <2>4, <3>2
    <3>4. recvBuffer = [j \in 1..l |-> recvBuffer[j]]
      BY <2>3, <2>l
    <3> QED BY <3>1, <3>3, <3>4
  <2>7. k <= Len(Lines(a)) /\ (state = "poll" => k = Len(Lines(a)))
    BY <2>1, <2>2, <2>4
  <2> QED BY <2>5, <2>6, <2>7, <2>g
<1> QED BY <1>1, LinesInvariant, TypeCorrect, PTL

\* Only a line that is longer than MaxLine bytes gets a connection rejected,
\* however recv cut the stream.
THEOREM RejectsLongLines == Spec => []OnlyLongLinesRejected
<1>1. TypeOK /\ LinesInv => OnlyLongLinesRejected
  <2> SUFFICES ASSUME TypeOK, LinesInv, state = "rejected"
               PROVE  /\ Len(input) > LineEnd(input, Len(lines)) + MaxLine
                      /\ \A j \in LineEnd(input, Len(lines)) + 1..LineEnd(input, Len(lines)) + MaxLine :
                             input[j] # "LF"
    BY DEF OnlyLongLinesRejected
  <2> DEFINE a == Arrived
             h == LineStart
             k == Len(lines)
             l == Len(recvBuffer)
             m == Len(input)
  <2>1. /\ a \in Seq(Byte) /\ Len(a) = read /\ read \in Nat /\ m \in Nat
        /\ read <= m /\ l \in Nat /\ k \in Nat
        /\ \A j \in 1..read : a[j] = input[j]
        /\ k \in 0..Cardinality(LFs(a)) /\ h \in 0..read /\ h = LineEnd(a, k)
    BY ArrivedIs DEF ArrivedFacts, LinesInv, LineStart
  <2>2. input \in Seq(Byte) /\ m = Len(input)
    BY DEF TypeOK
  <2>3. l = read - h /\ \A j \in 1..l : recvBuffer[j] = a[h + j]
    BY DEF LinesInv
  <2>4. l > MaxLine /\ MaxLine \in Nat /\ \A j \in 1..MaxLine : recvBuffer[j] # "LF"
    BY ConnectionAssumption DEF LinesInv, isLineTooLong
  <2>g. ASSUME LineEnd(input, k) = h, m > h + MaxLine, \A j \in h + 1..h + MaxLine : input[j] # "LF"
        PROVE  /\ Len(input) > LineEnd(input, Len(lines)) + MaxLine
               /\ \A j \in LineEnd(input, Len(lines)) + 1..LineEnd(input, Len(lines)) + MaxLine :
                      input[j] # "LF"
    BY <2>g
  <2> HIDE DEF a, h, k, l, m
  <2>5. Len(a) <= Len(input) /\ \A j \in 1..Len(a) : input[j] = a[j]
    BY <2>1, <2>2
  <2>6. LineEnd(input, k) = h
    <3>1. \A i \in 0..Cardinality(LFs(a)) : LineEnd(input, i) = LineEnd(a, i)
      BY <2>1, <2>2, <2>5, LinesBefore
    <3> QED BY <2>1, <3>1
  <2>7. m > h + MaxLine
    BY <2>1, <2>3, <2>4
  <2>8. ASSUME NEW j \in h + 1..h + MaxLine PROVE input[j] # "LF"
    <3>1. j - h \in 1..MaxLine /\ j - h \in 1..l /\ h + (j - h) = j /\ j \in 1..read
      BY <2>1, <2>3, <2>4
    <3> QED BY <2>1, <2>3, <2>4, <3>1
  <2> QED BY <2>6, <2>7, <2>8, <2>g
<1> QED BY <1>1, LinesInvariant, TypeCorrect, PTL
================================================================================
