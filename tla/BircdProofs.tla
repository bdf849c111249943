------------------------------ MODULE BircdProofs ------------------------------
(******************************************************************************)
(* The proofs about bircd: for any BUF_SIZE, number of slots and input, the   *)
(* fixed buffers are not overrun, messages reach a client that came to an     *)
(* empty slot unharmed, and only clients that lag behind lose messages.       *)
(******************************************************************************)
EXTENDS Bircd, SequenceTheorems, TLAPS

Cell == Byte \cup {"NUL"}
Buffer == [0..BUF_SIZE -> Cell]

--------------------------------------------------------------------------------
(* The inductive invariant. *)

TypeOK ==
    /\ client \in SUBSET Fds
    /\ readBuf \in [Fds -> Seq(Byte)]
    /\ writeBuf \in [Fds -> Buffer]
    /\ writeLen \in [Fds -> Nat]
    /\ socket \in [Fds -> Seq(Byte)]
    /\ owed \in [Fds -> Seq(Cell)]
    /\ sent \in [Fds -> Seq(Cell)]
    /\ dropped \in [Fds -> Nat]
    /\ blank \in SUBSET client

ReadBounded == \A fd \in Fds : Len(readBuf[fd]) <= BUF_SIZE

\* The first NUL of the array a is at n.
FirstNul(a, n) == n \in 0..BUF_SIZE /\ a[n] = "NUL" /\ \A j \in 0..n - 1 : a[j] # "NUL"

\* buf_write has a first NUL, and it is not before buf_write_len: with what a former
\* client left in the slot the two may differ, but only in this direction.
NulBehindLen == \A fd \in Fds : \E n \in 0..BUF_SIZE : FirstNul(writeBuf[fd], n) /\ writeLen[fd] <= n

\* For a client that came to an empty slot they agree, and nothing is lost or doubled.
BlankIntact ==
    \A fd \in blank :
        /\ FirstNul(writeBuf[fd], writeLen[fd])
        /\ sent[fd] \o Cells(writeBuf[fd], writeLen[fd]) = owed[fd]

\* The history of a connection begins with it.
SlotsReset == \A fd \in Fds \ client : owed[fd] = <<>> /\ sent[fd] = <<>>

Inv == TypeOK /\ ReadBounded /\ NulBehindLen /\ BlankIntact /\ SlotsReset

--------------------------------------------------------------------------------
(* The C library. *)

\* Input has no NUL, and a buffer has at least two cells.
LEMMA ByteFacts == /\ "NUL" \notin Byte /\ Byte \subseteq Cell
                   /\ BUF_SIZE \in Nat /\ BUF_SIZE > 1
  BY BircdAssumption DEF Byte, Cell

\* strlen finds the first NUL.
LEMMA StrlenIs ==
  ASSUME NEW a \in Buffer, NEW n, FirstNul(a, n)
  PROVE  strlen(a) = n
<1>1. DOMAIN a = 0..BUF_SIZE /\ n \in 0..BUF_SIZE /\ BUF_SIZE \in Nat
  BY ByteFacts DEF Buffer, FirstNul
<1>2. ASSUME NEW k \in DOMAIN a, a[k] = "NUL", \A j \in 0..k - 1 : a[j] # "NUL"
      PROVE  k = n
  <2>1. ~(k < n)
    BY <1>1, <1>2 DEF FirstNul
  <2>2. ~(n < k)
    BY <1>1, <1>2 DEF FirstNul
  <2> QED BY <1>1, <2>1, <2>2
<1> QED BY <1>1, <1>2 DEF strlen, FirstNul

\* Cells is the beginning of the array as a sequence.
LEMMA CellsSeq ==
  ASSUME NEW a \in Buffer, NEW n \in 0..BUF_SIZE
  PROVE  /\ Cells(a, n) \in Seq(Cell) /\ Len(Cells(a, n)) = n
         /\ \A j \in 1..n : Cells(a, n)[j] = a[j - 1]
<1>1. n \in Nat /\ \A j \in 1..n : a[j - 1] \in Cell
  BY ByteFacts DEF Buffer
<1> QED BY <1>1 DEF Cells

\* ft_strlcat of a message that fits behind the n bytes counted in buf_write_len keeps
\* the NUL behind what is counted then; and if the count was right, the message is
\* appended whole and the count stays right.
LEMMA Catted ==
  ASSUME NEW a \in Buffer, NEW n, FirstNul(a, n), NEW s \in Seq(Byte),
         NEW len \in 0..n, len + Len(s) <= BUF_SIZE
  PROVE  /\ strlcat(a, s) \in Buffer
         /\ \E m \in 0..BUF_SIZE : FirstNul(strlcat(a, s), m) /\ len + Len(s) <= m
         /\ len = n => /\ FirstNul(strlcat(a, s), len + Len(s))
                       /\ Cells(strlcat(a, s), len + Len(s)) = Cells(a, len) \o s
<1> DEFINE k == IF n + Len(s) > BUF_SIZE THEN BUF_SIZE - n ELSE Len(s)
           r == strlcat(a, s)
<1>1. /\ n \in 0..BUF_SIZE /\ BUF_SIZE \in Nat /\ Len(s) \in Nat
      /\ \A j \in 1..Len(s) : s[j] \in Cell /\ s[j] # "NUL"
      /\ \A j \in 0..BUF_SIZE : a[j] \in Cell
  BY ByteFacts DEF FirstNul, Buffer
<1>2. k \in Nat /\ k <= Len(s) /\ n + k <= BUF_SIZE /\ len + Len(s) <= n + k
  BY <1>1
<1>3. r = [j \in 0..BUF_SIZE |-> IF j \in n..n + k - 1 THEN s[j - n + 1]
                                 ELSE IF j = n + k THEN "NUL" ELSE a[j]]
  BY StrlenIs DEF strlcat, strlcpy
<1>4. len = n => k = Len(s)
  BY <1>1
<1> HIDE DEF k, r
<1>5. /\ \A j \in 0..n - 1 : r[j] = a[j]
      /\ \A j \in n..n + k - 1 : r[j] = s[j - n + 1]
      /\ r[n + k] = "NUL"
  BY <1>1, <1>2, <1>3
<1>6. r \in Buffer
  <2>1. "NUL" \in Cell
    BY DEF Cell
  <2>2. \A j \in n..n + k - 1 : s[j - n + 1] \in Cell
    BY <1>1, <1>2
  <2> QED BY <1>1, <1>3, <2>1, <2>2 DEF Buffer
<1>7. FirstNul(r, n + k)
  <2>1. ASSUME NEW j \in 0..n + k - 1 PROVE r[j] # "NUL"
    <3>1. CASE j < n
      BY <1>1, <1>2, <1>5, <3>1 DEF FirstNul
    <3>2. CASE j >= n
      <4>1. j \in n..n + k - 1 /\ j - n + 1 \in 1..Len(s)
        BY <1>1, <1>2, <3>2
      <4> QED BY <1>1, <1>5, <4>1
    <3> QED BY <1>1, <1>2, <3>1, <3>2
  <2> QED BY <1>1, <1>2, <1>5, <2>1 DEF FirstNul
<1>8. ASSUME len = n PROVE Cells(r, len + Len(s)) = Cells(a, len) \o s
  <2>1. len \in 0..BUF_SIZE /\ len + Len(s) \in 0..BUF_SIZE
    BY <1>1
  <2> DEFINE c == Cells(a, len)
             d == Cells(r, len + Len(s))
  <2>2. /\ c \in Seq(Cell) /\ Len(c) = len /\ \A j \in 1..len : c[j] = a[j - 1]
        /\ d \in Seq(Cell) /\ Len(d) = len + Len(s)
        /\ \A j \in 1..len + Len(s) : d[j] = r[j - 1]
    BY <1>6, <2>1, CellsSeq
  <2> HIDE DEF c, d
  <2>3. s \in Seq(Cell)
    BY ByteFacts, SeqMonotonic
  <2> DEFINE e == c \o s
  <2>4. /\ e \in Seq(Cell) /\ Len(e) = len + Len(s)
        /\ \A j \in 1..len + Len(s) : e[j] = IF j <= len THEN c[j] ELSE s[j - len]
    BY <2>2, <2>3, ConcatProperties
  <2> HIDE DEF e
  <2>5. ASSUME NEW j \in 1..len + Len(s) PROVE d[j] = e[j]
    <3>0. j \in Nat /\ len \in Nat
      BY <1>1
    <3>1. CASE j <= len
      <4>1. j \in 1..len /\ j - 1 \in 0..n - 1
        BY <1>1, <1>8, <3>0, <3>1
      <4> QED BY <1>5, <2>2, <2>4, <3>1, <4>1
    <3>2. CASE j > len
      <4>1. j - 1 \in n..n + k - 1 /\ (j - 1) - n + 1 = j - len
        BY <1>1, <1>4, <1>8, <3>0, <3>2
      <4>2. e[j] = s[j - len]
        BY <2>4, <3>0, <3>2
      <4> QED BY <1>5, <2>2, <4>1, <4>2
    <3> QED BY <3>0, <3>1, <3>2
  <2>6. d = e
    BY <2>2, <2>4, <2>5, SeqEqual
  <2> QED BY <2>6 DEF c, d, e
<1> QED BY <1>1, <1>2, <1>4, <1>6, <1>7, <1>8 DEF r

\* ft_memmove of what is left behind c bytes sent, with the byte behind it.
LEMMA Moved ==
  ASSUME NEW a \in Buffer, NEW n, FirstNul(a, n), NEW len \in 0..n, NEW c \in 1..len
  PROVE  /\ memmove(a, c, len - c + 1) \in Buffer
         /\ \E m \in 0..BUF_SIZE : FirstNul(memmove(a, c, len - c + 1), m) /\ len - c <= m
         /\ len = n => /\ FirstNul(memmove(a, c, len - c + 1), len - c)
                       /\ Cells(a, c) \o Cells(memmove(a, c, len - c + 1), len - c) = Cells(a, len)
<1> DEFINE r == memmove(a, c, len - c + 1)
<1>1. /\ n \in 0..BUF_SIZE /\ BUF_SIZE \in Nat /\ len \in 0..BUF_SIZE /\ c \in 0..BUF_SIZE
      /\ len - c \in 0..BUF_SIZE /\ \A j \in 0..BUF_SIZE : a[j] \in Cell
  BY ByteFacts DEF FirstNul, Buffer
<1>2. r = [j \in 0..BUF_SIZE |-> IF j < len - c + 1 THEN a[c + j] ELSE a[j]]
  BY DEF memmove
<1> HIDE DEF r
<1>3. r \in Buffer
  <2>1. \A j \in 0..BUF_SIZE : j < len - c + 1 => a[c + j] \in Cell
    BY <1>1
  <2> QED BY <1>1, <1>2, <2>1 DEF Buffer
<1>4. /\ \A j \in 0..len - c : r[j] = a[c + j]
      /\ \A j \in len - c + 1..BUF_SIZE : r[j] = a[j]
  BY <1>1, <1>2
<1>5. CASE len = n
  <2>1. FirstNul(r, len - c)
    BY <1>1, <1>4, <1>5 DEF FirstNul
  <2> DEFINE x == Cells(a, c)
             y == Cells(r, len - c)
             z == Cells(a, len)
  <2>2. /\ x \in Seq(Cell) /\ Len(x) = c /\ \A j \in 1..c : x[j] = a[j - 1]
        /\ y \in Seq(Cell) /\ Len(y) = len - c /\ \A j \in 1..len - c : y[j] = r[j - 1]
        /\ z \in Seq(Cell) /\ Len(z) = len /\ \A j \in 1..len : z[j] = a[j - 1]
    BY <1>1, <1>3, CellsSeq
  <2> HIDE DEF x, y, z
  <2> DEFINE e == x \o y
  <2>3. /\ e \in Seq(Cell) /\ Len(e) = Len(x) + Len(y)
        /\ \A j \in 1..Len(x) + Len(y) : e[j] = IF j <= Len(x) THEN x[j] ELSE y[j - Len(x)]
    BY <2>2, ConcatProperties
  <2> HIDE DEF e
  <2>4. ASSUME NEW j \in 1..len PROVE e[j] = z[j]
    <3>0. j \in Nat /\ len \in Nat /\ c \in Nat /\ Len(x) + Len(y) = len
      BY <1>1, <2>2
    <3> DEFINE q == j - 1
    <3>a. z[j] = a[q]
      BY <2>2
    <3>1. CASE j <= c
      <4>1. e[j] = x[j] /\ j \in 1..c
        BY <2>2, <2>3, <3>0, <3>1
      <4>2. x[j] = a[q]
        BY <2>2, <4>1
      <4> QED BY <3>a, <4>1, <4>2
    <3>2. CASE j > c
      <4>1. j - c \in 1..len - c /\ j - c - 1 \in 0..len - c /\ c + (j - c - 1) = j - 1
        BY <1>1, <3>0, <3>2
      <4>2. e[j] = y[j - c]
        BY <2>2, <2>3, <3>0, <3>2
      <4>3. y[j - c] = r[j - c - 1]
        BY <2>2, <4>1
      <4>4. r[j - c - 1] = a[q]
        BY <1>4, <4>1
      <4> QED BY <3>a, <4>2, <4>3, <4>4
    <3> QED BY <3>0, <3>1, <3>2
  <2>5. x \o y = z
    <3>1. Len(e) = Len(z)
      BY <1>1, <2>2, <2>3
    <3>2. e = z
      BY <2>2, <2>3, <2>4, <3>1, SeqEqual
    <3> QED BY <3>2 DEF e
  <2> QED BY <1>1, <1>3, <1>5, <2>1, <2>5 DEF r, x, y, z
<1>6. CASE len < n
  <2>1. FirstNul(r, n)
    <3>1. ASSUME NEW j \in 0..n - 1 PROVE r[j] # "NUL"
      <4>1. CASE j <= len - c
        BY <1>1, <1>4, <1>6, <4>1 DEF FirstNul
      <4>2. CASE j > len - c
        BY <1>1, <1>4, <1>6, <4>2 DEF FirstNul
      <4> QED BY <1>1, <4>1, <4>2
    <3>2. r[n] = "NUL"
      BY <1>1, <1>4, <1>6 DEF FirstNul
    <3> QED BY <1>1, <3>1, <3>2 DEF FirstNul
  <2> QED BY <1>1, <1>3, <1>6, <2>1 DEF r
<1> QED BY <1>1, <1>5, <1>6

--------------------------------------------------------------------------------
(* One lemma per operation. *)

\* A step that leaves the slots and the history alone.
LEMMA SlotsSame ==
  ASSUME Inv, UNCHANGED slotVars, UNCHANGED histVars, socket' \in [Fds -> Seq(Byte)]
  PROVE  Inv'
<1>1. UNCHANGED <<client, readBuf, writeBuf, writeLen, owed, sent, dropped, blank>>
  BY DEF slotVars, histVars
<1>2. TypeOK'
  BY <1>1 DEF Inv, TypeOK
<1> QED BY <1>1, <1>2 DEF Inv, ReadBounded, NulBehindLen, BlankIntact, SlotsReset

\* PeerTypes
LEMMA TypesInv == \A fd \in Fds : Inv /\ PeerTypes(fd) => Inv'
<1> SUFFICES ASSUME NEW fd \in Fds, Inv, PeerTypes(fd) PROVE Inv'
  OBVIOUS
<1>1. PICK b \in Byte : socket' = [socket EXCEPT ![fd] = Append(@, b)]
  BY DEF PeerTypes
<1>2. socket \in [Fds -> Seq(Byte)] /\ Append(socket[fd], b) \in Seq(Byte)
  BY AppendProperties DEF Inv, TypeOK
<1>3. socket' \in [Fds -> Seq(Byte)]
  BY <1>1, <1>2
<1> QED BY <1>3, SlotsSame DEF PeerTypes

\* srv_accept: the lengths are set to 0 and the bytes left as they are, so that the
\* slot counts as blank only if it was.
LEMMA AcceptInv == Inv /\ srv_accept => Inv'
<1> SUFFICES ASSUME Inv, srv_accept PROVE Inv'
  OBVIOUS
<1>1. PICK fd \in Fds \ client :
         /\ clean_fd(fd) /\ client' = client \cup {fd}
         /\ blank' = IF strlen(writeBuf[fd]) = 0 THEN blank \cup {fd} ELSE blank
  BY DEF srv_accept
<1>2. UNCHANGED <<writeBuf, socket, owed, sent, dropped>>
  BY <1>1 DEF srv_accept, clean_fd
<1>3. /\ readBuf' \in [Fds -> Seq(Byte)] /\ readBuf'[fd] = <<>>
      /\ writeLen' \in [Fds -> Nat] /\ writeLen'[fd] = 0
      /\ \A f \in Fds \ {fd} : readBuf'[f] = readBuf[f] /\ writeLen'[f] = writeLen[f]
  BY <1>1 DEF clean_fd, Inv, TypeOK
<1>4. TypeOK'
  BY <1>1, <1>2, <1>3 DEF Inv, TypeOK
<1>5. ReadBounded'
  <2>1. Len(readBuf'[fd]) <= BUF_SIZE
    BY <1>3, ByteFacts
  <2>2. \A f \in Fds \ {fd} : Len(readBuf'[f]) <= BUF_SIZE
    BY <1>3 DEF Inv, ReadBounded
  <2> QED BY <2>1, <2>2 DEF ReadBounded
<1>6. PICK n \in 0..BUF_SIZE : FirstNul(writeBuf[fd], n)
  BY DEF Inv, NulBehindLen
<1>7. n >= 0 /\ strlen(writeBuf[fd]) = n
  BY <1>6, StrlenIs, ByteFacts DEF Inv, TypeOK
<1>8. NulBehindLen'
  <2> SUFFICES ASSUME NEW f \in Fds
               PROVE  \E m \in 0..BUF_SIZE : FirstNul(writeBuf[f], m) /\ writeLen'[f] <= m
    BY <1>2 DEF NulBehindLen
  <2>1. CASE f = fd
    BY <1>3, <1>6, <1>7, <2>1
  <2>2. CASE f # fd
    BY <1>3, <2>2 DEF Inv, NulBehindLen
  <2> QED BY <2>1, <2>2
<1>9. BlankIntact'
  <2> SUFFICES ASSUME NEW f \in blank'
               PROVE  /\ FirstNul(writeBuf[f], writeLen'[f])
                      /\ sent[f] \o Cells(writeBuf[f], writeLen'[f]) = owed[f]
    BY <1>2 DEF BlankIntact
  <2>1. CASE f = fd
    <3>1. fd \notin blank
      BY <1>1 DEF Inv, TypeOK
    <3>2. n = 0
      BY <1>1, <1>7, <2>1, <3>1
    <3>3. Cells(writeBuf[fd], 0) = <<>>
      BY DEF Cells
    <3>4. sent[fd] = <<>> /\ owed[fd] = <<>>
      BY <1>1 DEF Inv, SlotsReset
    <3>5. sent[fd] \o Cells(writeBuf[fd], 0) = owed[fd]
      BY <3>3, <3>4
    <3> QED BY <1>3, <1>6, <2>1, <3>2, <3>5
  <2>2. CASE f # fd
    <3>1. f \in blank /\ f \in Fds \ {fd}
      BY <1>1, <2>2 DEF Inv, TypeOK
    <3> QED BY <1>3, <3>1 DEF Inv, BlankIntact
  <2> QED BY <2>1, <2>2
<1>10. SlotsReset'
  BY <1>1, <1>2 DEF Inv, SlotsReset
<1> QED BY <1>4, <1>5, <1>8, <1>9, <1>10 DEF Inv

\* A connection that ends.
LEMMA CloseInv == \A fd \in Fds : Inv /\ CloseClient(fd) => Inv'
<1> SUFFICES ASSUME NEW fd \in Fds, Inv, CloseClient(fd) PROVE Inv'
  OBVIOUS
<1>1. /\ client' = client \ {fd} /\ blank' = blank \ {fd} /\ writeBuf' = writeBuf
  BY DEF CloseClient, clean_fd
<1>2. /\ readBuf' \in [Fds -> Seq(Byte)] /\ readBuf'[fd] = <<>>
      /\ writeLen' \in [Fds -> Nat] /\ writeLen'[fd] = 0
      /\ \A f \in Fds \ {fd} : readBuf'[f] = readBuf[f] /\ writeLen'[f] = writeLen[f]
  BY DEF CloseClient, clean_fd, Inv, TypeOK
<1>3. /\ owed' \in [Fds -> Seq(Cell)] /\ sent' \in [Fds -> Seq(Cell)]
      /\ owed'[fd] = <<>> /\ sent'[fd] = <<>>
      /\ \A f \in Fds \ {fd} : owed'[f] = owed[f] /\ sent'[f] = sent[f]
  BY DEF CloseClient, Inv, TypeOK
<1>4. socket' \in [Fds -> Seq(Byte)] /\ dropped' \in [Fds -> Nat]
  BY DEF CloseClient, Inv, TypeOK
<1>5. TypeOK'
  BY <1>1, <1>2, <1>3, <1>4 DEF Inv, TypeOK
<1>6. ReadBounded'
  <2>1. Len(readBuf'[fd]) <= BUF_SIZE
    BY <1>2, ByteFacts
  <2>2. \A f \in Fds \ {fd} : Len(readBuf'[f]) <= BUF_SIZE
    BY <1>2 DEF Inv, ReadBounded
  <2> QED BY <2>1, <2>2 DEF ReadBounded
<1>7. NulBehindLen'
  <2> SUFFICES ASSUME NEW f \in Fds
               PROVE  \E m \in 0..BUF_SIZE : FirstNul(writeBuf[f], m) /\ writeLen'[f] <= m
    BY <1>1 DEF NulBehindLen
  <2>1. CASE f = fd
    BY <1>2, <2>1, ByteFacts DEF Inv, NulBehindLen
  <2>2. CASE f # fd
    BY <1>2, <2>2 DEF Inv, NulBehindLen
  <2> QED BY <2>1, <2>2
<1>8. BlankIntact'
  <2> SUFFICES ASSUME NEW f \in blank'
               PROVE  /\ FirstNul(writeBuf[f], writeLen'[f])
                      /\ sent'[f] \o Cells(writeBuf[f], writeLen'[f]) = owed'[f]
    BY <1>1 DEF BlankIntact
  <2>1. f \in blank /\ f \in Fds \ {fd}
    BY <1>1 DEF Inv, TypeOK
  <2> QED BY <1>2, <1>3, <2>1 DEF Inv, BlankIntact
<1>9. SlotsReset'
  BY <1>1, <1>3 DEF Inv, SlotsReset
<1> QED BY <1>5, <1>6, <1>7, <1>8, <1>9 DEF Inv

\* client_read: recv is asked for no more than there is room for.
LEMMA ReadInv == \A fd \in Fds : Inv /\ client_read(fd) => Inv'
<1> SUFFICES ASSUME NEW fd \in Fds, Inv, client_read(fd) PROVE Inv'
  OBVIOUS
<1>1. PICK n \in 1..BUF_SIZE - Len(readBuf[fd]) :
         /\ n <= Len(socket[fd])
         /\ readBuf' = [readBuf EXCEPT ![fd] = @ \o SubSeq(socket[fd], 1, n)]
         /\ socket' = [socket EXCEPT ![fd] = SubSeq(@, n + 1, Len(@))]
  BY DEF client_read
<1>2. UNCHANGED <<client, writeBuf, writeLen, owed, sent, dropped, blank>>
  BY DEF client_read, histVars
<1> DEFINE q == socket[fd]
           b == readBuf[fd]
<1>3. /\ q \in Seq(Byte) /\ b \in Seq(Byte) /\ Len(q) \in Nat /\ Len(b) \in Nat
      /\ n \in Nat /\ BUF_SIZE \in Nat
  BY <1>1, ByteFacts DEF Inv, TypeOK
<1> HIDE DEF q, b
<1>4. /\ SubSeq(q, 1, n) \in Seq(Byte) /\ Len(SubSeq(q, 1, n)) = n
      /\ SubSeq(q, n + 1, Len(q)) \in Seq(Byte)
  <2>1. \A j \in 1..Len(q) : q[j] \in Byte
    BY <1>3, ElementOfSeq
  <2>2. (\A j \in 1..n : q[j] \in Byte) /\ n <= Len(q)
    BY <1>1, <1>3, <2>1 DEF q
  <2>3. \A j \in n + 1..Len(q) : q[j] \in Byte
    BY <1>3, <2>1
  <2> QED BY <1>1, <1>3, <2>2, <2>3, SubSeqProperties
<1>5. b \o SubSeq(q, 1, n) \in Seq(Byte) /\ Len(b \o SubSeq(q, 1, n)) = Len(b) + n
  BY <1>3, <1>4, ConcatProperties
<1>6. /\ readBuf' \in [Fds -> Seq(Byte)] /\ readBuf'[fd] = b \o SubSeq(q, 1, n)
      /\ \A f \in Fds \ {fd} : readBuf'[f] = readBuf[f]
      /\ socket' \in [Fds -> Seq(Byte)]
  BY <1>1, <1>4, <1>5 DEF Inv, TypeOK, b, q
<1>7. Len(b) + n <= BUF_SIZE
  BY <1>1, <1>3 DEF b
<1>8. ReadBounded'
  BY <1>5, <1>6, <1>7 DEF Inv, ReadBounded
<1>9. TypeOK'
  BY <1>2, <1>6 DEF Inv, TypeOK
<1> QED BY <1>2, <1>8, <1>9 DEF Inv, NulBehindLen, BlankIntact, SlotsReset

\* What broadcast_message does to the slots: the clients that have room get the message.
LEMMA Broadcast ==
  ASSUME Inv, NEW fd \in Fds, NEW msg \in Seq(Byte), broadcast_message(fd, msg),
         UNCHANGED <<client, sent, blank>>
  PROVE  /\ writeBuf' \in [Fds -> Buffer] /\ writeLen' \in [Fds -> Nat]
         /\ owed' \in [Fds -> Seq(Cell)] /\ dropped' \in [Fds -> Nat]
         /\ NulBehindLen' /\ BlankIntact' /\ SlotsReset'
<1> DEFINE to == {f \in client \ {fd} : Fits(f, msg)}
<1>1. /\ writeBuf' = [f \in Fds |-> IF f \in to THEN strlcat(writeBuf[f], msg) ELSE writeBuf[f]]
      /\ writeLen' = [f \in Fds |-> IF f \in to THEN writeLen[f] + Len(msg) ELSE writeLen[f]]
      /\ owed' = [f \in Fds |-> IF f \in to THEN owed[f] \o msg ELSE owed[f]]
      /\ dropped' = [f \in Fds |-> IF f \in client \ (to \cup {fd})
                                   THEN dropped[f] + 1 ELSE dropped[f]]
  BY DEF broadcast_message
<1>2. /\ \A f \in Fds : /\ writeBuf[f] \in Buffer /\ writeLen[f] \in Nat
                        /\ owed[f] \in Seq(Cell) /\ sent[f] \in Seq(Cell) /\ dropped[f] \in Nat
      /\ client \in SUBSET Fds /\ blank \in SUBSET client /\ Len(msg) \in Nat
  BY DEF Inv, TypeOK
<1>3. \A f \in to : f \in client /\ writeLen[f] + Len(msg) <= BUF_SIZE
  BY DEF Fits
<1> HIDE DEF to
<1>4. msg \in Seq(Cell)
  BY ByteFacts, SeqMonotonic
<1>5. ASSUME NEW f \in to
      PROVE  /\ strlcat(writeBuf[f], msg) \in Buffer
             /\ \E m \in 0..BUF_SIZE : /\ FirstNul(strlcat(writeBuf[f], msg), m)
                                       /\ writeLen[f] + Len(msg) <= m
             /\ FirstNul(writeBuf[f], writeLen[f]) =>
                    /\ FirstNul(strlcat(writeBuf[f], msg), writeLen[f] + Len(msg))
                    /\ Cells(strlcat(writeBuf[f], msg), writeLen[f] + Len(msg))
                           = Cells(writeBuf[f], writeLen[f]) \o msg
  <2>1. f \in Fds
    BY <1>2, <1>3
  <2>2. PICK n \in 0..BUF_SIZE : FirstNul(writeBuf[f], n) /\ writeLen[f] <= n
    BY <2>1 DEF Inv, NulBehindLen
  <2>3. writeLen[f] \in 0..n
    BY <1>2, <2>1, <2>2, ByteFacts
  <2> DEFINE a == writeBuf[f]
             len == writeLen[f]
  <2>4. a \in Buffer /\ len \in 0..n /\ len + Len(msg) <= BUF_SIZE /\ FirstNul(a, n)
    BY <1>2, <1>3, <2>1, <2>2, <2>3
  <2>5. FirstNul(a, len) => len = n
    <3>1. strlen(a) = n /\ (FirstNul(a, len) => strlen(a) = len)
      BY <2>4, StrlenIs
    <3> QED BY <3>1
  <2> HIDE DEF a, len
  <2>6. /\ strlcat(a, msg) \in Buffer
        /\ \E m \in 0..BUF_SIZE : FirstNul(strlcat(a, msg), m) /\ len + Len(msg) <= m
        /\ len = n => /\ FirstNul(strlcat(a, msg), len + Len(msg))
                      /\ Cells(strlcat(a, msg), len + Len(msg)) = Cells(a, len) \o msg
    BY <2>4, Catted, ZenonT(40)
  <2> QED BY <2>5, <2>6 DEF a, len
<1>6. /\ writeBuf' \in [Fds -> Buffer] /\ writeLen' \in [Fds -> Nat]
      /\ owed' \in [Fds -> Seq(Cell)] /\ dropped' \in [Fds -> Nat]
  <2>1. \A f \in to : owed[f] \o msg \in Seq(Cell)
    BY <1>2, <1>3, <1>4, ConcatProperties
  <2>2. writeBuf' \in [Fds -> Buffer]
    BY <1>1, <1>2, <1>5
  <2>3. writeLen' \in [Fds -> Nat] /\ dropped' \in [Fds -> Nat]
    BY <1>1, <1>2
  <2>4. owed' \in [Fds -> Seq(Cell)]
    BY <1>1, <1>2, <2>1
  <2> QED BY <2>2, <2>3, <2>4
<1>7. NulBehindLen'
  <2> SUFFICES ASSUME NEW f \in Fds
               PROVE  \E m \in 0..BUF_SIZE : FirstNul(writeBuf'[f], m) /\ writeLen'[f] <= m
    BY DEF NulBehindLen
  <2>1. CASE f \in to
    BY <1>1, <1>5, <2>1
  <2>2. CASE f \notin to
    BY <1>1, <2>2 DEF Inv, NulBehindLen
  <2> QED BY <2>1, <2>2
<1>8. BlankIntact'
  <2> SUFFICES ASSUME NEW f \in blank
               PROVE  /\ FirstNul(writeBuf'[f], writeLen'[f])
                      /\ sent[f] \o Cells(writeBuf'[f], writeLen'[f]) = owed'[f]
    BY DEF BlankIntact
  <2>1. f \in Fds
    BY <1>2
  <2>2. /\ FirstNul(writeBuf[f], writeLen[f])
        /\ sent[f] \o Cells(writeBuf[f], writeLen[f]) = owed[f]
    BY DEF Inv, BlankIntact
  <2>3. CASE f \in to
    <3>1. /\ writeBuf'[f] = strlcat(writeBuf[f], msg) /\ writeLen'[f] = writeLen[f] + Len(msg)
          /\ owed'[f] = owed[f] \o msg
      BY <1>1, <2>1, <2>3
    <3>2. Cells(writeBuf'[f], writeLen'[f]) = Cells(writeBuf[f], writeLen[f]) \o msg
      BY <1>5, <2>2, <2>3, <3>1
    <3>3. Cells(writeBuf[f], writeLen[f]) \in Seq(Cell)
      BY <1>2, <2>1, <2>2, CellsSeq DEF FirstNul
    <3>4. (sent[f] \o Cells(writeBuf[f], writeLen[f])) \o msg
            = sent[f] \o (Cells(writeBuf[f], writeLen[f]) \o msg)
      <4> DEFINE x == sent[f]
                 y == Cells(writeBuf[f], writeLen[f])
      <4>1. x \in Seq(Cell) /\ y \in Seq(Cell) /\ msg \in Seq(Cell)
        BY <1>2, <1>4, <2>1, <3>3
      <4> HIDE DEF x, y
      <4>2. (x \o y) \o msg = x \o (y \o msg)
        BY <4>1, ConcatAssociative
      <4> QED BY <4>2 DEF x, y
    <3>5. FirstNul(writeBuf'[f], writeLen'[f])
      BY <1>5, <2>2, <2>3, <3>1
    <3> QED BY <2>2, <3>1, <3>2, <3>4, <3>5
  <2>4. CASE f \notin to
    BY <1>1, <2>1, <2>2, <2>4
  <2> QED BY <2>3, <2>4
<1>9. SlotsReset'
  BY <1>1, <1>3 DEF Inv, SlotsReset
<1> QED BY <1>6, <1>7, <1>8, <1>9

\* extract_and_consume takes one line out of buf_read.
LEMMA ExtractInv == \A fd \in Fds : Inv /\ extract_and_consume(fd) => Inv'
<1> SUFFICES ASSUME NEW fd \in Fds, Inv, extract_and_consume(fd) PROVE Inv'
  OBVIOUS
<1> DEFINE b == readBuf[fd]
<1>1. PICK p \in 2..Len(b) :
         /\ broadcast_message(fd, SubSeq(b, 1, p))
         /\ readBuf' = [readBuf EXCEPT ![fd] = SubSeq(@, p + 1, Len(@))]
  BY DEF extract_and_consume
<1>2. UNCHANGED <<client, socket, sent, blank>>
  BY DEF extract_and_consume, peerVars
<1>3. b \in Seq(Byte) /\ Len(b) \in Nat /\ Len(b) <= BUF_SIZE /\ p \in Nat /\ p <= Len(b)
      /\ BUF_SIZE \in Nat
  BY <1>1, ByteFacts DEF Inv, TypeOK, ReadBounded
<1> HIDE DEF b
<1>4. /\ SubSeq(b, 1, p) \in Seq(Byte)
      /\ SubSeq(b, p + 1, Len(b)) \in Seq(Byte)
      /\ Len(SubSeq(b, p + 1, Len(b))) <= BUF_SIZE
  <2>1. \A j \in 1..Len(b) : b[j] \in Byte
    BY <1>3, ElementOfSeq
  <2>2. (\A j \in 1..p : b[j] \in Byte) /\ (\A j \in p + 1..Len(b) : b[j] \in Byte)
    BY <1>3, <2>1
  <2>3. /\ SubSeq(b, 1, p) \in Seq(Byte) /\ SubSeq(b, p + 1, Len(b)) \in Seq(Byte)
        /\ Len(SubSeq(b, p + 1, Len(b))) = IF p + 1 <= Len(b) THEN Len(b) - (p + 1) + 1 ELSE 0
    BY <1>3, <2>2, SubSeqProperties
  <2> QED BY <1>3, <2>3
<1>5. /\ readBuf' \in [Fds -> Seq(Byte)] /\ readBuf'[fd] = SubSeq(b, p + 1, Len(b))
      /\ \A f \in Fds \ {fd} : readBuf'[f] = readBuf[f]
  BY <1>1, <1>4 DEF Inv, TypeOK, b
<1>6. ReadBounded'
  BY <1>4, <1>5 DEF Inv, ReadBounded
<1>7. /\ writeBuf' \in [Fds -> Buffer] /\ writeLen' \in [Fds -> Nat]
      /\ owed' \in [Fds -> Seq(Cell)] /\ dropped' \in [Fds -> Nat]
      /\ NulBehindLen' /\ BlankIntact' /\ SlotsReset'
  BY <1>1, <1>2, <1>4, Broadcast
<1>8. TypeOK'
  BY <1>2, <1>5, <1>7 DEF Inv, TypeOK
<1> QED BY <1>6, <1>7, <1>8 DEF Inv

\* send took some of the bytes: the rest moves to the front, with the byte behind it.
LEMMA SendInv ==
  ASSUME Inv, NEW fd \in client, NEW n \in 1..writeLen[fd],
         sent' = [sent EXCEPT ![fd] = @ \o Cells(writeBuf[fd], n)],
         writeBuf' = [writeBuf EXCEPT ![fd] = Consumed(fd, n)],
         writeLen' = [writeLen EXCEPT ![fd] = @ - n],
         UNCHANGED <<client, readBuf, peerVars, owed, dropped, blank>>
  PROVE  Inv'
<1> DEFINE a == writeBuf[fd]
           len == writeLen[fd]
           r == memmove(a, n, len - n + 1)
<1>1. /\ fd \in Fds /\ a \in Buffer /\ len \in Nat /\ BUF_SIZE \in Nat /\ n \in Nat /\ n <= len
      /\ sent[fd] \in Seq(Cell) /\ UNCHANGED socket
  BY ByteFacts DEF Inv, TypeOK, peerVars
<1>2. PICK m \in 0..BUF_SIZE : FirstNul(a, m) /\ len <= m
  BY <1>1 DEF Inv, NulBehindLen
<1>3. /\ writeBuf'[fd] = r /\ writeLen'[fd] = len - n
      /\ sent'[fd] = sent[fd] \o Cells(a, n)
      /\ \A f \in Fds \ {fd} : /\ writeBuf'[f] = writeBuf[f] /\ writeLen'[f] = writeLen[f]
                               /\ sent'[f] = sent[f]
  BY <1>1 DEF Inv, TypeOK, Consumed
<1>4. len \in 0..m /\ n \in 1..len /\ n \in 0..BUF_SIZE /\ len - n \in 0..BUF_SIZE
  BY <1>1, <1>2
<1> HIDE DEF a, len
<1>5. /\ r \in Buffer
      /\ \E k \in 0..BUF_SIZE : FirstNul(r, k) /\ len - n <= k
      /\ len = m => FirstNul(r, len - n) /\ Cells(a, n) \o Cells(r, len - n) = Cells(a, len)
  BY <1>1, <1>2, <1>4, Moved
<1>6. Cells(a, n) \in Seq(Cell)
  BY <1>1, <1>4, CellsSeq
<1>7. sent[fd] \o Cells(a, n) \in Seq(Cell)
  BY <1>1, <1>6, ConcatProperties
<1> HIDE DEF r
<1>8. TypeOK'
  <2>1. writeBuf' \in [Fds -> Buffer]
    BY <1>1, <1>3, <1>5 DEF Inv, TypeOK
  <2>2. writeLen' \in [Fds -> Nat]
    BY <1>1, <1>3, <1>4 DEF Inv, TypeOK
  <2>3. sent' \in [Fds -> Seq(Cell)]
    BY <1>1, <1>3, <1>7 DEF Inv, TypeOK
  <2> QED BY <1>1, <2>1, <2>2, <2>3 DEF Inv, TypeOK
<1>9. ReadBounded' /\ SlotsReset'
  BY <1>3 DEF Inv, ReadBounded, SlotsReset
<1>10. NulBehindLen'
  BY <1>1, <1>3, <1>5 DEF Inv, NulBehindLen
<1>11. BlankIntact'
  <2> SUFFICES ASSUME NEW f \in blank
               PROVE  /\ FirstNul(writeBuf'[f], writeLen'[f])
                      /\ sent'[f] \o Cells(writeBuf'[f], writeLen'[f]) = owed[f]
    BY DEF BlankIntact
  <2>1. f \in Fds
    BY DEF Inv, TypeOK
  <2>2. CASE f # fd
    BY <1>3, <2>1, <2>2 DEF Inv, BlankIntact
  <2>3. CASE f = fd
    <3>1. FirstNul(a, len) /\ sent[fd] \o Cells(a, len) = owed[fd]
      BY <2>3 DEF Inv, BlankIntact, a, len
    <3>2. len = m
      <4>1. strlen(a) = len /\ strlen(a) = m
        BY <1>1, <1>2, <3>1, StrlenIs
      <4> QED BY <4>1
    <3>3. Cells(r, len - n) \in Seq(Cell)
      BY <1>4, <1>5, CellsSeq
    <3>4. (sent[fd] \o Cells(a, n)) \o Cells(r, len - n)
             = sent[fd] \o (Cells(a, n) \o Cells(r, len - n))
      <4> DEFINE x == sent[fd]
                 y == Cells(a, n)
                 z == Cells(r, len - n)
      <4>1. x \in Seq(Cell) /\ y \in Seq(Cell) /\ z \in Seq(Cell)
        BY <1>1, <1>6, <3>3
      <4> HIDE DEF x, y, z
      <4>2. (x \o y) \o z = x \o (y \o z)
        BY <4>1, ConcatAssociative, SMTT(30)
      <4> QED BY <4>2 DEF x, y, z
    <3> QED BY <1>3, <1>5, <2>3, <3>1, <3>2, <3>4
  <2> QED BY <2>2, <2>3
<1> QED BY <1>8, <1>9, <1>10, <1>11 DEF Inv

\* client_write: nothing to send, a peer that is gone, or some bytes sent.
LEMMA WriteInv == \A fd \in Fds : Inv /\ client_write(fd) => Inv'
<1> SUFFICES ASSUME NEW fd \in Fds, Inv, client_write(fd) PROVE Inv'
  OBVIOUS
<1>1. CASE UNCHANGED <<slotVars, peerVars, histVars>>
  <2>1. socket' \in [Fds -> Seq(Byte)]
    BY <1>1 DEF Inv, TypeOK, peerVars
  <2> QED BY <1>1, <2>1, SlotsSame
<1>2. CASE CloseClient(fd)
  BY <1>2, CloseInv
<1>3. CASE /\ \E n \in 1..writeLen[fd] :
                 /\ sent' = [sent EXCEPT ![fd] = @ \o Cells(writeBuf[fd], n)]
                 /\ writeBuf' = [writeBuf EXCEPT ![fd] = Consumed(fd, n)]
                 /\ writeLen' = [writeLen EXCEPT ![fd] = @ - n]
           /\ UNCHANGED <<client, readBuf, peerVars, owed, dropped, blank>>
  <2>1. PICK n \in 1..writeLen[fd] :
                 /\ sent' = [sent EXCEPT ![fd] = @ \o Cells(writeBuf[fd], n)]
                 /\ writeBuf' = [writeBuf EXCEPT ![fd] = Consumed(fd, n)]
                 /\ writeLen' = [writeLen EXCEPT ![fd] = @ - n]
    BY <1>3
  <2>2. fd \in client
    BY DEF client_write
  <2> QED BY <1>3, <2>1, <2>2, SendInv
<1> QED BY <1>1, <1>2, <1>3 DEF client_write

--------------------------------------------------------------------------------
(* The theorems. *)

\* The slots are empty at the start: malloc's fresh pages are zero.
LEMMA InitInv == Init => Inv
<1> SUFFICES ASSUME Init PROVE Inv
  OBVIOUS
<1>1. "NUL" \in Cell /\ 0 \in 0..BUF_SIZE /\ BUF_SIZE \in Nat
  BY ByteFacts DEF Cell
<1>2. Zeros \in Buffer /\ FirstNul(Zeros, 0)
  BY <1>1 DEF Zeros, Buffer, FirstNul
<1>3. TypeOK
  BY <1>2 DEF Init, TypeOK
<1>4. ReadBounded
  BY <1>1 DEF Init, ReadBounded
<1>5. NulBehindLen
  BY <1>1, <1>2 DEF Init, NulBehindLen
<1>6. BlankIntact /\ SlotsReset
  BY DEF Init, BlankIntact, SlotsReset
<1> QED BY <1>3, <1>4, <1>5, <1>6 DEF Inv

\* Every step of the loop and of the peers keeps the invariant.
LEMMA NextInv == Inv /\ [Next]_vars => Inv'
<1> SUFFICES ASSUME Inv, [Next]_vars PROVE Inv'
  OBVIOUS
<1>0. socket \in [Fds -> Seq(Byte)]
  BY DEF Inv, TypeOK
<1>1. CASE init_fd_Full \/ do_select \/ AcceptFails
  BY <1>0, <1>1, SlotsSame DEF init_fd_Full, do_select, AcceptFails, peerVars
<1>2. CASE srv_accept
  BY <1>2, AcceptInv
<1>3. ASSUME NEW fd \in Fds,
             \/ client_read(fd) \/ client_read_Closes(fd) \/ extract_and_consume(fd)
             \/ client_write(fd) \/ client_write_Killed(fd) \/ client_write_Null(fd)
      PROVE  Inv'
  <2>1. CASE client_read(fd)
    BY <2>1, ReadInv
  <2>2. CASE client_read_Closes(fd)
    BY <2>2, CloseInv DEF client_read_Closes
  <2>3. CASE extract_and_consume(fd)
    BY <2>3, ExtractInv
  <2>4. CASE client_write(fd)
    BY <2>4, WriteInv
  <2>5. CASE client_write_Killed(fd) \/ client_write_Null(fd)
    BY <1>0, <2>5, SlotsSame DEF client_write_Killed, client_write_Null, peerVars
  <2> QED BY <1>3, <2>1, <2>2, <2>3, <2>4, <2>5
<1>4. CASE Connect
  BY <1>0, <1>4, SlotsSame DEF Connect
<1>5. ASSUME NEW fd \in Fds, PeerTypes(fd) \/ PeerCloses(fd) PROVE Inv'
  <2>1. CASE PeerTypes(fd)
    BY <2>1, TypesInv
  <2>2. CASE PeerCloses(fd)
    BY <1>0, <2>2, SlotsSame DEF PeerCloses
  <2> QED BY <1>5, <2>1, <2>2
<1>6. CASE UNCHANGED vars
  BY <1>0, <1>6, SlotsSame DEF vars, peerVars
<1> QED BY <1>1, <1>2, <1>3, <1>4, <1>5, <1>6 DEF Next

\* buf_write and its two lengths always stand in the relation the loop relies on.
THEOREM Invariance == Spec => []Inv
  BY InitInv, NextInv, PTL DEF Spec

\* The fixed buffers are never overrun, and strlen always finds a NUL
\* (read_and_store, broadcast_message, client_write).
THEOREM Bounds == Spec => []BuffersInBounds
<1>1. Inv => BuffersInBounds
  BY ByteFacts DEF Inv, TypeOK, ReadBounded, NulBehindLen, FirstNul, BuffersInBounds
<1> QED BY <1>1, Invariance, PTL

\* What was accepted for a client that came to an empty slot is what was sent and what
\* is still in buf_write, however send cuts it (broadcast_message, client_write).
THEOREM Intact == Spec => []MessagesIntact
<1>1. Inv => MessagesIntact
  <2> SUFFICES ASSUME Inv, NEW fd \in client \cap blank
               PROVE  /\ sent[fd] \o Cells(writeBuf[fd], writeLen[fd]) = owed[fd]
                      /\ strlen(writeBuf[fd]) = writeLen[fd]
    BY DEF MessagesIntact
  <2>1. writeBuf[fd] \in Buffer /\ FirstNul(writeBuf[fd], writeLen[fd])
    BY DEF Inv, TypeOK, BlankIntact
  <2> QED BY <2>1, StrlenIs DEF Inv, BlankIntact
<1> QED BY <1>1, Invariance, PTL

\* broadcast_message drops a message only for a client that has bytes waiting: a line
\* client_read accepted is no longer than the buffer.
LEMMA DropStep ==
  ASSUME Inv, NEW fd \in Fds, extract_and_consume(fd), NEW f \in Fds, dropped'[f] > dropped[f]
  PROVE  writeLen[f] > 0
<1> DEFINE b == readBuf[fd]
<1>1. PICK p \in 2..Len(b) : broadcast_message(fd, SubSeq(b, 1, p))
  BY DEF extract_and_consume
<1>2. b \in Seq(Byte) /\ Len(b) \in Nat /\ Len(b) <= BUF_SIZE /\ BUF_SIZE \in Nat
      /\ p \in Nat /\ p <= Len(b) /\ 2 <= p /\ writeLen[f] \in Nat /\ dropped[f] \in Nat
  BY <1>1, ByteFacts DEF Inv, TypeOK, ReadBounded
<1> HIDE DEF b
<1>3. Len(SubSeq(b, 1, p)) = p
  <2>1. \A j \in 1..p : b[j] \in Byte
    BY <1>2, ElementOfSeq
  <2> QED BY <1>2, <2>1, SubSeqProperties
<1>4. f \in client /\ f # fd /\ ~Fits(f, SubSeq(b, 1, p))
  BY <1>1, <1>2 DEF broadcast_message
<1> QED BY <1>2, <1>3, <1>4 DEF Fits

\* Only a client that has not taken an earlier message loses one (broadcast_message).
THEOREM Drops == Spec => DropsOnlyBehindOthers
<1>1. Inv /\ [Next]_vars => [\A fd \in Fds : dropped'[fd] > dropped[fd] => writeLen[fd] > 0]_vars
  <2> SUFFICES ASSUME Inv, Next, NEW f \in Fds, dropped'[f] > dropped[f] PROVE writeLen[f] > 0
    OBVIOUS
  <2>1. dropped \in [Fds -> Nat]
    BY DEF Inv, TypeOK
  <2>2. \A fd \in Fds : ~CloseClient(fd)
    BY <2>1 DEF CloseClient
  <2>3. dropped' # dropped
    BY <2>1
  <2>4. PICK fd \in Fds : extract_and_consume(fd)
    BY <2>2, <2>3 DEF Next, init_fd_Full, do_select, srv_accept, AcceptFails, client_read,
         client_read_Closes, client_write, client_write_Killed, client_write_Null, Connect,
         PeerTypes, PeerCloses, histVars
  <2> QED BY <2>4, DropStep
<1> QED BY <1>1, Invariance, PTL DEF Spec, DropsOnlyBehindOthers
================================================================================
