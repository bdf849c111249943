------------------------------- MODULE Connection -------------------------------
(******************************************************************************)
(* One Connection: how the bytes of the stream become lines, and how replies  *)
(* become bytes of the stream.                                                *)
(*                                                                            *)
(* recv cuts the stream wherever it likes, also between CR and LF.  After a   *)
(* recv, Server::_handleRead asks once whether the line at the head of the    *)
(* buffer is too long and then pops line after line; the peer goes on sending *)
(* meanwhile.  A byte is CR, LF or something else, which is all that the code *)
(* looks at.  A byte to be sent is its number in the order of bufferSend.     *)
(******************************************************************************)
EXTENDS Integers, Sequences, FiniteSets

CONSTANTS
    MaxLine,    \* max_ok: 512
    BufSize,    \* what one recv takes at most: buf_size + 1
    MaxInput,   \* bound: bytes the peer sends
    MaxOutput   \* bound: bytes that are sent to the peer

ASSUME ConnectionAssumption == {MaxLine, BufSize, MaxInput, MaxOutput} \subseteq Nat \ {0}

Byte == {"CR", "LF", "x"}

VARIABLES
    input,        \* history: all that the peer has sent
    read,         \* how much of it recv has returned
    recvBuffer,   \* _recvBuffer
    lines,        \* history: the lines popped
    state,        \* poll: waiting; pop: popping lines; rejected: closed for a
                  \* line too long; ended: closed for EOF, an error or QUIT
    queued,       \* how many bytes bufferSend was given
    sendBuffer,   \* _sendBuffer
    delivered     \* history: what send took

inVars  == <<input, read, recvBuffer, lines, state>>
outVars == <<queued, sendBuffer, delivered>>
vars    == <<inVars, outVars>>

TypeOK ==
    /\ input \in Seq(Byte)
    /\ read \in 0..Len(input)
    /\ recvBuffer \in Seq(Byte)
    /\ lines \in Seq(Seq(Byte))
    /\ state \in {"poll", "pop", "rejected", "ended"}
    /\ queued \in 0..MaxOutput
    /\ sendBuffer \in Seq(Nat)
    /\ delivered \in Seq(Nat)

Init ==
    /\ input = <<>> /\ read = 0 /\ recvBuffer = <<>> /\ lines = <<>>
    /\ state = "poll"
    /\ queued = 0 /\ sendBuffer = <<>> /\ delivered = <<>>

--------------------------------------------------------------------------------
PeerSend ==
    /\ Len(input) < MaxInput
    /\ \E b \in Byte : input' = Append(input, b)
    /\ UNCHANGED <<read, recvBuffer, lines, state, outVars>>

\* Slips: only lines that are complete are measured; one byte too few is.
isLineTooLong_OnlyComplete(buf) ==
    /\ \A j \in 1..Len(buf) : buf[j] = "LF" => j > MaxLine
    /\ \E j \in 1..Len(buf) : buf[j] = "LF"
isLineTooLong_OffByOne(buf) == Len(buf) >= MaxLine /\ \A j \in 1..MaxLine - 1 : buf[j] # "LF"

isLineTooLong(buf) == Len(buf) > MaxLine /\ \A j \in 1..MaxLine : buf[j] # "LF"

\* One recv per event, and one look at the head of the buffer.
readFromSocket ==
    /\ state = "poll"
    /\ \E n \in 1..BufSize :
           /\ read + n <= Len(input)
           /\ read' = read + n
           /\ recvBuffer' = recvBuffer \o SubSeq(input, read + 1, read + n)
    /\ state' = IF isLineTooLong(recvBuffer') THEN "rejected" ELSE "pop"
    /\ UNCHANGED <<input, lines, outVars>>

\* recv returns 0 or fails, or send fails: what is in the buffer goes with the connection.
EndOfInput ==
    /\ state = "poll"
    /\ state' = "ended"
    /\ UNCHANGED <<input, read, recvBuffer, lines, outVars>>

\* p is _nlPos, counted from 1.
FirstLF(buf, p) == p \in 1..Len(buf) /\ buf[p] = "LF" /\ \A j \in 1..p - 1 : buf[j] # "LF"

hasCompleteLine(buf) == \E p \in 1..Len(buf) : buf[p] = "LF"

\* The bytes of s from b to e, without a CR at the end.
WithoutCR(s, b, e) == SubSeq(s, b, IF e >= b /\ s[e] = "CR" THEN e - 1 ELSE e)

\* A slip: the byte before LF is taken for CR.
popLine_AlwaysCR ==
    /\ state = "pop"
    /\ \E p \in 1..Len(recvBuffer) :
           /\ FirstLF(recvBuffer, p)
           /\ lines' = Append(lines, SubSeq(recvBuffer, 1, p - 2))
           /\ recvBuffer' = SubSeq(recvBuffer, p + 1, Len(recvBuffer))
    /\ state' \in {"pop", "ended"}
    /\ UNCHANGED <<input, read, outVars>>

\* A line that is QUIT ends the connection, with what is behind it in the buffer.
popLine ==
    /\ state = "pop"
    /\ \E p \in 1..Len(recvBuffer) :
           /\ FirstLF(recvBuffer, p)
           /\ lines' = Append(lines, WithoutCR(recvBuffer, 1, p - 1))
           /\ recvBuffer' = SubSeq(recvBuffer, p + 1, Len(recvBuffer))
    /\ state' \in {"pop", "ended"}
    /\ UNCHANGED <<input, read, outVars>>

\* The loop over the complete lines ends.
AllPopped ==
    /\ state = "pop" /\ ~hasCompleteLine(recvBuffer)
    /\ state' = "poll"
    /\ UNCHANGED <<input, read, recvBuffer, lines, outVars>>

Open == state \in {"poll", "pop"}

bufferSend ==
    /\ Open
    /\ \E n \in 1..MaxOutput - queued :
           /\ queued' = queued + n
           /\ sendBuffer' = sendBuffer \o [j \in 1..n |-> queued + j]
    /\ UNCHANGED <<inVars, delivered>>

\* A slip: the buffer is cleared although send took a part of it only.
writeToSocket_DropsRest ==
    /\ state = "poll"
    /\ \E n \in 1..Len(sendBuffer) :
           /\ delivered' = delivered \o SubSeq(sendBuffer, 1, n)
           /\ sendBuffer' = <<>>
    /\ UNCHANGED <<inVars, queued>>

\* send takes a part of the buffer, or all of it.
writeToSocket ==
    /\ state = "poll"
    /\ \E n \in 1..Len(sendBuffer) :
           /\ delivered' = delivered \o SubSeq(sendBuffer, 1, n)
           /\ sendBuffer' = SubSeq(sendBuffer, n + 1, Len(sendBuffer))
    /\ UNCHANGED <<inVars, queued>>

Next ==
    \/ PeerSend
    \/ readFromSocket \/ EndOfInput
    \/ popLine \/ AllPopped
    \/ bufferSend \/ writeToSocket

Spec == Init /\ [][Next]_vars

--------------------------------------------------------------------------------
(* The lines of a stream, as its sender means them. *)

LFs(s) == {j \in DOMAIN s : s[j] = "LF"}

\* Where line k ends; line 0 is before the first byte.
LineEnd(s, k) ==
    IF k = 0 THEN 0
    ELSE CHOOSE j \in LFs(s) : Cardinality({i \in LFs(s) : i <= j}) = k

Lines(s) == [k \in 1..Cardinality(LFs(s)) |->
                WithoutCR(s, LineEnd(s, k - 1) + 1, LineEnd(s, k) - 1)]

\* However recv cuts the stream, the lines popped are the lines of the stream, in
\* their order and each once; whenever the server waits for more, all lines that
\* arrived have been popped, and what is in the buffer is the line that has not
\* ended (hasCompleteLine, popLine, readFromSocket).
LinesIndependentOfChunks ==
    LET arrived == SubSeq(input, 1, read)
    IN  /\ Len(lines) <= Len(Lines(arrived))
        /\ lines = SubSeq(Lines(arrived), 1, Len(lines))
        /\ recvBuffer = SubSeq(input, LineEnd(arrived, Len(lines)) + 1, read)
        /\ state = "poll" => Len(lines) = Len(Lines(arrived))

\* A connection is only rejected for a line that is longer than MaxLine bytes with
\* its LF, wherever the cuts fell and whatever came before it (isLineTooLong).
OnlyLongLinesRejected ==
    state = "rejected" =>
        LET b == LineEnd(input, Len(lines))
        IN  Len(input) > b + MaxLine /\ \A j \in b + 1..b + MaxLine : input[j] # "LF"

MaxWaiting == IF MaxLine > BufSize - 1 THEN MaxLine ELSE BufSize - 1

\* The receive buffer is bounded although isLineTooLong is asked once per recv and
\* looks at the head only: a long line that follows a short one slips through
\* once, and no further than the next recv.
RecvBufferBounded ==
    /\ Len(recvBuffer) <= MaxWaiting + BufSize
    /\ state = "poll" => Len(recvBuffer) <= MaxWaiting

\* What was queued goes out in its order, nothing lost and nothing twice, however
\* little send takes at a time (bufferSend, writeToSocket).
OutputIsFifo == delivered \o sendBuffer = [j \in 1..queued |-> j]
================================================================================
