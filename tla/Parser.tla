--------------------------------- MODULE Parser ---------------------------------
(******************************************************************************)
(* Parser::parse and Message, what the protocol says a line means, and the    *)
(* formatter on the other side.  Positions count from 1.                      *)
(******************************************************************************)
EXTENDS Names, FiniteSets

--------------------------------------------------------------------------------
removeIrcLineTerminator(s) ==
    IF Len(s) >= 2 /\ s[Len(s) - 1] = CR /\ s[Len(s)] = LF
    THEN SubSeq(s, 1, Len(s) - 2) ELSE s

upperCommand(s) == [i \in DOMAIN s |-> IF s[i] \in 97..122 THEN s[i] - 32 ELSE s[i]]

\* The first position from p on where a character is (is not) a separator.
First(s, p, sep) ==
    CHOOSE q \in p..Len(s) + 1 :
        /\ q = Len(s) + 1 \/ (s[q] = SPACE) = sep
        /\ \A r \in p..q - 1 : (s[r] = SPACE) # sep

skipSeparators(s, p) == First(s, p, FALSE)
tokenEnd(s, p) == First(s, p, TRUE)
readToken(s, p) == SubSeq(s, p, tokenEnd(s, p) - 1)

\* A slip: one blank is skipped behind the prefix.
prefixEnd_OneBlank(s) ==
    LET p == skipSeparators(s, 1)
    IN  IF p > Len(s) \/ s[p] # COLON THEN p
        ELSE IF tokenEnd(s, p + 1) > Len(s) THEN Len(s) + 1
        ELSE tokenEnd(s, p + 1) + 1

\* Where the command begins; past the end if there is none, also if the prefix is
\* all there is.
prefixEnd(s) ==
    LET p == skipSeparators(s, 1)
    IN  IF p > Len(s) \/ s[p] # COLON THEN p
        ELSE IF tokenEnd(s, p + 1) > Len(s) THEN Len(s) + 1
        ELSE skipSeparators(s, tokenEnd(s, p + 1))

prefixOf(s) ==
    LET p == skipSeparators(s, 1)
    IN  IF p <= Len(s) /\ s[p] = COLON THEN readToken(s, p + 1) ELSE <<>>

readParams(s, pos) ==
    LET params[p \in 1..Len(s) + 1] ==
            LET q == skipSeparators(s, p)
            IN  IF q > Len(s) THEN <<>>
                ELSE IF s[q] = COLON THEN <<SubSeq(s, q + 1, Len(s))>>
                ELSE <<readToken(s, q)>> \o params[tokenEnd(s, q)]
    IN  params[pos]

Message(prefix, command, params) == [prefix |-> prefix, command |-> command, params |-> params]
NoMessage == Message(<<>>, <<>>, <<>>)

hasParam(m, i) == i < Len(m.params)
getSingleParam(m, i) == IF hasParam(m, i) THEN m.params[i + 1] ELSE <<>>

parse(ln) ==
    LET s == removeIrcLineTerminator(ln)
        p == prefixEnd(s)
    IN  IF p > Len(s) THEN NoMessage
        ELSE Message(prefixOf(s), upperCommand(readToken(s, p)), readParams(s, tokenEnd(s, p)))

\* What ReplyBuilder::privmsg and IrcFormatter::privmsg write; "PRIVMSG" is one letter.
PRIVMSG == <<80>>

privmsg(prefix, target, text) ==
    (IF prefix = <<>> THEN <<>> ELSE <<COLON>> \o prefix \o <<SPACE>>)
    \o PRIVMSG \o <<SPACE>> \o target \o <<SPACE, COLON>> \o text \o <<CR, LF>>

--------------------------------------------------------------------------------
(* A line as the protocol describes it: words, of which the first may be a    *)
(* prefix, then the command, then parameters up to a word with a colon in     *)
(* front, which is the last parameter with all that follows.                  *)

WordStarts(s) == {i \in DOMAIN s : s[i] # SPACE /\ (i = 1 \/ s[i - 1] = SPACE)}

Smallest(S, n) == IF S = {} THEN n ELSE CHOOSE i \in S : \A j \in S : i <= j

Word(s, i) == SubSeq(s, i, Smallest({j \in i..Len(s) : s[j] = SPACE}, Len(s) + 1) - 1)

\* m is what line s says.
Says(s, m) ==
    LET starts  == WordStarts(s)
        first   == Smallest(starts, 0)
        pre     == first # 0 /\ s[first] = COLON
        command == IF pre THEN Smallest(starts \ {first}, 0) ELSE first
        after   == {i \in starts : i > command}
        trail   == Smallest({i \in after : s[i] = COLON}, Len(s) + 1)
        middle  == {i \in after : i < trail}
    IN  IF command = 0 THEN m = NoMessage
        ELSE /\ m.prefix = IF pre THEN Tail(Word(s, first)) ELSE <<>>
             /\ m.command = upperCommand(Word(s, command))
             /\ Len(m.params) = Cardinality(middle) + (IF trail <= Len(s) THEN 1 ELSE 0)
             /\ \A i \in middle :
                    m.params[Cardinality({j \in middle : j <= i})] = Word(s, i)
             /\ trail <= Len(s) => m.params[Len(m.params)] = SubSeq(s, trail + 1, Len(s))
================================================================================
