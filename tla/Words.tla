------------------------------- MODULE Words -------------------------------
(* Everything that names and lines can be, up to a length: three strings and *)
(* a line are written character by character, so that each is a state. What  *)
(* is written is either names or a line.                                     *)
EXTENDS Parser

CONSTANTS
  Chars,      \* the characters names and texts are made of
  LineChars,  \* the characters a line is made of
  MaxLen,     \* bound: the length of a name or text
  MaxLine     \* bound: the length of a line

ASSUME CharsAssumption == Chars \cup LineChars \subseteq CharCodes
ASSUME LenAssumption == MaxLen \in Nat /\ MaxLine \in Nat

VARIABLES a, b, c, line

vars == <<a, b, c, line>>

Init == a = <<>> /\ b = <<>> /\ c = <<>> /\ line = <<>>

Extended(s, t) == \E x \in Chars : Len(s) < MaxLen /\ t = Append(s, x)

Name ==
  /\ line = <<>>
  /\ \/ Extended(a, a') /\ UNCHANGED <<b, c>>
     \/ Extended(b, b') /\ UNCHANGED <<a, c>>
     \/ Extended(c, c') /\ UNCHANGED <<a, b>>
  /\ UNCHANGED line

Line ==
  /\ a = <<>> /\ b = <<>> /\ c = <<>>
  /\ Len(line) < MaxLine /\ \E x \in LineChars : line' = Append(line, x)
  /\ UNCHANGED <<a, b, c>>

Next == Name \/ Line

Spec == Init /\ [][Next]_vars

-----------------------------------------------------------------------------

(* The strings are strings. *)
TypeOK == a \in Strings /\ b \in Strings /\ c \in Strings /\ line \in Strings

(* IrcStringCompare is a strict order, which std::map requires of it: two    *)
(* strings are never each before the other, none is before itself, and it is *)
(* transitive. A map whose order breaks this loses entries it holds.         *)
StrictlyOrdered ==
  /\ ~IrcStringCompare(a, a)
  /\ ~(IrcStringCompare(a, b) /\ IrcStringCompare(b, a))
  /\ IrcStringCompare(a, b) /\ IrcStringCompare(b, c) => IrcStringCompare(a, c)

(* The pairs RFC 1459, 2.2 (and RFC 2812 for ~ and ^) names as the two cases *)
(* of one character, stated apart from irc_tolower.                          *)
CasePairs ==
  {<<65 + k, 97 + k>> : k \in 0..25}
    \cup {<<91, 123>>, <<92, 124>>, <<93, 125>>, <<126, 94>>}

SameName(s, t) ==
  /\ Len(s) = Len(t)
  /\ \A i \in 1..Len(s) :
        s[i] = t[i] \/ {<<s[i], t[i]>>, <<t[i], s[i]>>} \cap CasePairs # {}

(* Two strings are one key of the maps (neither is before the other) exactly *)
(* if they are one name: no two clients hold nicknames that differ in case   *)
(* only, and two names that are different are never taken for one.           *)
KeysAreNames ==
  ~IrcStringCompare(a, b) /\ ~IrcStringCompare(b, a) <=> SameName(a, b)

(* parse returns what the line says, wherever blanks and colons stand: many  *)
(* or none, in front and at the end, an empty trailing parameter, a prefix   *)
(* with nothing after it.                                                    *)
ParsesTheGrammar == Says(removeIrcLineTerminator(line), parse(line))

(* What the server's and the bot's formatters write is read back as it was   *)
(* meant: any name that isValidNickname accepted goes through as the prefix, *)
(* any nickname or channel name as the target, and any text unchanged, if    *)
(* empty, with blanks or with colons in front as well. A target is never     *)
(* both a nickname and a channel (handleTextMessage goes by the name).       *)
FormattedIsReadBack ==
  /\ ~(isValidNickname(b) /\ isValidChannelName(b))
  /\ (a = <<>> \/ isValidNickname(a)) /\ (isValidNickname(b) \/ isValidChannelName(b)) =>
       LET m == parse(privmsg(a, b, c))
       IN  /\ m.prefix = a /\ m.command = PRIVMSG
           /\ hasParam(m, 1) /\ ~hasParam(m, 2)
           /\ getSingleParam(m, 0) = b
           /\ getSingleParam(m, 1) = c
=============================================================================
