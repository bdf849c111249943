------------------------------- MODULE Names -------------------------------
(* The names of nicknames and channels, src/src/c/Utils.cpp: the order that  *)
(* the maps of the C layer are sorted by, and the characters a name may      *)
(* have. A character is its code; a char above 127 is negative, as on the    *)
(* platforms the program is built for.                                       *)
EXTENDS Integers, Sequences

CONSTANT NickLen    \* the longest nickname, 9 in the code

ASSUME NickLenAssumption == NickLen \in Nat

CharCodes == -128..127
Strings == Seq(CharCodes)

(* The characters the code writes as literals. *)
SPACE == 32
HASH  == 35
COMMA == 44
COLON == 58
LF    == 10
CR    == 13
Ends  == {0, 7, LF, CR}     \* with NUL and BEL

(* A slip: only letters are folded. *)
irc_tolower_LettersOnly(x) ==
  IF x \in 65..90 THEN x + 32 ELSE x

(* RFC 1459 lower case: A to Z, and the characters [ ] \ ~ are the upper     *)
(* case of { } | ^.                                                          *)
irc_tolower(x) ==
  CASE x \in 65..90 -> x + 32
    [] x = 91       -> 123
    [] x = 93       -> 125
    [] x = 92       -> 124
    [] x = 126      -> 94
    [] OTHER        -> x

isLetter(x) == x \in 65..90 \cup 97..122
isDigit(x) == x \in 48..57
isSpecial(x) == x \in 91..96 \cup 123..125
isNicknameChar(x) == isLetter(x) \/ isDigit(x) \/ isSpecial(x) \/ x = 45

(* A slip: the space is not excluded. *)
isChannelStringChar_Space(x) == x \notin Ends \cup {COMMA, COLON}

isChannelStringChar(x) == x \notin Ends \cup {SPACE, COMMA, COLON}

(* The loop over both strings has come to index i without a difference. *)
SameUpTo(s, t, i) ==
  \A j \in 1..i : irc_tolower(s[j]) = irc_tolower(t[j])

MinLen(s, t) == IF Len(s) < Len(t) THEN Len(s) ELSE Len(t)

(* A slip: two strings without a difference count as ordered. *)
IrcStringCompare_OrEqual(s, t) ==
  \/ \E i \in 1..MinLen(s, t) :
        /\ SameUpTo(s, t, i - 1)
        /\ irc_tolower(s[i]) < irc_tolower(t[i])
  \/ SameUpTo(s, t, MinLen(s, t)) /\ Len(s) <= Len(t)

(* operator(): the first difference decides, and without one the length. *)
IrcStringCompare(s, t) ==
  \/ \E i \in 1..MinLen(s, t) :
        /\ SameUpTo(s, t, i - 1)
        /\ irc_tolower(s[i]) < irc_tolower(t[i])
  \/ SameUpTo(s, t, MinLen(s, t)) /\ Len(s) < Len(t)

isValidNickname(s) ==
  /\ Len(s) \in 1..NickLen
  /\ isLetter(s[1]) \/ isSpecial(s[1])
  /\ \A i \in 2..Len(s) : isNicknameChar(s[i])

isValidChannelName(s) ==
  /\ Len(s) >= 2 /\ s[1] = HASH
  /\ \A i \in 2..Len(s) : isChannelStringChar(s[i])
=============================================================================
