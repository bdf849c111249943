----------------------------- MODULE MCDispatcher -----------------------------
(* Instances of Dispatcher for TLC. *)
EXTENDS Dispatcher, TLC

CONSTANTS a, A, b   \* nicknames: a and A differ in case only

\* The key of a nickname is one of its spellings.
MCFold == [n \in Nick |-> IF n = A THEN a ELSE n]
MCNickKey == Nick \ {A}

FdSymmetry == Permutations(Fd)
================================================================================
