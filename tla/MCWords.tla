------------------------------ MODULE MCWords ------------------------------
(* The characters that the code tells apart. *)
EXTENDS Words

(* '#', ' ', ':', both cases of a letter, of '[' and of '~'. *)
NameChars == {35, 32, 58, 65, 97, 91, 123, 126, 94}

(* ' ', ':', both cases of a letter, CR, LF. *)
WireChars == {32, 58, 65, 97, 13, 10}
=============================================================================
