---------------------------- MODULE MCSentences ----------------------------
(***************************************************************************)
(* Bytes of four bits and digits of two.  As in ASCII, the low bits of a   *)
(* digit are its value, and one digit has a second form (lower case).      *)
(***************************************************************************)
EXTENDS Sentences

MCDollar == {2}
MCStar == {1}
MCReturn == {0}
MCDigits == {{3} \cup v : v \in SUBSET {0, 1}}
MCDigitValue == [d \in MCDigits \cup {{0, 2}} |-> d \cap {0, 1}]

\* A letter and a digit, one byte alone, a sentence whose checksum is zero, and
\* one that is too long.
MCBody == {<<{2, 3}, {3}>>, <<{1, 2, 3}>>, <<{2, 3}, {2, 3}>>, <<{3}, {2, 3}, {0, 3}>>}

MCNoise == {{2}, {1}, {0}, {3}}
=============================================================================
