---------------------------- MODULE MCQrPayment ----------------------------
(* Small instances of QrPayment for TLC. *)
EXTENDS QrPayment, TLC

CONSTANTS i1, s1, s2

TwoIntents == 1 .. 2
ThreeIntents == 1 .. 3

\* The browsers are alike.  Used for safety only.
Symmetry == Permutations(Staff)
=============================================================================
