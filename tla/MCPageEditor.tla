---------------------------- MODULE MCPageEditor ----------------------------
(* Small instances of PageEditor for TLC. *)
EXTENDS PageEditor, TLC

CONSTANTS e1, e2

\* The tabs are alike.  Used for safety only.
Symmetry == Permutations(Editors)
=============================================================================
