------------------------------ MODULE MCDlqLease ------------------------------
(***************************************************************************)
(* Items are interchangeable, and so are attempts.                         *)
(***************************************************************************)
EXTENDS DlqLease, TLC

Symmetry == Permutations(Item) \cup Permutations(Attempt)
===============================================================================
