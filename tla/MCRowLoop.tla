----------------------------- MODULE MCRowLoop -----------------------------
(***************************************************************************)
(* The instance of RowLoop for TLC: all six programs.                      *)
(***************************************************************************)
EXTENDS RowLoop

EveryMain == AllMains
=============================================================================
