--------------------------- MODULE MCDedupLoop -----------------------------
(* Instance of DedupLoop for TLC. *)
EXTENDS DedupLoop
=============================================================================
