--------------------------- MODULE MCChunkedPool ---------------------------
(* Instance of ChunkedPool for TLC. *)
EXTENDS ChunkedPool
=============================================================================
