--------------------------- MODULE MCReorderStream ---------------------------
(* ReorderStream for TLC: a space of 16 sequence numbers, a window of 2.   *)
EXTENDS ReorderStream

(* Joining far from and right before the wrap of the sequence numbers.     *)
MCFirstSeqs == {0, 13}

=============================================================================
