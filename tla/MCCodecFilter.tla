--------------------------- MODULE MCCodecFilter ---------------------------
(* Model checking instance of CodecFilter. *)
EXTENDS CodecFilter, TLC

\* Output buffers are interchangeable.
Symmetry == Permutations(Bufs)

=============================================================================
