-------------------------- MODULE MCProgressStream --------------------------
(* An instance of the progress stream for TLC. *)
EXTENDS ProgressStream

CONSTANTS b1, b2, b3

ThreeBatches == {b1, b2, b3}
=============================================================================
