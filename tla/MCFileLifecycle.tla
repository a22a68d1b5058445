--------------------------- MODULE MCFileLifecycle ---------------------------
(* A small instance for TLC. *)
EXTENDS FileLifecycle

CONSTANTS r1, r2, w1

=============================================================================
