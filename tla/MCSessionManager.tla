-------------------------- MODULE MCSessionManager --------------------------
(* Model-checking instance of SessionManager.                              *)
EXTENDS SessionManager, TLC

CONSTANTS u1, i1, i2, d1, d2

MCUsers == {u1}
MCSessions == {i1, i2}
MCDevices == {d1, d2}

\* Session ids are, and device ids are, interchangeable.
Symmetric == Permutations(MCSessions) \cup Permutations(MCDevices)
============================================================================
