-------------------------- MODULE MCEnhancedGateway --------------------------
(* Model-checking instance of EnhancedGateway.                             *)
EXTENDS EnhancedGateway

CONSTANTS u1, u2, s1, s2, d1

MCUsers == {u1, u2}
MCSockets == {s1, s2}
MCDevices == {d1}
============================================================================
