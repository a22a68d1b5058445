------------------------ MODULE MCConnectionManager ------------------------
(* Model-checking instance of ConnectionManager.                           *)
EXTENDS ConnectionManager, TLC

CONSTANTS u1, u2, s1, s2, s3, s4, d1, d2

MCUsers == {u1, u2}
MCSockets == {s1, s2, s3, s4}
MCDevices == {d1, d2}

\* Users, sockets and devices are interchangeable in every definition.
Symmetric == Permutations(MCUsers) \cup Permutations(MCSockets)
               \cup Permutations(MCDevices)
============================================================================
