----------------------------- MODULE MCChatRooms -----------------------------
(* Model-checking instance of ChatRooms.                                   *)
EXTENDS ChatRooms, TLC

CONSTANTS u1, u2, s1, s2, r1, r2

MCUsers == {u1, u2}
MCSockets == {s1, s2}
MCRooms == {r1, r2}

\* Sockets and rooms are interchangeable.
Symmetric == Permutations(MCUsers) \cup Permutations(MCSockets) \cup Permutations(MCRooms)
============================================================================
