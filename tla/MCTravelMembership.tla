------------------------- MODULE MCTravelMembership -------------------------
(* Model-checking instance of TravelMembership.                            *)
EXTENDS TravelMembership, TLC

CONSTANTS u1, u2, u3, r1, r2, p1, p2

MCUsers == {u1, u2, u3}
MCRequests == {r1, r2}
MCPlanets == {p1, p2}

\* Users, requests and planets are interchangeable.
Symmetric == Permutations(MCUsers) \cup Permutations(MCRequests)
               \cup Permutations(MCPlanets)
============================================================================
