----------------------------- MODULE MCMessages -----------------------------
(* Model-checking instance of Messages.                                    *)
EXTENDS Messages, TLC

CONSTANTS m1, m2, t1, u1, q1, q2

MCMessages == {m1, m2}
MCPlain == {m1}
MCTexts == {t1}
MCUsers == {u1}
MCAuthor == [m \in MCMessages |-> u1]
MCRequests == {q1, q2}
\* Each message once, and one of them twice.
MCBodies ==
  {[m \in MCMessages |-> 1], [m \in MCMessages |-> IF m = m1 THEN 2 ELSE 0]}

MCSymmetry == Permutations(MCRequests)
=============================================================================
