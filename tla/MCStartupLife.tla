--------------------------- MODULE MCStartupLife ---------------------------
(* Two startups that follow each other in the only suite; the first has one  *)
(* agent, the second none.                                                  *)
EXTENDS StartupLife, TLC

CONSTANTS a1, a2, s1, s2, x1, p1, p2, p3

MCStartupOf == a1 :> s1

=============================================================================
