------------------------------ MODULE MCSkills ------------------------------
(* Two startups with an agent each, and skills that may bear the same name.   *)
EXTENDS Skills

CONSTANTS acme, zeta, a1, a2, i1, i2, m1, m2, c1

MCStartupOf == (a1 :> acme) @@ (a2 :> zeta)

Interchangeable == Permutations({i1, i2}) \cup Permutations({m1, m2})

=============================================================================
