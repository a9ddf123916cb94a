---------------------------- MODULE MCTaskWorld ----------------------------
(* Rosters for TLC: one startup with a manager and two engineers, and a    *)
(* second startup with one agent.                                          *)
EXTENDS TaskWorld, TLC

CONSTANTS m, e1, e2, x, s1, s2, t1, t2

MCAgents    == {m, e1, e2, x}
MCStartupOf == m :> s1 @@ e1 :> s1 @@ e2 :> s1 @@ x :> s2
MCRoleOf    == m :> "founder" @@ e1 :> "engineer" @@ e2 :> "engineer" @@ x :> "engineer"
MCManagerOf == m :> NoAgent @@ e1 :> m @@ e2 :> m @@ x :> NoAgent

\* A single room, so that no task waits for a walk.
Hall          == "hall"
MCHomeOf      == [a \in MCAgents |-> Hall]
MCEnterableBy == [s \in {s1, s2} |-> {Hall}]

Symmetry == Permutations({t1, t2}) \cup Permutations({e1, e2})
=============================================================================
