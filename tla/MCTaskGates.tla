---------------------------- MODULE MCTaskGates ----------------------------
(* A small startup for TLC, in a town of two rooms, where every gate of the *)
(* scheduler opens and closes: engineer e, and manager m if in the roster.  *)
EXTENDS TaskWorld, TLC

CONSTANTS m, e, s, t1, t2, t3

MCStartupOf == [a \in Agents |-> s]
MCRoleOf    == [a \in Agents |-> IF a = e THEN "engineer" ELSE "founder"]
MCManagerOf == [a \in Agents |-> IF a = e /\ m \in Agents THEN m ELSE NoAgent]

Hall          == "hall"
Suite         == "suite"
MCHomeOf      == [a \in Agents |-> Hall]
MCEnterableBy == s :> {Hall, Suite}

Symmetry == Permutations({t1, t2, t3})
=============================================================================
