------------------------------- MODULE Errand -------------------------------
(***************************************************************************)
(* What the scheduler takes walking to be: an agent that is sent to a room *)
(* passes through rooms, and when its way ends it is in that room, unless  *)
(* it was sent elsewhere or taken out of the world in between.             *)
(***************************************************************************)
CONSTANTS Agents, Rooms, NoRoom

VARIABLES
  at,    \* the room each agent is in; NoRoom when it is not in the world
  goal   \* the room its way leads to; NoRoom when it is not on its way

errand == <<at, goal>>

Init == at = [a \in Agents |-> NoRoom] /\ goal = [a \in Agents |-> NoRoom]

Send(a) ==
  /\ at[a] # NoRoom
  /\ goal' \in {[goal EXCEPT ![a] = r] : r \in Rooms}
  /\ UNCHANGED at

\* What one tick, one startup's arrival or one startup's end makes of an agent.
Pass(a)   == at'[a] \in Rooms /\ goal[a] # NoRoom /\ goal'[a] = goal[a]
Arrive(a) == goal[a] # NoRoom /\ at'[a] = goal[a] /\ goal'[a] = NoRoom
Appear(a) == at[a] = NoRoom /\ at'[a] \in Rooms /\ goal[a] = NoRoom /\ goal'[a] = NoRoom
Vanish(a) == at[a] # NoRoom /\ at'[a] = NoRoom /\ goal'[a] = NoRoom
Stay(a)   == at'[a] = at[a] /\ goal'[a] = goal[a]

Move == \A a \in Agents : Pass(a) \/ Arrive(a) \/ Appear(a) \/ Vanish(a) \/ Stay(a)

Next == Move \/ \E a \in Agents : Send(a)

Spec == Init /\ [][Next]_errand
=============================================================================
