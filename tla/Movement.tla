------------------------------ MODULE Movement ------------------------------
(***************************************************************************)
(* move_sys.rs and path.rs: how avatars walk.  A move is planned at once,  *)
(* over rooms and doors and over the tiles of each room, and then walked   *)
(* one tile at a tick; meanwhile suites are claimed and released, and the  *)
(* agent may change its mind on any tile, that of a door included.         *)
(***************************************************************************)
EXTENDS Integers, FiniteSets, SequencesExt

CONSTANTS
  Agents, Startups, StartupOf, NoStartup,
  Rooms, NoRoom, NoTile,
  Bounds,      \* RoomDef.bounds: <<x, y, w, h>>
  Doors,       \* DoorDef: the two rooms and the tile
  PublicRooms, \* mcp_dispatch::is_public_room
  Home,        \* the desk a suite has for a new agent; its domain is the suites
  Targets,     \* the tiles that agents ask for
  NoTurning    \* nobody asks, on a door's tile, to go through that very door

\* A room's tiles; the rectangle excludes its far edges.
TilesOf(b) == (b[1]..(b[1] + b[3] - 1)) \X (b[2]..(b[2] + b[4] - 1))

Distance(t, u) == LET Abs(n) == IF n < 0 THEN -n ELSE n
                  IN  Abs(t[1] - u[1]) + Abs(t[2] - u[2])

\* A door's tile lies in one of its two rooms and touches the other.
DoorFits(bounds, d) ==
  \E r, q \in {d.a, d.b} :
    /\ d.tile \in TilesOf(bounds[r]) \ TilesOf(bounds[q])
    /\ \E t \in TilesOf(bounds[q]) : Distance(t, d.tile) = 1

\* Rooms do not overlap.  Doors fit, each has a tile of its own, at most one joins
\* two rooms, and a suite has but one.
TownFits(rooms, suites, bounds, doors) ==
  /\ IsFiniteSet(rooms)
  /\ \A r \in rooms : bounds[r] \in Int \X Int \X Int \X Int
  /\ \A r, q \in rooms : r # q => TilesOf(bounds[r]) \cap TilesOf(bounds[q]) = {}
  /\ \A d \in doors :
       /\ {d.a, d.b} \subseteq rooms /\ DoorFits(bounds, d)
       /\ \A e \in doors :
            \/ d.tile = e.tile \/ {d.a, d.b} = {e.a, e.b}
            \/ {d.a, d.b} \cap {e.a, e.b} \cap suites # {}
            => d = e

ASSUME TownAssumption ==
  /\ StartupOf \in [Agents -> Startups] /\ NoStartup \notin Startups
  /\ NoRoom \notin Rooms
  /\ PublicRooms \subseteq Rooms
  /\ TownFits(Rooms, Rooms \ PublicRooms, Bounds, Doors)
  /\ DOMAIN Home = Rooms \ PublicRooms
  /\ \A x \in DOMAIN Home : Home[x] \in TilesOf(Bounds[x])
  /\ Targets \subseteq UNION {TilesOf(Bounds[r]) : r \in Rooms}
  /\ NoTurning \in BOOLEAN

VARIABLES
  room,     \* Avatar.room_id; NoRoom when the avatar is not in the world
  pos,      \* Avatar.current_pos
  target,   \* Avatar.target_pos
  paths,    \* PathStore: the steps an agent has still to take
  private,  \* RoomDef.private_to_startup_id
  overtaken \* history: the suites claimed since an agent's walk into them was planned

vars == <<room, pos, target, paths, private, overtaken>>

Suites == DOMAIN Home
Tiles  == UNION {TilesOf(Bounds[r]) : r \in Rooms}
Step   == [tile : Tiles, enter : Rooms \cup {NoRoom}]
Here   == {a \in Agents : room[a] # NoRoom}

TypeOK ==
  /\ room \in [Agents -> Rooms \cup {NoRoom}]
  /\ pos \in [Agents -> Tiles \cup {NoTile}]
  /\ target \in [Agents -> Tiles \cup {NoTile}]
  /\ paths \in [Agents -> Seq(Step)]
  /\ private \in [Rooms -> Startups \cup {NoStartup}]
  /\ overtaken \in [Agents -> SUBSET Suites]

Init ==
  /\ room = [a \in Agents |-> NoRoom]
  /\ pos = [a \in Agents |-> NoTile]
  /\ target = [a \in Agents |-> NoTile]
  /\ paths = [a \in Agents |-> <<>>]
  /\ private = [r \in Rooms |-> NoStartup]
  /\ overtaken = [a \in Agents |-> {}]

-----------------------------------------------------------------------------
(* path.rs.                                                                *)

Joins(d, r, q) == {d.a, d.b} = {r, q} /\ r # q

\* RoomGraph::route: the ways with the fewest rooms; A* may find any of them.
Routes ==
  LET ways(from, to, n) ==
        {w \in [1..n -> Rooms] :
           /\ w[1] = from /\ w[n] = to
           /\ \A i \in 1..(n - 1) : \E d \in Doors : Joins(d, w[i], w[i + 1])}
  IN  [from \in Rooms |-> [to \in Rooms |->
         {w \in UNION {ways(from, to, n) : n \in 1..Cardinality(Rooms)} :
            \A n \in 1..(Len(w) - 1) : ways(from, to, n) = {}}]]

DoorBetween(r, q) == (CHOOSE d \in Doors : Joins(d, r, q)).tile

\* tile_path: the shortest ways inside the room, of which A* may find any; none
\* when an end is outside.
TilePaths ==
  [r \in Rooms |-> [from \in Tiles |-> [to \in Tiles |->
     LET n == Distance(from, to) + 1
     IN  IF {from, to} \subseteq TilesOf(Bounds[r])
         THEN {p \in [1..n -> TilesOf(Bounds[r])] :
                 /\ p[1] = from /\ p[n] = to
                 /\ \A i \in 1..(n - 1) : Distance(p[i], p[i + 1]) = 1}
         ELSE {}]]]

\* adjacent_inside: the door's tile, or the room's tile next to it.
AdjacentInside(r, door) ==
  IF door \in TilesOf(Bounds[r]) THEN door
  ELSE CHOOSE t \in TilesOf(Bounds[r]) : Distance(t, door) = 1

\* Mutant: the door's tile is pushed even when the way inside ends on it.
TilesToDoorTwice(r, from, door) ==
  {Append(p, door) : p \in TilePaths[r][from][AdjacentInside(r, door)]}

\* One transitional segment of full_route: through the room, then the door.
TilesToDoor(r, from, door) ==
  LET exit == AdjacentInside(r, door)
  IN  {IF exit = door THEN p ELSE Append(p, door) : p \in TilePaths[r][from][exit]}

\* The steps of a segment: its last tile is where the agent enters the next room.
StepsOf(tiles, next) ==
  [i \in DOMAIN tiles |-> [tile |-> tiles[i],
                           enter |-> IF i = Len(tiles) THEN next ELSE NoRoom]]

\* Where segment i begins: where the agent stands, or inside the room of a door.
Entry(way, from, i) ==
  IF i = 1 THEN from ELSE AdjacentInside(way[i], DoorBetween(way[i - 1], way[i]))

\* Segment i of a way, of all there may be.
Legs(way, from, to, i) ==
  IF i = Len(way)
  THEN {StepsOf(p, NoRoom) : p \in TilePaths[way[i]][Entry(way, from, i)][to]}
  ELSE {StepsOf(p, way[i + 1]) :
          p \in TilesToDoor(way[i], Entry(way, from, i), DoorBetween(way[i], way[i + 1]))}

\* full_route along the rooms of way, flattened to steps.
FullRoutes(way, from, to) ==
  LET upto[i \in 1..Len(way)] ==
        IF i = 1 THEN Legs(way, from, to, 1)
        ELSE {w \o v : w \in upto[i - 1], v \in Legs(way, from, to, i)}
  IN  upto[Len(way)]

-----------------------------------------------------------------------------
(* start_move.                                                             *)

\* Mutant: whoever asks may enter.
CanEnterAnything(s, r) == s \in Startups /\ r \in Rooms

\* can_enter_layout_room.
CanEnter(s, r) == private[r] \in {NoStartup, s}

\* A step to the tile of the step kept last is dropped.
Keep(kept, step) == IF Last(kept).tile = step.tile THEN kept ELSE Append(kept, step)

Dedupe(steps) ==
  LET upto[i \in 1..Len(steps)] ==
        IF i = 1 THEN <<steps[1]>> ELSE Keep(upto[i - 1], steps[i])
  IN  upto[Len(steps)]

\* The steps of a move, before that to the tile the agent stands on is dropped.
Plans ==
  [r \in Rooms |-> [from \in Tiles |-> [q \in Rooms |-> [to \in Targets |->
     {Dedupe(steps) : steps \in UNION {FullRoutes(way, from, to) : way \in Routes[r][q]}}]]]]

\* The first step is to the tile the agent stands on; whatever it says about a
\* room goes with it.
DropFirst(a, plan) == IF plan[1].tile = pos[a] THEN Tail(plan) ELSE plan

\* Mutant: the new steps go behind those of the move before.
WalkAppends(a, t, steps) ==
  /\ target' = [target EXCEPT ![a] = t]
  /\ paths' = [paths EXCEPT ![a] = @ \o steps]
  /\ overtaken' = [overtaken EXCEPT ![a] = {}]

Walk(a, t, steps) ==
  /\ target' = [target EXCEPT ![a] = t]
  /\ paths' = [paths EXCEPT ![a] = steps]
  /\ overtaken' = [overtaken EXCEPT ![a] = {}]

\* Mutant: the target stays set.
AlreadyThereKeepsTarget(a, t) ==
  /\ target' = [target EXCEPT ![a] = t]
  /\ UNCHANGED <<paths, overtaken>>

\* No step is left to take.  A walk begun earlier goes on.
AlreadyThere(a, t) ==
  /\ target' = [target EXCEPT ![a] = NoTile]
  /\ UNCHANGED <<paths, overtaken>>

\* A move_intent, of the worker's socket, of MCP, or of the scheduler.  Refused
\* moves change nothing: another startup's suite, a tile outside the room, or
\* an agent that stands outside its own room.
StartMove(a, r, t) ==
  /\ a \in Here
  /\ CanEnter(StartupOf[a], r)
  /\ \E plan \in Plans[room[a]][pos[a]][r][t] :
       /\ NoTurning /\ plan[1].tile = pos[a] => plan[1].enter = NoRoom
       /\ LET steps == DropFirst(a, plan)
          IN  IF steps = <<>> THEN AlreadyThere(a, t) ELSE Walk(a, t, steps)
  /\ UNCHANGED <<room, pos, private>>

MoveIntent(a) == \E r \in Rooms, t \in Targets : StartMove(a, r, t)

-----------------------------------------------------------------------------
(* step_all, at each tick.                                                 *)

Walking(a) == a \in Here /\ paths[a] # <<>>

\* Mutant: who has no target is not moved.
StepAllToTarget ==
  LET moves(a) == Walking(a) /\ target[a] # NoTile IN
  /\ \E a \in Agents : moves(a) \/ (a \notin Here /\ paths[a] # <<>>)
  /\ pos' = [a \in Agents |-> IF moves(a) THEN Head(paths[a]).tile ELSE pos[a]]
  /\ room' = [a \in Agents |->
       IF moves(a) /\ Head(paths[a]).enter # NoRoom THEN Head(paths[a]).enter ELSE room[a]]
  /\ paths' = [a \in Agents |-> IF moves(a) THEN Tail(paths[a])
                                ELSE IF a \in Here THEN paths[a] ELSE <<>>]
  /\ target' = [a \in Agents |->
       IF moves(a) /\ Len(paths[a]) = 1 THEN NoTile ELSE target[a]]
  /\ UNCHANGED <<private, overtaken>>

\* The avatars that have a path take a step; the path of one that is gone goes.
StepAll ==
  /\ \E a \in Agents : paths[a] # <<>>
  /\ pos' = [a \in Agents |-> IF Walking(a) THEN Head(paths[a]).tile ELSE pos[a]]
  /\ room' = [a \in Agents |->
       IF Walking(a) /\ Head(paths[a]).enter # NoRoom THEN Head(paths[a]).enter ELSE room[a]]
  /\ paths' = [a \in Agents |-> IF Walking(a) THEN Tail(paths[a]) ELSE <<>>]
  /\ target' = [a \in Agents |->
       IF Walking(a) /\ Len(paths[a]) = 1 THEN NoTile ELSE target[a]]
  /\ overtaken' = [a \in Agents |-> IF paths'[a] = <<>> THEN {} ELSE overtaken[a]]
  /\ UNCHANGED private

-----------------------------------------------------------------------------
(* Startups come and go.                                                   *)

Crew(s) == {a \in Agents : StartupOf[a] = s}

\* Command InsertAvatars: the agents at their desks, and the claim, whoever had
\* the suite and whoever is on the way into it.  The ids of the agents are new, so
\* the path store knows nothing of them.
InsertAvatars(s, x) ==
  /\ Crew(s) \cap Here = {}
  /\ \A a \in Crew(s) : paths[a] = <<>>
  /\ private' = [private EXCEPT ![x] = s]
  /\ room' = [a \in Agents |-> IF a \in Crew(s) THEN x ELSE room[a]]
  /\ pos' = [a \in Agents |-> IF a \in Crew(s) THEN Home[x] ELSE pos[a]]
  /\ overtaken' = [a \in Agents |->
       IF \E i \in DOMAIN paths[a] : paths[a][i].enter = x
       THEN overtaken[a] \cup {x} ELSE overtaken[a]]
  /\ UNCHANGED <<target, paths>>

\* Command ReleaseSuite.  The paths of its agents stay until the next tick.
ReleaseSuite(s) ==
  /\ Crew(s) \cap Here # {}
  /\ private' = [r \in Rooms |-> IF private[r] = s THEN NoStartup ELSE private[r]]
  /\ room' = [a \in Agents |-> IF a \in Crew(s) THEN NoRoom ELSE room[a]]
  /\ pos' = [a \in Agents |-> IF a \in Crew(s) THEN NoTile ELSE pos[a]]
  /\ target' = [a \in Agents |-> IF a \in Crew(s) THEN NoTile ELSE target[a]]
  /\ UNCHANGED <<paths, overtaken>>

-----------------------------------------------------------------------------
Next ==
  \/ \E a \in Agents : MoveIntent(a)
  \/ StepAll
  \/ \E s \in Startups : ReleaseSuite(s) \/ \E x \in Suites : InsertAvatars(s, x)

Spec == Init /\ [][Next]_vars

\* The timer ticks.
FairSpec == Spec /\ WF_vars(StepAll)

-----------------------------------------------------------------------------
(* Who hears whom.                                                         *)

\* Mutant: nobody asks whose the listener is.
HearsInRoom(b, a) == a # b /\ {a, b} \subseteq Here /\ room[a] = room[b]

\* handle_speak: b receives the chat of a.
Hears(b, a) ==
  /\ a # b /\ {a, b} \subseteq Here
  /\ room[a] = room[b]
  /\ StartupOf[a] = StartupOf[b] \/ room[a] \in PublicRooms

-----------------------------------------------------------------------------
(* Properties.                                                             *)

\* Whatever is re-planned, and on whichever tile of an earlier walk, the steps
\* in store go from the tile the avatar stands on, tile by adjacent tile.
StepByStep ==
  \A a \in Here : \A i \in DOMAIN paths[a] :
    Distance(paths[a][i].tile, IF i = 1 THEN pos[a] ELSE paths[a][i - 1].tile) = 1

\* move_sys.rs:11-13: "Door crossings: when the new tile matches a door tile, the
\* avatar's `room_id` is updated to the door's other side."  So an avatar stands
\* inside its room, or on the tile of one of its doors.  One that does not gets
\* NoPath for every move to come.
InsideItsRoom ==
  \A a \in Here :
    \/ pos[a] \in TilesOf(Bounds[room[a]])
    \/ \E d \in Doors : room[a] \in {d.a, d.b} /\ d.tile = pos[a]

\* An agent on its way to a target has the steps that end on it.
HeadsForTarget ==
  \A a \in Here : target[a] # NoTile =>
    paths[a] # <<>> /\ Last(paths[a]).tile = target[a]

\* can_enter_layout_room is asked once, for the target, when a walk is planned.
\* That is enough for every room on the way, through re-planning and through moves
\* to where the agent stands: who enters another startup's suite was let in, and
\* the suite was claimed during that very walk.
LetInWhenPlanned ==
  [][\A a \in Here : room'[a] \notin {room[a], NoRoom} =>
       \/ private[room'[a]] \in {NoStartup, StartupOf[a]}
       \/ room'[a] \in overtaken[a]]_vars

\* What is said at a desk of one's own suite stays in the startup, even with a
\* stranger in the room who came before the suite was claimed.
SuiteTalkStaysInside ==
  \A a, b \in Here, x \in Suites :
    /\ pos[a] \in TilesOf(Bounds[x]) \ {d.tile : d \in Doors}
    /\ private[x] = StartupOf[a]
    /\ Hears(b, a)
    => StartupOf[b] = StartupOf[a]

\* The room a path leads to, by the tile it ends on.
GoalOf(a) ==
  IF ~Walking(a) THEN NoRoom
  ELSE CHOOSE r \in Rooms : Last(paths[a]).tile \in TilesOf(Bounds[r])

Errands == INSTANCE Errand WITH at <- room, goal <- [a \in Agents |-> GoalOf(a)]

\* The scheduler, and TaskWorld with it, takes a walk for an errand: it ends in
\* the room it was planned to.
WalksAreErrands == Errands!Spec

\* A walk ends, unless the agent changes its mind for ever.
WalksEnd ==
  LET Replanned(a) == pos' = pos /\ paths'[a] # paths[a]
  IN  \A a \in Agents : []<>~Walking(a) \/ []<><<Replanned(a)>>_vars
=============================================================================
