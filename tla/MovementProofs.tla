--------------------------- MODULE MovementProofs ---------------------------
(***************************************************************************)
(* What the plan of a move is, in every town the model is about, and what  *)
(* the walks that follow such plans keep to.                               *)
(***************************************************************************)
EXTENDS Movement, SequenceTheorems, FiniteSetTheorems, NaturalsInduction,
        WellFoundedInduction, TLAPS

-----------------------------------------------------------------------------
(* Tiles and doors.                                                            *)

\* A tile of a room is a pair of integers, and one of the town.
LEMMA TileFacts ==
  ASSUME NEW r \in Rooms, NEW t \in TilesOf(Bounds[r])
  PROVE  t \in Int \X Int /\ t \in Tiles
<1>1. Bounds[r] \in Int \X Int \X Int \X Int
  BY TownAssumption DEF TownFits
<1>2. t \in Int \X Int
  BY <1>1 DEF TilesOf
<1>3. QED
  BY <1>2 DEF Tiles

\* So are all tiles of the town.
LEMMA TilesAreTiles == Tiles \subseteq Int \X Int
BY TileFacts DEF Tiles

\* Manhattan distance is symmetric, and nothing from a tile to itself.
LEMMA DistanceFacts ==
  ASSUME NEW t \in Int \X Int, NEW u \in Int \X Int
  PROVE  /\ Distance(t, u) \in Nat
         /\ Distance(t, u) = Distance(u, t)
         /\ Distance(t, t) = 0
BY DEF Distance

\* Rooms do not overlap.
LEMMA ApartFacts ==
  ASSUME NEW r \in Rooms, NEW q \in Rooms, r # q, NEW t \in TilesOf(Bounds[r])
  PROVE  t \notin TilesOf(Bounds[q])
BY TownAssumption DEF TownFits

Inside(r, t) ==
  \/ t \in TilesOf(Bounds[r])
  \/ \E d \in Doors : r \in {d.a, d.b} /\ d.tile = t

\* A way through two rooms goes by their one door, which either room can reach.
LEMMA DoorFacts ==
  ASSUME NEW r \in Rooms, NEW q \in Rooms, \E d \in Doors : Joins(d, r, q)
  PROVE  \E d \in Doors :
           /\ Joins(d, r, q) /\ DoorBetween(r, q) = d.tile
           /\ d.tile \in Tiles
           /\ \A x \in {r, q} :
                /\ Inside(x, d.tile)
                /\ AdjacentInside(x, d.tile) \in TilesOf(Bounds[x])
                /\ \/ AdjacentInside(x, d.tile) = d.tile
                   \/ /\ d.tile \notin TilesOf(Bounds[x])
                      /\ AdjacentInside(x, d.tile) # d.tile
                      /\ Distance(AdjacentInside(x, d.tile), d.tile) = 1
                      /\ Distance(d.tile, AdjacentInside(x, d.tile)) = 1
<1> DEFINE d == CHOOSE e \in Doors : Joins(e, r, q)
<1>1. d \in Doors /\ Joins(d, r, q)
  OBVIOUS
<1>2. DoorBetween(r, q) = d.tile
  BY DEF DoorBetween
<1> HIDE DEF d
<1>3. /\ {d.a, d.b} = {r, q} /\ r # q
      /\ DoorFits(Bounds, d)
  BY <1>1, TownAssumption DEF Joins, TownFits
<1>4. PICK x \in {r, q}, y \in {r, q} :
        /\ d.tile \in TilesOf(Bounds[x]) \ TilesOf(Bounds[y])
        /\ \E t \in TilesOf(Bounds[y]) : Distance(t, d.tile) = 1
  BY <1>3 DEF DoorFits
<1>5. x # y
  BY <1>4
<1>6. d.tile \in Tiles /\ d.tile \in Int \X Int
  BY <1>4, TileFacts
<1>7. AdjacentInside(x, d.tile) = d.tile
  BY <1>4 DEF AdjacentInside
<1> DEFINE t == AdjacentInside(y, d.tile)
<1>8. t \in TilesOf(Bounds[y]) /\ Distance(t, d.tile) = 1
  BY <1>4 DEF AdjacentInside
<1> HIDE DEF t
<1>9. t \in Int \X Int
  BY <1>8, TileFacts
<1>10. Distance(d.tile, t) = 1 /\ t # d.tile
  BY <1>4, <1>6, <1>8, <1>9, DistanceFacts
<1>11. \A z \in {r, q} : Inside(z, d.tile)
  BY <1>1, <1>3 DEF Inside
<1>12. {r, q} = {x, y}
  BY <1>5
<1>13. QED
  BY <1>1, <1>2, <1>4, <1>6, <1>7, <1>8, <1>10, <1>11, <1>12 DEF t

-----------------------------------------------------------------------------
(* Ways.                                                                       *)

Way(w, r, q) ==
  /\ w \in Seq(Rooms) /\ w # <<>>
  /\ w[1] = r /\ w[Len(w)] = q
  /\ \A i \in 1 .. (Len(w) - 1) : \E d \in Doors : Joins(d, w[i], w[i + 1])
  /\ \A i \in 2 .. (Len(w) - 1) : w[i - 1] # w[i + 1]

\* A shortest way never turns back in a room: it could do without it.
LEMMA RoutesAreWays ==
  ASSUME NEW r \in Rooms, NEW q \in Rooms, NEW w \in Routes[r][q]
  PROVE  Way(w, r, q)
<1> DEFINE ways(from, to, n) ==
             {v \in [1..n -> Rooms] :
                /\ v[1] = from /\ v[n] = to
                /\ \A i \in 1..(n - 1) : \E d \in Doors : Joins(d, v[i], v[i + 1])}
<1>0. Routes[r][q] = {v \in UNION {ways(r, q, n) : n \in 1..Cardinality(Rooms)} :
                        \A n \in 1..(Len(v) - 1) : ways(r, q, n) = {}}
  BY DEF Routes
<1>1. Cardinality(Rooms) \in Nat
  BY FS_CardinalityType, TownAssumption DEF TownFits
<1>2. PICK n \in 1..Cardinality(Rooms) : w \in ways(r, q, n)
  BY <1>0
<1>3. n \in Nat /\ n >= 1
  BY <1>1
<1>4. w \in Seq(Rooms) /\ Len(w) = n /\ w # <<>>
  BY <1>2, <1>3
<1>5. \A m \in 1..(n - 1) : ways(r, q, m) = {}
  BY <1>0, <1>4
<1>6. ASSUME NEW i \in 2 .. (n - 1), w[i - 1] = w[i + 1] PROVE FALSE
  <2> DEFINE v == [j \in 1..(n - 2) |-> IF j < i THEN w[j] ELSE w[j + 2]]
  <2>1. n - 2 \in 1..(n - 1)
    BY <1>3
  <2>2. w \in [1..n -> Rooms] /\ w[1] = r /\ w[n] = q
    BY <1>2
  <2>3. v \in [1..(n - 2) -> Rooms]
    BY <1>3, <2>2
  <2>4. v[1] = r /\ v[n - 2] = q
    BY <1>3, <1>6, <2>2
  <2>5. ASSUME NEW j \in 1..(n - 3) PROVE \E d \in Doors : Joins(d, v[j], v[j + 1])
    <3>1. \A k \in 1..(n - 1) : \E d \in Doors : Joins(d, w[k], w[k + 1])
      BY <1>2
    <3>2. \/ v[j] = w[j] /\ v[j + 1] = w[j + 1] /\ j \in 1..(n - 1)
          \/ v[j] = w[j + 2] /\ v[j + 1] = w[j + 3] /\ j + 2 \in 1..(n - 1) /\ (j + 2) + 1 = j + 3
      BY <1>3, <1>6
    <3> HIDE DEF v
    <3>3. QED
      BY <3>1, <3>2
  <2>6. v \in ways(r, q, n - 2)
    BY <1>3, <2>3, <2>4, <2>5
  <2>7. QED
    BY <1>5, <2>1, <2>6
<1>7. QED
  BY <1>2, <1>4, <1>6 DEF Way

-----------------------------------------------------------------------------
(* Induction and recursion over 1 .. n.                                        *)

\* Induction, over a set.
LEMMA NatSet ==
  ASSUME NEW S \in SUBSET Nat, 0 \in S, \A n \in S : n + 1 \in S
  PROVE  S = Nat
<1> DEFINE T == Nat \ S
<1> SUFFICES ASSUME T # {} PROVE FALSE
  OBVIOUS
<1>1. IsWellFoundedOn(OpToRel(<, Nat), Nat)
  BY NatLessThanWellFounded
<1>2. PICK m \in T : \A y \in T : ~(<<y, m>> \in OpToRel(<, Nat))
  BY <1>1, WFMin
<1>3. m # 0 /\ m - 1 \in Nat /\ m \in Nat
  OBVIOUS
<1>4. <<m - 1, m>> \in OpToRel(<, Nat)
  BY <1>3 DEF OpToRel
<1>5. m - 1 \in S
  BY <1>2, <1>3, <1>4
<1>6. QED
  BY <1>3, <1>5

\* Induction, up to n.
LEMMA UpTo ==
  ASSUME NEW n \in Nat, NEW S, 1 \in S,
         \A i \in 1 .. n : i < n /\ i \in S => i + 1 \in S
  PROVE  \A i \in 1 .. n : i \in S
<1> DEFINE Z == {i \in Nat : i \in 1 .. n => i \in S}
<1>1. Z \in SUBSET Nat /\ 0 \in Z
  OBVIOUS
<1>2. ASSUME NEW i \in Z PROVE i + 1 \in Z
  OBVIOUS
<1>3. Z = Nat
  <2> HIDE DEF Z
  <2> QED BY <1>1, <1>2, NatSet
<1>4. QED
  BY <1>3

Joined(routes, legs) == {w \o v : w \in routes, v \in legs}

\* The sets of steps FullRoutes builds, segment after segment.
LEMMA FullRoutesAre ==
  ASSUME NEW way \in Seq(Rooms), NEW from, NEW to
  PROVE  \E u : /\ FullRoutes(way, from, to) = u[Len(way)]
                /\ \A i \in 1 .. Len(way) :
                     u[i] = IF i = 1 THEN Legs(way, from, to, 1)
                            ELSE Joined(u[i - 1], Legs(way, from, to, i))
<1> DEFINE B == Legs(way, from, to, 1)
           N(x, i) == Joined(x, Legs(way, from, to, i))
           P(n, u) == u = [i \in 1..n |-> IF i = 1 THEN B ELSE N(u[i - 1], i)]
           S == {m \in Nat : \E u : P(m, u)}
<1>1. ASSUME NEW n \in Nat, NEW u, P(n, u) PROVE \E g : P(n + 1, g)
  <2> HIDE DEF B, N
  <2> DEFINE g == [i \in 1..(n + 1) |-> IF i = 1 THEN B ELSE N(u[i - 1], i)]
  <2>1. ASSUME NEW i \in 1..(n + 1), i # 1 PROVE g[i - 1] = u[i - 1]
    BY <1>1, <2>1
  <2>2. P(n + 1, g)
    BY <2>1
  <2>3. QED
    BY <2>2
<1>2. \E u : P(0, u)
  <2> HIDE DEF B, N
  <2>1. P(0, [i \in {} |-> 0])
    OBVIOUS
  <2> QED
    BY <2>1
<1>3. S = Nat
  <2> HIDE DEF P
  <2>1. S \in SUBSET Nat /\ 0 \in S
    BY <1>2
  <2>2. \A n \in S : n + 1 \in S
    BY <1>1
  <2> HIDE DEF S
  <2> QED
    BY <2>1, <2>2, NatSet
<1>4. \E u : P(Len(way), u)
  <2>1. Len(way) \in S
    <3> HIDE DEF S
    <3> QED
      BY <1>3
  <2> HIDE DEF P
  <2> QED
    BY <2>1
<1> DEFINE u == CHOOSE g : P(Len(way), g)
<1>5. P(Len(way), u)
  <2> HIDE DEF P
  <2> QED
    BY <1>4, Zenon
<1>6. FullRoutes(way, from, to) = u[Len(way)]
  BY DEF FullRoutes, Joined
<1>7. \A i \in 1 .. Len(way) : u[i] = IF i = 1 THEN B ELSE N(u[i - 1], i)
  <2> HIDE DEF B, N, u
  <2> QED
    BY <1>5
<1> HIDE DEF u
<1>8. QED
  BY <1>6, <1>7

\* What Dedupe keeps, step after step.
LEMMA DedupeIs ==
  ASSUME NEW steps \in Seq(Step)
  PROVE  \E u : /\ Dedupe(steps) = u[Len(steps)]
                /\ \A i \in 1 .. Len(steps) :
                     u[i] = IF i = 1 THEN <<steps[1]>> ELSE Keep(u[i - 1], steps[i])
<1> DEFINE B == <<steps[1]>>
           N(x, i) == Keep(x, steps[i])
           P(n, u) == u = [i \in 1..n |-> IF i = 1 THEN B ELSE N(u[i - 1], i)]
           S == {m \in Nat : \E u : P(m, u)}
<1>1. ASSUME NEW n \in Nat, NEW u, P(n, u) PROVE \E g : P(n + 1, g)
  <2> HIDE DEF B, N
  <2> DEFINE g == [i \in 1..(n + 1) |-> IF i = 1 THEN B ELSE N(u[i - 1], i)]
  <2>1. ASSUME NEW i \in 1..(n + 1), i # 1 PROVE g[i - 1] = u[i - 1]
    BY <1>1, <2>1
  <2>2. P(n + 1, g)
    BY <2>1
  <2>3. QED
    BY <2>2
<1>2. \E u : P(0, u)
  <2> HIDE DEF B, N
  <2>1. P(0, [i \in {} |-> 0])
    OBVIOUS
  <2> QED
    BY <2>1
<1>3. S = Nat
  <2> HIDE DEF P
  <2>1. S \in SUBSET Nat /\ 0 \in S
    BY <1>2
  <2>2. \A n \in S : n + 1 \in S
    BY <1>1
  <2> HIDE DEF S
  <2> QED
    BY <2>1, <2>2, NatSet
<1>4. \E u : P(Len(steps), u)
  <2>1. Len(steps) \in S
    <3> HIDE DEF S
    <3> QED
      BY <1>3
  <2> HIDE DEF P
  <2> QED
    BY <2>1
<1> DEFINE u == CHOOSE g : P(Len(steps), g)
<1>5. P(Len(steps), u)
  <2> HIDE DEF P
  <2> QED
    BY <1>4, Zenon
<1>6. Dedupe(steps) = u[Len(steps)]
  BY DEF Dedupe
<1>7. \A i \in 1 .. Len(steps) : u[i] = IF i = 1 THEN B ELSE N(u[i - 1], i)
  <2> HIDE DEF B, N, u
  <2> QED
    BY <1>5
<1> HIDE DEF u
<1>8. QED
  BY <1>6, <1>7

-----------------------------------------------------------------------------
(* Runs of steps: the room of each, and the tile inside it.                    *)

After(r, step) == IF step.enter = NoRoom THEN r ELSE step.enter

Run(s, r, e) ==
  \E rho \in [0 .. Len(s) -> Rooms] :
    /\ rho[0] = r /\ rho[Len(s)] = e
    /\ \A i \in 1 .. Len(s) : rho[i] = After(rho[i - 1], s[i]) /\ Inside(rho[i], s[i].tile)

\* Tile by adjacent tile; and with steps among them that neither move nor enter.
Tight(s) == \A i \in 2 .. Len(s) : Distance(s[i].tile, s[i - 1].tile) = 1
Loose(s) ==
  \A i \in 2 .. Len(s) :
    \/ Distance(s[i].tile, s[i - 1].tile) = 1
    \/ s[i].tile = s[i - 1].tile /\ s[i].enter = NoRoom

\* What a step of a sequence is made of.
LEMMA StepFacts ==
  ASSUME NEW s \in Seq(Step), NEW i \in 1 .. Len(s)
  PROVE  s[i] \in Step /\ s[i].tile \in Tiles /\ s[i].enter \in Rooms \cup {NoRoom}
<1>1. s[i] \in Step
  BY LenProperties
<1>2. QED
  BY <1>1 DEF Step

\* A run and one more step.
LEMMA RunAppend ==
  ASSUME NEW s \in Seq(Step), NEW step \in Step, NEW r, NEW e, Run(s, r, e),
         Inside(After(e, step), step.tile)
  PROVE  Run(Append(s, step), r, After(e, step))
<1> DEFINE n == Len(s)
           w == Append(s, step)
<1>1. PICK rho \in [0 .. n -> Rooms] :
        /\ rho[0] = r /\ rho[n] = e
        /\ \A i \in 1 .. n : rho[i] = After(rho[i - 1], s[i]) /\ Inside(rho[i], s[i].tile)
  BY DEF Run
<1>2. /\ n \in Nat /\ Len(w) = n + 1 /\ w[n + 1] = step
      /\ \A i \in 1 .. n : w[i] = s[i]
  BY AppendProperties, LenProperties
<1>3. After(e, step) \in Rooms
  BY <1>1, <1>2 DEF After, Step
<1> HIDE DEF n, w
<1> DEFINE tau == [i \in 0 .. (n + 1) |-> IF i <= n THEN rho[i] ELSE After(e, step)]
<1>4. tau \in [0 .. Len(w) -> Rooms] /\ tau[0] = r /\ tau[Len(w)] = After(e, step)
  BY <1>1, <1>2, <1>3
<1>5. ASSUME NEW i \in 1 .. Len(w)
      PROVE  tau[i] = After(tau[i - 1], w[i]) /\ Inside(tau[i], w[i].tile)
  <2>1. CASE i <= n
    <3>1. i \in 1 .. n /\ tau[i] = rho[i] /\ tau[i - 1] = rho[i - 1] /\ w[i] = s[i]
      BY <1>2, <2>1
    <3> HIDE DEF tau
    <3>2. QED
      BY <1>1, <3>1
  <2>2. CASE ~(i <= n)
    <3>1. i = n + 1 /\ tau[i] = After(e, step) /\ tau[i - 1] = e /\ w[i] = step
      BY <1>1, <1>2, <2>2
    <3> HIDE DEF tau
    <3>2. QED
      BY <3>1
  <2>3. QED
    BY <2>1, <2>2
<1> HIDE DEF tau
<1>6. Run(w, r, After(e, step))
  BY <1>4, <1>5 DEF Run
<1>7. QED
  BY <1>6 DEF w

\* A run and then another from where it ended.
LEMMA RunConcat ==
  ASSUME NEW s \in Seq(Step), NEW v \in Seq(Step), NEW r, NEW m, NEW e,
         Run(s, r, m), Run(v, m, e)
  PROVE  Run(s \o v, r, e)
<1> DEFINE n == Len(s)
           w == s \o v
<1>1. PICK rho \in [0 .. n -> Rooms] :
        /\ rho[0] = r /\ rho[n] = m
        /\ \A i \in 1 .. n : rho[i] = After(rho[i - 1], s[i]) /\ Inside(rho[i], s[i].tile)
  BY DEF Run
<1>2. PICK sigma \in [0 .. Len(v) -> Rooms] :
        /\ sigma[0] = m /\ sigma[Len(v)] = e
        /\ \A i \in 1 .. Len(v) :
             sigma[i] = After(sigma[i - 1], v[i]) /\ Inside(sigma[i], v[i].tile)
  BY DEF Run
<1>3. /\ n \in Nat /\ Len(v) \in Nat /\ Len(w) = n + Len(v)
      /\ \A i \in 1 .. (n + Len(v)) : w[i] = IF i <= n THEN s[i] ELSE v[i - n]
  BY ConcatProperties, LenProperties
<1> HIDE DEF n, w
<1> DEFINE tau == [i \in 0 .. (n + Len(v)) |-> IF i <= n THEN rho[i] ELSE sigma[i - n]]
<1>4. tau \in [0 .. Len(w) -> Rooms] /\ tau[0] = r /\ tau[Len(w)] = e
  <2>1. \A i \in 0 .. (n + Len(v)) : tau[i] \in Rooms
    BY <1>1, <1>2, <1>3
  <2>2. tau[n + Len(v)] = e
    BY <1>1, <1>2, <1>3
  <2>3. QED
    BY <1>1, <1>3, <2>1, <2>2
<1>5. ASSUME NEW i \in 1 .. Len(w)
      PROVE  tau[i] = After(tau[i - 1], w[i]) /\ Inside(tau[i], w[i].tile)
  <2>1. CASE i <= n
    <3>1. i \in 1 .. n /\ tau[i] = rho[i] /\ tau[i - 1] = rho[i - 1] /\ w[i] = s[i]
      BY <1>3, <2>1
    <3> HIDE DEF tau
    <3>2. QED
      BY <1>1, <3>1
  <2>2. CASE ~(i <= n)
    <3>1. /\ i - n \in 1 .. Len(v) /\ tau[i] = sigma[i - n] /\ w[i] = v[i - n]
          /\ (i - n) - 1 = (i - 1) - n
      BY <1>3, <2>2
    <3>2. tau[i - 1] = sigma[(i - n) - 1]
      <4>1. CASE i - 1 <= n
        <5>1. i = n + 1 /\ (i - n) - 1 = 0 /\ i - 1 = n /\ n <= n
          BY <1>3, <2>2, <4>1
        <5>2. tau[n] = rho[n]
          BY <1>3, <5>1
        <5>3. QED
          BY <1>1, <1>2, <5>1, <5>2
      <4>2. CASE ~(i - 1 <= n)
        BY <1>3, <3>1, <4>2
      <4>3. QED
        BY <4>1, <4>2
    <3> HIDE DEF tau
    <3>3. QED
      BY <1>2, <3>1, <3>2
  <2>3. QED
    BY <2>1, <2>2
<1> HIDE DEF tau
<1>6. Run(w, r, e)
  BY <1>4, <1>5 DEF Run
<1>7. QED
  BY <1>6 DEF w

\* What is left of a run after its first step (step_all takes one at a time).
LEMMA RunTail ==
  ASSUME NEW s \in Seq(Step), s # <<>>, NEW r, NEW e, Run(s, r, e)
  PROVE  /\ After(r, s[1]) \in Rooms /\ Inside(After(r, s[1]), s[1].tile)
         /\ Run(Tail(s), After(r, s[1]), e)
<1> DEFINE n == Len(s)
           w == Tail(s)
<1>1. PICK rho \in [0 .. n -> Rooms] :
        /\ rho[0] = r /\ rho[n] = e
        /\ \A i \in 1 .. n : rho[i] = After(rho[i - 1], s[i]) /\ Inside(rho[i], s[i].tile)
  BY DEF Run
<1>2. /\ n \in Nat /\ n >= 1 /\ Len(w) = n - 1
      /\ \A i \in 1 .. (n - 1) : w[i] = s[i + 1]
  BY HeadTailProperties, LenProperties, EmptySeq
<1> HIDE DEF n, w
<1>3. rho[1] = After(r, s[1]) /\ Inside(rho[1], s[1].tile) /\ rho[1] \in Rooms
  BY <1>1, <1>2
<1> DEFINE tau == [i \in 0 .. (n - 1) |-> rho[i + 1]]
<1>4. tau \in [0 .. Len(w) -> Rooms] /\ tau[0] = After(r, s[1]) /\ tau[Len(w)] = e
  BY <1>1, <1>2, <1>3
<1>5. ASSUME NEW i \in 1 .. Len(w)
      PROVE  tau[i] = After(tau[i - 1], w[i]) /\ Inside(tau[i], w[i].tile)
  <2>1. /\ i + 1 \in 1 .. n /\ tau[i] = rho[i + 1] /\ tau[i - 1] = rho[(i + 1) - 1]
        /\ w[i] = s[i + 1]
    BY <1>2
  <2> HIDE DEF tau
  <2>2. QED
    BY <1>1, <2>1
<1> HIDE DEF tau
<1>6. Run(w, After(r, s[1]), e)
  BY <1>4, <1>5 DEF Run
<1>7. QED
  BY <1>3, <1>6 DEF w

\* A run in which only the last step may enter a room.
LEMMA RunInRoom ==
  ASSUME NEW s \in Seq(Step), s # <<>>, NEW r \in Rooms, NEW e \in Rooms,
         \A i \in 1 .. (Len(s) - 1) : s[i].enter = NoRoom /\ Inside(r, s[i].tile),
         After(r, s[Len(s)]) = e, Inside(e, s[Len(s)].tile)
  PROVE  Run(s, r, e)
<1>1. Len(s) \in Nat /\ Len(s) >= 1
  BY LenProperties, EmptySeq
<1> DEFINE tau == [i \in 0 .. Len(s) |-> IF i = Len(s) THEN e ELSE r]
<1>2. tau \in [0 .. Len(s) -> Rooms] /\ tau[0] = r /\ tau[Len(s)] = e
  BY <1>1
<1>3. ASSUME NEW i \in 1 .. Len(s)
      PROVE  tau[i] = After(tau[i - 1], s[i]) /\ Inside(tau[i], s[i].tile)
  <2>1. tau[i - 1] = r
    BY <1>1
  <2>2. CASE i = Len(s)
    BY <1>1, <2>1, <2>2
  <2>3. CASE i # Len(s)
    <3>1. tau[i] = r /\ i \in 1 .. (Len(s) - 1)
      BY <1>1, <2>3
    <3> HIDE DEF tau
    <3>2. QED
      BY <2>1, <3>1 DEF After
  <2>4. QED
    BY <2>2, <2>3
<1> HIDE DEF tau
<1>4. QED
  BY <1>2, <1>3 DEF Run

-----------------------------------------------------------------------------
(* Segments.                                                                   *)

\* tile_path stays in the room and goes by adjacent tiles.
LEMMA TilePathFacts ==
  ASSUME NEW r \in Rooms, NEW from \in Tiles, NEW to \in Tiles,
         NEW p \in TilePaths[r][from][to]
  PROVE  /\ p \in Seq(TilesOf(Bounds[r])) /\ p # <<>>
         /\ p[1] = from /\ p[Len(p)] = to
         /\ from \in TilesOf(Bounds[r]) /\ to \in TilesOf(Bounds[r])
         /\ \A i \in 2 .. Len(p) : Distance(p[i], p[i - 1]) = 1
<1> DEFINE n == Distance(from, to) + 1
           ways == {v \in [1..n -> TilesOf(Bounds[r])] :
                      /\ v[1] = from /\ v[n] = to
                      /\ \A i \in 1..(n - 1) : Distance(v[i], v[i + 1]) = 1}
<1>1. TilePaths[r][from][to] = IF {from, to} \subseteq TilesOf(Bounds[r]) THEN ways ELSE {}
  BY DEF TilePaths
<1>2. p \in ways /\ from \in TilesOf(Bounds[r]) /\ to \in TilesOf(Bounds[r])
  <2> HIDE DEF ways
  <2> QED
    BY <1>1
<1>3. n \in Nat /\ n >= 1
  BY TilesAreTiles, DistanceFacts
<1> HIDE DEF n
<1>4. p \in Seq(TilesOf(Bounds[r])) /\ Len(p) = n /\ p # <<>>
  BY <1>2, <1>3
<1>5. ASSUME NEW i \in 2 .. Len(p) PROVE Distance(p[i], p[i - 1]) = 1
  <2>1. i - 1 \in 1 .. (n - 1) /\ (i - 1) + 1 = i
    BY <1>3, <1>4
  <2>2. Distance(p[i - 1], p[i]) = 1
    BY <1>2, <2>1
  <2>3. p[i - 1] \in Int \X Int /\ p[i] \in Int \X Int
    BY <1>2, <1>3, <1>4, TileFacts
  <2>4. QED
    BY <2>2, <2>3, DistanceFacts
<1>6. QED
  BY <1>2, <1>4, <1>5

\* A transitional segment is inside its room up to the door, with no tile doubled.
LEMMA TilesToDoorFacts ==
  ASSUME NEW r \in Rooms, NEW q \in Rooms, NEW from \in Tiles,
         \E d \in Doors : Joins(d, r, q) \/ Joins(d, q, r),
         NEW p \in TilesToDoor(r, from, DoorBetween(r, q))
  PROVE  /\ p \in Seq(Tiles) /\ p # <<>>
         /\ p[1] = from /\ p[Len(p)] = DoorBetween(r, q)
         /\ from \in TilesOf(Bounds[r])
         /\ \A i \in 1 .. (Len(p) - 1) : p[i] \in TilesOf(Bounds[r])
         /\ \A i \in 2 .. Len(p) : Distance(p[i], p[i - 1]) = 1
<1>0. \E d \in Doors : Joins(d, r, q)
  BY DEF Joins
<1> DEFINE door == DoorBetween(r, q)
           exit == AdjacentInside(r, door)
<1>1. /\ door \in Tiles /\ exit \in TilesOf(Bounds[r])
      /\ exit = door \/ Distance(door, exit) = 1
  BY <1>0, DoorFacts
<1>2. exit \in Tiles /\ TilesOf(Bounds[r]) \subseteq Tiles
  BY <1>1, TileFacts
<1>3. PICK v \in TilePaths[r][from][exit] : p = IF exit = door THEN v ELSE Append(v, door)
  BY DEF TilesToDoor
<1> HIDE DEF door, exit
<1>4. /\ v \in Seq(TilesOf(Bounds[r])) /\ v # <<>> /\ v[1] = from /\ v[Len(v)] = exit
      /\ from \in TilesOf(Bounds[r])
      /\ \A i \in 2 .. Len(v) : Distance(v[i], v[i - 1]) = 1
  BY <1>2, TilePathFacts
<1>5. v \in Seq(Tiles)
  BY <1>2, <1>4, SeqMonotonic
<1>6. Len(v) \in Nat /\ Len(v) >= 1 /\ \A i \in 1 .. Len(v) : v[i] \in TilesOf(Bounds[r])
  BY <1>4, LenProperties, EmptySeq
<1>7. CASE exit = door
  BY <1>3, <1>4, <1>5, <1>6, <1>7 DEF door
<1>8. CASE exit # door
  <2>1. p = Append(v, door)
    BY <1>3, <1>8
  <2>2. /\ p \in Seq(Tiles) /\ p # <<>> /\ Len(p) = Len(v) + 1
        /\ \A i \in 1 .. Len(v) : p[i] = v[i]
        /\ p[Len(v) + 1] = door
    BY <1>1, <1>5, <2>1, AppendProperties
  <2>3. ASSUME NEW i \in 2 .. Len(p) PROVE Distance(p[i], p[i - 1]) = 1
    <3>1. CASE i \in 2 .. Len(v)
      <4>1. p[i] = v[i] /\ p[i - 1] = v[i - 1]
        BY <1>6, <2>2, <3>1
      <4>2. QED
        BY <1>4, <3>1, <4>1
    <3>2. CASE i = Len(v) + 1
      <4>1. p[i] = door /\ p[i - 1] = exit
        BY <1>4, <1>6, <2>2, <3>2
      <4>2. QED
        BY <1>1, <1>8, <4>1
    <3>3. QED
      BY <1>6, <2>2, <3>1, <3>2
  <2>4. p[1] = from /\ p[Len(p)] = door
    BY <1>4, <1>6, <2>2
  <2>5. \A i \in 1 .. (Len(p) - 1) : p[i] \in TilesOf(Bounds[r])
    BY <1>6, <2>2
  <2>6. QED
    BY <1>4, <2>2, <2>3, <2>4, <2>5 DEF door
<1>9. QED
  BY <1>7, <1>8

\* The steps made of a segment: only the last one enters.
LEMMA StepsOfFacts ==
  ASSUME NEW tiles \in Seq(Tiles), tiles # <<>>, NEW next \in Rooms \cup {NoRoom},
         \A i \in 2 .. Len(tiles) : Distance(tiles[i], tiles[i - 1]) = 1
  PROVE  /\ StepsOf(tiles, next) \in Seq(Step) /\ StepsOf(tiles, next) # <<>>
         /\ Len(StepsOf(tiles, next)) = Len(tiles)
         /\ \A i \in 1 .. Len(tiles) :
              /\ StepsOf(tiles, next)[i].tile = tiles[i]
              /\ StepsOf(tiles, next)[i].enter = IF i = Len(tiles) THEN next ELSE NoRoom
         /\ Tight(StepsOf(tiles, next))
<1> DEFINE s == StepsOf(tiles, next)
<1>1. Len(tiles) \in Nat /\ Len(tiles) >= 1 /\ DOMAIN tiles = 1 .. Len(tiles)
      /\ \A i \in 1 .. Len(tiles) : tiles[i] \in Tiles
  BY LenProperties, EmptySeq
<1>2. s = [i \in 1 .. Len(tiles) |-> [tile |-> tiles[i],
                                      enter |-> IF i = Len(tiles) THEN next ELSE NoRoom]]
  BY <1>1 DEF StepsOf
<1>3. \A i \in 1 .. Len(tiles) :
        [tile |-> tiles[i], enter |-> IF i = Len(tiles) THEN next ELSE NoRoom] \in Step
  BY <1>1 DEF Step
<1>4. s \in [1 .. Len(tiles) -> Step]
  BY <1>2, <1>3
<1>5. s \in Seq(Step) /\ Len(s) = Len(tiles) /\ s # <<>>
  <2> HIDE DEF s
  <2> QED
    BY <1>1, <1>4
<1>6. \A i \in 1 .. Len(tiles) :
        s[i].tile = tiles[i] /\ s[i].enter = IF i = Len(tiles) THEN next ELSE NoRoom
  <2> HIDE DEF s
  <2> QED
    BY <1>2
<1>7. Tight(s)
  <2> HIDE DEF s
  <2>1. ASSUME NEW i \in 2 .. Len(s) PROVE Distance(s[i].tile, s[i - 1].tile) = 1
    <3>1. i \in 2 .. Len(tiles) /\ i \in 1 .. Len(tiles) /\ i - 1 \in 1 .. Len(tiles)
      BY <1>1, <1>5
    <3>2. s[i].tile = tiles[i] /\ s[i - 1].tile = tiles[i - 1]
      BY <1>6, <3>1
    <3>3. QED
      BY <3>1, <3>2
  <2>2. QED
    BY <2>1 DEF Tight
<1>8. QED
  BY <1>5, <1>6, <1>7

\* A segment begins inside its room, on the tile of the door just passed or beside it.
LEMMA EntryFacts ==
  ASSUME NEW r \in Rooms, NEW q \in Rooms, NEW way, Way(way, r, q), NEW from \in Tiles,
         NEW i \in 1 .. Len(way)
  PROVE  /\ way[i] \in Rooms /\ Entry(way, from, i) \in Tiles
         /\ i = 1 => Entry(way, from, i) = from
         /\ i # 1 => /\ i - 1 \in 1 .. Len(way) /\ way[i - 1] \in Rooms
                     /\ DoorBetween(way[i - 1], way[i]) \in Tiles
                     /\ Entry(way, from, i) \in TilesOf(Bounds[way[i]])
                     /\ \/ Entry(way, from, i) = DoorBetween(way[i - 1], way[i])
                        \/ Distance(Entry(way, from, i), DoorBetween(way[i - 1], way[i])) = 1
<1>1. Len(way) \in Nat /\ \A j \in 1 .. Len(way) : way[j] \in Rooms
  BY LenProperties DEF Way
<1>2. CASE i = 1
  BY <1>1, <1>2 DEF Entry
<1>3. CASE i # 1
  <2>1. i - 1 \in 1 .. (Len(way) - 1) /\ (i - 1) + 1 = i
    BY <1>1, <1>3
  <2>2. \E d \in Doors : Joins(d, way[i - 1], way[i])
    BY <2>1 DEF Way
  <2>3. i - 1 \in 1 .. Len(way) /\ way[i - 1] \in Rooms /\ way[i] \in Rooms
    BY <1>1, <2>1
  <2> DEFINE door == DoorBetween(way[i - 1], way[i])
  <2>4. Entry(way, from, i) = AdjacentInside(way[i], door)
    BY <1>3 DEF Entry
  <2>5. /\ door \in Tiles /\ AdjacentInside(way[i], door) \in TilesOf(Bounds[way[i]])
        /\ \/ AdjacentInside(way[i], door) = door
           \/ Distance(AdjacentInside(way[i], door), door) = 1
    BY <2>2, <2>3, DoorFacts
  <2>6. AdjacentInside(way[i], door) \in Tiles
    BY <2>3, <2>5, TileFacts
  <2> HIDE DEF door
  <2>7. QED
    BY <1>3, <2>3, <2>4, <2>5, <2>6 DEF door
<1>4. QED
  BY <1>2, <1>3

\* The tile of the door between two rooms is that of one of the doors between them.
LEMMA DoorTile ==
  ASSUME NEW r, NEW q, \E d \in Doors : Joins(d, r, q)
  PROVE  \E d \in Doors : Joins(d, r, q) /\ DoorBetween(r, q) = d.tile
BY DEF DoorBetween

\* Two doors in a row of a way are two, with two tiles.
LEMMA NextDoor ==
  ASSUME NEW r \in Rooms, NEW q \in Rooms, NEW way, Way(way, r, q),
         NEW i \in 2 .. (Len(way) - 1)
  PROVE  DoorBetween(way[i - 1], way[i]) # DoorBetween(way[i], way[i + 1])
<1>1. /\ Len(way) \in Nat /\ \A j \in 1 .. Len(way) : way[j] \in Rooms
      /\ \A j \in 1 .. (Len(way) - 1) : \E d \in Doors : Joins(d, way[j], way[j + 1])
      /\ way[i - 1] # way[i + 1]
  BY LenProperties DEF Way
<1>2. /\ i - 1 \in 1 .. (Len(way) - 1) /\ (i - 1) + 1 = i /\ i \in 1 .. (Len(way) - 1)
      /\ i - 1 \in 1 .. Len(way) /\ i \in 1 .. Len(way) /\ i + 1 \in 1 .. Len(way)
  BY <1>1
<1>3. PICK d \in Doors : Joins(d, way[i - 1], way[i]) /\ DoorBetween(way[i - 1], way[i]) = d.tile
  <2>1. \E d \in Doors : Joins(d, way[i - 1], way[i])
    BY <1>1, <1>2
  <2>2. QED
    BY <2>1, DoorTile
<1>4. PICK e \in Doors : Joins(e, way[i], way[i + 1]) /\ DoorBetween(way[i], way[i + 1]) = e.tile
  <2>1. \E e \in Doors : Joins(e, way[i], way[i + 1])
    BY <1>1, <1>2
  <2>2. QED
    BY <2>1, DoorTile
<1>5. d # e
  BY <1>1, <1>3, <1>4 DEF Joins
<1>6. d.tile # e.tile
  BY <1>5, TownAssumption DEF TownFits
<1>7. QED
  BY <1>3, <1>4, <1>6

\* One segment: where it begins and ends, what it enters, and that it is a run.
LEMMA LegFacts ==
  ASSUME NEW r \in Rooms, NEW q \in Rooms, NEW way, Way(way, r, q),
         NEW from \in Tiles, NEW to \in Tiles,
         NEW i \in 1 .. Len(way), NEW leg \in Legs(way, from, to, i)
  PROVE  /\ leg \in Seq(Step) /\ leg # <<>> /\ Tight(leg)
         /\ leg[1].tile = Entry(way, from, i)
         /\ Entry(way, from, i) \in TilesOf(Bounds[way[i]])
         /\ Run(leg, way[i], IF i = Len(way) THEN way[i] ELSE way[i + 1])
         /\ leg[Len(leg)].tile = IF i = Len(way) THEN to ELSE DoorBetween(way[i], way[i + 1])
         /\ i = Len(way) => to \in TilesOf(Bounds[way[i]])
         /\ \A j \in 1 .. Len(leg) :
              leg[j].enter # NoRoom => i # Len(way) /\ leg[j].enter = way[i + 1]
         /\ i # 1 /\ leg[1].tile = DoorBetween(way[i - 1], way[i]) => leg[1].enter = NoRoom
<1>1. Len(way) \in Nat /\ \A j \in 1 .. Len(way) : way[j] \in Rooms
  BY LenProperties DEF Way
<1> DEFINE entry == Entry(way, from, i)
<1>2. way[i] \in Rooms /\ entry \in Tiles
  BY EntryFacts
<1>3. CASE i = Len(way)
  <2>1. PICK p \in TilePaths[way[i]][entry][to] : leg = StepsOf(p, NoRoom)
    BY <1>3 DEF Legs
  <2> HIDE DEF entry
  <2>2. /\ p \in Seq(TilesOf(Bounds[way[i]])) /\ p # <<>>
        /\ p[1] = entry /\ p[Len(p)] = to
        /\ entry \in TilesOf(Bounds[way[i]]) /\ to \in TilesOf(Bounds[way[i]])
        /\ \A j \in 2 .. Len(p) : Distance(p[j], p[j - 1]) = 1
    BY <1>2, <2>1, TilePathFacts
  <2>3. TilesOf(Bounds[way[i]]) \subseteq Tiles
    BY <1>2, TileFacts
  <2>4. p \in Seq(Tiles)
    BY <2>2, <2>3, SeqMonotonic
  <2>5. /\ leg \in Seq(Step) /\ leg # <<>> /\ Len(leg) = Len(p) /\ Tight(leg)
        /\ \A j \in 1 .. Len(p) : leg[j].tile = p[j] /\ leg[j].enter = NoRoom
    BY <2>1, <2>2, <2>4, StepsOfFacts
  <2>6. Len(p) \in Nat /\ Len(p) >= 1 /\ \A j \in 1 .. Len(p) : p[j] \in TilesOf(Bounds[way[i]])
    BY <2>2, LenProperties, EmptySeq
  <2>7. \A j \in 1 .. Len(p) : Inside(way[i], leg[j].tile)
    BY <2>5, <2>6 DEF Inside
  <2>8. Run(leg, way[i], way[i])
    <3>1. \A j \in 1 .. (Len(leg) - 1) : leg[j].enter = NoRoom /\ Inside(way[i], leg[j].tile)
      BY <2>5, <2>6, <2>7
    <3>2. After(way[i], leg[Len(leg)]) = way[i] /\ Inside(way[i], leg[Len(leg)].tile)
      BY <2>5, <2>6, <2>7 DEF After
    <3>3. QED
      BY <1>2, <2>5, <3>1, <3>2, RunInRoom
  <2>9. leg[1].tile = entry /\ leg[Len(leg)].tile = to /\ leg[1].enter = NoRoom
    BY <2>2, <2>5, <2>6
  <2>10. QED
    BY <1>3, <2>2, <2>5, <2>8, <2>9 DEF entry
<1>4. CASE i # Len(way)
  <2> DEFINE next == way[i + 1]
             door == DoorBetween(way[i], way[i + 1])
  <2>1. i \in 1 .. (Len(way) - 1) /\ next \in Rooms /\ \E d \in Doors : Joins(d, way[i], next)
    BY <1>1, <1>4 DEF Way
  <2>2. PICK p \in TilesToDoor(way[i], entry, door) : leg = StepsOf(p, next)
    BY <1>4 DEF Legs
  <2>3. next # NoRoom /\ Inside(next, door)
    BY <1>2, <2>1, DoorFacts, TownAssumption
  <2>4. /\ p \in Seq(Tiles) /\ p # <<>> /\ p[1] = entry /\ p[Len(p)] = door
        /\ entry \in TilesOf(Bounds[way[i]])
        /\ \A j \in 1 .. (Len(p) - 1) : p[j] \in TilesOf(Bounds[way[i]])
        /\ \A j \in 2 .. Len(p) : Distance(p[j], p[j - 1]) = 1
    BY <1>2, <2>1, <2>2, TilesToDoorFacts
  <2> HIDE DEF entry, next, door
  <2>5. /\ leg \in Seq(Step) /\ leg # <<>> /\ Len(leg) = Len(p) /\ Tight(leg)
        /\ \A j \in 1 .. Len(p) : /\ leg[j].tile = p[j]
                                  /\ leg[j].enter = IF j = Len(p) THEN next ELSE NoRoom
    BY <2>1, <2>2, <2>4, StepsOfFacts
  <2>6. Len(p) \in Nat /\ Len(p) >= 1
    BY <2>4, LenProperties, EmptySeq
  <2>7. Run(leg, way[i], next)
    <3>1. \A j \in 1 .. (Len(leg) - 1) : leg[j].enter = NoRoom /\ Inside(way[i], leg[j].tile)
      BY <2>4, <2>5, <2>6 DEF Inside
    <3>2. After(way[i], leg[Len(leg)]) = next /\ Inside(next, leg[Len(leg)].tile)
      BY <2>3, <2>4, <2>5, <2>6 DEF After
    <3>3. QED
      BY <1>2, <2>1, <2>5, <3>1, <3>2, RunInRoom
  <2>8. leg[1].tile = entry /\ leg[Len(leg)].tile = door
    BY <2>4, <2>5, <2>6
  <2>9. \A j \in 1 .. Len(leg) : leg[j].enter # NoRoom => leg[j].enter = next
    BY <2>5
  <2>10. ASSUME i # 1, leg[1].tile = DoorBetween(way[i - 1], way[i])
         PROVE  leg[1].enter = NoRoom
    <3>1. DoorBetween(way[i - 1], way[i]) # door
      <4>1. i \in 2 .. (Len(way) - 1)
        BY <2>1, <2>10
      <4>2. QED
        BY <4>1, NextDoor DEF door
    <3>2. Len(p) # 1
      BY <2>5, <2>8, <2>10, <3>1
    <3>3. QED
      BY <2>5, <2>6, <3>2
  <2>11. QED
    BY <1>4, <2>4, <2>5, <2>7, <2>8, <2>9, <2>10 DEF entry, next, door
<1>5. QED
  BY <1>3, <1>4

-----------------------------------------------------------------------------
(* Whole routes, and what is kept of them.                                     *)

\* The rooms a way goes through after the first.
Beyond(way) == {way[i] : i \in 2 .. Len(way)}

LooseConcat ==
  \A s, v \in Seq(Step) :
    /\ s # <<>> /\ v # <<>> /\ Loose(s) /\ Loose(v)
    /\ \/ Distance(v[1].tile, s[Len(s)].tile) = 1
       \/ v[1].tile = s[Len(s)].tile /\ v[1].enter = NoRoom
    => Loose(s \o v)

\* Two such sequences, one behind the other.
LEMMA ConcatIsLoose == LooseConcat
<1> SUFFICES ASSUME NEW s \in Seq(Step), NEW v \in Seq(Step), s # <<>>, v # <<>>,
                    Loose(s), Loose(v),
                    \/ Distance(v[1].tile, s[Len(s)].tile) = 1
                    \/ v[1].tile = s[Len(s)].tile /\ v[1].enter = NoRoom,
                    NEW i \in 2 .. Len(s \o v)
             PROVE  \/ Distance((s \o v)[i].tile, (s \o v)[i - 1].tile) = 1
                    \/ (s \o v)[i].tile = (s \o v)[i - 1].tile /\ (s \o v)[i].enter = NoRoom
  BY DEF LooseConcat, Loose
<1> DEFINE n == Len(s)
           w == s \o v
<1>1. /\ n \in Nat /\ n >= 1 /\ Len(v) \in Nat /\ Len(v) >= 1 /\ Len(w) = n + Len(v)
      /\ \A j \in 1 .. (n + Len(v)) : w[j] = IF j <= n THEN s[j] ELSE v[j - n]
  BY ConcatProperties, LenProperties, EmptySeq
<1>2. CASE i <= n
  <2>1. w[i] = s[i] /\ w[i - 1] = s[i - 1] /\ i \in 2 .. n
    BY <1>1, <1>2
  <2>2. QED
    BY <2>1 DEF Loose
<1>3. CASE i = n + 1
  <2>1. w[i] = v[1] /\ w[i - 1] = s[n]
    BY <1>1, <1>3
  <2>2. QED
    BY <2>1
<1>4. CASE i > n + 1
  <2>1. /\ w[i] = v[i - n] /\ w[i - 1] = v[(i - n) - 1] /\ i - n \in 2 .. Len(v)
    <3>1. (i - 1) - n = (i - n) - 1 /\ i \in 1 .. (n + Len(v)) /\ i - 1 \in 1 .. (n + Len(v))
      BY <1>1, <1>4
    <3>2. QED
      BY <1>1, <1>4, <3>1
  <2>2. QED
    BY <2>1 DEF Loose
<1>5. QED
  BY <1>1, <1>2, <1>3, <1>4

\* A route as far as segment i.
RouteTo(way, from, to, i, w) ==
  /\ w \in Seq(Step) /\ w # <<>> /\ Loose(w)
  /\ w[1].tile = from /\ from \in TilesOf(Bounds[way[1]])
  /\ Run(w, way[1], IF i = Len(way) THEN way[i] ELSE way[i + 1])
  /\ w[Len(w)].tile = IF i = Len(way) THEN to ELSE DoorBetween(way[i], way[i + 1])
  /\ i = Len(way) => to \in TilesOf(Bounds[way[i]])
  /\ \A j \in 1 .. Len(w) : w[j].enter \in {NoRoom} \cup Beyond(way)

\* Where every step moves, none stays put and enters.
LEMMA TightIsLoose == \A s : Tight(s) => Loose(s)
BY DEF Tight, Loose

\* full_route: one segment more.
LEMMA RouteStep ==
  ASSUME NEW r \in Rooms, NEW q \in Rooms, NEW way, Way(way, r, q),
         NEW from \in Tiles, NEW to \in Tiles,
         NEW i \in 2 .. Len(way), NEW w, RouteTo(way, from, to, i - 1, w),
         NEW leg \in Legs(way, from, to, i)
  PROVE  RouteTo(way, from, to, i, w \o leg)
<1>1. Len(way) \in Nat /\ i \in 1 .. Len(way) /\ i # 1 /\ i - 1 # Len(way) /\ (i - 1) + 1 = i
  BY LenProperties DEF Way
<1>2. /\ leg \in Seq(Step) /\ leg # <<>> /\ Tight(leg)
      /\ leg[1].tile = Entry(way, from, i)
      /\ Run(leg, way[i], IF i = Len(way) THEN way[i] ELSE way[i + 1])
      /\ leg[Len(leg)].tile = IF i = Len(way) THEN to ELSE DoorBetween(way[i], way[i + 1])
      /\ i = Len(way) => to \in TilesOf(Bounds[way[i]])
      /\ \A j \in 1 .. Len(leg) :
           leg[j].enter # NoRoom => i # Len(way) /\ leg[j].enter = way[i + 1]
      /\ leg[1].tile = DoorBetween(way[i - 1], way[i]) => leg[1].enter = NoRoom
  BY <1>1, LegFacts
<1>3. \/ Entry(way, from, i) = DoorBetween(way[i - 1], way[i])
      \/ Distance(Entry(way, from, i), DoorBetween(way[i - 1], way[i])) = 1
  BY <1>1, EntryFacts
<1>4. /\ w \in Seq(Step) /\ w # <<>> /\ Loose(w)
      /\ w[1].tile = from /\ from \in TilesOf(Bounds[way[1]])
      /\ Run(w, way[1], way[i])
      /\ w[Len(w)].tile = DoorBetween(way[i - 1], way[i])
      /\ \A j \in 1 .. Len(w) : w[j].enter \in {NoRoom} \cup Beyond(way)
  BY <1>1 DEF RouteTo
<1>5. Loose(w \o leg)
  <2>1. \/ Distance(leg[1].tile, w[Len(w)].tile) = 1
        \/ leg[1].tile = w[Len(w)].tile /\ leg[1].enter = NoRoom
    BY <1>2, <1>3, <1>4
  <2>2. Loose(leg)
    BY <1>2, TightIsLoose
  <2>3. QED
    BY <1>2, <1>4, <2>1, <2>2, ConcatIsLoose DEF LooseConcat
<1>6. Run(w \o leg, way[1], IF i = Len(way) THEN way[i] ELSE way[i + 1])
  BY <1>2, <1>4, RunConcat
<1>7. /\ Len(w) \in Nat /\ Len(w) >= 1 /\ Len(leg) \in Nat /\ Len(leg) >= 1
      /\ w \o leg \in Seq(Step) /\ Len(w \o leg) = Len(w) + Len(leg)
      /\ \A j \in 1 .. (Len(w) + Len(leg)) :
           (w \o leg)[j] = IF j <= Len(w) THEN w[j] ELSE leg[j - Len(w)]
  BY <1>2, <1>4, ConcatProperties, LenProperties, EmptySeq
<1>8. /\ (w \o leg)[1] = w[1]
      /\ (w \o leg)[Len(w \o leg)] = leg[Len(leg)]
      /\ w \o leg # <<>>
  BY <1>7
<1>9. ASSUME NEW j \in 1 .. Len(w \o leg)
      PROVE  (w \o leg)[j].enter \in {NoRoom} \cup Beyond(way)
  <2>1. CASE j <= Len(w)
    BY <1>4, <1>7, <2>1
  <2>2. CASE ~(j <= Len(w))
    <3>1. j - Len(w) \in 1 .. Len(leg) /\ (w \o leg)[j] = leg[j - Len(w)]
      BY <1>7, <2>2
    <3>2. i # Len(way) => way[i + 1] \in Beyond(way)
      BY <1>1 DEF Beyond
    <3>3. QED
      BY <1>2, <3>1, <3>2
  <2>3. QED
    BY <2>1, <2>2
<1>10. QED
  BY <1>2, <1>4, <1>5, <1>6, <1>7, <1>8, <1>9 DEF RouteTo

\* full_route: the first segment.
LEMMA FirstLeg ==
  ASSUME NEW r \in Rooms, NEW q \in Rooms, NEW way, Way(way, r, q),
         NEW from \in Tiles, NEW to \in Tiles,
         NEW i \in 1 .. Len(way), way[i] = way[1], Entry(way, from, i) = from,
         NEW leg \in Legs(way, from, to, i)
  PROVE  RouteTo(way, from, to, i, leg)
<1>1. /\ leg \in Seq(Step) /\ leg # <<>> /\ Tight(leg)
      /\ leg[1].tile = Entry(way, from, i)
      /\ Entry(way, from, i) \in TilesOf(Bounds[way[i]])
      /\ Run(leg, way[i], IF i = Len(way) THEN way[i] ELSE way[i + 1])
      /\ leg[Len(leg)].tile = IF i = Len(way) THEN to ELSE DoorBetween(way[i], way[i + 1])
      /\ i = Len(way) => to \in TilesOf(Bounds[way[i]])
      /\ \A j \in 1 .. Len(leg) :
           leg[j].enter # NoRoom => i # Len(way) /\ leg[j].enter = way[i + 1]
  BY LegFacts
<1>2. i # Len(way) => way[i + 1] \in Beyond(way)
  <2>1. Len(way) \in Nat
    BY LenProperties DEF Way
  <2>2. i # Len(way) => i + 1 \in 2 .. Len(way)
    BY <2>1
  <2>3. QED
    BY <2>2 DEF Beyond
<1>3. Loose(leg)
  BY <1>1, TightIsLoose
<1>4. \A j \in 1 .. Len(leg) : leg[j].enter \in {NoRoom} \cup Beyond(way)
  BY <1>1, <1>2
<1>5. QED
  BY <1>1, <1>3, <1>4 DEF RouteTo

\* full_route: all of them.
LEMMA FullRouteFacts ==
  ASSUME NEW r \in Rooms, NEW q \in Rooms, NEW way, Way(way, r, q),
         NEW from \in Tiles, NEW to \in Tiles, NEW w \in FullRoutes(way, from, to)
  PROVE  RouteTo(way, from, to, Len(way), w)
<1>1. way \in Seq(Rooms) /\ Len(way) \in Nat /\ Len(way) >= 1
  BY LenProperties, EmptySeq DEF Way
<1>2. PICK u : /\ FullRoutes(way, from, to) = u[Len(way)]
               /\ \A i \in 1 .. Len(way) :
                    u[i] = IF i = 1 THEN Legs(way, from, to, 1)
                           ELSE Joined(u[i - 1], Legs(way, from, to, i))
  BY <1>1, FullRoutesAre
<1> DEFINE S == {i \in 1 .. Len(way) : \A v \in u[i] : RouteTo(way, from, to, i, v)}
<1>3. 1 \in S
  <2>1. 1 \in 1 .. Len(way) /\ u[1] = Legs(way, from, to, 1)
    BY <1>1, <1>2
  <2>2. Entry(way, from, 1) = from
    BY DEF Entry
  <2>3. \A v \in u[1] : RouteTo(way, from, to, 1, v)
    BY <2>1, <2>2, FirstLeg
  <2>4. QED
    BY <2>1, <2>3
<1>4. ASSUME NEW i \in 1 .. Len(way), i < Len(way), i \in S PROVE i + 1 \in S
  <2>1. /\ i + 1 \in 2 .. Len(way) /\ (i + 1) - 1 = i /\ i + 1 # 1
        /\ u[i + 1] = Joined(u[i], Legs(way, from, to, i + 1))
    BY <1>1, <1>2, <1>4
  <2>2. ASSUME NEW v \in u[i + 1] PROVE RouteTo(way, from, to, i + 1, v)
    <3>1. PICK x \in u[i], leg \in Legs(way, from, to, i + 1) : v = x \o leg
      <4> DEFINE legs == Legs(way, from, to, i + 1)
      <4>1. v \in Joined(u[i], legs)
        BY <2>1, <2>2
      <4> HIDE DEF legs, S
      <4>2. \E x \in u[i], leg \in legs : v = x \o leg
        BY <4>1 DEF Joined
      <4>3. QED
        BY <4>2 DEF legs
    <3>2. RouteTo(way, from, to, (i + 1) - 1, x)
      BY <1>4, <2>1, <3>1
    <3>3. QED
      BY <2>1, <3>1, <3>2, RouteStep
  <2>3. QED
    BY <2>1, <2>2
<1>5. Len(way) \in S
  <2> HIDE DEF S
  <2>1. \A i \in 1 .. Len(way) : i < Len(way) /\ i \in S => i + 1 \in S
    BY <1>4
  <2>2. \A i \in 1 .. Len(way) : i \in S
    BY <1>1, <1>3, <2>1, UpTo
  <2>3. QED
    BY <1>1, <2>2
<1>6. QED
  BY <1>2, <1>5

\* What Dedupe drops, neither moves nor enters.
LEMMA DedupeFacts ==
  ASSUME NEW steps \in Seq(Step), steps # <<>>, Loose(steps),
         NEW r \in Rooms, NEW e, Run(steps, r, e),
         NEW R, \A j \in 1 .. Len(steps) : steps[j].enter \in R
  PROVE  /\ Dedupe(steps) \in Seq(Step) /\ Dedupe(steps) # <<>> /\ Tight(Dedupe(steps))
         /\ Dedupe(steps)[1] = steps[1]
         /\ Dedupe(steps)[Len(Dedupe(steps))].tile = steps[Len(steps)].tile
         /\ Run(Dedupe(steps), r, e)
         /\ \A j \in 1 .. Len(Dedupe(steps)) : Dedupe(steps)[j].enter \in R
<1> DEFINE n == Len(steps)
<1>1. n \in Nat /\ n >= 1 /\ \A i \in 1 .. n : steps[i] \in Step
  BY LenProperties, EmptySeq
<1>2. PICK u : /\ Dedupe(steps) = u[n]
               /\ \A i \in 1 .. n :
                    u[i] = IF i = 1 THEN <<steps[1]>> ELSE Keep(u[i - 1], steps[i])
  BY DedupeIs
<1>3. PICK rho \in [0 .. n -> Rooms] :
        /\ rho[0] = r /\ rho[n] = e
        /\ \A i \in 1 .. n : rho[i] = After(rho[i - 1], steps[i]) /\ Inside(rho[i], steps[i].tile)
  BY DEF Run
<1> HIDE DEF n
<1> DEFINE Kept(i, v) ==
             /\ v \in Seq(Step) /\ v # <<>> /\ Tight(v) /\ v[1] = steps[1]
             /\ v[Len(v)].tile = steps[i].tile
             /\ Run(v, r, rho[i])
             /\ \A j \in 1 .. Len(v) : v[j].enter \in R
           S == {i \in 1 .. n : Kept(i, u[i])}
<1>4. 1 \in S
  <2> DEFINE v == <<steps[1]>>
  <2>1. 1 \in 1 .. n /\ u[1] = v
    BY <1>1, <1>2
  <2>2. v \in Seq(Step) /\ v # <<>> /\ Len(v) = 1 /\ v[1] = steps[1]
    BY <1>1, <2>1
  <2>3. rho[1] = After(r, steps[1]) /\ Inside(rho[1], steps[1].tile) /\ rho[1] \in Rooms
    <3>1. 1 - 1 = 0 /\ 1 \in 0 .. n
      BY <1>1
    <3>2. QED
      BY <1>3, <2>1, <3>1
  <2> HIDE DEF v
  <2>4. Run(v, r, rho[1])
    <3>1. v[Len(v)] = steps[1] /\ 1 .. (Len(v) - 1) = {}
      BY <2>2
    <3>2. QED
      BY <2>2, <2>3, <3>1, RunInRoom
  <2>5. Tight(v)
    <3>1. 2 .. Len(v) = {}
      BY <2>2
    <3>2. QED
      BY <3>1 DEF Tight
  <2>6. \A j \in 1 .. Len(v) : v[j].enter \in R
    <3>1. \A j \in 1 .. Len(v) : j = 1
      BY <2>2
    <3>2. steps[1].enter \in R
      BY <2>1 DEF n
    <3>3. QED
      BY <2>2, <3>1, <3>2
  <2>7. Kept(1, v)
    BY <2>2, <2>4, <2>5, <2>6
  <2> HIDE DEF Kept
  <2>8. QED
    BY <2>1, <2>7
<1>5. ASSUME NEW i \in 1 .. n, i < n, i \in S PROVE i + 1 \in S
  <2> DEFINE v == u[i]
             k == i + 1
             step == steps[k]
  <2>1. k \in 1 .. n /\ k # 1 /\ k - 1 = i /\ k \in 2 .. n /\ k \in 0 .. n
    BY <1>1, <1>5
  <2>2. u[k] = Keep(v, step) /\ step \in Step /\ step.enter \in R
    BY <1>1, <1>2, <2>1 DEF n
  <2>3. Kept(i, v)
    BY <1>5
  <2>4. /\ v \in Seq(Step) /\ v # <<>> /\ Tight(v) /\ v[1] = steps[1]
        /\ v[Len(v)].tile = steps[i].tile
        /\ Run(v, r, rho[i])
        /\ \A j \in 1 .. Len(v) : v[j].enter \in R
    BY <2>3
  <2>5. rho[k] = After(rho[i], step) /\ Inside(rho[k], step.tile)
    BY <1>3, <2>1
  <2>6. \/ Distance(step.tile, steps[i].tile) = 1
        \/ step.tile = steps[i].tile /\ step.enter = NoRoom
    BY <2>1 DEF Loose, n
  <2>7. step.tile \in Int \X Int
    BY <2>2, TilesAreTiles DEF Step
  <2>8. Last(v) = v[Len(v)]
    BY DEF Last
  <2> HIDE DEF Kept, v, k, step
  <2>9. CASE steps[i].tile = step.tile
    <3>1. step.enter = NoRoom
      BY <2>6, <2>7, <2>9, DistanceFacts
    <3>2. u[k] = v /\ rho[k] = rho[i]
      BY <2>2, <2>4, <2>5, <2>8, <2>9, <3>1 DEF Keep, After
    <3>3. Kept(k, v)
      BY <2>4, <2>9, <3>2 DEF Kept, step
    <3>4. QED
      BY <2>1, <3>2, <3>3 DEF k
  <2>10. CASE steps[i].tile # step.tile
    <3> DEFINE w == Append(v, step)
    <3>1. u[k] = w
      BY <2>2, <2>4, <2>8, <2>10 DEF Keep
    <3>2. /\ w \in Seq(Step) /\ w # <<>> /\ Len(w) = Len(v) + 1
          /\ \A j \in 1 .. Len(v) : w[j] = v[j]
          /\ w[Len(v) + 1] = step
      BY <2>2, <2>4, AppendProperties
    <3>3. Len(v) \in Nat /\ Len(v) >= 1
      BY <2>4, LenProperties, EmptySeq
    <3>4. Run(w, r, rho[k])
      BY <2>2, <2>4, <2>5, RunAppend
    <3> HIDE DEF w
    <3>5. Tight(w)
      <4>1. ASSUME NEW j \in 2 .. Len(w) PROVE Distance(w[j].tile, w[j - 1].tile) = 1
        <5>1. CASE j \in 2 .. Len(v)
          <6>1. w[j] = v[j] /\ w[j - 1] = v[j - 1]
            BY <3>2, <3>3, <5>1
          <6>2. QED
            BY <2>4, <5>1, <6>1 DEF Tight
        <5>2. CASE j = Len(v) + 1
          <6>1. w[j] = step /\ w[j - 1] = v[Len(v)]
            BY <3>2, <3>3, <5>2
          <6>2. QED
            BY <2>4, <2>6, <2>10, <6>1
        <5>3. QED
          BY <3>2, <3>3, <5>1, <5>2
      <4>2. QED
        BY <4>1 DEF Tight
    <3>6. w[1] = steps[1] /\ w[Len(w)].tile = step.tile
      BY <2>4, <3>2, <3>3
    <3>7. \A j \in 1 .. Len(w) : w[j].enter \in R
      <4>1. ASSUME NEW j \in 1 .. Len(w) PROVE w[j].enter \in R
        <5>1. j \in 1 .. Len(v) \/ j = Len(v) + 1
          BY <3>2, <3>3
        <5>2. QED
          BY <2>2, <2>4, <3>2, <5>1
      <4>2. QED
        BY <4>1
    <3>8. Kept(k, w)
      BY <3>2, <3>4, <3>5, <3>6, <3>7 DEF Kept, step
    <3>9. QED
      BY <2>1, <3>1, <3>8 DEF k
  <2>11. QED
    BY <2>9, <2>10
<1>6. n \in S
  <2> HIDE DEF S
  <2>1. \A i \in 1 .. n : i < n /\ i \in S => i + 1 \in S
    BY <1>5
  <2>2. \A i \in 1 .. n : i \in S
    BY <1>1, <1>4, <2>1, UpTo
  <2>3. QED
    BY <1>1, <2>2
<1>7. Kept(n, u[n])
  <2> HIDE DEF Kept
  <2> QED
    BY <1>6
<1>8. QED
  BY <1>2, <1>3, <1>7 DEF n

\* The plan of a move: from where the agent stands to the tile it asks for, step by
\* adjacent step, always inside the room that it is in by then.
PlanOf(plan, r, from, q, to, R) ==
  /\ plan \in Seq(Step) /\ plan # <<>> /\ Tight(plan)
  /\ plan[1].tile = from /\ from \in TilesOf(Bounds[r])
  /\ plan[Len(plan)].tile = to /\ to \in TilesOf(Bounds[q])
  /\ Run(plan, r, q)
  /\ \A j \in 1 .. Len(plan) : plan[j].enter \in {NoRoom} \cup R

\* Every plan of start_move is one along some way.
LEMMA PlanFacts ==
  ASSUME NEW r \in Rooms, NEW from \in Tiles, NEW q \in Rooms, NEW to \in Targets,
         NEW plan \in Plans[r][from][q][to]
  PROVE  \E way : Way(way, r, q) /\ PlanOf(plan, r, from, q, to, Beyond(way))
<1>1. Plans[r][from][q][to] =
        {Dedupe(steps) : steps \in UNION {FullRoutes(way, from, to) : way \in Routes[r][q]}}
  BY DEF Plans
<1>2. PICK steps \in UNION {FullRoutes(way, from, to) : way \in Routes[r][q]} :
        plan = Dedupe(steps)
  BY <1>1
<1>3. PICK way \in Routes[r][q] : steps \in FullRoutes(way, from, to)
  BY <1>2
<1>4. Way(way, r, q)
  BY RoutesAreWays
<1>5. to \in Tiles
  BY TownAssumption DEF Tiles
<1>6. RouteTo(way, from, to, Len(way), steps)
  BY <1>3, <1>4, <1>5, FullRouteFacts
<1>7. way[1] = r /\ way[Len(way)] = q
  BY <1>4 DEF Way
<1>8. /\ steps \in Seq(Step) /\ steps # <<>> /\ Loose(steps)
      /\ steps[1].tile = from /\ from \in TilesOf(Bounds[r])
      /\ Run(steps, r, q)
      /\ steps[Len(steps)].tile = to /\ to \in TilesOf(Bounds[q])
      /\ \A j \in 1 .. Len(steps) : steps[j].enter \in {NoRoom} \cup Beyond(way)
  BY <1>6, <1>7 DEF RouteTo
<1>9. /\ plan \in Seq(Step) /\ plan # <<>> /\ Tight(plan)
      /\ plan[1] = steps[1] /\ plan[Len(plan)].tile = steps[Len(steps)].tile
      /\ Run(plan, r, q)
      /\ \A j \in 1 .. Len(plan) : plan[j].enter \in {NoRoom} \cup Beyond(way)
  BY <1>2, <1>8, DedupeFacts
<1>10. PlanOf(plan, r, from, q, to, Beyond(way))
  BY <1>8, <1>9 DEF PlanOf
<1>11. QED
  BY <1>4, <1>10
\* The rooms between the ends of a way are public: a suite has one door only.
LEMMA BeyondFacts ==
  ASSUME NEW r \in Rooms, NEW q \in Rooms, NEW way, Way(way, r, q)
  PROVE  Beyond(way) \subseteq PublicRooms \cup {q}
<1>1. /\ \A i \in 1 .. Len(way) : way[i] \in Rooms
      /\ way[Len(way)] = q /\ Len(way) \in Nat
      /\ \A i \in 1 .. (Len(way) - 1) : \E d \in Doors : Joins(d, way[i], way[i + 1])
      /\ \A i \in 2 .. (Len(way) - 1) : way[i - 1] # way[i + 1]
  BY LenProperties DEF Way
<1>2. SUFFICES ASSUME NEW i \in 2 .. Len(way), i # Len(way) PROVE way[i] \in PublicRooms
  BY <1>1 DEF Beyond
<1>3. i - 1 \in 1 .. (Len(way) - 1) /\ i \in 1 .. (Len(way) - 1) /\ i \in 1 .. Len(way)
      /\ i \in 2 .. (Len(way) - 1) /\ (i - 1) + 1 = i
  BY <1>1, <1>2
<1>4. PICK d \in Doors : Joins(d, way[i - 1], way[i])
  BY <1>1, <1>3
<1>5. PICK e \in Doors : Joins(e, way[i], way[i + 1])
  BY <1>1, <1>3
<1>6. way[i - 1] # way[i + 1] /\ way[i] \in Rooms
  BY <1>1, <1>3
<1>7. d # e /\ way[i] \in {d.a, d.b} \cap {e.a, e.b}
  BY <1>4, <1>5, <1>6 DEF Joins
<1>8. {d.a, d.b} \cap {e.a, e.b} \cap (Rooms \ PublicRooms) = {}
  BY <1>7, TownAssumption DEF TownFits
<1>9. QED
  BY <1>6, <1>7, <1>8

-----------------------------------------------------------------------------
(* Moves.                                                                      *)

\* The steps go from the tile, by adjacent tiles.
Follows(s, t) ==
  \A i \in DOMAIN s : Distance(s[i].tile, IF i = 1 THEN t ELSE s[i - 1].tile) = 1

\* A sequence of steps without its first.
LEMMA TailFacts ==
  ASSUME NEW s \in Seq(Step), s # <<>>
  PROVE  /\ s[1] \in Step /\ Head(s) = s[1] /\ Last(s) = s[Len(s)] /\ Len(s) >= 1
         /\ Tail(s) \in Seq(Step)
         /\ Tail(s) = <<>> <=> Len(s) = 1
         /\ Tail(s) # <<>> => Last(Tail(s)) = s[Len(s)]
         /\ Tight(s) => Follows(Tail(s), s[1].tile)
         /\ \A i \in DOMAIN Tail(s) : i + 1 \in DOMAIN s /\ Tail(s)[i] = s[i + 1]
<1> DEFINE n == Len(s)
           w == Tail(s)
<1>1. /\ n \in Nat /\ n >= 1 /\ Head(s) = s[1] /\ w \in Seq(Step) /\ Len(w) = n - 1
      /\ \A i \in 1 .. (n - 1) : w[i] = s[i + 1]
      /\ DOMAIN s = 1 .. n /\ DOMAIN w = 1 .. (n - 1)
  BY HeadTailProperties, LenProperties, EmptySeq
<1>2. s[1] \in Step
  BY <1>1, LenProperties
<1>3. w = <<>> <=> n = 1
  <2>1. w \in Seq(Step) /\ Len(w) = n - 1 /\ n \in Nat
    BY <1>1
  <2> HIDE DEF n, w
  <2>2. QED
    BY <2>1, EmptySeq
<1>4. w # <<>> => w[Len(w)] = s[n]
  <2> SUFFICES ASSUME w # <<>> PROVE w[Len(w)] = s[n]
    OBVIOUS
  <2>1. n - 1 \in 1 .. (n - 1) /\ (n - 1) + 1 = n
    BY <1>1, <1>3
  <2>2. w[n - 1] = s[n]
    <3> HIDE DEF n, w
    <3> QED
      BY <1>1, <2>1
  <2> HIDE DEF n, w
  <2>3. QED
    BY <1>1, <2>2
<1>5. ASSUME Tight(s), NEW i \in DOMAIN w
      PROVE  Distance(w[i].tile, IF i = 1 THEN s[1].tile ELSE w[i - 1].tile) = 1
  <2>1. i \in 1 .. (n - 1) /\ i + 1 \in 2 .. n /\ (i + 1) - 1 = i /\ w[i] = s[i + 1]
    BY <1>1, <1>5
  <2>2. Distance(s[i + 1].tile, s[(i + 1) - 1].tile) = 1
    BY <1>5, <2>1 DEF Tight, n
  <2>3. Distance(w[i].tile, s[i].tile) = 1
    BY <2>1, <2>2
  <2>4. i # 1 => w[i - 1] = s[i]
    <3>1. i # 1 => i - 1 \in 1 .. (n - 1) /\ (i - 1) + 1 = i
      BY <2>1
    <3> HIDE DEF n, w
    <3>2. QED
      BY <1>1, <3>1
  <2> HIDE DEF n, w
  <2>5. QED
    BY <2>3, <2>4
<1>6. \A i \in DOMAIN w : i + 1 \in DOMAIN s /\ w[i] = s[i + 1]
  BY <1>1
<1>7. QED
  <2> HIDE DEF w
  <2>1. Tight(s) => Follows(w, s[1].tile)
    BY <1>5 DEF Follows
  <2>2. QED
    BY <1>1, <1>2, <1>3, <1>4, <1>6, <2>1 DEF Last, w, n

\* What is true of the steps of a granted move to t in r.
Granted(a, r, t, steps) ==
  /\ steps \in Seq(Step) /\ steps # <<>>
  /\ Follows(steps, pos[a])
  /\ steps[Len(steps)].tile = t /\ t \in TilesOf(Bounds[r])
  /\ NoTurning => Run(steps, room[a], r)
  /\ \A i \in DOMAIN steps :
       steps[i].enter # NoRoom =>
         steps[i].enter \in PublicRooms \cup {r} /\ steps[i].enter \in Rooms
  /\ CanEnter(StartupOf[a], r)

Standing == \A a \in Here : pos[a] \in Tiles

\* start_move refuses, clears the target, or stores the steps of a granted move.
LEMMA MoveCases ==
  ASSUME TypeOK, Standing, NEW a \in Agents, MoveIntent(a)
  PROVE  /\ a \in Here /\ UNCHANGED <<room, pos, private>>
         /\ \/ \E t \in Targets : AlreadyThere(a, t)
            \/ \E r \in Rooms, t \in Targets, steps \in Seq(Step) :
                 Granted(a, r, t, steps) /\ Walk(a, t, steps)
<1>1. PICK r \in Rooms, t \in Targets : StartMove(a, r, t)
  BY DEF MoveIntent
<1>2. a \in Here /\ CanEnter(StartupOf[a], r) /\ UNCHANGED <<room, pos, private>>
  BY <1>1 DEF StartMove
<1>3. PICK plan \in Plans[room[a]][pos[a]][r][t] :
        /\ NoTurning /\ plan[1].tile = pos[a] => plan[1].enter = NoRoom
        /\ IF DropFirst(a, plan) = <<>> THEN AlreadyThere(a, t)
           ELSE Walk(a, t, DropFirst(a, plan))
  BY <1>1 DEF StartMove
<1>4. room[a] \in Rooms /\ pos[a] \in Tiles
  BY <1>2 DEF TypeOK, Here, Standing
<1>5. PICK way : Way(way, room[a], r) /\ PlanOf(plan, room[a], pos[a], r, t, Beyond(way))
  BY <1>4, PlanFacts
<1>6. Beyond(way) \subseteq PublicRooms \cup {r}
  BY <1>4, <1>5, BeyondFacts
<1> DEFINE steps == Tail(plan)
<1>7. /\ plan \in Seq(Step) /\ plan # <<>> /\ Tight(plan)
      /\ plan[1].tile = pos[a]
      /\ plan[Len(plan)].tile = t /\ t \in TilesOf(Bounds[r])
      /\ Run(plan, room[a], r)
      /\ \A j \in 1 .. Len(plan) : plan[j].enter \in {NoRoom} \cup Beyond(way)
  BY <1>5 DEF PlanOf
<1>8. DropFirst(a, plan) = steps
  BY <1>7 DEF DropFirst
<1>9. CASE steps = <<>>
  BY <1>2, <1>3, <1>8, <1>9
<1>10. CASE steps # <<>>
  <2>1. /\ steps \in Seq(Step) /\ Last(steps) = plan[Len(plan)] /\ Follows(steps, pos[a])
        /\ \A i \in DOMAIN steps : i + 1 \in DOMAIN plan /\ steps[i] = plan[i + 1]
    BY <1>7, <1>10, TailFacts
  <2>2. NoTurning => Run(steps, room[a], r)
    <3>1. SUFFICES ASSUME NoTurning PROVE Run(steps, room[a], r)
      OBVIOUS
    <3>2. After(room[a], plan[1]) = room[a]
      BY <1>3, <1>7, <3>1 DEF After
    <3>3. QED
      BY <1>7, <3>2, RunTail
  <2>3. ASSUME NEW i \in DOMAIN steps, steps[i].enter # NoRoom
        PROVE  steps[i].enter \in PublicRooms \cup {r} /\ steps[i].enter \in Rooms
    <3>1. steps[i] = plan[i + 1] /\ i + 1 \in 1 .. Len(plan)
      BY <1>7, <2>1, <2>3, LenProperties
    <3>2. steps[i].enter \in PublicRooms \cup {r}
      BY <1>6, <1>7, <2>3, <3>1
    <3> HIDE DEF steps
    <3>3. QED
      BY <3>2, TownAssumption
  <2>4. Granted(a, r, t, steps)
    <3>1. steps[Len(steps)].tile = t
      BY <1>7, <2>1 DEF Last
    <3> HIDE DEF steps
    <3>2. QED
      BY <1>2, <1>7, <1>10, <2>1, <2>2, <2>3, <3>1 DEF Granted
  <2>5. Walk(a, t, steps)
    BY <1>3, <1>8, <1>10
  <2> HIDE DEF steps
  <2>6. QED
    BY <1>2, <2>1, <2>4, <2>5
<1>11. QED
  BY <1>9, <1>10

-----------------------------------------------------------------------------
(* What holds of every walk.                                                   *)

\* Who is not in the world is not on its way to anything.
Absent == \A a \in Agents : a \notin Here => target[a] = NoTile

WalkInv == TypeOK /\ Standing /\ Absent /\ StepByStep /\ HeadsForTarget

\* At the start nobody is in the world.
LEMMA WalkInit == Init => WalkInv
<1>1. SUFFICES ASSUME Init PROVE WalkInv
  OBVIOUS
<1>2. Here = {}
  BY <1>1 DEF Init, Here
<1>3. <<>> \in Seq(Step)
  BY EmptySeq
<1>4. TypeOK
  BY <1>1, <1>3 DEF Init, TypeOK
<1>5. QED
  BY <1>1, <1>2, <1>4 DEF Init, WalkInv, Standing, Absent, StepByStep, HeadsForTarget

\* The part of the invariant that is about one agent.
WalksWell(a) ==
  a \in Here =>
    /\ pos[a] \in Tiles /\ Follows(paths[a], pos[a])
    /\ target[a] # NoTile => paths[a] # <<>> /\ Last(paths[a]).tile = target[a]

AllWalkWell == \A a \in Agents : WalksWell(a)

\* The invariant, agent by agent.
LEMMA WalkParts == WalkInv <=> TypeOK /\ Absent /\ AllWalkWell
BY DEF AllWalkWell, WalkInv, Standing, StepByStep, HeadsForTarget, WalksWell, Follows, Here

\* start_move keeps the invariant.
LEMMA WalkMove ==
  ASSUME WalkInv, NEW a \in Agents, MoveIntent(a)
  PROVE  WalkInv'
<1>1. TypeOK /\ Standing /\ Absent /\ \A b \in Agents : WalksWell(b)
  BY WalkParts DEF WalkInv, AllWalkWell
<1>2. a \in Here /\ UNCHANGED <<room, pos, private>>
  BY <1>1, MoveCases
<1>3. UNCHANGED Here
  BY <1>2 DEF Here
<1>4. CASE \E t \in Targets : AlreadyThere(a, t)
  <2>1. target' = [target EXCEPT ![a] = NoTile] /\ UNCHANGED <<paths, overtaken>>
    BY <1>4 DEF AlreadyThere
  <2>2. TypeOK'
    BY <1>1, <1>2, <2>1 DEF TypeOK
  <2>3. Absent'
    BY <1>1, <1>3, <2>1 DEF TypeOK, Absent
  <2>4. AllWalkWell'
    BY <1>1, <1>2, <1>3, <2>1 DEF TypeOK, AllWalkWell, WalksWell, Follows
  <2>5. QED
    BY <2>2, <2>3, <2>4, WalkParts, PTL
<1>5. ASSUME NEW r \in Rooms, NEW t \in Targets, NEW steps \in Seq(Step),
             Granted(a, r, t, steps), Walk(a, t, steps)
      PROVE  WalkInv'
  <2>1. target' = [target EXCEPT ![a] = t] /\ paths' = [paths EXCEPT ![a] = steps]
    BY <1>5 DEF Walk
  <2>2. /\ steps # <<>> /\ Follows(steps, pos[a])
        /\ Last(steps).tile = t /\ t \in Tiles
    BY <1>5, TileFacts DEF Granted, Last
  <2>3. TypeOK'
    <3>1. overtaken' = [overtaken EXCEPT ![a] = {}]
      BY <1>5 DEF Walk
    <3>2. QED
      BY <1>1, <1>2, <2>1, <2>2, <3>1 DEF TypeOK
  <2>4. Absent'
    BY <1>1, <1>2, <1>3, <2>1 DEF TypeOK, Absent
  <2>5. ASSUME NEW b \in Agents PROVE WalksWell(b)'
    <3>1. CASE b = a
      <4>1. paths'[a] = steps /\ target'[a] = t /\ pos'[a] = pos[a] /\ pos[a] \in Tiles
        BY <1>1, <1>2, <2>1 DEF TypeOK, Standing
      <4>2. QED
        BY <2>2, <3>1, <4>1 DEF WalksWell, Follows
    <3>2. CASE b # a
      <4>1. paths'[b] = paths[b] /\ target'[b] = target[b] /\ pos'[b] = pos[b]
        BY <1>1, <1>2, <2>1, <3>2 DEF TypeOK
      <4>2. QED
        BY <1>1, <1>3, <4>1 DEF WalksWell, Follows
    <3>3. QED
      BY <3>1, <3>2
  <2>6. AllWalkWell'
    BY <2>5 DEF AllWalkWell
  <2>7. QED
    BY <2>3, <2>4, <2>6, WalkParts, PTL
<1>6. QED
  BY <1>1, <1>4, <1>5, MoveCases

\* What a tick does to one agent.
LEMMA StepCases ==
  ASSUME TypeOK, StepAll, NEW a \in Agents
  PROVE  /\ (a \in Here)' <=> a \in Here
         /\ paths[a] \in Seq(Step)
         /\ Walking(a) =>
              /\ paths[a] # <<>> /\ paths'[a] = Tail(paths[a])
              /\ pos'[a] = paths[a][1].tile /\ pos'[a] \in Tiles
              /\ room'[a] = After(room[a], paths[a][1]) /\ room'[a] \in Rooms
              /\ target'[a] = IF Tail(paths[a]) = <<>> THEN NoTile ELSE target[a]
         /\ ~Walking(a) =>
              /\ pos'[a] = pos[a] /\ room'[a] = room[a] /\ target'[a] = target[a]
              /\ paths'[a] = <<>>
<1>1. /\ pos'[a] = IF Walking(a) THEN Head(paths[a]).tile ELSE pos[a]
      /\ room'[a] = IF Walking(a) /\ Head(paths[a]).enter # NoRoom
                    THEN Head(paths[a]).enter ELSE room[a]
      /\ paths'[a] = IF Walking(a) THEN Tail(paths[a]) ELSE <<>>
      /\ target'[a] = IF Walking(a) /\ Len(paths[a]) = 1 THEN NoTile ELSE target[a]
  BY DEF StepAll
<1>2. paths[a] \in Seq(Step) /\ room[a] \in Rooms \cup {NoRoom}
  BY DEF TypeOK
<1>3. CASE Walking(a)
  <2>1. paths[a] # <<>> /\ room[a] \in Rooms /\ a \in Here
    BY <1>2, <1>3 DEF Walking, Here
  <2>2. /\ Head(paths[a]) = paths[a][1] /\ paths[a][1] \in Step
        /\ Tail(paths[a]) = <<>> <=> Len(paths[a]) = 1
    BY <1>2, <2>1, TailFacts
  <2>3. paths[a][1].tile \in Tiles /\ paths[a][1].enter \in Rooms \cup {NoRoom}
    BY <2>2 DEF Step
  <2>4. room'[a] = After(room[a], paths[a][1]) /\ room'[a] \in Rooms
    BY <1>1, <1>3, <2>1, <2>2, <2>3 DEF After
  <2>5. (a \in Here)'
    BY <2>4, TownAssumption DEF Here
  <2>6. QED
    BY <1>1, <1>2, <1>3, <2>1, <2>2, <2>3, <2>4, <2>5
<1>4. CASE ~Walking(a)
  <2>1. (a \in Here)' <=> a \in Here
    BY <1>1, <1>4 DEF Here
  <2>2. QED
    BY <1>1, <1>2, <1>4, <2>1
<1>5. QED
  BY <1>3, <1>4

\* So does step_all.
LEMMA WalkStep ==
  ASSUME WalkInv, StepAll
  PROVE  WalkInv'
<1>1. TypeOK /\ Absent /\ AllWalkWell
  BY WalkParts
<1>2. TypeOK'
  <2>1. /\ DOMAIN room' = Agents /\ DOMAIN pos' = Agents /\ DOMAIN paths' = Agents
        /\ DOMAIN target' = Agents /\ private' = private
        /\ room' = [a \in Agents |-> room'[a]] /\ pos' = [a \in Agents |-> pos'[a]]
        /\ paths' = [a \in Agents |-> paths'[a]] /\ target' = [a \in Agents |-> target'[a]]
        /\ overtaken' = [a \in Agents |-> IF paths'[a] = <<>> THEN {} ELSE overtaken[a]]
    BY DEF StepAll
  <2>2. ASSUME NEW a \in Agents
        PROVE  /\ room'[a] \in Rooms \cup {NoRoom} /\ pos'[a] \in Tiles \cup {NoTile}
               /\ target'[a] \in Tiles \cup {NoTile} /\ paths'[a] \in Seq(Step)
    <3>1. /\ room[a] \in Rooms \cup {NoRoom} /\ pos[a] \in Tiles \cup {NoTile}
          /\ target[a] \in Tiles \cup {NoTile} /\ paths[a] \in Seq(Step)
      BY <1>1 DEF TypeOK
    <3>2. CASE Walking(a)
      <4>1. Tail(paths[a]) \in Seq(Step)
        BY <1>1, <3>1, <3>2, StepCases, TailFacts
      <4>2. QED
        BY <1>1, <3>1, <3>2, <4>1, StepCases
    <3>3. CASE ~Walking(a)
      BY <1>1, <3>1, <3>3, StepCases, EmptySeq
    <3>4. QED
      BY <3>2, <3>3
  <2>3. overtaken' \in [Agents -> SUBSET Suites]
    BY <1>1, <2>1 DEF TypeOK
  <2>4. QED
    BY <1>1, <2>1, <2>2, <2>3 DEF TypeOK
<1>3. ASSUME NEW a \in Agents, (a \notin Here)' PROVE target'[a] = NoTile
  BY <1>1, <1>3, StepCases DEF Absent, Walking
<1>4. Absent'
  BY <1>3 DEF Absent
<1>5. ASSUME NEW a \in Agents PROVE WalksWell(a)'
  <2>1. SUFFICES ASSUME (a \in Here)'
        PROVE  /\ pos'[a] \in Tiles /\ Follows(paths'[a], pos'[a])
               /\ target'[a] # NoTile => paths'[a] # <<>> /\ Last(paths'[a]).tile = target'[a]
    BY DEF WalksWell, Follows
  <2>2. /\ a \in Here /\ pos[a] \in Tiles /\ Follows(paths[a], pos[a])
        /\ target[a] # NoTile => paths[a] # <<>> /\ Last(paths[a]).tile = target[a]
    BY <1>1, <2>1, StepCases DEF AllWalkWell, WalksWell
  <2>3. CASE Walking(a)
    <3> DEFINE s == paths[a]
    <3>1. /\ s \in Seq(Step) /\ s # <<>> /\ paths'[a] = Tail(s) /\ pos'[a] = s[1].tile
          /\ pos'[a] \in Tiles
          /\ target'[a] = IF Tail(s) = <<>> THEN NoTile ELSE target[a]
      BY <1>1, <2>3, StepCases
    <3>2. Tight(s)
      <4>1. \A i \in 2 .. Len(s) : i \in DOMAIN s /\ i # 1
        BY <3>1, LenProperties
      <4> HIDE DEF s
      <4>2. QED
        BY <2>2, <4>1 DEF Tight, Follows, s
    <3>3. /\ Follows(Tail(s), s[1].tile)
          /\ Tail(s) # <<>> => Last(Tail(s)) = Last(s)
      BY <3>1, <3>2, TailFacts
    <3>4. QED
      BY <2>2, <3>1, <3>3
  <2>4. CASE ~Walking(a)
    <3>1. /\ paths'[a] = <<>> /\ pos'[a] = pos[a] /\ target'[a] = target[a] /\ paths[a] = <<>>
      BY <1>1, <2>2, <2>4, StepCases DEF Walking
    <3>2. QED
      BY <2>2, <3>1
  <2>5. QED
    BY <2>3, <2>4
<1>6. AllWalkWell'
  BY <1>5 DEF AllWalkWell
<1>7. QED
  BY <1>2, <1>4, <1>6, WalkParts, PTL

\* So does the claim of a suite, with the avatars it brings.
LEMMA WalkInsert ==
  ASSUME WalkInv, NEW s \in Startups, NEW x \in Suites, InsertAvatars(s, x)
  PROVE  WalkInv'
<1>1. TypeOK /\ Absent /\ AllWalkWell
  BY WalkParts
<1>2. x \in Rooms /\ x # NoRoom /\ Home[x] \in TilesOf(Bounds[x]) /\ Home[x] \in Tiles
  <2>1. x \in Rooms /\ x # NoRoom /\ Home[x] \in TilesOf(Bounds[x])
    BY TownAssumption DEF Suites
  <2>2. QED
    BY <2>1, TileFacts
<1>3. TypeOK'
  <2>1. overtaken' \in [Agents -> SUBSET Suites]
    BY <1>1 DEF TypeOK, InsertAvatars
  <2>2. QED
    BY <1>1, <1>2, <2>1 DEF TypeOK, InsertAvatars
<1>4. ASSUME NEW a \in Agents, a \in Crew(s)
      PROVE  /\ a \notin Here /\ (a \in Here)' /\ paths'[a] = <<>> /\ pos'[a] = Home[x]
             /\ target'[a] = NoTile
  BY <1>1, <1>2, <1>4 DEF InsertAvatars, Here, Absent
<1>5. ASSUME NEW a \in Agents, a \notin Crew(s)
      PROVE  /\ (a \in Here)' <=> a \in Here
             /\ paths'[a] = paths[a] /\ pos'[a] = pos[a] /\ target'[a] = target[a]
  BY <1>5 DEF InsertAvatars, Here
<1>6. Absent'
  BY <1>1, <1>4, <1>5 DEF Absent
<1>7. ASSUME NEW a \in Agents PROVE WalksWell(a)'
  <2>1. CASE a \in Crew(s)
    BY <1>2, <1>4, <2>1 DEF WalksWell, Follows
  <2>2. CASE a \notin Crew(s)
    <3>1. WalksWell(a)
      BY <1>1 DEF AllWalkWell
    <3>2. QED
      BY <1>5, <2>2, <3>1 DEF WalksWell, Follows
  <2>3. QED
    BY <2>1, <2>2
<1>8. AllWalkWell'
  BY <1>7 DEF AllWalkWell
<1>9. QED
  BY <1>3, <1>6, <1>8, WalkParts, PTL

\* So does the release, which leaves paths of agents that are gone.
LEMMA WalkRelease ==
  ASSUME WalkInv, NEW s \in Startups, ReleaseSuite(s)
  PROVE  WalkInv'
<1>1. TypeOK /\ Absent /\ AllWalkWell
  BY WalkParts
<1>2. TypeOK'
  BY <1>1 DEF TypeOK, ReleaseSuite
<1>3. ASSUME NEW a \in Agents
      PROVE  /\ a \in Crew(s) => (a \notin Here)' /\ target'[a] = NoTile
             /\ a \notin Crew(s) =>
                  /\ (a \in Here)' <=> a \in Here
                  /\ paths'[a] = paths[a] /\ pos'[a] = pos[a] /\ target'[a] = target[a]
  BY DEF ReleaseSuite, Here
<1>4. Absent'
  BY <1>1, <1>3 DEF Absent
<1>5. ASSUME NEW a \in Agents PROVE WalksWell(a)'
  <2>1. WalksWell(a)
    BY <1>1 DEF AllWalkWell
  <2>2. QED
    BY <1>3, <2>1 DEF WalksWell, Follows
<1>6. AllWalkWell'
  BY <1>5 DEF AllWalkWell
<1>7. QED
  BY <1>2, <1>4, <1>6, WalkParts, PTL

\* So does a stuttering step.
LEMMA WalkStutter == WalkInv /\ UNCHANGED vars => WalkInv'
BY DEF vars, WalkInv, TypeOK, Standing, Absent, StepByStep, HeadsForTarget, Here

\* Hence it holds for ever.
LEMMA Walks == Spec => []WalkInv
<1>1. ASSUME WalkInv, Next PROVE WalkInv'
  BY <1>1, WalkMove, WalkStep, WalkInsert, WalkRelease DEF Next
<1>2. WalkInv /\ [Next]_vars => WalkInv'
  BY <1>1, WalkStutter
<1>3. QED
  BY WalkInit, <1>2, PTL DEF Spec

(* Rooms, tiles and targets are what the code's types say, and an avatar in    *)
(* the world is in a room: move_sys.rs writes them in start_move and step_all. *)
THEOREM WalkTypes == Spec => []TypeOK
<1>1. WalkInv => TypeOK
  BY DEF WalkInv
<1>2. QED
  BY <1>1, Walks, PTL

(* The segments of full_route, each of shortest tile paths with the door's     *)
(* tile behind, make one walk once start_move has dropped the steps that stay  *)
(* put, from the tile the agent stands on, and step_all goes along it.         *)
THEOREM WalksAreWalks == Spec => []StepByStep
<1>1. WalkInv => StepByStep
  BY DEF WalkInv
<1>2. QED
  BY <1>1, Walks, PTL

(* start_move and step_all set, keep and clear Avatar.target_pos so that the   *)
(* steps in store lead to it.                                                  *)
THEOREM TargetsAreReached == Spec => []HeadsForTarget
<1>1. WalkInv => HeadsForTarget
  BY DEF WalkInv
<1>2. QED
  BY <1>1, Walks, PTL

-----------------------------------------------------------------------------
(* What holds of walks that are not planned, on a door's tile, through that    *)
(* very door: the room and the tile change together.                           *)

LeadsTo(a, e) ==
  /\ Run(paths[a], room[a], e)
  /\ paths[a] # <<>> => Last(paths[a]).tile \in TilesOf(Bounds[e])

OnRoute(a) ==
  a \in Here => Inside(room[a], pos[a]) /\ \E e \in Rooms : LeadsTo(a, e)

AllOnRoute == \A a \in Agents : OnRoute(a)

\* Who takes no step stays in its room.
LEMMA EmptyRun ==
  ASSUME NEW r \in Rooms
  PROVE  Run(<<>>, r, r)
<1> DEFINE rho == [i \in 0 .. Len(<<>>) |-> r]
<1>1. rho \in [0 .. Len(<<>>) -> Rooms] /\ rho[0] = r /\ rho[Len(<<>>)] = r
  OBVIOUS
<1>2. 1 .. Len(<<>>) = {}
  OBVIOUS
<1> HIDE DEF rho
<1>3. QED
  BY <1>1, <1>2 DEF Run

\* A step along the way to e.
LEMMA LeadStep ==
  ASSUME TypeOK, StepAll, NEW a \in Agents, Walking(a), NEW e \in Rooms, LeadsTo(a, e)
  PROVE  /\ Inside(room'[a], pos'[a]) /\ LeadsTo(a, e)'
         /\ paths'[a] = <<>> => room'[a] = e
         /\ paths'[a] # <<>> => Last(paths'[a]) = Last(paths[a])
<1> DEFINE s == paths[a]
<1>1. /\ s \in Seq(Step) /\ s # <<>> /\ paths'[a] = Tail(s) /\ pos'[a] = s[1].tile
      /\ room'[a] = After(room[a], s[1])
  BY StepCases
<1>2. Run(s, room[a], e) /\ Last(s).tile \in TilesOf(Bounds[e])
  BY <1>1 DEF LeadsTo
<1>3. /\ Inside(room'[a], pos'[a])
      /\ Run(paths'[a], room'[a], e)
  BY <1>1, <1>2, RunTail
<1>4. paths'[a] # <<>> => Last(paths'[a]) = Last(paths[a])
  BY <1>1, TailFacts
<1>5. LeadsTo(a, e)'
  BY <1>2, <1>3, <1>4 DEF LeadsTo
<1>6. paths'[a] = <<>> => room'[a] = e
  <2>1. SUFFICES ASSUME paths'[a] = <<>> PROVE room'[a] = e
    OBVIOUS
  <2>2. Len(paths'[a]) = 0
    BY <2>1
  <2>3. QED
    BY <1>3, <2>2 DEF Run
<1>7. QED
  BY <1>3, <1>4, <1>5, <1>6

\* The new path is a run from the room the agent is in: the dropped step enters nothing.
LEMMA RouteMove ==
  ASSUME NoTurning, WalkInv, AllOnRoute, NEW a \in Agents, MoveIntent(a)
  PROVE  AllOnRoute'
<1>1. TypeOK /\ Standing
  BY DEF WalkInv
<1>2. a \in Here /\ UNCHANGED <<room, pos, private, Here>>
  BY <1>1, MoveCases DEF Here
<1>3. CASE \E t \in Targets : AlreadyThere(a, t)
  BY <1>2, <1>3 DEF AlreadyThere, AllOnRoute, OnRoute, LeadsTo
<1>4. ASSUME NEW r \in Rooms, NEW t \in Targets, NEW steps \in Seq(Step),
             Granted(a, r, t, steps), Walk(a, t, steps)
      PROVE  AllOnRoute'
  <2>1. ASSUME NEW b \in Agents PROVE OnRoute(b)'
    <3>1. CASE b = a
      <4>1. paths'[a] = steps /\ room'[a] = room[a] /\ pos'[a] = pos[a]
        BY <1>1, <1>2, <1>4 DEF Walk, TypeOK
      <4>2. /\ Run(steps, room[a], r) /\ t \in TilesOf(Bounds[r])
            /\ Last(steps).tile = t
        BY <1>4 DEF Granted, Last
      <4>3. LeadsTo(a, r)'
        BY <4>1, <4>2 DEF LeadsTo
      <4>4. Inside(room[a], pos[a])
        BY <1>2 DEF AllOnRoute, OnRoute
      <4>5. QED
        BY <3>1, <4>1, <4>3, <4>4 DEF OnRoute
    <3>2. CASE b # a
      <4>1. paths'[b] = paths[b] /\ room'[b] = room[b] /\ pos'[b] = pos[b]
        BY <1>1, <1>2, <1>4, <3>2 DEF Walk, TypeOK
      <4>2. OnRoute(b)
        BY DEF AllOnRoute
      <4>3. QED
        BY <1>2, <4>1, <4>2 DEF OnRoute, LeadsTo
    <3>3. QED
      BY <3>1, <3>2
  <2>2. QED
    BY <2>1 DEF AllOnRoute
<1>5. QED
  BY <1>1, <1>3, <1>4, MoveCases

\* A tick goes along the run.
LEMMA RouteStepAll ==
  ASSUME WalkInv, AllOnRoute, StepAll
  PROVE  AllOnRoute'
<1>1. TypeOK
  BY DEF WalkInv
<1>2. ASSUME NEW a \in Agents PROVE OnRoute(a)'
  <2>1. SUFFICES ASSUME a \in Here
                 PROVE  Inside(room'[a], pos'[a]) /\ \E e \in Rooms : LeadsTo(a, e)'
    BY <1>1, StepCases DEF OnRoute
  <2>2. Inside(room[a], pos[a]) /\ \E e \in Rooms : LeadsTo(a, e)
    BY <2>1 DEF AllOnRoute, OnRoute
  <2>3. CASE Walking(a)
    BY <1>1, <2>2, <2>3, LeadStep
  <2>4. CASE ~Walking(a)
    <3>1. /\ paths'[a] = paths[a] /\ pos'[a] = pos[a] /\ room'[a] = room[a]
      BY <1>1, <2>1, <2>4, StepCases DEF Walking
    <3>2. QED
      BY <2>2, <3>1 DEF LeadsTo
  <2>5. QED
    BY <2>3, <2>4
<1>3. QED
  BY <1>2 DEF AllOnRoute

\* New avatars are at a desk of their suite and have no path.
LEMMA RouteInsert ==
  ASSUME WalkInv, AllOnRoute, NEW s \in Startups, NEW x \in Suites, InsertAvatars(s, x)
  PROVE  AllOnRoute'
<1>1. TypeOK
  BY DEF WalkInv
<1>2. x \in Rooms /\ Home[x] \in TilesOf(Bounds[x])
  BY TownAssumption DEF Suites
<1>3. ASSUME NEW a \in Agents PROVE OnRoute(a)'
  <2>1. CASE a \in Crew(s)
    <3>1. room'[a] = x /\ pos'[a] = Home[x] /\ paths'[a] = <<>>
      BY <1>1, <2>1 DEF InsertAvatars, TypeOK
    <3>2. LeadsTo(a, x)'
      BY <1>2, <3>1, EmptyRun DEF LeadsTo
    <3>3. Inside(room'[a], pos'[a])
      BY <1>2, <3>1 DEF Inside
    <3>4. QED
      BY <1>2, <3>2, <3>3 DEF OnRoute
  <2>2. CASE a \notin Crew(s)
    <3>1. room'[a] = room[a] /\ pos'[a] = pos[a] /\ paths'[a] = paths[a]
      BY <2>2 DEF InsertAvatars
    <3>2. OnRoute(a)
      BY DEF AllOnRoute
    <3>3. QED
      BY <3>1, <3>2 DEF OnRoute, LeadsTo, Here
  <2>3. QED
    BY <2>1, <2>2
<1>4. QED
  BY <1>3 DEF AllOnRoute

\* Those of a released suite are gone, the others as they were.
LEMMA RouteRelease ==
  ASSUME AllOnRoute, NEW s \in Startups, ReleaseSuite(s)
  PROVE  AllOnRoute'
<1>1. ASSUME NEW a \in Agents PROVE OnRoute(a)'
  <2>1. OnRoute(a)
    BY DEF AllOnRoute
  <2>2. /\ a \in Crew(s) => (a \notin Here)'
        /\ a \notin Crew(s) => room'[a] = room[a] /\ pos'[a] = pos[a]
        /\ paths'[a] = paths[a]
    BY DEF ReleaseSuite, Here
  <2>3. QED
    BY <2>1, <2>2 DEF OnRoute, LeadsTo, Here
<1>2. QED
  BY <1>1 DEF AllOnRoute

\* Hence every agent is on its route for ever.
LEMMA Routed ==
  ASSUME NoTurning
  PROVE  Spec => []AllOnRoute
<1>1. Init => AllOnRoute
  BY DEF Init, AllOnRoute, OnRoute, Here
<1>2. WalkInv /\ AllOnRoute /\ [Next]_vars => AllOnRoute'
  <2>1. ASSUME WalkInv, AllOnRoute, Next PROVE AllOnRoute'
    BY <2>1, RouteMove, RouteStepAll, RouteInsert, RouteRelease DEF Next
  <2>2. ASSUME AllOnRoute, UNCHANGED vars PROVE AllOnRoute'
    BY <2>2 DEF vars, AllOnRoute, OnRoute, LeadsTo, Here
  <2>3. QED
    BY <2>1, <2>2
<1>3. QED
  BY <1>1, <1>2, Walks, PTL DEF Spec

(* step_all updates an avatar's room on the tile of a door, and full_route     *)
(* puts the door's tile where both rooms can reach it.                         *)
THEOREM StaysInside ==
  ASSUME NoTurning
  PROVE  Spec => []InsideItsRoom
<1>1. AllOnRoute => InsideItsRoom
  BY DEF AllOnRoute, OnRoute, Inside, InsideItsRoom, Here
<1>2. QED
  BY <1>1, Routed, PTL

(* handle_speak asks for the speaker's room only: that of who stands at a desk *)
(* of a suite is that suite.                                                   *)
THEOREM TalkStaysInside ==
  ASSUME NoTurning
  PROVE  Spec => []SuiteTalkStaysInside
<1>1. ASSUME TypeOK, AllOnRoute PROVE SuiteTalkStaysInside
  <2>1. SUFFICES ASSUME NEW a \in Here, NEW b \in Here, NEW x \in Suites,
                        pos[a] \in TilesOf(Bounds[x]) \ {d.tile : d \in Doors},
                        Hears(b, a)
                 PROVE  StartupOf[b] = StartupOf[a]
    BY DEF SuiteTalkStaysInside
  <2>2. x \in Rooms \ PublicRooms
    BY TownAssumption DEF Suites
  <2>3. room[a] \in Rooms
    BY <1>1 DEF TypeOK, Here
  <2>4. Inside(room[a], pos[a])
    BY <1>1 DEF AllOnRoute, OnRoute, Here
  <2>5. pos[a] \in TilesOf(Bounds[room[a]])
    BY <2>1, <2>4 DEF Inside
  <2>6. room[a] = x
    BY <2>1, <2>2, <2>3, <2>5, ApartFacts
  <2>7. QED
    BY <2>1, <2>2, <2>6 DEF Hears
<1>2. WalkInv => TypeOK
  BY DEF WalkInv
<1>3. QED
  BY <1>1, <1>2, Routed, Walks, PTL

-----------------------------------------------------------------------------
(* Whom the rooms on a walk let in.                                            *)

PublicOpen == \A r \in PublicRooms : private[r] = NoStartup

\* The rooms on the way let the agent in, but for those claimed since it set out.
Permitted(a) ==
  \A i \in DOMAIN paths[a] :
    paths[a][i].enter # NoRoom =>
      CanEnter(StartupOf[a], paths[a][i].enter) \/ paths[a][i].enter \in overtaken[a]

ClaimInv == PublicOpen /\ \A a \in Agents : Permitted(a)

\* What start_move stores enters public rooms and the target, which lets the agent in.
LEMMA ClaimMove ==
  ASSUME WalkInv, ClaimInv, NEW a \in Agents, MoveIntent(a)
  PROVE  ClaimInv'
<1>1. TypeOK /\ Standing
  BY DEF WalkInv
<1>2. UNCHANGED <<room, pos, private>>
  BY <1>1, MoveCases
<1>3. CASE \E t \in Targets : AlreadyThere(a, t)
  BY <1>2, <1>3 DEF AlreadyThere, ClaimInv, PublicOpen, Permitted, CanEnter
<1>4. ASSUME NEW r \in Rooms, NEW t \in Targets, NEW steps \in Seq(Step),
             Granted(a, r, t, steps), Walk(a, t, steps)
      PROVE  ClaimInv'
  <2>1. \A i \in DOMAIN steps :
          steps[i].enter # NoRoom => CanEnter(StartupOf[a], steps[i].enter)
    BY <1>4 DEF Granted, ClaimInv, PublicOpen, CanEnter
  <2>2. ASSUME NEW b \in Agents PROVE Permitted(b)'
    <3>1. CASE b = a
      BY <1>1, <1>2, <1>4, <2>1, <3>1 DEF Walk, TypeOK, Permitted, CanEnter
    <3>2. CASE b # a
      BY <1>1, <1>2, <1>4, <3>2 DEF Walk, TypeOK, ClaimInv, Permitted, CanEnter
    <3>3. QED
      BY <3>1, <3>2
  <2>3. QED
    BY <1>2, <2>2 DEF ClaimInv, PublicOpen
<1>5. QED
  BY <1>1, <1>3, <1>4, MoveCases

\* A tick only shortens the paths.
LEMMA ClaimStepAll ==
  ASSUME WalkInv, ClaimInv, StepAll
  PROVE  ClaimInv'
<1>1. /\ TypeOK /\ private' = private
      /\ \A a \in Agents : paths'[a] # <<>> => overtaken'[a] = overtaken[a]
  BY DEF WalkInv, StepAll
<1>2. ASSUME NEW a \in Agents PROVE Permitted(a)'
  <2>1. Permitted(a)
    BY DEF ClaimInv
  <2>2. CASE Walking(a)
    <3>1. paths[a] \in Seq(Step) /\ paths[a] # <<>> /\ paths'[a] = Tail(paths[a])
      BY <1>1, <2>2, StepCases
    <3>2. \A i \in DOMAIN paths'[a] : i + 1 \in DOMAIN paths[a] /\ paths'[a][i] = paths[a][i + 1]
      BY <3>1, TailFacts
    <3>3. CASE paths'[a] # <<>>
      BY <1>1, <2>1, <3>2, <3>3 DEF Permitted, CanEnter
    <3>4. CASE paths'[a] = <<>>
      BY <3>4 DEF Permitted
    <3>5. QED
      BY <3>3, <3>4
  <2>3. CASE ~Walking(a)
    BY <1>1, <2>3, StepCases DEF Permitted
  <2>4. QED
    BY <2>2, <2>3
<1>3. QED
  BY <1>1, <1>2 DEF ClaimInv, PublicOpen

\* A claim overtakes the walks into the suite, and those only.
LEMMA ClaimInsert ==
  ASSUME WalkInv, ClaimInv, NEW s \in Startups, NEW x \in Suites, InsertAvatars(s, x)
  PROVE  ClaimInv'
<1>1. /\ private \in [Rooms -> Startups \cup {NoStartup}]
      /\ private' = [private EXCEPT ![x] = s] /\ paths' = paths
      /\ \A a \in Agents :
           overtaken'[a] = IF \E i \in DOMAIN paths[a] : paths[a][i].enter = x
                           THEN overtaken[a] \cup {x} ELSE overtaken[a]
  BY DEF WalkInv, TypeOK, InsertAvatars
<1>2. x \in Rooms \ PublicRooms /\ PublicRooms \subseteq Rooms
  BY TownAssumption DEF Suites
<1>3. \A r : r # x => private'[r] = private[r]
  BY <1>1
<1>4. ASSUME NEW a \in Agents PROVE Permitted(a)'
  <2>1. SUFFICES ASSUME NEW i \in DOMAIN paths[a], paths[a][i].enter # NoRoom
                 PROVE  \/ private'[paths[a][i].enter] \in {NoStartup, StartupOf[a]}
                        \/ paths[a][i].enter \in overtaken'[a]
    BY <1>1 DEF Permitted, CanEnter
  <2>2. CASE paths[a][i].enter = x
    BY <1>1, <2>2
  <2>3. CASE paths[a][i].enter # x
    <3>1. \/ private[paths[a][i].enter] \in {NoStartup, StartupOf[a]}
          \/ paths[a][i].enter \in overtaken[a]
      BY <2>1 DEF ClaimInv, Permitted, CanEnter
    <3>2. QED
      BY <1>1, <1>3, <2>3, <3>1
  <2>4. QED
    BY <2>2, <2>3
<1>5. PublicOpen'
  BY <1>2, <1>3 DEF ClaimInv, PublicOpen
<1>6. QED
  BY <1>4, <1>5 DEF ClaimInv

\* A release opens rooms.
LEMMA ClaimRelease ==
  ASSUME WalkInv, ClaimInv, NEW s \in Startups, ReleaseSuite(s)
  PROVE  ClaimInv'
<1>1. /\ private' = [r \in Rooms |-> IF private[r] = s THEN NoStartup ELSE private[r]]
      /\ UNCHANGED <<paths, overtaken>>
  BY DEF ReleaseSuite
<1>2. \A r \in Rooms : private'[r] = private[r] \/ private'[r] = NoStartup
  BY <1>1
<1>3. PublicRooms \subseteq Rooms
  BY TownAssumption
<1>4. ASSUME NEW a \in Agents, NEW i \in DOMAIN paths[a], paths[a][i].enter # NoRoom
      PROVE  paths[a][i].enter \in Rooms
  <2>1. paths[a] \in Seq(Step)
    BY DEF WalkInv, TypeOK
  <2>2. i \in 1 .. Len(paths[a])
    BY <1>4, <2>1, LenProperties
  <2>3. QED
    BY <1>4, <2>1, <2>2, StepFacts
<1>5. QED
  BY <1>1, <1>2, <1>3, <1>4 DEF ClaimInv, PublicOpen, Permitted, CanEnter

\* Hence every room on a path lets its agent in, or was claimed since.
LEMMA Claims == Spec => []ClaimInv
<1>1. Init => ClaimInv
  BY TownAssumption DEF Init, ClaimInv, PublicOpen, Permitted
<1>2. WalkInv /\ ClaimInv /\ [Next]_vars => ClaimInv'
  <2>1. ASSUME WalkInv, ClaimInv, Next PROVE ClaimInv'
    BY <2>1, ClaimMove, ClaimStepAll, ClaimInsert, ClaimRelease DEF Next
  <2>2. ASSUME ClaimInv, UNCHANGED vars PROVE ClaimInv'
    BY <2>2 DEF vars, ClaimInv, PublicOpen, Permitted, CanEnter
  <2>3. QED
    BY <2>1, <2>2
<1>3. QED
  BY <1>1, <1>2, Walks, PTL DEF Spec

\* Rooms change by step_all only, for those who were in the world.
LEMMA EntryIsPermitted ==
  ASSUME WalkInv, ClaimInv, Next, NEW a \in Here, room'[a] \notin {room[a], NoRoom}
  PROVE  private[room'[a]] \in {NoStartup, StartupOf[a]} \/ room'[a] \in overtaken[a]
<1>1. TypeOK /\ Standing /\ a \in Agents
  BY DEF WalkInv, Here
<1>2. CASE StepAll
  <2>1. Walking(a)
    BY <1>1, <1>2, StepCases
  <2>2. paths[a] # <<>> /\ paths[a] \in Seq(Step) /\ room'[a] = After(room[a], paths[a][1])
    BY <1>1, <1>2, <2>1, StepCases
  <2>3. 1 \in DOMAIN paths[a]
    <3>1. Len(paths[a]) >= 1
      BY <2>2, TailFacts
    <3>2. QED
      BY <2>2, <3>1, LenProperties
  <2>4. QED
    BY <1>1, <2>2, <2>3 DEF After, ClaimInv, Permitted, CanEnter
<1>3. ASSUME NEW b \in Agents, MoveIntent(b) PROVE FALSE
  BY <1>1, <1>3, MoveCases
<1>4. ASSUME NEW s \in Startups, NEW x \in Suites, InsertAvatars(s, x) PROVE FALSE
  BY <1>1, <1>4 DEF InsertAvatars
<1>5. ASSUME NEW s \in Startups, ReleaseSuite(s) PROVE FALSE
  BY <1>1, <1>5 DEF ReleaseSuite
<1>6. QED
  BY <1>2, <1>3, <1>4, <1>5 DEF Next

(* can_enter_layout_room is asked for the target only, and once: the rooms on  *)
(* the way are public, since a suite has one door, so an agent enters another  *)
(* startup's suite only when InsertAvatars claimed it during the walk for      *)
(* which the agent had been let in.                                            *)
THEOREM EntrantsWereLetIn == Spec => LetInWhenPlanned
<1> DEFINE LetIn(a) == room'[a] \notin {room[a], NoRoom} =>
                         \/ private[room'[a]] \in {NoStartup, StartupOf[a]}
                         \/ room'[a] \in overtaken[a]
<1>1. ASSUME WalkInv, ClaimInv, Next
      PROVE  \A a \in Here : LetIn(a)
  BY <1>1, EntryIsPermitted
<1>2. WalkInv /\ ClaimInv /\ [Next]_vars => [\A a \in Here : LetIn(a)]_vars
  BY <1>1
<1>3. QED
  BY <1>2, Claims, Walks, PTL DEF Spec, LetInWhenPlanned

-----------------------------------------------------------------------------
(* A walk is an errand.                                                        *)

\* The goal is the one room that the last tile is in.
LEMMA GoalRoom ==
  ASSUME NEW e \in Rooms, NEW t \in TilesOf(Bounds[e])
  PROVE  (CHOOSE r \in Rooms : t \in TilesOf(Bounds[r])) = e
<1>1. \A r \in Rooms : t \in TilesOf(Bounds[r]) => r = e
  BY ApartFacts
<1>2. QED
  BY <1>1

\* The goal of who walks, now and after a step.
LEMMA GoalIs ==
  ASSUME NEW a \in Agents, NEW e \in Rooms
  PROVE  /\ Walking(a) /\ Last(paths[a]).tile \in TilesOf(Bounds[e]) => GoalOf(a) = e
         /\ (Walking(a) /\ Last(paths[a]).tile \in TilesOf(Bounds[e]) => GoalOf(a) = e)'
BY GoalRoom DEF GoalOf

\* What an action is to one agent.
Moves(a) ==
  Errands!Pass(a) \/ Errands!Arrive(a) \/ Errands!Appear(a) \/ Errands!Vanish(a) \/ Errands!Stay(a)

GoalsAre == [a \in Agents |-> GoalOf(a)]

\* The goals as one function, as Errand has them.
LEMMA Goals == \A a \in Agents : GoalsAre[a] = GoalOf(a)
BY DEF GoalsAre

\* An agent whose room and path do not change has the errand it had.
LEMMA StayWhenSame ==
  ASSUME NEW a \in Agents, room'[a] = room[a], paths'[a] = paths[a]
  PROVE  /\ GoalOf(a)' = GoalOf(a)
         /\ Errands!Stay(a)
<1>1. GoalOf(a)' = GoalOf(a)
  BY DEF GoalOf, Walking, Here
<1>2. QED
  BY <1>1 DEF Errands!Stay

\* step_all passes through a room, or arrives.
LEMMA StepMoves ==
  ASSUME WalkInv, AllOnRoute, StepAll, NEW a \in Agents
  PROVE  Moves(a)
<1>1. TypeOK
  BY DEF WalkInv
<1>2. CASE Walking(a)
  <2>1. a \in Here /\ OnRoute(a) /\ paths[a] # <<>>
    BY <1>2 DEF AllOnRoute, Walking
  <2>2. PICK e \in Rooms : LeadsTo(a, e)
    BY <2>1 DEF OnRoute
  <2>3. /\ LeadsTo(a, e)'
        /\ paths'[a] = <<>> => room'[a] = e
        /\ paths'[a] # <<>> => Last(paths'[a]) = Last(paths[a])
    BY <1>1, <1>2, <2>2, LeadStep
  <2>4. Last(paths[a]).tile \in TilesOf(Bounds[e])
    BY <2>1, <2>2 DEF LeadsTo
  <2>5. GoalOf(a) = e /\ e # NoRoom
    BY <1>2, <2>4, GoalIs, TownAssumption
  <2>6. room'[a] \in Rooms /\ (a \in Here)'
    BY <1>1, <1>2, <2>1, StepCases
  <2>7. CASE paths'[a] = <<>>
    <3>1. GoalOf(a)' = NoRoom
      BY <2>7 DEF GoalOf, Walking
    <3>2. QED
      BY <2>3, <2>5, <2>7, <3>1, Goals DEF Moves, Errands!Arrive
  <2>8. CASE paths'[a] # <<>>
    <3>1. Walking(a)' /\ Last(paths'[a]).tile \in TilesOf(Bounds[e])
      BY <2>3, <2>4, <2>6, <2>8 DEF Walking
    <3>2. GoalOf(a)' = e
      BY <3>1, GoalIs
    <3>3. QED
      BY <2>5, <2>6, <3>2 DEF Moves, Errands!Pass
  <2>9. QED
    BY <2>7, <2>8
<1>3. CASE ~Walking(a)
  <2>1. room'[a] = room[a] /\ paths'[a] = <<>>
    BY <1>1, <1>3, StepCases
  <2>2. GoalOf(a) = NoRoom /\ GoalOf(a)' = NoRoom
    BY <1>3, <2>1 DEF GoalOf, Walking
  <2>3. QED
    BY <2>1, <2>2 DEF Moves, Errands!Stay
<1>4. QED
  BY <1>2, <1>3

\* InsertAvatars makes its agents appear.
LEMMA InsertMoves ==
  ASSUME WalkInv, NEW s \in Startups, NEW x \in Suites, InsertAvatars(s, x), NEW a \in Agents
  PROVE  Moves(a)
<1>1. x \in Rooms
  BY TownAssumption DEF Suites
<1>2. CASE a \in Crew(s)
  <2>1. /\ a \notin Here /\ paths[a] = <<>> /\ paths' = paths
        /\ room[a] = NoRoom /\ room'[a] = x
    BY <1>2 DEF InsertAvatars, Here
  <2>2. GoalOf(a) = NoRoom /\ GoalOf(a)' = NoRoom
    BY <2>1 DEF GoalOf, Walking
  <2>3. QED
    BY <1>1, <2>1, <2>2 DEF Moves, Errands!Appear
<1>3. CASE a \notin Crew(s)
  <2>1. room'[a] = room[a] /\ paths'[a] = paths[a]
    BY <1>3 DEF InsertAvatars
  <2>2. QED
    BY <2>1, StayWhenSame DEF Moves
<1>4. QED
  BY <1>2, <1>3

\* ReleaseSuite makes its agents vanish.
LEMMA ReleaseMoves ==
  ASSUME WalkInv, NEW s \in Startups, ReleaseSuite(s), NEW a \in Agents
  PROVE  Moves(a)
<1>1. paths'[a] = paths[a] /\ room'[a] = IF a \in Crew(s) THEN NoRoom ELSE room[a]
  BY DEF ReleaseSuite
<1>2. CASE a \in Crew(s) /\ room[a] # NoRoom
  <2>1. room'[a] = NoRoom
    BY <1>1, <1>2
  <2>2. GoalOf(a)' = NoRoom
    BY <2>1 DEF GoalOf, Walking, Here
  <2>3. QED
    BY <1>2, <2>1, <2>2 DEF Moves, Errands!Vanish
<1>3. CASE ~(a \in Crew(s) /\ room[a] # NoRoom)
  <2>1. room'[a] = room[a]
    BY <1>1, <1>3
  <2>2. QED
    BY <1>1, <2>1, StayWhenSame DEF Moves
<1>4. QED
  BY <1>2, <1>3

\* A granted move sends; one that is to where the agent stands changes no errand.
LEMMA MoveSends ==
  ASSUME WalkInv, NEW a \in Agents, MoveIntent(a)
  PROVE  Errands!Send(a) \/ \A b \in Agents : Moves(b)
<1>1. TypeOK /\ Standing
  BY DEF WalkInv
<1>2. a \in Here /\ UNCHANGED <<room, pos, private>>
  BY <1>1, MoveCases
<1>3. CASE \E t \in Targets : AlreadyThere(a, t)
  <2>1. paths' = paths
    BY <1>3 DEF AlreadyThere
  <2>2. QED
    BY <1>2, <2>1, StayWhenSame DEF Moves
<1>4. ASSUME NEW r \in Rooms, NEW t \in Targets, NEW steps \in Seq(Step),
             Granted(a, r, t, steps), Walk(a, t, steps)
      PROVE  Errands!Send(a)
  <2>1. /\ steps # <<>> /\ Last(steps).tile \in TilesOf(Bounds[r])
        /\ paths' = [paths EXCEPT ![a] = steps] /\ paths'[a] = steps
    BY <1>1, <1>4 DEF Granted, Walk, Last, TypeOK
  <2>2. Walking(a)' /\ Last(paths'[a]).tile \in TilesOf(Bounds[r])
    BY <1>2, <2>1 DEF Walking, Here
  <2>3. GoalOf(a)' = r
    BY <2>2, GoalIs
  <2>4. \A b \in Agents : b # a => GoalOf(b)' = GoalOf(b)
    <3>1. SUFFICES ASSUME NEW b \in Agents, b # a PROVE GoalOf(b)' = GoalOf(b)
      OBVIOUS
    <3>2. room'[b] = room[b] /\ paths'[b] = paths[b]
      BY <1>2, <2>1, <3>1
    <3>3. QED
      BY <3>2, StayWhenSame
  <2>5. GoalsAre' = [GoalsAre EXCEPT ![a] = r]
    BY <2>3, <2>4 DEF GoalsAre
  <2>6. QED
    BY <1>2, <2>5 DEF Errands!Send, GoalsAre, Here
<1>5. QED
  BY <1>1, <1>3, <1>4, MoveCases

\* Every step of Movement is one of Errand.
LEMMA NextIsErrand ==
  ASSUME WalkInv, AllOnRoute, Next
  PROVE  Errands!Next
<1>1. ASSUME NEW a \in Agents, MoveIntent(a) PROVE Errands!Next
  <2>1. CASE Errands!Send(a)
    BY <2>1 DEF Errands!Next
  <2>2. CASE \A b \in Agents : Moves(b)
    BY <2>2 DEF Errands!Next, Errands!Move, Moves
  <2>3. QED
    BY <1>1, <2>1, <2>2, MoveSends
<1>2. ASSUME \A a \in Agents : Moves(a) PROVE Errands!Next
  BY <1>2 DEF Errands!Next, Errands!Move, Moves
<1>3. QED
  BY <1>1, <1>2, StepMoves, InsertMoves, ReleaseMoves DEF Next

(* TaskWorld and the scheduler take a walk for an errand to a room: whatever   *)
(* ticks, claims and releases come between, start_move and step_all leave the  *)
(* agent in the room it was last sent to.                                      *)
THEOREM WalksImplementErrands ==
  ASSUME NoTurning
  PROVE  Spec => WalksAreErrands
<1>1. Init => Errands!Init
  <2>1. SUFFICES ASSUME Init PROVE Errands!Init
    OBVIOUS
  <2>2. \A a \in Agents : GoalOf(a) = NoRoom
    BY <2>1 DEF Init, GoalOf, Walking
  <2>3. QED
    BY <2>1, <2>2 DEF Init, Errands!Init
<1>2. WalkInv /\ AllOnRoute /\ [Next]_vars => [Errands!Next]_(Errands!errand)
  <2>1. ASSUME UNCHANGED vars PROVE UNCHANGED Errands!errand
    BY <2>1 DEF vars, Errands!errand, GoalOf, Walking, Here
  <2>2. QED
    BY <2>1, NextIsErrand
<1>3. QED
  BY <1>1, <1>2, Routed, Walks, PTL DEF Spec, WalksAreErrands, Errands!Spec

=============================================================================
