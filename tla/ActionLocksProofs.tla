-------------------------- MODULE ActionLocksProofs --------------------------
(***************************************************************************)
(* Types, three promises of the operators' locks, and what the browsers    *)
(* show of them, for any number of consoles, operators, tasks and crashes. *)
(***************************************************************************)
EXTENDS ActionLocks, SequenceTheorems, TLAPS

Commands == [at : {"sweep", "insert", "act", "release", "bounce", "reply"},
             key : Keys, by : Operators \cup {Env}, from : Sessions]
RowType == [age : Ages, by : Operators \cup {Env}, life : Nat]
SessionType == [at : {"off", "read", "on", "waiting"}, op : Operators \cup {Env}, role : Roles]

(* A row of the present life of the world is the lock of the command under way. *)
RowsAndCommands ==
  \A k \in Keys :
    /\ row[k].life <= life
    /\ row[k].age # "none" /\ row[k].life = life =>
         (At("act") \/ At("release")) /\ loop.key = k

(* The row a command acts or releases under is its own, or is gone.            *)
OwnLock ==
  At("act") \/ At("release") =>
    row[loop.key].age = "none" \/ row[loop.key].by = loop.by

(* Whoever revokes has a row when he does, and revokes another.                *)
Revoker ==
  loop # Idle /\ loop.key.kind = "revoke" =>
    /\ loop.key.of # loop.by
    /\ At("act") => HasRow(loop.by)

LockInv == RowsAndCommands /\ OwnLock /\ Revoker /\ BouncesOffACrash /\ SomeoneRemains

-----------------------------------------------------------------------------
(* Types.                                                                      *)

LEMMA ConstantTypes ==
  /\ NoRow \in RowType
  /\ Off \in SessionType
  /\ [kind |-> "lagged"] \in Frames
  /\ \A k \in Keys : /\ [kind |-> "locked", key |-> k] \in Frames
                     /\ [kind |-> "unlocked", key |-> k] \in Frames
BY LocksAssumption DEF NoRow, RowType, Ages, Off, SessionType, Frames

LEMMA CommandFacts ==
  ASSUME TypeOK, loop # Idle
  PROVE  loop \in Commands /\ loop.key \in Keys /\ loop.by \in Operators \cup {Env}
BY DEF TypeOK, Commands

LEMMA GotoFacts ==
  ASSUME TypeOK, loop # Idle,
         NEW step \in {"sweep", "insert", "act", "release", "bounce", "reply"},
         Goto(step)
  PROVE  /\ loop' \in Commands /\ loop' # Idle
         /\ loop'.at = step /\ loop'.key = loop.key /\ loop'.by = loop.by
<1>1. loop \in Commands
  BY CommandFacts
<1>2. loop' = [loop EXCEPT !.at = step]
  BY DEF Goto
<1>3. /\ loop' \in Commands
      /\ loop'.at = step /\ loop'.key = loop.key /\ loop'.by = loop.by
  BY <1>1, <1>2 DEF Commands
<1>4. loop'.at # "idle"
  BY <1>3
<1>5. QED
  BY <1>3, <1>4 DEF Idle

LEMMA AtType ==
  ASSUME TypeOK, NEW s \in Sessions, NEW step \in {"off", "read", "on", "waiting"}
  PROVE  [session EXCEPT ![s].at = step] \in [Sessions -> SessionType]
<1>1. session \in [Sessions -> SessionType]
  BY DEF TypeOK, SessionType
<1>2. [session[s] EXCEPT !.at = step] \in SessionType
  BY <1>1 DEF SessionType
<1>3. QED
  BY <1>1, <1>2

LEMMA BroadcastType ==
  ASSUME TypeOK, NEW f \in Frames, Broadcast(f)
  PROVE  backlog' \in [Viewers -> Seq(Frames)]
<1>1. ASSUME NEW s \in Viewers
      PROVE  /\ backlog[s] \in Seq(Frames)
             /\ Append(backlog[s], f) \in Seq(Frames)
             /\ <<[kind |-> "lagged"]>> \in Seq(Frames)
             /\ <<>> \in Seq(Frames)
  <2>1. backlog[s] \in Seq(Frames)
    BY DEF TypeOK
  <2>2. Append(backlog[s], f) \in Seq(Frames)
    BY <2>1, AppendProperties
  <2>3. [kind |-> "lagged"] \in Frames
    BY ConstantTypes
  <2>4. QED
    BY <2>1, <2>2, <2>3
<1>2. QED
  BY <1>1 DEF Broadcast

LEMMA CloseTypes ==
  ASSUME TypeOK, NEW s \in Sessions, Close(s)
  PROVE  /\ session' \in [Sessions -> SessionType]
         /\ backlog' \in [Viewers -> Seq(Frames)]
         /\ due' \subseteq Viewers
         /\ shown' \in [Viewers -> SUBSET Keys]
<1>1. <<>> \in Seq(Frames)
  OBVIOUS
<1>2. session' \in [Sessions -> SessionType]
  BY ConstantTypes DEF TypeOK, Close, SessionType
<1>3. backlog' \in [Viewers -> Seq(Frames)]
  BY <1>1 DEF TypeOK, Close
<1>4. shown' \in [Viewers -> SUBSET Keys] /\ due' \subseteq Viewers
  BY DEF TypeOK, Close
<1>5. QED
  BY <1>2, <1>3, <1>4

\* A row that is made older is a row.
LEMMA AgeingTypes ==
  ASSUME TypeOK, NEW K, NEW a \in Ages,
         row' = [k \in Keys |-> IF k \in K THEN [row[k] EXCEPT !.age = a] ELSE row[k]]
  PROVE  row' \in [Keys -> RowType]
<1>1. ASSUME NEW k \in Keys
      PROVE  row[k] \in RowType /\ [row[k] EXCEPT !.age = a] \in RowType
  BY DEF TypeOK, RowType
<1>2. QED
  BY <1>1

LEMMA TypeInit == Init => TypeOK
<1> SUFFICES ASSUME Init PROVE TypeOK
  OBVIOUS
<1>1. row \in [Keys -> RowType]
  BY ConstantTypes DEF Init
<1>2. session \in [Sessions -> SessionType]
  BY ConstantTypes DEF Init
<1>3. backlog \in [Viewers -> Seq(Frames)]
  <2>1. <<>> \in Seq(Frames)
    OBVIOUS
  <2>2. QED
    BY <2>1 DEF Init
<1>4. QED
  BY <1>1, <1>2, <1>3 DEF Init, TypeOK, RowType, SessionType

\* A console session, and what it may send the loop.
LEMMA TypeSession ==
  ASSUME TypeOK, NEW s \in Sessions,
         \/ \E o \in Operators \cup {Env} : Hello(s, o)
         \/ Disconnect(s)
         \/ \E k \in Keys : StartLocked(s, k)
         \/ \E o \in Operators, r \in Roles : SetRole(s, o, r)
  PROVE  TypeOK'
<1>1. ASSUME NEW o \in Operators \cup {Env}, Hello(s, o) PROVE TypeOK'
  <2>1. (IF o = Env THEN "admin" ELSE account[o]) \in Roles
    BY <1>1, LocksAssumption DEF TypeOK, Hello
  <2>2. session' \in [Sessions -> SessionType]
    BY <1>1, <2>1 DEF TypeOK, Hello, SessionType
  <2>3. QED
    BY <1>1, <2>2 DEF TypeOK, Hello, SessionType
<1>2. CASE Disconnect(s)
  BY <1>2, CloseTypes DEF TypeOK, Disconnect, SessionType
<1>3. ASSUME NEW k \in Keys, StartLocked(s, k) PROVE TypeOK'
  <2>1. session[s].op \in Operators \cup {Env}
    BY DEF TypeOK
  <2>2. loop' \in Commands
    BY <1>3, <2>1 DEF StartLocked, Commands
  <2>3. session' \in [Sessions -> SessionType]
    BY <1>3, AtType DEF StartLocked
  <2>4. QED
    BY <1>3, <2>2, <2>3 DEF TypeOK, StartLocked, Commands, SessionType
<1>4. ASSUME NEW o \in Operators, NEW r \in Roles, SetRole(s, o, r) PROVE TypeOK'
  BY <1>4 DEF TypeOK, SetRole, SendView
<1>5. QED
  BY <1>1, <1>2, <1>3, <1>4

LEMMA TypeViewer ==
  ASSUME TypeOK, NEW s \in Viewers, NoticeView(s) \/ SendSnapshot(s) \/ TakeFrame(s)
  PROVE  TypeOK'
<1>0. s \in Sessions
  BY LocksAssumption
<1>1. CASE NoticeView(s)
  <2>1. session' \in [Sessions -> SessionType]
    BY <1>0, <1>1, AtType DEF NoticeView
  <2>2. QED
    BY <1>1, <2>1 DEF TypeOK, NoticeView, SessionType
<1>2. CASE SendSnapshot(s)
  <2>1. session' \in [Sessions -> SessionType]
    BY <1>0, <1>2, AtType DEF SendSnapshot
  <2>2. shown' \in [Viewers -> SUBSET Keys]
    BY <1>2 DEF TypeOK, SendSnapshot, Live
  <2>3. QED
    BY <1>2, <2>1, <2>2 DEF TypeOK, SendSnapshot, SessionType
<1>3. CASE TakeFrame(s)
  <2> DEFINE f == Head(backlog[s])
  <2>1. f \in Frames /\ Tail(backlog[s]) \in Seq(Frames)
    BY <1>3, HeadTailProperties DEF TypeOK, TakeFrame
  <2>2. CASE f.kind = "lagged"
    BY <1>0, <1>3, <2>2, CloseTypes DEF TypeOK, TakeFrame, SessionType
  <2>3. CASE f.kind # "lagged"
    <3>1. f.key \in Keys
      BY <2>1, <2>3 DEF Frames
    <3>2. shown' \in [Viewers -> SUBSET Keys]
      <4>1. \/ shown' = [shown EXCEPT ![s] = shown[s] \cup {f.key}]
            \/ shown' = [shown EXCEPT ![s] = shown[s] \ {f.key}]
        BY <1>3, <2>3 DEF TakeFrame
      <4>2. shown[s] \cup {f.key} \in SUBSET Keys /\ shown[s] \ {f.key} \in SUBSET Keys
        BY <3>1 DEF TypeOK
      <4>3. QED
        BY <4>1, <4>2 DEF TypeOK
    <3>3. backlog' \in [Viewers -> Seq(Frames)]
      BY <1>3, <2>1, <2>3 DEF TypeOK, TakeFrame
    <3>4. QED
      BY <1>3, <2>3, <3>2, <3>3 DEF TypeOK, TakeFrame
  <2>4. QED
    BY <2>2, <2>3
<1>4. QED
  BY <1>1, <1>2, <1>3

LEMMA TypeLoop ==
  ASSUME TypeOK, LoopStep
  PROVE  TypeOK'
<1>1. CASE Sweep
  <2>1. loop # Idle /\ loop' \in Commands
    BY <1>1, GotoFacts DEF Sweep, At
  <2>2. row' \in [Keys -> RowType]
    BY <1>1, ConstantTypes DEF TypeOK, Sweep, RowType
  <2>3. QED
    BY <1>1, <2>1, <2>2 DEF TypeOK, Sweep, RowType, Commands
<1>2. CASE Insert
  <2>1. loop # Idle /\ loop' \in Commands /\ loop \in Commands
    BY <1>2, GotoFacts, CommandFacts DEF Insert, At
  <2>2. row' \in [Keys -> RowType]
    <3>1. [age |-> "live", by |-> loop.by, life |-> life] \in RowType
      BY <2>1 DEF TypeOK, RowType, Commands, Ages
    <3>2. row' = row \/ row' = [row EXCEPT ![loop.key] = [age |-> "live", by |-> loop.by, life |-> life]]
      BY <1>2 DEF Insert
    <3>3. QED
      BY <3>1, <3>2 DEF TypeOK, RowType
  <2>3. backlog' \in [Viewers -> Seq(Frames)]
    BY <1>2, <2>1, CommandFacts, ConstantTypes, BroadcastType DEF TypeOK, Insert
  <2>4. QED
    BY <1>2, <2>1, <2>2, <2>3 DEF TypeOK, Insert, RowType, Commands
<1>3. CASE Act
  <2>1. loop # Idle /\ loop' \in Commands
    BY <1>3, GotoFacts DEF Act, At
  <2>2. row' \in [Keys -> RowType]
    BY <1>3, ConstantTypes DEF TypeOK, Act, RowType
  <2>3. account' \in [Operators -> Roles \cup {"none"}]
    BY <1>3 DEF TypeOK, Act
  <2>4. QED
    BY <1>3, <2>1, <2>2, <2>3 DEF TypeOK, Act, RowType, Commands
<1>4. CASE Release
  <2>1. loop # Idle /\ loop' \in Commands
    BY <1>4, GotoFacts DEF Release, At
  <2>2. row' \in [Keys -> RowType]
    BY <1>4, ConstantTypes DEF TypeOK, Release, RowType
  <2>3. backlog' \in [Viewers -> Seq(Frames)]
    BY <1>4, <2>1, CommandFacts, ConstantTypes, BroadcastType DEF Release
  <2>4. QED
    BY <1>4, <2>1, <2>2, <2>3 DEF TypeOK, Release, RowType, Commands
<1>5. CASE Reply
  <2>1. loop.from \in Sessions /\ session[loop.from].at \in {"off", "read", "on", "waiting"}
    BY <1>5 DEF TypeOK, Reply, At
  <2>2. session' \in [Sessions -> SessionType]
    BY <1>5, <2>1, AtType DEF Reply
  <2>3. QED
    BY <1>5, <2>2 DEF TypeOK, Reply, SendView, SessionType
<1>6. QED
  BY <1>1, <1>2, <1>3, <1>4, <1>5 DEF LoopStep

LEMMA TypeElsewhere ==
  ASSUME TypeOK, Tick \/ (\E k \in Keys : Expire(k)) \/ GcStep \/ Crash
  PROVE  TypeOK'
<1>1. CASE Tick
  BY <1>1 DEF TypeOK, Tick, SendView
<1>2. ASSUME NEW k \in Keys, Expire(k) PROVE TypeOK'
  <2>0. row[k] \in RowType
    BY DEF TypeOK, RowType
  <2>1. [row[k] EXCEPT !.age = "expired"] \in RowType
    BY <2>0 DEF RowType, Ages
  <2>2. row' \in [Keys -> RowType]
    BY <1>2, <2>1 DEF TypeOK, Expire, RowType
  <2>3. QED
    BY <1>2, <2>2 DEF TypeOK, Expire, RowType
<1>3. CASE GcSelect
  <2>1. row' \in [Keys -> RowType]
    BY <1>3, AgeingTypes DEF GcSelect, Ages
  <2>2. gc' \in [at : {"idle", "delete", "unlock"}, keys : SUBSET Keys]
    BY <1>3 DEF GcSelect
  <2>3. QED
    BY <1>3, <2>1, <2>2 DEF TypeOK, GcSelect, RowType
<1>4. CASE GcDelete
  BY <1>4, ConstantTypes DEF TypeOK, GcDelete, RowType
<1>5. CASE GcUnlock
  <2>1. gc' \in [at : {"idle", "delete", "unlock"}, keys : SUBSET Keys]
    <3>1. gc \in [at : {"idle", "delete", "unlock"}, keys : SUBSET Keys]
      BY DEF TypeOK
    <3>2. \/ gc' = [gc EXCEPT !.at = "idle"]
          \/ \E k \in gc.keys : gc' = [gc EXCEPT !.keys = gc.keys \ {k}]
      BY <1>5 DEF GcUnlock
    <3>3. QED
      BY <3>1, <3>2
  <2>2. backlog' \in [Viewers -> Seq(Frames)]
    <3>1. CASE gc.keys = {}
      BY <1>5, <3>1 DEF TypeOK, GcUnlock
    <3>2. CASE gc.keys # {}
      <4>1. PICK k \in gc.keys : Broadcast([kind |-> "unlocked", key |-> k])
        BY <1>5, <3>2 DEF GcUnlock
      <4>2. k \in Keys
        BY DEF TypeOK
      <4>3. [kind |-> "unlocked", key |-> k] \in Frames
        BY <4>2, ConstantTypes
      <4>4. QED
        BY <4>1, <4>3, BroadcastType
    <3>3. QED
      BY <3>1, <3>2
  <2>3. QED
    BY <1>5, <2>1, <2>2 DEF TypeOK, GcUnlock
<1>6. CASE Crash
  <2>1. row' \in [Keys -> RowType]
    <3>1. row' = [k \in Keys |-> IF k \in {q \in Keys : row[q].age = "selected"}
                                THEN [row[k] EXCEPT !.age = "expired"] ELSE row[k]]
      BY <1>6 DEF Crash
    <3>2. QED
      BY <3>1, AgeingTypes DEF Ages
  <2>2. session' \in [Sessions -> SessionType]
    BY <1>6, ConstantTypes DEF Crash
  <2>3. backlog' \in [Viewers -> Seq(Frames)]
    <3>1. <<>> \in Seq(Frames)
      OBVIOUS
    <3>2. QED
      BY <1>6, <3>1 DEF Crash
  <2>4. life' \in Nat
    BY <1>6 DEF TypeOK, Crash
  <2>5. QED
    BY <1>6, <2>1, <2>2, <2>3, <2>4 DEF TypeOK, Crash, RowType, SessionType
<1>7. QED
  BY <1>1, <1>2, <1>3, <1>4, <1>5, <1>6 DEF GcStep

LEMMA TypeStep == TypeOK /\ [Next]_vars => TypeOK'
<1> SUFFICES ASSUME TypeOK, [Next]_vars PROVE TypeOK'
  OBVIOUS
<1>1. CASE UNCHANGED vars
  BY <1>1 DEF TypeOK, vars
<1>2. QED
  BY <1>1, TypeSession, TypeViewer, TypeLoop, TypeElsewhere DEF Next

-----------------------------------------------------------------------------
(* The locks.                                                                  *)

LEMMA LockInit == Init => LockInv
<1> SUFFICES ASSUME Init PROVE LockInv
  OBVIOUS
<1>1. RowsAndCommands
  BY DEF Init, RowsAndCommands, NoRow
<1>2. OwnLock /\ Revoker /\ BouncesOffACrash
  BY DEF Init, OwnLock, Revoker, BouncesOffACrash, At
<1>3. SomeoneRemains
  BY DEF Init, SomeoneRemains
<1>4. QED
  BY <1>1, <1>2, <1>3 DEF LockInv

\* Rows that go, or grow older, while the command, the accounts and the life of the
\* world stay, change nothing.
LEMMA AgeingInv ==
  ASSUME TypeOK, LockInv, UNCHANGED <<account, loop, life>>,
         \A k \in Keys : \/ row'[k] = NoRow
                         \/ row[k].age # "none" /\ row'[k].by = row[k].by /\ row'[k].life = row[k].life
                         \/ row'[k] = row[k]
  PROVE  LockInv'
<1>0. \A k \in Keys : row'[k] = NoRow => row'[k].life = 0 /\ row'[k].age = "none"
  BY DEF NoRow
<1>1. RowsAndCommands'
  <2>1. life \in Nat
    BY DEF TypeOK
  <2>2. ASSUME NEW k \in Keys
        PROVE  /\ row'[k].life <= life
               /\ row'[k].age # "none" /\ row'[k].life = life =>
                    row[k].age # "none" /\ row[k].life = life
    BY <1>0, <2>1 DEF LockInv, RowsAndCommands
  <2>3. QED
    BY <2>2 DEF LockInv, RowsAndCommands, At
<1>2. OwnLock' /\ BouncesOffACrash'
  <2>1. CASE loop = Idle
    BY <2>1 DEF OwnLock, BouncesOffACrash, At
  <2>2. CASE loop # Idle
    <3>1. loop.key \in Keys
      BY <2>2, CommandFacts
    <3>2. OwnLock'
      BY <1>0, <3>1 DEF TypeOK, LockInv, OwnLock, At
    <3>3. BouncesOffACrash'
      BY <1>0, <3>1 DEF TypeOK, LockInv, BouncesOffACrash, At
    <3>4. QED
      BY <3>2, <3>3
  <2>3. QED
    BY <2>1, <2>2
<1>3. Revoker' /\ SomeoneRemains'
  BY DEF LockInv, Revoker, SomeoneRemains, At, HasRow
<1>4. QED
  BY <1>1, <1>2, <1>3 DEF LockInv

LEMMA InsertInv ==
  ASSUME TypeOK, LockInv, Insert
  PROVE  LockInv'
<1>1. /\ loop # Idle /\ loop.at = "insert" /\ loop \in Commands /\ loop.key \in Keys
      /\ UNCHANGED <<account, life>>
  BY CommandFacts DEF Insert, At
<1>2. \A k \in Keys : row[k].life <= life /\ (row[k].age # "none" => row[k].life # life)
  BY <1>1 DEF LockInv, RowsAndCommands, At
<1>3. SomeoneRemains'
  BY <1>1 DEF LockInv, SomeoneRemains
<1>4. CASE row[loop.key].age # "none" /\ Goto("bounce") /\ row' = row
  <2>1. loop'.at = "bounce" /\ loop'.key = loop.key /\ loop'.by = loop.by /\ loop' # Idle
    BY <1>1, <1>4, GotoFacts
  <2>2. BouncesOffACrash'
    BY <1>1, <1>2, <1>4, <2>1 DEF TypeOK, BouncesOffACrash, At
  <2>3. RowsAndCommands' /\ OwnLock'
    BY <1>1, <1>2, <1>4, <2>1 DEF TypeOK, RowsAndCommands, OwnLock, At
  <2>4. Revoker'
    BY <1>1, <2>1 DEF LockInv, Revoker, At
  <2>5. QED
    BY <1>3, <2>2, <2>3, <2>4 DEF LockInv
<1>5. CASE Goto("reply") /\ row' = row
  <2>1. loop'.at = "reply" /\ loop'.key = loop.key /\ loop'.by = loop.by /\ loop' # Idle
    BY <1>1, <1>5, GotoFacts
  <2>2. RowsAndCommands' /\ OwnLock' /\ BouncesOffACrash'
    BY <1>1, <1>2, <1>5, <2>1 DEF TypeOK, RowsAndCommands, OwnLock, BouncesOffACrash, At
  <2>3. Revoker'
    BY <1>1, <2>1 DEF LockInv, Revoker, At
  <2>4. QED
    BY <1>3, <2>2, <2>3 DEF LockInv
<1>6. CASE /\ HasRow(loop.by)
           /\ row' = [row EXCEPT ![loop.key] = [age |-> "live", by |-> loop.by, life |-> life]]
           /\ Goto("act")
  <2>1. loop'.at = "act" /\ loop'.key = loop.key /\ loop'.by = loop.by /\ loop' # Idle
    BY <1>1, <1>6, GotoFacts
  <2>2. /\ row'[loop.key].by = loop.by /\ row'[loop.key].life = life
        /\ \A k \in Keys : k # loop.key => row'[k] = row[k]
    BY <1>1, <1>6 DEF TypeOK
  <2>3. RowsAndCommands'
    BY <1>1, <1>2, <2>1, <2>2 DEF TypeOK, RowsAndCommands, At
  <2>4. OwnLock' /\ BouncesOffACrash'
    BY <2>1, <2>2 DEF OwnLock, BouncesOffACrash, At
  <2>5. Revoker'
    BY <1>1, <1>6, <2>1 DEF LockInv, Revoker, At, HasRow
  <2>6. QED
    BY <1>3, <2>3, <2>4, <2>5 DEF LockInv
<1>7. QED
  BY <1>4, <1>5, <1>6 DEF Insert

\* Who revokes still has his own row when the other's is deleted.
LEMMA ActInv ==
  ASSUME TypeOK, LockInv, Act
  PROVE  LockInv'
<1>1. loop # Idle /\ loop.at = "act" /\ loop \in Commands /\ loop.key \in Keys
  BY CommandFacts DEF Act, At
<1>2. loop'.at = "release" /\ loop'.key = loop.key /\ loop'.by = loop.by /\ loop' # Idle
  BY <1>1, GotoFacts DEF Act
<1>3. /\ life' = life
      /\ \A k \in Keys : row'[k] = row[k] \/ row'[k] = NoRow
  BY DEF Act, TypeOK
<1>4. \A k \in Keys : row'[k] = NoRow => row'[k].life = 0 /\ row'[k].age = "none"
  BY DEF NoRow
<1>5. RowsAndCommands'
  <2>1. ASSUME NEW k \in Keys
        PROVE  /\ row'[k].life <= life
               /\ row'[k].age # "none" /\ row'[k].life = life => loop.key = k
    BY <1>3, <1>4 DEF TypeOK, LockInv, RowsAndCommands
  <2>2. QED
    BY <1>2, <1>3, <2>1 DEF RowsAndCommands, At
<1>6. OwnLock' /\ BouncesOffACrash'
  BY <1>1, <1>2, <1>3, <1>4 DEF LockInv, OwnLock, BouncesOffACrash, At
<1>7. Revoker'
  BY <1>1, <1>2 DEF LockInv, Revoker, At
<1>8. SomeoneRemains'
  <2>1. CASE loop.key.kind = "force"
    BY <2>1 DEF Act, LockInv, SomeoneRemains
  <2>2. CASE loop.key.kind # "force"
    <3>1. loop.key.kind = "revoke"
      BY <1>1, <2>2 DEF Keys
    <3>2. /\ loop.by \in Operators /\ account[loop.by] # "none"
          /\ loop.key.of # loop.by
      BY <1>1, <3>1 DEF LockInv, Revoker, HasRow, At
    <3>3. account' = [account EXCEPT ![loop.key.of] = "none"]
      BY <2>2 DEF Act
    <3>4. account'[loop.by] = account[loop.by]
      BY <3>2, <3>3 DEF TypeOK
    <3>5. QED
      BY <3>2, <3>4 DEF SomeoneRemains
  <2>3. QED
    BY <2>1, <2>2
<1>9. QED
  BY <1>5, <1>6, <1>7, <1>8 DEF LockInv

LEMMA ReleaseInv ==
  ASSUME TypeOK, LockInv, Release
  PROVE  LockInv'
<1>1. loop # Idle /\ loop.at = "release" /\ loop \in Commands /\ loop.key \in Keys
  BY CommandFacts DEF Release, At
<1>2. loop'.at = "reply" /\ loop'.key = loop.key /\ loop'.by = loop.by /\ loop' # Idle
  BY <1>1, GotoFacts DEF Release
<1>3. /\ UNCHANGED <<account, life>>
      /\ row'[loop.key] = NoRow
      /\ \A k \in Keys : k # loop.key => row'[k] = row[k]
  BY <1>1 DEF Release, TypeOK
<1>4. NoRow.age = "none" /\ NoRow.life = 0
  BY DEF NoRow
<1>5. RowsAndCommands'
  <2>1. ASSUME NEW k \in Keys
        PROVE  /\ row'[k].life <= life
               /\ ~(row'[k].age # "none" /\ row'[k].life = life)
    <3>1. CASE k = loop.key
      BY <1>3, <1>4, <3>1 DEF TypeOK
    <3>2. CASE k # loop.key
      BY <1>3, <3>2 DEF LockInv, RowsAndCommands
    <3>3. QED
      BY <3>1, <3>2
  <2>2. QED
    BY <1>3, <2>1 DEF RowsAndCommands
<1>6. OwnLock' /\ BouncesOffACrash'
  BY <1>2 DEF OwnLock, BouncesOffACrash, At
<1>7. Revoker' /\ SomeoneRemains'
  BY <1>1, <1>2, <1>3 DEF LockInv, Revoker, SomeoneRemains, At
<1>8. QED
  BY <1>5, <1>6, <1>7 DEF LockInv

LEMMA LoopInv ==
  ASSUME TypeOK, LockInv, LoopStep
  PROVE  LockInv'
<1>1. CASE Sweep
  <2>1. loop # Idle /\ loop.at = "sweep" /\ loop \in Commands /\ loop.key \in Keys
    BY <1>1, CommandFacts DEF Sweep, At
  <2>2. loop'.at = "insert" /\ loop'.key = loop.key /\ loop'.by = loop.by /\ loop' # Idle
    BY <1>1, <2>1, GotoFacts DEF Sweep
  <2>3. /\ UNCHANGED <<account, life>>
        /\ \A k \in Keys : row'[k] = row[k] \/ row'[k] = NoRow
    BY <1>1, <2>1 DEF Sweep, TypeOK
  <2>4. NoRow.age = "none" /\ NoRow.life = 0
    BY DEF NoRow
  <2>5. RowsAndCommands'
    <3> SUFFICES ASSUME NEW k \in Keys
                 PROVE  row'[k].life <= life /\ (row'[k].age = "none" \/ row'[k].life # life)
      BY <2>3 DEF RowsAndCommands
    <3>1. life \in Nat
      BY DEF TypeOK
    <3>2. row[k].life <= life /\ (row[k].age = "none" \/ row[k].life # life)
      BY <2>1 DEF LockInv, RowsAndCommands, At
    <3>3. QED
      BY <2>3, <2>4, <3>1, <3>2
  <2>6. OwnLock' /\ BouncesOffACrash'
    BY <2>2 DEF OwnLock, BouncesOffACrash, At
  <2>7. Revoker' /\ SomeoneRemains'
    BY <2>1, <2>2, <2>3 DEF LockInv, Revoker, SomeoneRemains, At
  <2>8. QED
    BY <2>5, <2>6, <2>7 DEF LockInv
<1>2. CASE Insert
  BY <1>2, InsertInv
<1>3. CASE Act
  BY <1>3, ActInv
<1>4. CASE Release
  BY <1>4, ReleaseInv
<1>5. CASE Reply
  <2>1. /\ loop.at \in {"reply", "bounce"} /\ loop' = Idle
        /\ UNCHANGED <<account, row, life>>
    BY <1>5 DEF Reply, At
  <2>2. RowsAndCommands'
    BY <2>1 DEF LockInv, RowsAndCommands, At
  <2>3. OwnLock' /\ Revoker' /\ BouncesOffACrash'
    BY <2>1 DEF OwnLock, Revoker, BouncesOffACrash, At
  <2>4. SomeoneRemains'
    BY <2>1 DEF LockInv, SomeoneRemains
  <2>5. QED
    BY <2>2, <2>3, <2>4 DEF LockInv
<1>6. QED
  BY <1>1, <1>2, <1>3, <1>4, <1>5 DEF LoopStep

LEMMA SessionInv ==
  ASSUME TypeOK, LockInv, NEW s \in Sessions,
         \/ \E o \in Operators \cup {Env} : Hello(s, o)
         \/ Disconnect(s)
         \/ \E k \in Keys : StartLocked(s, k)
         \/ \E o \in Operators, r \in Roles : SetRole(s, o, r)
  PROVE  LockInv'
<1>1. CASE UNCHANGED <<account, row, loop, life>>
  BY <1>1, AgeingInv
<1>2. ASSUME NEW k \in Keys, StartLocked(s, k) PROVE LockInv'
  <2>1. /\ loop = Idle
        /\ loop' = [at |-> "sweep", key |-> k, by |-> session[s].op, from |-> s]
        /\ UNCHANGED <<account, row, life>>
    BY <1>2 DEF StartLocked
  <2>2. loop'.at = "sweep" /\ loop'.key = k /\ loop'.by = session[s].op
    BY <2>1
  <2>3. RowsAndCommands'
    BY <2>1 DEF LockInv, RowsAndCommands, At
  <2>4. OwnLock' /\ BouncesOffACrash'
    BY <2>2 DEF OwnLock, BouncesOffACrash, At
  <2>5. Revoker'
    <3>1. k.kind = "revoke" => k.of # session[s].op
      BY <1>2 DEF StartLocked, May
    <3>2. QED
      BY <2>2, <3>1 DEF Revoker, At
  <2>6. SomeoneRemains'
    BY <2>1 DEF LockInv, SomeoneRemains
  <2>7. QED
    BY <2>3, <2>4, <2>5, <2>6 DEF LockInv
<1>3. ASSUME NEW o \in Operators, NEW r \in Roles, SetRole(s, o, r) PROVE LockInv'
  <2>1. /\ loop = Idle /\ UNCHANGED <<row, loop, life>>
        /\ account' = [account EXCEPT ![o] = r] /\ account[o] # "none"
    BY <1>3 DEF SetRole
  <2>2. RowsAndCommands' /\ OwnLock' /\ BouncesOffACrash' /\ Revoker'
    BY <2>1 DEF LockInv, RowsAndCommands, OwnLock, BouncesOffACrash, Revoker, At
  <2>3. r # "none"
    BY LocksAssumption
  <2>4. account'[o] # "none"
    BY <2>1, <2>3 DEF TypeOK
  <2>5. QED
    BY <2>2, <2>4 DEF LockInv, SomeoneRemains
<1>4. QED
  BY <1>1, <1>2, <1>3 DEF Hello, Disconnect

LEMMA CrashInv ==
  ASSUME TypeOK, LockInv, Crash
  PROVE  LockInv'
<1>1. /\ loop' = Idle /\ life' = life + 1 /\ life \in Nat
      /\ UNCHANGED account
      /\ \A k \in Keys : row'[k].life = row[k].life /\ row[k].life \in Nat
  BY DEF Crash, TypeOK
<1>2. RowsAndCommands'
  BY <1>1 DEF LockInv, RowsAndCommands, At
<1>3. OwnLock' /\ Revoker' /\ BouncesOffACrash'
  BY <1>1 DEF OwnLock, Revoker, BouncesOffACrash, At
<1>4. SomeoneRemains'
  BY <1>1 DEF LockInv, SomeoneRemains
<1>5. QED
  BY <1>2, <1>3, <1>4 DEF LockInv

LEMMA LockStep == TypeOK /\ LockInv /\ [Next]_vars => LockInv'
<1> SUFFICES ASSUME TypeOK, LockInv, [Next]_vars PROVE LockInv'
  OBVIOUS
<1>1. CASE UNCHANGED <<account, row, loop, life>>
  BY <1>1, AgeingInv
<1>2. ASSUME NEW k \in Keys, Expire(k) PROVE LockInv'
  BY <1>2, AgeingInv DEF TypeOK, Expire
<1>3. CASE GcSelect
  BY <1>3, AgeingInv DEF TypeOK, GcSelect
<1>4. CASE GcDelete
  BY <1>4, AgeingInv DEF TypeOK, GcDelete
<1>5. ASSUME NEW s \in Viewers, NoticeView(s) \/ SendSnapshot(s) \/ TakeFrame(s) PROVE LockInv'
  BY <1>1, <1>5 DEF NoticeView, SendSnapshot, TakeFrame
<1>6. QED
  BY <1>1, <1>2, <1>3, <1>4, <1>5, SessionInv, LoopInv, CrashInv
     DEF Next, vars, Tick, GcStep, GcUnlock

-----------------------------------------------------------------------------
(* What the browsers show.                                                     *)

Locked(k) == [kind |-> "locked", key |-> k]
Unlocked(k) == [kind |-> "unlocked", key |-> k]
Lagged == [kind |-> "lagged"]

InHand(k) == (At("act") \/ At("release")) /\ loop.key = k
Has(s, f) == \E i \in DOMAIN backlog[s] : backlog[s][i] = f
Answered(b, k) ==
  \A i \in DOMAIN b : b[i] = Locked(k) => \E j \in DOMAIN b : i < j /\ b[j] = Unlocked(k)

(* A GC that has found rows deletes them, and unlocks their keys after that.   *)
Selected == \A k \in Keys : row[k].age = "selected" => gc.at = "delete" /\ k \in gc.keys

(* A live lock a crash left was never spoken of since: it is in every snapshot. *)
OldLocks ==
  \A k \in Keys : row[k].age = "live" /\ row[k].life # life =>
    /\ k \notin gc.keys
    /\ \A s \in Viewers :
         /\ ~Has(s, Locked(k)) /\ ~Has(s, Unlocked(k))
         /\ session[s].at \in {"on", "waiting"} => k \in shown[s]

(* A lock is announced only while its command is under way: its unlock follows. *)
UnlockFollows == \A s \in Viewers, k \in Keys : InHand(k) \/ Answered(backlog[s], k)

(* A browser that shows a lock that is gone has yet to hear of it.             *)
NewsComing ==
  \A s \in Viewers, k \in Keys :
    session[s].at \in {"on", "waiting"} /\ k \in shown[s] /\ row[k].age = "none" =>
      \/ Has(s, Unlocked(k)) \/ Has(s, Lagged)
      \/ s \in due
      \/ loop # Idle
      \/ gc.at = "unlock" /\ k \in gc.keys

ViewInv == Selected /\ OldLocks /\ UnlockFollows /\ NewsComing

LEMMA FrameFacts ==
  /\ Lagged \in Frames
  /\ \A k \in Keys : Locked(k) \in Frames /\ Unlocked(k) \in Frames
  /\ \A k, q \in Keys : /\ Locked(k) # Unlocked(q)
                        /\ Locked(k) = Locked(q) => k = q
                        /\ Unlocked(k) = Unlocked(q) => k = q
  /\ \A k \in Keys : Locked(k) # Lagged /\ Unlocked(k) # Lagged
<1>1. ASSUME NEW k \in Keys
      PROVE  /\ Locked(k).kind = "locked" /\ Unlocked(k).kind = "unlocked"
             /\ Locked(k).key = k /\ Unlocked(k).key = k
             /\ Locked(k) \in Frames /\ Unlocked(k) \in Frames
  BY DEF Locked, Unlocked, Frames
<1>2. Lagged.kind = "lagged" /\ Lagged \in Frames
  BY DEF Lagged, Frames
<1>3. QED
  BY <1>1, <1>2

LEMMA FrameIs ==
  ASSUME NEW f \in Frames
  PROVE  \/ f = Lagged /\ f.kind = "lagged"
         \/ f.key \in Keys /\ f = Locked(f.key) /\ f.kind = "locked"
         \/ f.key \in Keys /\ f = Unlocked(f.key) /\ f.kind = "unlocked"
BY DEF Frames, Lagged, Locked, Unlocked

\* What a browser has still to hear, and what is said now.
LEMMA BroadcastSays ==
  ASSUME TypeOK, NEW f \in Frames, Broadcast(f), NEW s \in Viewers
  PROVE  /\ \A g : Has(s, g)' => Has(s, g) \/ g = f \/ g = Lagged
         /\ session[s].at # "off" =>
              /\ Has(s, f)' \/ Has(s, Lagged)'
              /\ \A g : Has(s, g) => Has(s, g)' \/ Has(s, Lagged)'
<1> DEFINE b == backlog[s]
<1>1. b \in Seq(Frames)
  BY DEF TypeOK
<1>2. backlog'[s] = IF session[s].at = "off" THEN <<>>
                    ELSE IF Len(b) < MaxBacklog THEN Append(b, f) ELSE <<Lagged>>
  BY DEF Broadcast, Lagged
<1>3. CASE session[s].at = "off"
  BY <1>2, <1>3 DEF Has
<1>4. CASE session[s].at # "off" /\ Len(b) < MaxBacklog
  <2>1. /\ DOMAIN Append(b, f) = 1 .. (Len(b) + 1) /\ DOMAIN b = 1 .. Len(b)
        /\ Append(b, f)[Len(b) + 1] = f
        /\ \A i \in 1 .. Len(b) : Append(b, f)[i] = b[i]
        /\ Len(b) \in Nat
    BY <1>1, AppendProperties, LenProperties
  <2>2. backlog'[s] = Append(b, f)
    BY <1>2, <1>4
  <2> HIDE DEF b
  <2>3. Len(b) + 1 \in DOMAIN backlog'[s] /\ backlog'[s][Len(b) + 1] = f
    BY <2>1, <2>2
  <2>4. ASSUME NEW g, NEW i \in DOMAIN backlog'[s], backlog'[s][i] = g
        PROVE  (i \in DOMAIN b /\ b[i] = g) \/ g = f
    BY <2>1, <2>2, <2>4
  <2>5. ASSUME NEW g, NEW i \in DOMAIN b, b[i] = g
        PROVE  i \in DOMAIN backlog'[s] /\ backlog'[s][i] = g
    BY <2>1, <2>2, <2>5
  <2> USE DEF b
  <2>6. QED
    BY <2>3, <2>4, <2>5, Zenon DEF Has
<1>5. CASE session[s].at # "off" /\ ~(Len(b) < MaxBacklog)
  <2>1. backlog'[s] = <<Lagged>>
    BY <1>2, <1>5
  <2>2. DOMAIN backlog'[s] = {1} /\ backlog'[s][1] = Lagged
    BY <2>1
  <2>3. QED
    BY <2>2 DEF Has
<1>6. QED
  BY <1>3, <1>4, <1>5

\* Of a key's frames, the last stays the last.
LEMMA BroadcastAnswers ==
  ASSUME TypeOK, NEW f \in Frames, Broadcast(f), NEW s \in Viewers, NEW k \in Keys,
         \/ f = Unlocked(k)
         \/ f # Locked(k) /\ Answered(backlog[s], k)
  PROVE  Answered(backlog'[s], k)
<1> DEFINE b == backlog[s]
<1>1. b \in Seq(Frames)
  BY DEF TypeOK
<1>2. backlog'[s] = IF session[s].at = "off" THEN <<>>
                    ELSE IF Len(b) < MaxBacklog THEN Append(b, f) ELSE <<Lagged>>
  BY DEF Broadcast, Lagged
<1>3. CASE backlog'[s] = <<>>
  BY <1>3 DEF Answered
<1>4. CASE backlog'[s] = Append(b, f)
  <2>1. /\ DOMAIN Append(b, f) = 1 .. (Len(b) + 1) /\ DOMAIN b = 1 .. Len(b)
        /\ Append(b, f)[Len(b) + 1] = f
        /\ \A i \in 1 .. Len(b) : Append(b, f)[i] = b[i]
        /\ Len(b) \in Nat
    BY <1>1, AppendProperties, LenProperties
  <2>2. f # Locked(k)
    BY FrameFacts
  <2>3. SUFFICES ASSUME NEW i \in DOMAIN backlog'[s], backlog'[s][i] = Locked(k)
                 PROVE  \E j \in DOMAIN backlog'[s] : i < j /\ backlog'[s][j] = Unlocked(k)
    BY DEF Answered
  <2> HIDE DEF b
  <2>4. i \in DOMAIN b /\ b[i] = Locked(k)
    BY <1>4, <2>1, <2>2, <2>3
  <2>5. CASE f = Unlocked(k)
    BY <1>4, <2>1, <2>4, <2>5
  <2>6. CASE Answered(b, k)
    <3>1. PICK j \in DOMAIN b : i < j /\ b[j] = Unlocked(k)
      BY <2>4, <2>6 DEF Answered
    <3>2. QED
      BY <1>4, <2>1, <3>1
  <2>7. QED
    BY <2>5, <2>6 DEF b
<1>5. CASE backlog'[s] = <<Lagged>>
  <2>1. DOMAIN backlog'[s] = {1} /\ backlog'[s][1] = Lagged
    BY <1>5
  <2>2. QED
    BY <2>1, FrameFacts DEF Answered
<1>6. QED
  BY <1>2, <1>3, <1>4, <1>5

LEMMA TailFacts ==
  ASSUME NEW b \in Seq(Frames), b # <<>>
  PROVE  /\ Head(b) = b[1] /\ 1 \in DOMAIN b
         /\ \A i \in DOMAIN Tail(b) : i + 1 \in DOMAIN b /\ Tail(b)[i] = b[i + 1] /\ i \in Nat
         /\ \A i \in DOMAIN b : i # 1 => i - 1 \in DOMAIN Tail(b) /\ b[i] = Tail(b)[i - 1] /\ i \in Nat
<1>1. /\ Len(b) \in Nat \ {0} /\ DOMAIN b = 1 .. Len(b)
      /\ DOMAIN Tail(b) = 1 .. (Len(b) - 1)
      /\ \A i \in 1 .. (Len(b) - 1) : Tail(b)[i] = b[i + 1]
  BY HeadTailProperties, LenProperties, EmptySeq
<1>2. QED
  BY <1>1

LEMMA AnsweredTail ==
  ASSUME NEW b \in Seq(Frames), b # <<>>, NEW k \in Keys, Answered(b, k)
  PROVE  Answered(Tail(b), k)
<1> SUFFICES ASSUME NEW i \in DOMAIN Tail(b), Tail(b)[i] = Locked(k)
             PROVE  \E j \in DOMAIN Tail(b) : i < j /\ Tail(b)[j] = Unlocked(k)
  BY DEF Answered
<1>1. i + 1 \in DOMAIN b /\ b[i + 1] = Locked(k) /\ i \in Nat
  BY TailFacts
<1>2. PICK j \in DOMAIN b : i + 1 < j /\ b[j] = Unlocked(k)
  BY <1>1 DEF Answered
<1>3. j # 1 /\ j \in DOMAIN b
  BY <1>1, <1>2, TailFacts
<1>4. j - 1 \in DOMAIN Tail(b) /\ Tail(b)[j - 1] = Unlocked(k) /\ j \in Nat
  BY <1>2, <1>3, TailFacts
<1>5. QED
  BY <1>1, <1>2, <1>4

LEMMA ViewInit == Init => ViewInv
<1> SUFFICES ASSUME Init PROVE ViewInv
  OBVIOUS
<1>1. Selected /\ OldLocks
  BY DEF Init, Selected, OldLocks, NoRow
<1>2. UnlockFollows /\ NewsComing
  BY DEF Init, UnlockFollows, NewsComing, Answered
<1>3. QED
  BY <1>1, <1>2 DEF ViewInv

\* Sessions come and go, commands begin, views are sent.
LEMMA ViewSession ==
  ASSUME TypeOK, LockInv, ViewInv, UNCHANGED <<row, gc, life>>,
         loop' = loop \/ (loop' # Idle /\ loop'.at = "sweep"),
         loop = Idle \/ loop' = loop,
         \A s \in Viewers :
           /\ backlog'[s] = backlog[s] \/ (backlog'[s] = <<>> /\ session'[s].at = "off")
           /\ session'[s].at \in {"on", "waiting"} =>
                session[s].at \in {"on", "waiting"} /\ shown'[s] = shown[s]
           /\ session'[s].at # "off" => (s \in due => s \in due' \/ session'[s].at = "read")
  PROVE  ViewInv'
<1>1. \A k \in Keys : InHand(k) => InHand(k)'
  BY DEF InHand, At
<1>2. \A s \in Viewers : \A f : Has(s, f)' => Has(s, f)
  BY DEF Has
<1>3. \A s \in Viewers : session'[s].at # "off" => \A f : Has(s, f) => Has(s, f)'
  BY DEF Has
<1>4. Selected'
  BY DEF ViewInv, Selected
<1>5. OldLocks'
  BY <1>2 DEF ViewInv, OldLocks
<1>6. UnlockFollows'
  <2> SUFFICES ASSUME NEW s \in Viewers, NEW k \in Keys, ~InHand(k)'
               PROVE  Answered(backlog'[s], k)
    BY DEF UnlockFollows
  <2>1. Answered(backlog[s], k)
    BY <1>1 DEF ViewInv, UnlockFollows
  <2>2. Answered(<<>>, k)
    BY DEF Answered
  <2>3. QED
    BY <2>1, <2>2
<1>7. NewsComing'
  BY <1>3 DEF ViewInv, NewsComing
<1>8. QED
  BY <1>4, <1>5, <1>6, <1>7 DEF ViewInv

\* A snapshot shows what is live, and an old lock is.
LEMMA ViewSnapshot ==
  ASSUME TypeOK, LockInv, ViewInv, NEW s \in Viewers, SendSnapshot(s)
  PROVE  ViewInv'
<1>1. /\ UNCHANGED <<account, row, loop, gc, backlog, due, life>>
      /\ shown'[s] = Live
      /\ \A v \in Viewers : v # s => shown'[v] = shown[v] /\ session'[v] = session[v]
  BY LocksAssumption DEF SendSnapshot, TypeOK
<1>2. Selected' /\ UnlockFollows'
  BY <1>1 DEF ViewInv, Selected, UnlockFollows, InHand, At
<1>3. OldLocks'
  BY <1>1 DEF ViewInv, OldLocks, Has, Live
<1>4. NewsComing'
  BY <1>1 DEF ViewInv, NewsComing, Has, Live
<1>5. QED
  BY <1>2, <1>3, <1>4 DEF ViewInv

\* A frame taken from the backlog: no old lock's, and no last word.
LEMMA ViewFrame ==
  ASSUME TypeOK, LockInv, ViewInv, NEW s \in Viewers, TakeFrame(s)
  PROVE  ViewInv'
<1> DEFINE b == backlog[s]
           f == Head(backlog[s])
<1>1. b \in Seq(Frames) /\ b # <<>> /\ f \in Frames /\ f = b[1] /\ 1 \in DOMAIN b
  BY TailFacts, HeadTailProperties DEF TypeOK, TakeFrame
<1>2. CASE f.kind = "lagged"
  <2>1. /\ UNCHANGED <<row, gc, life, loop>>
        /\ Close(s)
    BY <1>2 DEF TakeFrame
  <2>2. \A v \in Viewers : /\ v = s => backlog'[v] = <<>> /\ session'[v].at = "off"
                           /\ v # s => /\ backlog'[v] = backlog[v] /\ session'[v] = session[v]
                                       /\ shown'[v] = shown[v] /\ (v \in due => v \in due')
    BY <2>1, LocksAssumption DEF Close, TypeOK, Off
  <2>3. \A v \in Viewers :
          /\ backlog'[v] = backlog[v] \/ (backlog'[v] = <<>> /\ session'[v].at = "off")
          /\ session'[v].at \in {"on", "waiting"} =>
               session[v].at \in {"on", "waiting"} /\ shown'[v] = shown[v]
          /\ session'[v].at # "off" => (v \in due => v \in due' \/ session'[v].at = "read")
    BY <2>2
  <2>4. QED
    BY <2>1, <2>3, ViewSession
<1>3. CASE f.kind # "lagged"
  <2>1. /\ UNCHANGED <<account, row, loop, gc, life, session, due>>
        /\ shown'[s] = IF f.kind = "locked" THEN shown[s] \cup {f.key} ELSE shown[s] \ {f.key}
        /\ backlog'[s] = Tail(b)
        /\ \A v \in Viewers : v # s => shown'[v] = shown[v] /\ backlog'[v] = backlog[v]
    BY <1>3 DEF TakeFrame, TypeOK
  <2>2. f.key \in Keys /\ Has(s, f)
    BY <1>1, <1>3, FrameIs DEF Has
  <2>3. ASSUME NEW v \in Viewers, NEW g, Has(v, g)' PROVE Has(v, g)
    <3>1. PICK i \in DOMAIN backlog'[v] : backlog'[v][i] = g
      BY <2>3 DEF Has
    <3>2. CASE v = s
      <4>1. i + 1 \in DOMAIN b /\ b[i + 1] = g
        <5>1. i \in DOMAIN Tail(b) /\ Tail(b)[i] = g
          BY <2>1, <3>1, <3>2
        <5>2. QED
          BY <1>1, <5>1, TailFacts
      <4>2. QED
        BY <3>2, <4>1 DEF Has
    <3>3. CASE v # s
      BY <2>1, <3>1, <3>3 DEF Has
    <3>4. QED
      BY <3>2, <3>3
  <2>4. ASSUME NEW g, Has(s, g), g # f PROVE Has(s, g)'
    <3>1. PICK i \in DOMAIN b : b[i] = g
      BY <2>4 DEF Has
    <3>2. i - 1 \in DOMAIN Tail(b) /\ Tail(b)[i - 1] = g
      BY <1>1, <2>4, <3>1, TailFacts
    <3>3. QED
      BY <2>1, <3>2 DEF Has
  <2>5. Selected'
    BY <2>1 DEF ViewInv, Selected
  <2>6. UnlockFollows'
    BY <1>1, <2>1, AnsweredTail DEF ViewInv, UnlockFollows, InHand, At
  <2>7. OldLocks'
    <3> SUFFICES ASSUME NEW k \in Keys, row[k].age = "live", row[k].life # life
                 PROVE  /\ k \notin gc.keys
                        /\ \A v \in Viewers :
                             /\ ~Has(v, Locked(k))' /\ ~Has(v, Unlocked(k))'
                             /\ session[v].at \in {"on", "waiting"} => k \in shown'[v]
      BY <2>1 DEF OldLocks
    <3>1. /\ k \notin gc.keys
          /\ \A v \in Viewers :
               /\ ~Has(v, Locked(k)) /\ ~Has(v, Unlocked(k))
               /\ session[v].at \in {"on", "waiting"} => k \in shown[v]
      BY DEF ViewInv, OldLocks
    <3>2. f.key # k
      BY <1>1, <1>3, <2>2, <3>1, FrameIs
    <3>3. \A v \in Viewers : k \in shown[v] => k \in shown'[v]
      BY <2>1, <3>2
    <3>4. QED
      BY <2>3, <3>1, <3>3
  <2>8. NewsComing'
    <3> SUFFICES ASSUME NEW v \in Viewers, NEW k \in Keys,
                        session[v].at \in {"on", "waiting"}, k \in shown'[v], row[k].age = "none"
                 PROVE  \/ Has(v, Unlocked(k))' \/ Has(v, Lagged)'
                        \/ v \in due
                        \/ loop # Idle
                        \/ gc.at = "unlock" /\ k \in gc.keys
      BY <2>1 DEF NewsComing
    <3>1. CASE v # s
      BY <2>1, <3>1 DEF ViewInv, NewsComing, Has
    <3>2. CASE v = s /\ f = Locked(k)
      <4>1. CASE InHand(k)
        BY <4>1 DEF InHand, At
      <4>2. CASE Answered(b, k)
        <5>1. PICK j \in DOMAIN b : b[j] = Unlocked(k)
          BY <1>1, <3>2, <4>2 DEF Answered
        <5>2. Has(s, Unlocked(k)) /\ Unlocked(k) # f
          BY <3>2, <5>1, FrameFacts DEF Has
        <5>3. QED
          BY <2>4, <3>2, <5>2
      <4>3. QED
        BY <4>1, <4>2 DEF ViewInv, UnlockFollows
    <3>3. CASE v = s /\ f # Locked(k)
      <4>1. f # Unlocked(k) /\ k \in shown[s] /\ f # Lagged
        <5>1. CASE f = Locked(f.key) /\ f.kind = "locked"
          BY <2>1, <2>2, <3>3, <5>1, FrameFacts
        <5>2. CASE f = Unlocked(f.key) /\ f.kind = "unlocked"
          <6>1. shown'[s] = shown[s] \ {f.key}
            BY <2>1, <5>2
          <6>2. k # f.key /\ k \in shown[s]
            BY <3>3, <6>1
          <6>3. QED
            BY <2>2, <5>2, <6>2, FrameFacts
        <5>3. QED
          BY <1>1, <1>3, <5>1, <5>2, FrameIs
      <4>2. QED
        BY <2>4, <3>3, <4>1 DEF ViewInv, NewsComing
    <3>4. QED
      BY <3>1, <3>2, <3>3
  <2>9. QED
    BY <2>5, <2>6, <2>7, <2>8 DEF ViewInv
<1>4. QED
  BY <1>2, <1>3

\* Whoever is told, is told; whoever is not, still knows of nothing old.
LEMMA ViewLoop ==
  ASSUME TypeOK, LockInv, ViewInv, LoopStep
  PROVE  ViewInv'
<1>0. NoRow.age = "none"
  BY DEF NoRow
<1>1. CASE Sweep
  <2>1. loop # Idle /\ loop.at = "sweep" /\ loop.key \in Keys
    BY <1>1, CommandFacts DEF Sweep, At
  <2>2. loop'.at = "insert" /\ loop' # Idle
    BY <1>1, <2>1, GotoFacts DEF Sweep
  <2>3. /\ UNCHANGED <<gc, session, backlog, due, shown, life>>
        /\ \A k \in Keys : row'[k] = row[k] \/ row'[k] = NoRow
    BY <1>1, <2>1 DEF Sweep, TypeOK
  <2>4. Selected' /\ OldLocks'
    BY <1>0, <2>3 DEF ViewInv, Selected, OldLocks, Has
  <2>5. UnlockFollows' /\ NewsComing'
    BY <2>1, <2>2, <2>3 DEF ViewInv, UnlockFollows, NewsComing, InHand, At
  <2>6. QED
    BY <2>4, <2>5 DEF ViewInv
<1>2. CASE Insert
  <2>1. loop # Idle /\ loop.at = "insert" /\ loop \in Commands /\ loop.key \in Keys
    BY <1>2, CommandFacts DEF Insert, At
  <2>2. UNCHANGED <<gc, session, due, shown, life>>
    BY <1>2 DEF Insert
  <2>3. CASE (Goto("bounce") \/ Goto("reply")) /\ UNCHANGED <<row, backlog>>
    <3>1. loop'.at \in {"bounce", "reply"} /\ loop' # Idle
      BY <2>1, <2>3, GotoFacts
    <3>2. Selected' /\ OldLocks'
      BY <2>2, <2>3 DEF ViewInv, Selected, OldLocks, Has
    <3>3. UnlockFollows' /\ NewsComing'
      BY <2>1, <2>2, <2>3, <3>1 DEF ViewInv, UnlockFollows, NewsComing, InHand, At
    <3>4. QED
      BY <3>2, <3>3 DEF ViewInv
  <2>4. CASE /\ row' = [row EXCEPT ![loop.key] = [age |-> "live", by |-> loop.by, life |-> life]]
             /\ Broadcast([kind |-> "locked", key |-> loop.key])
             /\ Goto("act")
    <3>1. loop'.at = "act" /\ loop' # Idle /\ loop'.key = loop.key
      BY <2>1, <2>4, GotoFacts
    <3>2. /\ row'[loop.key].age = "live" /\ row'[loop.key].life = life
          /\ \A k \in Keys : k # loop.key => row'[k] = row[k]
      BY <2>1, <2>4 DEF TypeOK
    <3>3. Broadcast(Locked(loop.key)) /\ Locked(loop.key) \in Frames
      BY <2>1, <2>4, FrameFacts DEF Locked
    <3>4. Selected'
      BY <2>2, <3>2 DEF ViewInv, Selected
    <3>5. \A s \in Viewers, k \in Keys : k # loop.key =>
            (Has(s, Locked(k))' => Has(s, Locked(k))) /\ (Has(s, Unlocked(k))' => Has(s, Unlocked(k)))
      BY <2>1, <3>3, BroadcastSays, FrameFacts
    <3>6. OldLocks'
      BY <2>2, <3>2, <3>5 DEF ViewInv, OldLocks
    <3>7. UnlockFollows'
      <4> SUFFICES ASSUME NEW s \in Viewers, NEW k \in Keys, k # loop.key
                   PROVE  Answered(backlog'[s], k)
        BY <3>1 DEF UnlockFollows, InHand, At
      <4>1. Answered(backlog[s], k)
        BY <2>1 DEF ViewInv, UnlockFollows, InHand, At
      <4>2. Locked(loop.key) # Locked(k)
        BY <2>1, FrameFacts
      <4>3. QED
        BY <3>3, <4>1, <4>2, BroadcastAnswers
    <3>8. NewsComing'
      BY <3>1 DEF NewsComing
    <3>9. QED
      BY <3>4, <3>6, <3>7, <3>8 DEF ViewInv
  <2>5. QED
    BY <1>2, <2>3, <2>4 DEF Insert
<1>3. CASE Act
  <2>1. loop # Idle /\ loop.at = "act" /\ loop.key \in Keys
    BY <1>3, CommandFacts DEF Act, At
  <2>2. loop'.at = "release" /\ loop' # Idle /\ loop'.key = loop.key
    BY <1>3, <2>1, GotoFacts DEF Act
  <2>3. /\ UNCHANGED <<gc, session, backlog, due, shown, life>>
        /\ \A k \in Keys : row'[k] = row[k] \/ row'[k] = NoRow
    BY <1>3, <2>1 DEF Act, TypeOK
  <2>4. Selected' /\ OldLocks'
    BY <1>0, <2>3 DEF ViewInv, Selected, OldLocks, Has
  <2>5. UnlockFollows' /\ NewsComing'
    BY <2>1, <2>2, <2>3 DEF ViewInv, UnlockFollows, NewsComing, InHand, At
  <2>6. QED
    BY <2>4, <2>5 DEF ViewInv
<1>4. CASE Release
  <2>1. loop # Idle /\ loop.at = "release" /\ loop.key \in Keys
    BY <1>4, CommandFacts DEF Release, At
  <2>2. loop'.at = "reply" /\ loop' # Idle
    BY <1>4, <2>1, GotoFacts DEF Release
  <2>3. /\ UNCHANGED <<gc, session, due, shown, life>>
        /\ row'[loop.key] = NoRow
        /\ \A k \in Keys : k # loop.key => row'[k] = row[k]
    BY <1>4, <2>1 DEF Release, TypeOK
  <2>4. Broadcast(Unlocked(loop.key)) /\ Unlocked(loop.key) \in Frames
    BY <1>4, <2>1, FrameFacts DEF Unlocked, Release
  <2>5. \A s \in Viewers, k \in Keys : k # loop.key =>
          (Has(s, Locked(k))' => Has(s, Locked(k))) /\ (Has(s, Unlocked(k))' => Has(s, Unlocked(k)))
    BY <2>1, <2>4, BroadcastSays, FrameFacts
  <2>6. Selected' /\ OldLocks'
    BY <1>0, <2>3, <2>5 DEF ViewInv, Selected, OldLocks
  <2>7. UnlockFollows'
    <3> SUFFICES ASSUME NEW s \in Viewers, NEW k \in Keys PROVE Answered(backlog'[s], k)
      BY DEF UnlockFollows
    <3>1. k # loop.key => Answered(backlog[s], k)
      BY DEF ViewInv, UnlockFollows, InHand
    <3>2. Unlocked(loop.key) # Locked(k)
      BY <2>1, FrameFacts
    <3>3. QED
      BY <2>4, <3>1, <3>2, BroadcastAnswers
  <2>8. NewsComing'
    BY <2>2 DEF NewsComing
  <2>9. QED
    BY <2>6, <2>7, <2>8 DEF ViewInv
<1>5. CASE Reply
  <2>1. /\ loop.at \in {"reply", "bounce"} /\ loop' = Idle
        /\ UNCHANGED <<row, gc, backlog, shown, life>>
        /\ due' = {s \in Viewers : session[s].at # "off"}
    BY <1>5 DEF Reply, At, SendView
  <2>2. \A s \in Viewers : session'[s].at \in {"on", "waiting"} => session[s].at \in {"on", "waiting"}
    BY <1>5, LocksAssumption DEF Reply, TypeOK
  <2>3. Selected' /\ OldLocks'
    BY <2>1, <2>2 DEF ViewInv, Selected, OldLocks, Has
  <2>4. UnlockFollows'
    BY <2>1 DEF ViewInv, UnlockFollows, InHand, At
  <2>5. NewsComing'
    BY <2>1, <2>2 DEF NewsComing
  <2>6. QED
    BY <2>3, <2>4, <2>5 DEF ViewInv
<1>6. QED
  BY <1>1, <1>2, <1>3, <1>4, <1>5 DEF LoopStep

\* A GC deletes what it selected, and tells of what it deleted.
LEMMA ViewGc ==
  ASSUME TypeOK, LockInv, ViewInv, GcStep
  PROVE  ViewInv'
<1>0. NoRow.age = "none"
  BY DEF NoRow
<1>1. UNCHANGED <<loop, session, due, shown, life>>
  BY DEF GcStep, GcSelect, GcDelete, GcUnlock
<1>2. CASE GcSelect
  <2>1. /\ gc.at = "idle" /\ UNCHANGED backlog
        /\ gc'.at = "delete" /\ gc'.keys = {k \in Keys : row[k].age = "expired"}
        /\ \A k \in Keys : \/ row[k].age = "expired" /\ row'[k].age = "selected"
                           \/ row[k].age # "expired" /\ row'[k] = row[k]
    BY <1>2 DEF GcSelect, TypeOK
  <2>2. Selected' /\ OldLocks'
    BY <1>1, <2>1 DEF ViewInv, Selected, OldLocks, Has
  <2>3. UnlockFollows' /\ NewsComing'
    BY <1>1, <2>1 DEF ViewInv, UnlockFollows, NewsComing, InHand, At, Has
  <2>4. QED
    BY <2>2, <2>3 DEF ViewInv
<1>3. CASE GcDelete
  <2>1. /\ gc.at = "delete" /\ gc'.at = "unlock" /\ gc'.keys = gc.keys /\ UNCHANGED backlog
        /\ \A k \in Keys : \/ row[k].age = "selected" /\ row'[k] = NoRow
                           \/ row[k].age # "selected" /\ row'[k] = row[k]
    BY <1>3 DEF GcDelete, TypeOK
  <2>2. Selected' /\ OldLocks'
    BY <1>0, <1>1, <2>1 DEF ViewInv, Selected, OldLocks, Has
  <2>3. UnlockFollows' /\ NewsComing'
    BY <1>1, <2>1 DEF ViewInv, Selected, UnlockFollows, NewsComing, InHand, At, Has
  <2>4. QED
    BY <2>2, <2>3 DEF ViewInv
<1>4. CASE GcUnlock /\ gc.keys = {}
  <2>1. gc.at = "unlock" /\ gc'.keys = {} /\ UNCHANGED <<row, backlog>>
    BY <1>4 DEF GcUnlock, TypeOK
  <2>2. Selected' /\ OldLocks'
    BY <1>1, <2>1 DEF ViewInv, Selected, OldLocks, Has
  <2>3. UnlockFollows' /\ NewsComing'
    BY <1>1, <1>4, <2>1 DEF ViewInv, UnlockFollows, NewsComing, InHand, At, Has
  <2>4. QED
    BY <2>2, <2>3 DEF ViewInv
<1>5. CASE GcUnlock /\ gc.keys # {}
  <2>1. PICK q \in gc.keys : /\ Broadcast([kind |-> "unlocked", key |-> q])
                             /\ gc' = [gc EXCEPT !.keys = gc.keys \ {q}]
    BY <1>5 DEF GcUnlock
  <2>2. /\ gc.at = "unlock" /\ gc'.at = "unlock" /\ gc'.keys = gc.keys \ {q}
        /\ q \in Keys /\ UNCHANGED row
    BY <1>5, <2>1 DEF GcUnlock, TypeOK
  <2>3. Broadcast(Unlocked(q)) /\ Unlocked(q) \in Frames
    BY <2>1, <2>2, FrameFacts DEF Unlocked
  <2>4. \A s \in Viewers, k \in Keys :
          /\ Has(s, Locked(k))' => Has(s, Locked(k))
          /\ k # q => (Has(s, Unlocked(k))' => Has(s, Unlocked(k)))
    BY <2>2, <2>3, BroadcastSays, FrameFacts
  <2>5. Selected' /\ OldLocks'
    BY <1>1, <2>2, <2>4 DEF ViewInv, Selected, OldLocks
  <2>6. UnlockFollows'
    <3> SUFFICES ASSUME NEW s \in Viewers, NEW k \in Keys, ~InHand(k)
                 PROVE  Answered(backlog'[s], k)
      BY <1>1 DEF UnlockFollows, InHand, At
    <3>1. Answered(backlog[s], k) /\ Unlocked(q) # Locked(k)
      BY <2>2, FrameFacts DEF ViewInv, UnlockFollows
    <3>2. QED
      BY <2>3, <3>1, BroadcastAnswers
  <2>7. NewsComing'
    <3>1. ASSUME NEW s \in Viewers, session[s].at \in {"on", "waiting"}
          PROVE  /\ Has(s, Unlocked(q))' \/ Has(s, Lagged)'
                 /\ \A g : Has(s, g) => Has(s, g)' \/ Has(s, Lagged)'
      BY <2>3, <3>1, BroadcastSays
    <3>2. QED
      BY <1>1, <2>2, <3>1 DEF ViewInv, NewsComing
  <2>8. QED
    BY <2>5, <2>6, <2>7 DEF ViewInv
<1>6. QED
  BY <1>2, <1>3, <1>4, <1>5 DEF GcStep

LEMMA ViewStep == TypeOK /\ LockInv /\ ViewInv /\ [Next]_vars => ViewInv'
<1> SUFFICES ASSUME TypeOK, LockInv, ViewInv, [Next]_vars PROVE ViewInv'
  OBVIOUS
<1>1. CASE UNCHANGED vars
  BY <1>1, ViewSession DEF vars
<1>2. ASSUME NEW s \in Sessions, NEW o \in Operators \cup {Env}, Hello(s, o) PROVE ViewInv'
  <2>1. \A v \in Viewers : /\ v # s => session'[v] = session[v]
                           /\ v = s => session'[v].at = "read"
    BY <1>2, LocksAssumption DEF Hello, TypeOK
  <2>2. QED
    BY <1>2, <2>1, ViewSession DEF Hello
<1>3. ASSUME NEW s \in Sessions, Disconnect(s) PROVE ViewInv'
  <2>1. \A v \in Viewers : /\ v = s => backlog'[v] = <<>> /\ session'[v].at = "off"
                           /\ v # s => /\ backlog'[v] = backlog[v] /\ session'[v] = session[v]
                                       /\ shown'[v] = shown[v] /\ (v \in due => v \in due')
    BY <1>3, LocksAssumption DEF Disconnect, Close, TypeOK, Off
  <2>2. QED
    BY <1>3, <2>1, ViewSession DEF Disconnect
<1>4. ASSUME NEW s \in Sessions, NEW k \in Keys, StartLocked(s, k) PROVE ViewInv'
  <2>1. \A v \in Viewers : /\ v # s => session'[v] = session[v]
                           /\ v = s => session[v].at = "on"
    BY <1>4, LocksAssumption DEF StartLocked, TypeOK
  <2>2. loop = Idle /\ loop' # Idle /\ loop'.at = "sweep"
    BY <1>4 DEF StartLocked, Idle
  <2>3. QED
    BY <1>4, <2>1, <2>2, ViewSession DEF StartLocked
<1>5. ASSUME NEW s \in Sessions, NEW o \in Operators, NEW r \in Roles, SetRole(s, o, r)
      PROVE  ViewInv'
  BY <1>5, ViewSession DEF SetRole, SendView
<1>6. CASE Tick
  BY <1>6, ViewSession DEF Tick, SendView
<1>7. ASSUME NEW s \in Viewers, NoticeView(s) PROVE ViewInv'
  <2>1. \A v \in Viewers : /\ v # s => session'[v] = session[v] /\ (v \in due => v \in due')
                           /\ v = s => session'[v].at = "read"
    BY <1>7, LocksAssumption DEF NoticeView, TypeOK
  <2>2. QED
    BY <1>7, <2>1, ViewSession DEF NoticeView
<1>8. ASSUME NEW k \in Keys, Expire(k) PROVE ViewInv'
  <2>1. /\ UNCHANGED <<loop, gc, session, backlog, due, shown, life>>
        /\ \A q \in Keys : row'[q] = row[q] \/ row'[q].age = "expired"
    BY <1>8 DEF Expire, TypeOK
  <2>2. Selected' /\ OldLocks'
    BY <2>1 DEF ViewInv, Selected, OldLocks, Has
  <2>3. UnlockFollows' /\ NewsComing'
    BY <2>1 DEF ViewInv, UnlockFollows, NewsComing, InHand, At, Has
  <2>4. QED
    BY <2>2, <2>3 DEF ViewInv
<1>9. CASE Crash
  <2>1. /\ gc'.keys = {}
        /\ \A k \in Keys : row'[k].age # "selected"
        /\ \A s \in Viewers : backlog'[s] = <<>> /\ session'[s].at = "off"
    BY <1>9, LocksAssumption DEF Crash, TypeOK, Off
  <2>2. Selected' /\ NewsComing'
    BY <2>1 DEF Selected, NewsComing
  <2>3. OldLocks' /\ UnlockFollows'
    BY <2>1 DEF OldLocks, UnlockFollows, Has, Answered
  <2>4. QED
    BY <2>2, <2>3 DEF ViewInv
<1>10. QED
  BY <1>1, <1>2, <1>3, <1>4, <1>5, <1>6, <1>7, <1>8, <1>9, ViewSnapshot, ViewFrame, ViewLoop, ViewGc
     DEF Next

-----------------------------------------------------------------------------
(* The theorems.                                                               *)

IInv == TypeOK /\ LockInv /\ ViewInv

LEMMA Invariance == Spec => []IInv
<1>1. Init => IInv
  BY TypeInit, LockInit, ViewInit DEF IInv
<1>2. IInv /\ [Next]_vars => IInv'
  BY TypeStep, LockStep, ViewStep DEF IInv
<1>3. QED
  BY <1>1, <1>2, PTL DEF Spec

\* Rows, the command under way, the GC's keys, sessions and browsers keep their
\* types through every interleaving of the loop, the GC, the sessions and crashes.
THEOREM LockTypes == Spec => []TypeOK
<1>1. IInv => TypeOK
  BY DEF IInv
<1>2. QED
  BY <1>1, Invariance, PTL

\* try_acquire answers locked_by only for a lock that outlived a crash: the loop
\* that takes the locks releases each before its next command.
THEOREM BouncesOnlyOffACrash == Spec => []BouncesOffACrash
<1>1. IInv => BouncesOffACrash
  BY DEF IInv, LockInv
<1>2. QED
  BY <1>1, Invariance, PTL

\* OperatorRevoke never deletes the last account, whoever revokes whom in which
\* order with identities as old as their hello.
THEOREM NeverTheLast == Spec => []SomeoneRemains
<1>1. IInv => SomeoneRemains
  BY DEF IInv, LockInv
<1>2. QED
  BY <1>1, Invariance, PTL

\* A live lock is ended by its own command or with its operator's account only;
\* neither the sweep of try_acquire nor gc_expired takes it.
THEOREM LiveLocksStay == Spec => NoLiveLockSwept
<1>1. IInv /\ [Next]_vars =>
        [\A k \in Live : row'[k].age = "none" =>
           \/ At("release") /\ loop.key = k /\ loop.by = row[k].by
           \/ At("act") /\ loop.key = [kind |-> "revoke", of |-> row[k].by]]_vars
  <2> SUFFICES ASSUME TypeOK, LockInv, [Next]_vars,
                      NEW k \in Keys, row[k].age = "live", row'[k].age = "none"
               PROVE  \/ At("release") /\ loop.key = k /\ loop.by = row[k].by
                      \/ At("act") /\ loop.key = [kind |-> "revoke", of |-> row[k].by]
    BY DEF IInv, Live
  <2>1. row' # row
    OBVIOUS
  <2>2. CASE Release
    <3>1. loop.key = k /\ loop # Idle /\ loop.at = "release"
      BY <2>2 DEF Release, TypeOK, At
    <3>2. loop.by = row[k].by
      BY <3>1 DEF LockInv, OwnLock, At
    <3>3. QED
      BY <3>1, <3>2 DEF At
  <2>3. CASE Act
    <3>1. loop # Idle /\ loop.at = "act" /\ loop.key \in Keys
      BY <2>3, CommandFacts DEF Act, At
    <3>2. loop.key.kind # "force" /\ row[k].by = loop.key.of
      BY <2>3, <2>1 DEF Act, TypeOK
    <3>3. loop.key = [kind |-> "revoke", of |-> row[k].by]
      BY <3>1, <3>2 DEF Keys
    <3>4. QED
      BY <3>1, <3>3 DEF At
  <2>4. CASE Sweep
    BY <2>4 DEF Sweep, TypeOK
  <2>5. CASE Insert
    BY <2>5 DEF Insert, TypeOK
  <2>6. CASE \E q \in Keys : Expire(q)
    BY <2>6 DEF Expire, TypeOK
  <2>7. CASE GcSelect
    BY <2>7 DEF GcSelect, TypeOK
  <2>8. CASE GcDelete
    BY <2>8 DEF GcDelete, TypeOK
  <2>9. CASE Crash
    BY <2>9 DEF Crash, TypeOK
  <2>10. QED
    BY <2>1, <2>2, <2>3, <2>4, <2>5, <2>6, <2>7, <2>8, <2>9
       DEF Next, vars, LoopStep, GcStep, Hello, Disconnect, StartLocked, SetRole,
           NoticeView, SendSnapshot, TakeFrame, Reply, Tick, GcUnlock
<1>2. QED
  BY <1>1, Invariance, PTL DEF Spec, NoLiveLockSwept

\* Once nothing is on its way to it, a browser shows every live lock and none that is
\* gone, however sweeps, cascades, the GC, crashes, snapshots and frames interleaved.
THEOREM BrowserShowsLocks == Spec => []ShowsTheLocks
<1>1. IInv => ShowsTheLocks
  <2> SUFFICES ASSUME TypeOK, LockInv, ViewInv, NEW s \in Viewers, Quiet(s), NEW k \in Keys
               PROVE  /\ row[k].age = "live" => k \in shown[s]
                      /\ k \in shown[s] => row[k].age # "none"
    BY DEF IInv, ShowsTheLocks, Live, Held, TypeOK
  <2>1. /\ loop = Idle /\ gc.at = "idle" /\ session[s].at = "on"
        /\ s \notin due /\ \A f : ~Has(s, f)
    BY DEF Quiet, Has
  <2>2. row[k].age # "none" => row[k].life # life
    BY <2>1 DEF LockInv, RowsAndCommands, At
  <2>3. QED
    BY <2>1, <2>2 DEF ViewInv, OldLocks, NewsComing
<1>2. QED
  BY <1>1, Invariance, PTL
=============================================================================
