--------------------------- MODULE TaskWorldProofs ---------------------------
(***************************************************************************)
(* What holds of the task board for every roster, every set of tasks and   *)
(* every limit.                                                            *)
(***************************************************************************)
EXTENDS TaskWorld, TLAPS

-----------------------------------------------------------------------------
(* The requests of task_sm::next that the handlers make, one by one.       *)

\* A legal request of each kind finds the task in one of the statuses named
\* here and leads to the one named here; this is the table of task_sm.rs that
\* every handler's row write goes through.
LEMMA Requests ==
  ASSUME NEW st
  PROVE  /\ next(st, Request("TaskDoneMcp")) # Illegal =>
              /\ st \in {"in_progress", "changes_requested"}
              /\ next(st, Request("TaskDoneMcp")) = "awaiting_review"
         /\ next(st, Request("Fail")) # Illegal =>
              st \in Status \ Closed /\ next(st, Request("Fail")) = "failed"
         /\ next(st, Request("OperatorForceFail")) # Illegal =>
              st \in Status \ Closed /\ next(st, Request("OperatorForceFail")) = "failed"
         /\ next(st, Request("Escalate")) # Illegal =>
              st \in Status \ Closed /\ next(st, Request("Escalate")) = "escalated"
         /\ next(st, Request("AcceptProposal")) # Illegal =>
              st = "proposed" /\ next(st, Request("AcceptProposal")) = "queued"
         /\ next(st, Request("RejectProposal")) # Illegal =>
              st = "proposed" /\ next(st, Request("RejectProposal")) = "failed"
         /\ next(st, Request("TaskAccept")) # Illegal =>
              st = "awaiting_review" /\ next(st, Request("TaskAccept")) = "done"
         /\ next(st, Request("OperatorForceAccept")) # Illegal =>
              st = "awaiting_review" /\ next(st, Request("OperatorForceAccept")) = "done"
         /\ next(st, Request("RequestChanges")) # Illegal =>
              /\ st = "awaiting_review"
              /\ next(st, Request("RequestChanges")) = "changes_requested"
<1>2. next(st, Request("TaskDoneMcp")) # Illegal =>
        /\ st \in {"in_progress", "changes_requested"}
        /\ next(st, Request("TaskDoneMcp")) = "awaiting_review"
  BY DEF next, From, To, Illegal, Request
<1>3. /\ next(st, Request("Fail")) # Illegal =>
           st \in Status \ Closed /\ next(st, Request("Fail")) = "failed"
      /\ next(st, Request("OperatorForceFail")) # Illegal =>
           st \in Status \ Closed /\ next(st, Request("OperatorForceFail")) = "failed"
      /\ next(st, Request("Escalate")) # Illegal =>
           st \in Status \ Closed /\ next(st, Request("Escalate")) = "escalated"
  BY DEF next, From, To, Illegal, Request
<1>4. /\ next(st, Request("AcceptProposal")) # Illegal =>
           st = "proposed" /\ next(st, Request("AcceptProposal")) = "queued"
      /\ next(st, Request("RejectProposal")) # Illegal =>
           st = "proposed" /\ next(st, Request("RejectProposal")) = "failed"
  BY DEF next, From, To, Illegal, Request
<1>5. /\ next(st, Request("TaskAccept")) # Illegal =>
           st = "awaiting_review" /\ next(st, Request("TaskAccept")) = "done"
      /\ next(st, Request("OperatorForceAccept")) # Illegal =>
           st = "awaiting_review" /\ next(st, Request("OperatorForceAccept")) = "done"
      /\ next(st, Request("RequestChanges")) # Illegal =>
           /\ st = "awaiting_review"
           /\ next(st, Request("RequestChanges")) = "changes_requested"
  BY DEF next, From, To, Illegal, Request
<1>6. QED
  BY <1>2, <1>3, <1>4, <1>5
-----------------------------------------------------------------------------
(* The inductive invariant.                                                *)

\* Everything the runs check of a single state.
IInv ==
  /\ TypeOK
  /\ SnapshotHolds
  /\ ProposalsUnassigned
  /\ AssigneeInStartup
  /\ OpenWorkIsFresh
  /\ WorkingAgentHasTask

USE RosterAssumption, LimitAssumption

\* The row write a granted request makes.
LEMMA Transits ==
  ASSUME NEW t
  PROVE  /\ Transit(t, "TaskDoneMcp") =>
              /\ status[t] \in {"in_progress", "changes_requested"}
              /\ status' = [status EXCEPT ![t] = "awaiting_review"]
         /\ \A k \in {"Fail", "OperatorForceFail"} : Transit(t, k) =>
              status[t] \in Status \ Closed /\ status' = [status EXCEPT ![t] = "failed"]
         /\ Transit(t, "Escalate") =>
              status[t] \in Status \ Closed /\ status' = [status EXCEPT ![t] = "escalated"]
         /\ Transit(t, "AcceptProposal") =>
              status[t] = "proposed" /\ status' = [status EXCEPT ![t] = "queued"]
         /\ Transit(t, "RejectProposal") =>
              status[t] = "proposed" /\ status' = [status EXCEPT ![t] = "failed"]
         /\ \A k \in {"TaskAccept", "OperatorForceAccept"} : Transit(t, k) =>
              status[t] = "awaiting_review" /\ status' = [status EXCEPT ![t] = "done"]
         /\ Transit(t, "RequestChanges") =>
              /\ status[t] = "awaiting_review"
              /\ status' = [status EXCEPT ![t] = "changes_requested"]
<1>1. ASSUME NEW k, Transit(t, k)
      PROVE  /\ next(status[t], Request(k)) # Illegal
             /\ status' = [status EXCEPT ![t] = next(status[t], Request(k))]
  BY <1>1 DEF Transit
<1>2. QED
  BY <1>1, Requests

LEMMA InitInv == Init => IInv
<1> SUFFICES ASSUME Init PROVE IInv
  OBVIOUS
<1>1. (CHOOSE s \in Startups : TRUE) \in Startups
  BY RosterAssumption
<1>2. TypeOK
  BY <1>1 DEF Init, TypeOK, Absent, Ready
<1>3. QED
  BY <1>2 DEF Init, IInv, SnapshotHolds, ProposalsUnassigned, AssigneeInStartup,
              OpenWorkIsFresh, WorkingAgentHasTask, Created, Absent, Ready
-----------------------------------------------------------------------------
(* Each action keeps it.  The handlers that do the same to the variables of *)
(* the invariant share a lemma.                                             *)

\* A handler moves a task's status on, past its work, and the agent that was
\* working on it is idle again or the task has failed: task_done, task_failed,
\* task_accept, reject_proposal, the operator's three commands, the escalation.
LEMMA SettleInv ==
  ASSUME IInv, NEW t \in Tasks, NEW st \in Status \ {"proposed", "queued", "in_progress"},
         LoopReady,
         status[t] \in Status \ Closed,
         status' = [status EXCEPT ![t] = st],
         \/ avatar' = avatar /\ (status[t] = "in_progress" => st = "failed")
         \/ assignee[t] \in Agents /\ avatar' = [avatar EXCEPT ![assignee[t]] = "idle"],
         UNCHANGED <<startup, parent, assignee, required, blockedOn, round,
                     at, path, bus, gated, tick>>
  PROVE  IInv'
<1> USE DEF IInv
<1>1. TypeOK'
  BY DEF TypeOK, Status
<1>2. SnapshotHolds'
  BY DEF SnapshotHolds, LoopReady, Ready
<1>3. ProposalsUnassigned' /\ OpenWorkIsFresh'
  BY DEF ProposalsUnassigned, OpenWorkIsFresh, TypeOK, Status
<1>4. \A u \in Tasks : assignee[u] # NoAgent => StartupOf[assignee[u]] = startup[u]
  BY DEF AssigneeInStartup, Created, ProposalsUnassigned, Absent
<1>5. AssigneeInStartup'
  BY <1>4 DEF AssigneeInStartup, Created
<1>6. WorkingAgentHasTask'
  BY DEF WorkingAgentHasTask, Created, TypeOK, Absent, Status, Closed
<1>7. QED
  BY <1>1, <1>2, <1>3, <1>4, <1>5, <1>6

\* An INSERT by create_task or subtask_create, with an assignee of the task's
\* own startup, or none.
LEMMA InsertInv ==
  ASSUME IInv, NEW t \in Tasks, NEW s \in Startups, NEW p \in Tasks \cup {NoTask},
         NEW st \in {"proposed", "queued"}, NEW a \in Assignable(s) \cup {NoAgent},
         NEW r \in Rooms \cup {NoRoom}, NEW b \in Tasks \cup {NoTask},
         st = "proposed" => a = NoAgent,
         Insert(t, s, p, st, a, r, b),
         UNCHANGED <<avatars, bus, gated, tick>>
  PROVE  IInv'
<1> USE DEF IInv, Insert, avatars
<1>1. TypeOK'
  BY DEF TypeOK, Status, Assignable
<1>2. SnapshotHolds'
  BY DEF SnapshotHolds, TypeOK, ProposalsUnassigned, Absent
<1>3. ProposalsUnassigned' /\ OpenWorkIsFresh'
  BY DEF ProposalsUnassigned, OpenWorkIsFresh, TypeOK, Absent
<1>4. AssigneeInStartup'
  BY DEF AssigneeInStartup, Created, TypeOK, Assignable
<1>5. WorkingAgentHasTask'
  BY DEF WorkingAgentHasTask, Created, TypeOK, Absent
<1>6. QED
  BY <1>1, <1>2, <1>3, <1>4, <1>5

\* accept_proposal, by the manager or by an operator.
LEMMA AcceptInv ==
  ASSUME IInv, NEW t \in Tasks, NEW b \in Assignable(startup[t]),
         NEW r \in Rooms \cup {NoRoom},
         LoopReady,
         Transit(t, "AcceptProposal"),
         assignee' = [assignee EXCEPT ![t] = b],
         required' = [required EXCEPT ![t] = r],
         UNCHANGED <<startup, parent, blockedOn, round, avatars, bus, gated, tick>>
  PROVE  IInv'
<1> USE DEF IInv, avatars
<1>1. status[t] = "proposed" /\ status' = [status EXCEPT ![t] = "queued"]
  BY Transits
<1>2. TypeOK'
  BY <1>1 DEF TypeOK, Status, Assignable
<1>3. SnapshotHolds'
  BY DEF SnapshotHolds, LoopReady, Ready
<1>4. ProposalsUnassigned' /\ OpenWorkIsFresh'
  BY <1>1 DEF ProposalsUnassigned, OpenWorkIsFresh, TypeOK
<1>5. AssigneeInStartup'
  BY <1>1 DEF AssigneeInStartup, Created, TypeOK, Assignable, Absent
<1>6. WorkingAgentHasTask'
  BY <1>1 DEF WorkingAgentHasTask, Created, TypeOK, ProposalsUnassigned, Absent
<1>7. QED
  BY <1>2, <1>3, <1>4, <1>5, <1>6

\* A queued or sent-back task goes to another agent of its startup, and is
\* queued with no round behind it: task_steal, a steal and a recovery.
LEMMA HandoverInv ==
  ASSUME IInv, NEW t \in Tasks, NEW p \in Agents,
         status[t] \in {"queued", "changes_requested"},
         StartupOf[p] = startup[t],
         assignee' = [assignee EXCEPT ![t] = p],
         status' = [status EXCEPT ![t] = "queued"],
         round' = [round EXCEPT ![t] = 0],
         tick' \in [pass : {"none", "dispatch", "steal", "recover"}, todo : SUBSET Tasks],
         tick'.pass = tick.pass,
         tick'.todo \subseteq tick.todo \ {t},
         UNCHANGED <<startup, parent, required, blockedOn, avatars, bus, gated>>
  PROVE  IInv'
<1> USE DEF IInv, avatars
<1>1. TypeOK'
  BY DEF TypeOK, Status
<1>2. SnapshotHolds'
  BY DEF SnapshotHolds, TypeOK
<1>3. ProposalsUnassigned' /\ OpenWorkIsFresh'
  BY DEF ProposalsUnassigned, OpenWorkIsFresh, TypeOK
<1>4. AssigneeInStartup'
  BY DEF AssigneeInStartup, Created, TypeOK, Absent
<1>5. WorkingAgentHasTask'
  BY DEF WorkingAgentHasTask, Created, TypeOK, Absent
<1>6. QED
  BY <1>1, <1>2, <1>3, <1>4, <1>5
-----------------------------------------------------------------------------
(* The actions, grouped as Next groups them.                               *)

LEMMA AgentCallInv ==
  ASSUME IInv, NEW a \in Agents, NEW t \in Tasks
  PROVE  /\ TaskDone(a, t) => IInv'
         /\ TaskFailed(a, t) => IInv'
         /\ \A p \in Tasks, r \in RoomChoices, b \in Agents \cup {NoAgent} :
              SubtaskQueued(a, p, t, b, r) => IInv'
         /\ \A p \in Tasks, r \in RoomChoices : SubtaskProposed(a, p, t, r) => IInv'
         /\ \A b \in Agents, r \in RoomChoices : AcceptProposal(a, t, b, r) => IInv'
         /\ RejectProposal(a, t) => IInv'
         /\ TaskAccept(a, t) => IInv'
         /\ RequestChanges(a, t) => IInv'
         /\ EscalateAtCap(a, t) => IInv'
         /\ \A b \in Tasks \cup {NoTask} : SetBlocking(a, t, b) => IInv'
         /\ TaskSteal(a, t) => IInv'
<1>1. ASSUME TaskDone(a, t) PROVE IInv'
  <2>1. /\ status[t] \in {"in_progress", "changes_requested"}
        /\ status' = [status EXCEPT ![t] = "awaiting_review"]
    BY <1>1, Transits DEF TaskDone
  <2>2. QED
    BY <1>1, <2>1, SettleInv DEF TaskDone, Calls, Status, Closed
<1>2. ASSUME TaskFailed(a, t) PROVE IInv'
  <2>1. /\ status[t] \in Status \ Closed
        /\ status' = [status EXCEPT ![t] = "failed"]
    BY <1>2, Transits DEF TaskFailed
  <2>2. QED
    BY <1>2, <2>1, SettleInv DEF TaskFailed, Calls, Status
<1>3. ASSUME NEW p \in Tasks, NEW r \in RoomChoices, NEW b \in Agents \cup {NoAgent},
             SubtaskQueued(a, p, t, b, r)
      PROVE  IInv'
  <2>1. To([kind |-> "SubtaskCreate", caller |-> "Manager"]) = "queued"
    BY DEF To
  <2>2. QED
    BY <1>3, <2>1, InsertInv DEF SubtaskQueued
<1>4. ASSUME NEW p \in Tasks, NEW r \in RoomChoices, SubtaskProposed(a, p, t, r)
      PROVE  IInv'
  <2>1. To([kind |-> "SubtaskCreate", caller |-> "NonManager"]) = "proposed"
    BY DEF To
  <2>2. QED
    BY <1>4, <2>1, InsertInv DEF SubtaskProposed
<1>5. ASSUME NEW b \in Agents, NEW r \in RoomChoices, AcceptProposal(a, t, b, r)
      PROVE  IInv'
  BY <1>5, AcceptInv DEF AcceptProposal, Calls
<1>6. ASSUME RejectProposal(a, t) PROVE IInv'
  <2>1. status[t] = "proposed" /\ status' = [status EXCEPT ![t] = "failed"]
    BY <1>6, Transits DEF RejectProposal
  <2>2. QED
    BY <1>6, <2>1, SettleInv DEF RejectProposal, Calls, Status, Closed, avatars
<1>7. ASSUME TaskAccept(a, t) PROVE IInv'
  <2>1. status[t] = "awaiting_review" /\ status' = [status EXCEPT ![t] = "done"]
    BY <1>7, Transits DEF TaskAccept
  <2>2. QED
    BY <1>7, <2>1, SettleInv DEF TaskAccept, Calls, Status, Closed, avatars
<1>8. ASSUME RequestChanges(a, t) PROVE IInv'
  <2> USE DEF IInv
  <2>1. /\ status[t] = "awaiting_review"
        /\ status' = [status EXCEPT ![t] = "changes_requested"]
        /\ LoopReady
        /\ round[t] < MaxReviewRounds
        /\ round' = [round EXCEPT ![t] = @ + 1]
    BY <1>8, Transits DEF RequestChanges, Reviews, Calls, RoundsLeft
  <2>2. UNCHANGED <<startup, parent, assignee, required, blockedOn,
                    avatar, at, path, bus, gated, tick>>
    BY <1>8 DEF RequestChanges, avatars
  <2>3. TypeOK'
    BY <2>1, <2>2 DEF TypeOK, Status
  <2>4. SnapshotHolds'
    BY <2>1, <2>2 DEF SnapshotHolds, LoopReady, Ready
  <2>5. ProposalsUnassigned' /\ OpenWorkIsFresh'
    BY <2>1, <2>2 DEF ProposalsUnassigned, OpenWorkIsFresh, TypeOK
  <2>6. AssigneeInStartup'
    BY <2>1, <2>2 DEF AssigneeInStartup, Created, TypeOK, Absent
  <2>7. WorkingAgentHasTask'
    BY <2>1, <2>2 DEF WorkingAgentHasTask, Created, TypeOK, Absent
  <2>8. QED
    BY <2>3, <2>4, <2>5, <2>6, <2>7
\* The case that needs the rounds: a task in progress has none behind it, so
\* it is not the one that escalates.
<1>9. ASSUME EscalateAtCap(a, t) PROVE IInv'
  <2>1. /\ status[t] \in Status \ Closed
        /\ status' = [status EXCEPT ![t] = "escalated"]
        /\ ~(round[t] < MaxReviewRounds)
    BY <1>9, Transits DEF EscalateAtCap, RoundsLeft
  <2>2. status[t] # "in_progress"
    BY <2>1 DEF IInv, OpenWorkIsFresh
  <2>3. QED
    BY <1>9, <2>1, <2>2, SettleInv DEF EscalateAtCap, Reviews, Calls, Status, avatars
<1>10. ASSUME NEW b \in Tasks \cup {NoTask}, SetBlocking(a, t, b) PROVE IInv'
  BY <1>10 DEF SetBlocking, IInv, TypeOK, SnapshotHolds, ProposalsUnassigned,
               AssigneeInStartup, OpenWorkIsFresh, WorkingAgentHasTask, Created, avatars
<1>11. ASSUME TaskSteal(a, t) PROVE IInv'
  <2>1. status[t] = "queued" /\ tick = Ready /\ StartupOf[a] = startup[t]
    BY <1>11 DEF TaskSteal, Calls, LoopReady
  <2>2. /\ status' = [status EXCEPT ![t] = "queued"]
        /\ round' = [round EXCEPT ![t] = 0]
    BY <1>11, <2>1 DEF TaskSteal, IInv, TypeOK, OpenWorkIsFresh
  <2>3. QED
    BY <1>11, <2>1, <2>2, HandoverInv DEF TaskSteal, Ready, IInv, TypeOK
<1>12. QED
  BY <1>1, <1>2, <1>3, <1>4, <1>5, <1>6, <1>7, <1>8, <1>9, <1>10, <1>11
LEMMA OperatorCallInv == IInv /\ OperatorCall => IInv'
<1> SUFFICES ASSUME IInv, NEW t \in Tasks,
                    \/ \E b \in Agents, r \in RoomChoices : OperatorAcceptProposal(t, b, r)
                    \/ OperatorResolves(t)
                    \/ \E s \in Startups, b \in Agents \cup {NoAgent},
                          p, k \in Tasks \cup {NoTask}, r \in RoomChoices :
                         CreateTask(t, s, b, p, r, k)
             PROVE  IInv'
  BY DEF OperatorCall
<1>1. ASSUME NEW b \in Agents, NEW r \in RoomChoices, OperatorAcceptProposal(t, b, r)
      PROVE  IInv'
  BY <1>1, AcceptInv DEF OperatorAcceptProposal
<1>2. CASE OperatorResolves(t)
  <2>1. \/ Transit(t, "RejectProposal")
        \/ Transit(t, "OperatorForceAccept")
        \/ Transit(t, "OperatorForceFail")
    BY <1>2 DEF OperatorResolves
  <2>2. /\ status[t] \in Status \ Closed
        /\ \/ status' = [status EXCEPT ![t] = "failed"]
           \/ status[t] = "awaiting_review" /\ status' = [status EXCEPT ![t] = "done"]
    BY <2>1, Transits DEF Status, Closed
  <2>3. QED
    BY <1>2, <2>2, SettleInv DEF OperatorResolves, Status, avatars
<1>3. ASSUME NEW s \in Startups, NEW b \in Agents \cup {NoAgent},
             NEW p \in Tasks \cup {NoTask}, NEW k \in Tasks \cup {NoTask},
             NEW r \in RoomChoices, CreateTask(t, s, b, p, r, k)
      PROVE  IInv'
  BY <1>3, InsertInv DEF CreateTask, Created
<1>4. QED
  BY <1>1, <1>2, <1>3

\* What the environment may disturb is who is there and who is working.
LEMMA EnvironmentInv == IInv /\ Environment => IInv'
<1> SUFFICES ASSUME IInv, Environment PROVE IInv'
  OBVIOUS
<1> USE DEF IInv
<1>1. /\ UNCHANGED rows
      /\ tick' \in {tick, Ready}
      /\ \A a \in Agents : avatar'[a] = "working" => avatar[a] = "working"
  BY DEF Environment, RegisterWorker, UnregisterWorker, MoveIntent, BudgetCloses,
         BudgetOpens, ReleaseSuite, Restart, LoopReady, avatars, Absent
<1>2. TypeOK'
  <2>1. avatar' \in [Agents -> {"absent", "idle", "working"}]
    BY DEF TypeOK, Environment, RegisterWorker, UnregisterWorker, MoveIntent, BudgetCloses,
           BudgetOpens, ReleaseSuite, Restart, avatars, Absent
  <2>2. at' \in [Agents -> Rooms] /\ bus' \subseteq Agents /\ gated' \subseteq Startups
    BY DEF TypeOK, Environment, RegisterWorker, UnregisterWorker, MoveIntent, BudgetCloses,
           BudgetOpens, ReleaseSuite, Restart, avatars
  <2>3. path' \in [Agents -> Rooms \cup {NoRoom}]
    BY DEF TypeOK, Environment, RegisterWorker, UnregisterWorker, MoveIntent, BudgetCloses,
           BudgetOpens, ReleaseSuite, Restart, avatars
  <2>4. QED
    BY <1>1, <2>1, <2>2, <2>3 DEF TypeOK, rows, Ready
<1>3. SnapshotHolds'
  BY <1>1 DEF SnapshotHolds, rows, Ready
<1>4. ProposalsUnassigned' /\ AssigneeInStartup' /\ OpenWorkIsFresh'
  BY <1>1 DEF ProposalsUnassigned, AssigneeInStartup, OpenWorkIsFresh, Created, rows
<1>5. WorkingAgentHasTask'
  BY <1>1 DEF WorkingAgentHasTask, Created, rows
<1>6. QED
  BY <1>2, <1>3, <1>4, <1>5
\* The beginning of a tick, and of each of its passes, takes a snapshot.
LEMMA PassInv ==
  ASSUME IInv,
         \/ \E arriving \in SUBSET Agents : BeginTick(arriving)
         \/ \E stale \in SUBSET Tasks : BeginSteal(stale)
         \/ BeginRecovery
         \/ EndTick
  PROVE  IInv'
<1> USE DEF IInv
<1>1. UNCHANGED <<rows, avatar, bus, gated>>
  BY DEF BeginTick, BeginSteal, BeginRecovery, EndTick, avatars
<1>2. /\ tick' \in [pass : {"none", "dispatch", "steal", "recover"}, todo : SUBSET Tasks]
      /\ \A t \in tick'.todo :
           /\ assignee[t] # NoAgent
           /\ tick'.pass \in {"dispatch", "steal"} => status[t] = "queued"
           /\ tick'.pass = "recover" => status[t] = "changes_requested"
  BY DEF BeginTick, BeginSteal, BeginRecovery, EndTick, QueuedRows, Ready
<1>3. at' \in [Agents -> Rooms] /\ path' \in [Agents -> Rooms \cup {NoRoom}]
  BY DEF BeginTick, BeginSteal, BeginRecovery, EndTick, TypeOK, avatars
<1>4. TypeOK'
  BY <1>1, <1>2, <1>3 DEF TypeOK, rows
<1>5. SnapshotHolds'
  BY <1>1, <1>2 DEF SnapshotHolds, rows
<1>6. ProposalsUnassigned' /\ AssigneeInStartup' /\ OpenWorkIsFresh' /\ WorkingAgentHasTask'
  BY <1>1 DEF ProposalsUnassigned, AssigneeInStartup, OpenWorkIsFresh,
              WorkingAgentHasTask, Created, rows
<1>7. QED
  BY <1>4, <1>5, <1>6

\* What turning to a row does to the tick.
LEMMA RowTurns ==
  ASSUME IInv, NEW t \in Tasks, NEW pass, Row(pass, t)
  PROVE  /\ tick' \in [pass : {"none", "dispatch", "steal", "recover"}, todo : SUBSET Tasks]
         /\ tick'.pass = tick.pass /\ tick.pass = pass
         /\ t \in tick.todo /\ tick'.todo = tick.todo \ {t}
  BY DEF Row, IInv, TypeOK

\* A row that is passed over changes no status, no assignee and no avatar's.
LEMMA PassedOverInv ==
  ASSUME IInv, NEW t \in Tasks, NEW pass, Row(pass, t),
         UNCHANGED <<status, startup, parent, assignee, required, round,
                     avatar, at, bus, gated>>,
         blockedOn' \in [Tasks -> Tasks \cup {NoTask}],
         path' \in [Agents -> Rooms \cup {NoRoom}]
  PROVE  IInv'
<1> USE DEF IInv
<1>1. TypeOK'
  BY RowTurns DEF TypeOK
<1>2. SnapshotHolds'
  BY RowTurns DEF SnapshotHolds
<1>3. ProposalsUnassigned' /\ AssigneeInStartup' /\ OpenWorkIsFresh' /\ WorkingAgentHasTask'
  BY DEF ProposalsUnassigned, AssigneeInStartup, OpenWorkIsFresh,
         WorkingAgentHasTask, Created
<1>4. QED
  BY <1>1, <1>2, <1>3

LEMMA TickRowInv ==
  ASSUME IInv, NEW t \in Tasks
  PROVE  /\ SkipRow(t) => IInv'
         /\ SendToRoom(t) => IInv'
         /\ HoldRow(t) => IInv'
         /\ Dispatch(t) => IInv'
         /\ DispatchFails(t) => IInv'
         /\ StealRow(t) => IInv'
         /\ KeepRow(t) => IInv'
         /\ RecoverRow(t) => IInv'
         /\ GiveUpRow(t) => IInv'
<1>1. ASSUME \/ SkipRow(t) \/ KeepRow(t) \/ GiveUpRow(t) PROVE IInv'
  BY <1>1, PassedOverInv DEF SkipRow, KeepRow, GiveUpRow, rows, avatars, IInv, TypeOK
<1>2. ASSUME SendToRoom(t) PROVE IInv'
  BY <1>2, PassedOverInv DEF SendToRoom, Unblocked, IInv, TypeOK
<1>3. ASSUME HoldRow(t) PROVE IInv'
  BY <1>3, PassedOverInv DEF HoldRow, Unblocked, IInv, TypeOK
<1>4. ASSUME Dispatch(t) \/ DispatchFails(t) PROVE IInv'
  <2> USE DEF IInv
  <2>1. /\ Row("dispatch", t)
        /\ avatar[assignee[t]] = "idle"
        /\ blockedOn' = [blockedOn EXCEPT ![t] = NoTask]
        /\ UNCHANGED <<startup, parent, assignee, required, round,
                       at, path, bus, gated>>
    BY <1>4 DEF Dispatch, DispatchFails, Sendable, Unblocked
  <2>2. \/ /\ status' = [status EXCEPT ![t] = "in_progress"]
           /\ avatar' = [avatar EXCEPT ![assignee[t]] = "working"]
        \/ /\ status' = [status EXCEPT ![t] = "queued"]
           /\ avatar' = [avatar EXCEPT ![assignee[t]] = "idle"]
    BY <1>4 DEF Dispatch, DispatchFails
  <2>3. status[t] = "queued" /\ assignee[t] \in Agents
    BY <2>1, RowTurns DEF SnapshotHolds, TypeOK
  <2>4. TypeOK'
    BY <2>1, <2>2, RowTurns DEF TypeOK, Status
  <2>5. SnapshotHolds'
    BY <2>1, <2>2, RowTurns DEF SnapshotHolds, TypeOK
  <2>6. ProposalsUnassigned' /\ OpenWorkIsFresh'
    BY <2>1, <2>2, <2>3 DEF ProposalsUnassigned, OpenWorkIsFresh, TypeOK
  <2>7. AssigneeInStartup'
    BY <2>1, <2>2, <2>3 DEF AssigneeInStartup, Created, TypeOK, Absent
  <2>8. WorkingAgentHasTask'
    BY <2>1, <2>2, <2>3 DEF WorkingAgentHasTask, Created, TypeOK, Absent
  <2>9. QED
    BY <2>4, <2>5, <2>6, <2>7, <2>8
<1>5. ASSUME StealRow(t) PROVE IInv'
  <2>1. PICK p \in Peers(t) : assignee' = [assignee EXCEPT ![t] = p]
    BY <1>5 DEF StealRow
  <2>2. status[t] = "queued" /\ Row("steal", t)
    BY <1>5, RowTurns DEF StealRow, IInv, SnapshotHolds
  <2>3. /\ status' = [status EXCEPT ![t] = "queued"]
        /\ round' = [round EXCEPT ![t] = 0]
    BY <1>5, <2>2 DEF StealRow, IInv, TypeOK, OpenWorkIsFresh
  <2>4. QED
    BY <1>5, <2>1, <2>2, <2>3, RowTurns, HandoverInv DEF StealRow, Peers, IInv, TypeOK
<1>6. ASSUME RecoverRow(t) PROVE IInv'
  <2>1. PICK p \in Peers(t) : assignee' = [assignee EXCEPT ![t] = p]
    BY <1>6 DEF RecoverRow
  <2>2. status[t] = "changes_requested" /\ Row("recover", t)
    BY <1>6, RowTurns DEF RecoverRow, IInv, SnapshotHolds
  <2>3. QED
    BY <1>6, <2>1, <2>2, RowTurns, HandoverInv DEF RecoverRow, Peers, IInv, TypeOK
<1>7. QED
  BY <1>1, <1>2, <1>3, <1>4, <1>5, <1>6

LEMMA StepInv == IInv /\ [Next]_vars => IInv'
<1> SUFFICES ASSUME IInv, [Next]_vars PROVE IInv'
  OBVIOUS
<1>1. CASE AgentCall
  BY <1>1, AgentCallInv DEF AgentCall
<1>2. CASE OperatorCall
  BY <1>2, OperatorCallInv
<1>3. CASE Environment
  BY <1>3, EnvironmentInv
<1>4. CASE \E arriving \in SUBSET Agents : BeginTick(arriving)
  BY <1>4, PassInv
<1>5. CASE TickStep
  <2>1. CASE TickRow
    BY <2>1, TickRowInv DEF TickRow
  <2>2. QED
    BY <1>5, <2>1, PassInv DEF TickStep
<1>6. CASE UNCHANGED vars
  BY <1>6 DEF vars, rows, avatars, IInv, TypeOK, SnapshotHolds, ProposalsUnassigned,
              AssigneeInStartup, OpenWorkIsFresh, WorkingAgentHasTask, Created
<1>7. QED
  BY <1>1, <1>2, <1>3, <1>4, <1>5, <1>6 DEF Next

LEMMA Invariance == Spec => []IInv
  BY InitInv, StepInv, PTL DEF Spec

-----------------------------------------------------------------------------
(* The theorems.                                                           *)

\* The rows of the table and the loop's memory keep their types; in
\* particular review_round never passes MAX_REVIEW_ROUNDS.
THEOREM TypeCorrect == Spec => []TypeOK
<1>1. IInv => TypeOK
  BY DEF IInv
<1>2. QED
  BY <1>1, Invariance, PTL

\* A tick never acts on a row that has changed since its SELECT.
THEOREM SnapshotCorrect == Spec => []SnapshotHolds
<1>1. IInv => SnapshotHolds
  BY DEF IInv
<1>2. QED
  BY <1>1, Invariance, PTL

\* A proposal has no assignee.
THEOREM ProposalsFree == Spec => []ProposalsUnassigned
<1>1. IInv => ProposalsUnassigned
  BY DEF IInv
<1>2. QED
  BY <1>1, Invariance, PTL

\* No task is ever assigned outside its startup.
THEOREM TenantIsolation == Spec => []AssigneeInStartup
<1>1. IInv => AssigneeInStartup
  BY DEF IInv
<1>2. QED
  BY <1>1, Invariance, PTL

\* Work that is not yet reviewed has no review round behind it.
THEOREM FreshWork == Spec => []OpenWorkIsFresh
<1>1. IInv => OpenWorkIsFresh
  BY DEF IInv
<1>2. QED
  BY <1>1, Invariance, PTL

\* A busy agent has a task to be busy with, or one that was failed under it.
THEOREM NoTaskLost == Spec => []WorkingAgentHasTask
<1>1. IInv => WorkingAgentHasTask
  BY DEF IInv
<1>2. QED
  BY <1>1, Invariance, PTL
-----------------------------------------------------------------------------
(* What a step may not do.                                                 *)

\* Steps of agents and operators that write no assignee.
OtherCall(t) ==
  \/ \E a \in Agents :
       \/ TaskDone(a, t) \/ TaskFailed(a, t) \/ RejectProposal(a, t) \/ TaskAccept(a, t)
       \/ RequestChanges(a, t) \/ EscalateAtCap(a, t)
       \/ \E b \in Tasks \cup {NoTask} : SetBlocking(a, t, b)
  \/ OperatorResolves(t)

\* An INSERT, and an accepted proposal, as both their callers make them.
Inserts(t) ==
  /\ status[t] = Absent
  /\ \E st \in {"proposed", "queued"} : status' = [status EXCEPT ![t] = st]
  /\ \E a \in Agents \cup {NoAgent} : assignee' = [assignee EXCEPT ![t] = a]
  /\ \E b \in Tasks \cup {NoTask} : blockedOn' = [blockedOn EXCEPT ![t] = b]
  /\ round' = round

Accepts(t) ==
  /\ LoopReady
  /\ status[t] = "proposed"
  /\ status' = [status EXCEPT ![t] = "queued"]
  /\ \E b \in Agents : assignee' = [assignee EXCEPT ![t] = b]
  /\ UNCHANGED <<round, blockedOn>>

\* Every step is one of these.
LEMMA Steps ==
  ASSUME IInv, Next
  PROVE  \/ \E t \in Tasks :
              \/ Inserts(t) \/ Accepts(t) \/ OtherCall(t)
              \/ \E a \in Agents : TaskSteal(a, t)
              \/ SendToRoom(t) \/ HoldRow(t) \/ Dispatch(t) \/ DispatchFails(t)
              \/ StealRow(t) \/ RecoverRow(t)
         \/ UNCHANGED rows
<1>1. ASSUME NEW t \in Tasks, NEW s \in Startups, NEW p, NEW st \in {"proposed", "queued"},
             NEW a \in Assignable(s) \cup {NoAgent}, NEW r, NEW b \in Tasks \cup {NoTask},
             Insert(t, s, p, st, a, r, b)
      PROVE  Inserts(t)
  BY <1>1 DEF Insert, Inserts, Assignable
<1>2. To([kind |-> "SubtaskCreate", caller |-> "Manager"]) = "queued"
      /\ To([kind |-> "SubtaskCreate", caller |-> "NonManager"]) = "proposed"
  BY DEF To
<1>3. CASE AgentCall
  <2>1. PICK a \in Agents, t \in Tasks :
          \/ TaskDone(a, t) \/ TaskFailed(a, t)
          \/ \E p \in Tasks, r \in RoomChoices :
               \/ \E b \in Agents \cup {NoAgent} : SubtaskQueued(a, p, t, b, r)
               \/ SubtaskProposed(a, p, t, r)
          \/ \E b \in Agents, r \in RoomChoices : AcceptProposal(a, t, b, r)
          \/ RejectProposal(a, t) \/ TaskAccept(a, t)
          \/ RequestChanges(a, t) \/ EscalateAtCap(a, t)
          \/ \E b \in Tasks \cup {NoTask} : SetBlocking(a, t, b)
          \/ TaskSteal(a, t)
    BY <1>3 DEF AgentCall
  <2>2. ASSUME NEW p \in Tasks, NEW r \in RoomChoices, NEW b \in Agents \cup {NoAgent},
               SubtaskQueued(a, p, t, b, r)
        PROVE  Inserts(t)
    <3>1. Insert(t, StartupOf[a], p, "queued", b, r, NoTask) /\ StartupOf[a] \in Startups
      BY <1>2, <2>2, RosterAssumption DEF SubtaskQueued
    <3>2. b \in Assignable(StartupOf[a]) \cup {NoAgent}
      BY <2>2 DEF SubtaskQueued
    <3>3. QED
      BY <1>1, <3>1, <3>2
  <2>3. ASSUME NEW p \in Tasks, NEW r \in RoomChoices, SubtaskProposed(a, p, t, r)
        PROVE  Inserts(t)
    BY <1>1, <1>2, <2>3 DEF SubtaskProposed
  <2>4. ASSUME NEW b \in Agents, NEW r \in RoomChoices, AcceptProposal(a, t, b, r)
        PROVE  Accepts(t)
    BY <2>4, Transits DEF AcceptProposal, Calls, Accepts
  <2>5. QED
    BY <2>1, <2>2, <2>3, <2>4 DEF OtherCall
<1>4. CASE OperatorCall
  <2>1. PICK t \in Tasks :
          \/ \E b \in Agents, r \in RoomChoices : OperatorAcceptProposal(t, b, r)
          \/ OperatorResolves(t)
          \/ \E s \in Startups, b \in Agents \cup {NoAgent}, p, k \in Tasks \cup {NoTask},
                r \in RoomChoices : CreateTask(t, s, b, p, r, k)
    BY <1>4 DEF OperatorCall
  <2>2. ASSUME NEW b \in Agents, NEW r \in RoomChoices, OperatorAcceptProposal(t, b, r)
        PROVE  Accepts(t)
    BY <2>2, Transits DEF OperatorAcceptProposal, Accepts
  <2>3. ASSUME NEW s \in Startups, NEW b \in Agents \cup {NoAgent},
               NEW p \in Tasks \cup {NoTask}, NEW k \in Tasks \cup {NoTask},
               NEW r \in RoomChoices, CreateTask(t, s, b, p, r, k)
        PROVE  Inserts(t)
    BY <1>1, <2>3 DEF CreateTask
  <2>4. QED
    BY <2>1, <2>2, <2>3 DEF OtherCall
<1>5. CASE Environment
  BY <1>5 DEF Environment, RegisterWorker, UnregisterWorker, MoveIntent, BudgetCloses,
              BudgetOpens, ReleaseSuite, Restart
<1>6. CASE \E arriving \in SUBSET Agents : BeginTick(arriving)
  BY <1>6 DEF BeginTick
<1>7. CASE TickStep
  BY <1>7 DEF TickStep, TickRow, SkipRow, KeepRow, GiveUpRow, BeginSteal, BeginRecovery,
              EndTick
<1>8. QED
  BY <1>3, <1>4, <1>5, <1>6, <1>7 DEF Next
\* The status changes of the other calls, column by column.
LEMMA OtherCalls ==
  ASSUME IInv, NEW t \in Tasks, OtherCall(t)
  PROVE  /\ LoopReady
         /\ assignee' = assignee
         /\ \/ /\ status' = status /\ round' = round
            \/ /\ blockedOn' = blockedOn
               /\ \/ /\ status[t] \in {"in_progress", "changes_requested"}
                     /\ status' = [status EXCEPT ![t] = "awaiting_review"]
                     /\ round' = round
                  \/ /\ status[t] \in Status \ Closed
                     /\ status' = [status EXCEPT ![t] = "failed"]
                     /\ round' = round
                  \/ /\ status[t] = "awaiting_review"
                     /\ status' = [status EXCEPT ![t] = "done"]
                     /\ round' = round
                  \/ /\ status[t] = "awaiting_review" /\ RoundsLeft(t)
                     /\ status' = [status EXCEPT ![t] = "changes_requested"]
                     /\ round' = [round EXCEPT ![t] = @ + 1]
                  \/ /\ status[t] \in Status \ Closed /\ ~RoundsLeft(t)
                     /\ status' = [status EXCEPT ![t] = "escalated"]
                     /\ round' = round
<1>1. CASE OperatorResolves(t)
  <2>1. \/ Transit(t, "RejectProposal")
        \/ Transit(t, "OperatorForceAccept")
        \/ Transit(t, "OperatorForceFail")
    BY <1>1 DEF OperatorResolves
  <2>2. QED
    BY <1>1, <2>1, Transits DEF OperatorResolves, Status, Closed
<1>2. ASSUME NEW a \in Agents,
             \/ TaskDone(a, t) \/ TaskFailed(a, t) \/ RejectProposal(a, t) \/ TaskAccept(a, t)
             \/ \E b \in Tasks \cup {NoTask} : SetBlocking(a, t, b)
      PROVE  /\ LoopReady /\ UNCHANGED <<assignee, round>>
             /\ \/ status' = status
                \/ /\ blockedOn' = blockedOn
                   /\ \/ /\ status[t] \in {"in_progress", "changes_requested"}
                         /\ status' = [status EXCEPT ![t] = "awaiting_review"]
                      \/ /\ status[t] \in Status \ Closed
                         /\ status' = [status EXCEPT ![t] = "failed"]
                      \/ /\ status[t] = "awaiting_review"
                         /\ status' = [status EXCEPT ![t] = "done"]
  BY <1>2, Transits DEF TaskDone, TaskFailed, RejectProposal, TaskAccept, SetBlocking,
                        Calls, Status, Closed
<1>3. ASSUME NEW a \in Agents, RequestChanges(a, t) \/ EscalateAtCap(a, t)
      PROVE  /\ LoopReady /\ UNCHANGED <<assignee, blockedOn>>
             /\ \/ /\ status[t] = "awaiting_review" /\ RoundsLeft(t)
                   /\ status' = [status EXCEPT ![t] = "changes_requested"]
                   /\ round' = [round EXCEPT ![t] = @ + 1]
                \/ /\ status[t] \in Status \ Closed /\ ~RoundsLeft(t)
                   /\ status' = [status EXCEPT ![t] = "escalated"]
                   /\ round' = round
  BY <1>3, Transits DEF RequestChanges, EscalateAtCap, Reviews, Calls
<1>4. QED
  BY <1>1, <1>2, <1>3 DEF OtherCall

\* A queued or sent-back task, and no other, is handed over, to an agent with
\* the role of the one that had it.
THEOREM RoleKept == Spec => HandoversKeepRole
<1> DEFINE Kept ==
      \A t \in Created :
        assignee[t] # NoAgent /\ assignee'[t] # assignee[t] =>
          /\ assignee'[t] # NoAgent
          /\ status[t] \in {"queued", "changes_requested"}
          /\ RoleOf[assignee'[t]] = RoleOf[assignee[t]]
<1>1. ASSUME IInv, [Next]_vars PROVE [Kept]_vars
  <2> USE DEF IInv
  <2>1. SUFFICES ASSUME Next PROVE Kept
    BY <1>1
  <2>2. ASSUME NEW t \in Tasks, Inserts(t) \/ Accepts(t) PROVE Kept
    BY <1>1, <2>2 DEF Inserts, Accepts, Created, TypeOK, ProposalsUnassigned, Absent
  <2>3. ASSUME NEW t \in Tasks, OtherCall(t) PROVE Kept
    BY <1>1, <2>3, OtherCalls
  <2>4. ASSUME NEW t \in Tasks, NEW a \in Agents, TaskSteal(a, t) PROVE Kept
    BY <1>1, <2>4 DEF TaskSteal, TypeOK
  <2>5. ASSUME NEW t \in Tasks, \/ SendToRoom(t) \/ HoldRow(t) \/ Dispatch(t)
                                \/ DispatchFails(t)
        PROVE  Kept
    BY <2>5 DEF SendToRoom, HoldRow, Dispatch, DispatchFails, Sendable, Unblocked
  <2>6. ASSUME NEW t \in Tasks, StealRow(t) \/ RecoverRow(t) PROVE Kept
    <3>1. PICK p \in Peers(t) : assignee' = [assignee EXCEPT ![t] = p]
      BY <2>6 DEF StealRow, RecoverRow
    <3>2. status[t] \in {"queued", "changes_requested"}
      BY <1>1, <2>6 DEF StealRow, RecoverRow, Row, SnapshotHolds
    <3>3. QED
      BY <1>1, <3>1, <3>2 DEF Peers, TypeOK
  <2>7. CASE UNCHANGED rows
    BY <2>7 DEF rows
  <2>8. QED
    BY <1>1, <2>1, <2>2, <2>3, <2>4, <2>5, <2>6, <2>7, Steps
<1>2. QED
  BY <1>1, Invariance, PTL DEF Spec, HandoversKeepRole

\* blocked_on holds a task back until its blocker is done, failed or escalated.
THEOREM BlockersObeyed == Spec => BlockersHold
<1> DEFINE Obeyed ==
      \A t \in Created :
        \/ status[t] = "queued" /\ status'[t] = "in_progress"
        \/ ~LoopReady /\ blockedOn'[t] # blockedOn[t]
        => ~Blocked(t)
<1>1. ASSUME IInv, [Next]_vars PROVE [Obeyed]_vars
  <2> USE DEF IInv
  <2>1. SUFFICES ASSUME Next PROVE Obeyed
    BY <1>1
  <2>2. ASSUME NEW t \in Tasks, Inserts(t) \/ Accepts(t) PROVE Obeyed
    BY <1>1, <2>2 DEF Inserts, Accepts, Created, TypeOK
  <2>3. ASSUME NEW t \in Tasks, OtherCall(t) PROVE Obeyed
    <3>1. LoopReady /\ \A u \in Tasks : status'[u] # "in_progress" \/ status'[u] = status[u]
      BY <1>1, <2>3, OtherCalls DEF TypeOK
    <3>2. QED
      BY <3>1 DEF Created
  <2>4. ASSUME NEW t \in Tasks, NEW a \in Agents, TaskSteal(a, t) PROVE Obeyed
    BY <1>1, <2>4 DEF TaskSteal, Created
  <2>5. ASSUME NEW t \in Tasks, \/ SendToRoom(t) \/ HoldRow(t) \/ Dispatch(t)
                                \/ DispatchFails(t)
        PROVE  Obeyed
    <3>1. ~Blocked(t) /\ blockedOn' = [blockedOn EXCEPT ![t] = NoTask]
      BY <2>5 DEF SendToRoom, HoldRow, Dispatch, DispatchFails, Sendable, Unblocked
    <3>2. \/ status' = status
          \/ \E st \in {"in_progress", "queued"} : status' = [status EXCEPT ![t] = st]
      BY <2>5 DEF SendToRoom, HoldRow, Dispatch, DispatchFails
    <3>3. \A u \in Tasks \ {t} : status'[u] = status[u] /\ blockedOn'[u] = blockedOn[u]
      BY <1>1, <3>1, <3>2 DEF TypeOK
    <3>4. QED
      BY <3>1, <3>3 DEF Created
  <2>6. ASSUME NEW t \in Tasks, StealRow(t) \/ RecoverRow(t) PROVE Obeyed
    <3>1. /\ blockedOn' = blockedOn
          /\ status' = status \/ status' = [status EXCEPT ![t] = "queued"]
      BY <2>6 DEF StealRow, RecoverRow
    <3>2. \A u \in Tasks : status'[u] # "in_progress" \/ status'[u] = status[u]
      BY <1>1, <3>1 DEF TypeOK
    <3>3. QED
      BY <3>1, <3>2 DEF Created
  <2>7. CASE UNCHANGED rows
    BY <2>7 DEF rows
  <2>8. QED
    BY <1>1, <2>1, <2>2, <2>3, <2>4, <2>5, <2>6, <2>7, Steps
<1>2. QED
  BY <1>1, Invariance, PTL DEF Spec, BlockersHold
-----------------------------------------------------------------------------
(* The board implements the review cycle of each of its tasks.             *)

\* Every step of the board is, for one task, a step of ReviewCycle, or leaves
\* every status and every review_round alone.
THEOREM Refinement == Spec => CycleSpec
<1>1. Init => Cycle!Init
  BY DEF Init, Cycle!Init, Absent
<1>2. ASSUME IInv, [Next]_vars PROVE [Cycle!Next]_(Cycle!vars)
  <2> USE DEF IInv, Cycle!Move
  <2>1. CASE UNCHANGED vars
    BY <2>1 DEF Cycle!vars, vars, rows
  <2>2. ASSUME NEW t \in Tasks, Inserts(t) PROVE Cycle!Create(t)
    <3>1. PICK st \in {"proposed", "queued"} : status' = [status EXCEPT ![t] = st]
      BY <2>2 DEF Inserts
    <3>2. status[t] = "absent" /\ round' = round
      BY <2>2 DEF Inserts, Absent
    <3>3. round' = [round EXCEPT ![t] = 0]
      BY <1>2, <3>2 DEF TypeOK, OpenWorkIsFresh
    <3>4. QED
      BY <3>1, <3>2, <3>3 DEF Cycle!Create
  <2>3. ASSUME NEW t \in Tasks, Accepts(t) PROVE Cycle!Accept(t)
    BY <1>2, <2>3 DEF Accepts, Cycle!Accept, TypeOK, OpenWorkIsFresh
  <2>4. ASSUME NEW t \in Tasks, OtherCall(t)
        PROVE  \/ UNCHANGED Cycle!vars
               \/ Cycle!Submit(t) \/ Cycle!Fail(t) \/ Cycle!Approve(t)
               \/ Cycle!Bounce(t) \/ Cycle!Escalate(t)
    <3>1. ASSUME round' = round,
                 \/ /\ status[t] \in {"in_progress", "changes_requested"}
                    /\ status' = [status EXCEPT ![t] = "awaiting_review"]
                 \/ /\ status[t] \in Status \ Closed
                    /\ status' = [status EXCEPT ![t] = "failed"]
                 \/ /\ status[t] = "awaiting_review"
                    /\ status' = [status EXCEPT ![t] = "done"]
          PROVE  Cycle!Submit(t) \/ Cycle!Fail(t) \/ Cycle!Approve(t)
      BY <1>2, <3>1 DEF Cycle!Submit, Cycle!Fail, Cycle!Approve, TypeOK, Status, Closed
    <3>2. ASSUME status[t] = "awaiting_review", RoundsLeft(t),
                 status' = [status EXCEPT ![t] = "changes_requested"],
                 round' = [round EXCEPT ![t] = @ + 1]
          PROVE  Cycle!Bounce(t)
      BY <1>2, <3>2 DEF RoundsLeft, Cycle!Bounce, TypeOK
    <3>3. ASSUME status[t] \in Status \ Closed, ~RoundsLeft(t),
                 status' = [status EXCEPT ![t] = "escalated"], round' = round
          PROVE  Cycle!Escalate(t) \/ UNCHANGED Cycle!vars
      <4>1. round[t] = MaxReviewRounds /\ round[t] # 0
        BY <1>2, <3>3 DEF RoundsLeft, TypeOK
      <4>2. status[t] \in {"awaiting_review", "changes_requested", "escalated"}
        BY <1>2, <3>3, <4>1 DEF OpenWorkIsFresh, Status, Closed
      <4>3. round' = [round EXCEPT ![t] = round[t]]
        BY <1>2, <3>3 DEF TypeOK
      <4>4. status[t] = "escalated" => status' = status
        BY <1>2, <3>3 DEF TypeOK
      <4>5. QED
        BY <3>3, <4>1, <4>2, <4>3, <4>4 DEF Cycle!Escalate, Cycle!vars
    <3>4. QED
      BY <1>2, <2>4, <3>1, <3>2, <3>3, OtherCalls DEF Cycle!vars
  <2>5. ASSUME NEW t \in Tasks, NEW a \in Agents, TaskSteal(a, t) PROVE UNCHANGED Cycle!vars
    BY <2>5 DEF TaskSteal, Cycle!vars
  <2>6. ASSUME NEW t \in Tasks, SendToRoom(t) \/ HoldRow(t) PROVE UNCHANGED Cycle!vars
    BY <2>6 DEF SendToRoom, HoldRow, Unblocked, Cycle!vars
  <2>7. ASSUME NEW t \in Tasks, Dispatch(t) \/ DispatchFails(t)
        PROVE  Cycle!Start(t) \/ UNCHANGED Cycle!vars
    <3>1. status[t] = "queued" /\ round' = round
      BY <1>2, <2>7 DEF Dispatch, DispatchFails, Sendable, Unblocked, Row, SnapshotHolds
    <3>2. round' = [round EXCEPT ![t] = 0]
      BY <1>2, <3>1 DEF TypeOK, OpenWorkIsFresh
    <3>3. CASE Dispatch(t)
      BY <3>1, <3>2, <3>3 DEF Dispatch, Cycle!Start
    <3>4. CASE DispatchFails(t)
      BY <1>2, <3>1, <3>4 DEF DispatchFails, Cycle!vars, TypeOK
    <3>5. QED
      BY <2>7, <3>3, <3>4
  <2>8. ASSUME NEW t \in Tasks, StealRow(t) PROVE UNCHANGED Cycle!vars
    BY <2>8 DEF StealRow, Cycle!vars
  <2>9. ASSUME NEW t \in Tasks, RecoverRow(t) PROVE Cycle!StartOver(t)
    BY <1>2, <2>9 DEF RecoverRow, Row, SnapshotHolds, Cycle!StartOver
  <2>10. CASE UNCHANGED rows
    BY <2>10 DEF rows, Cycle!vars
  <2>11. CASE Next
    BY <1>2, <2>11, <2>2, <2>3, <2>4, <2>5, <2>6, <2>7, <2>8, <2>9, <2>10, Steps
       DEF Cycle!Next
  <2>12. QED
    BY <1>2, <2>1, <2>11
<1>3. QED
  BY <1>1, <1>2, Invariance, PTL DEF Spec, CycleSpec, Cycle!Spec
=============================================================================
