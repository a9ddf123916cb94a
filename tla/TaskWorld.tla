------------------------------ MODULE TaskWorld ------------------------------
(***************************************************************************)
(* The world loop's task board: the rows of the `tasks` table, the avatars *)
(* the loop holds in memory, the scheduler's tick and every MCP, console   *)
(* and HTTP handler that writes one of them.                               *)
(*                                                                         *)
(* The loop (loop_.rs) takes one command off its channel at a time, so a   *)
(* handler is one action.  A tick is split into its rows: `tick` says      *)
(* which of its passes is running and which rows of that pass's SELECT are *)
(* still to be looked at.  No other command runs in between, but the HTTP  *)
(* handlers (create a task, change a budget cap) do, because they write    *)
(* the same tables without going through the loop.                         *)
(***************************************************************************)
EXTENDS TaskSM, Naturals

CONSTANTS
  Agents,           \* rows of `agents`; the roster is fixed
  Tasks,            \* task ids that may be created
  Startups,
  Rooms,
  StartupOf,        \* agents.startup_id
  RoleOf,           \* agents.role
  ManagerOf,        \* agents.manager_id, or NoAgent
  PeerReviewers,    \* agents with is_peer_reviewer = 1
  HomeOf,           \* the room an avatar starts in
  RoomChoices,      \* required_room values that requests carry
  EnterableBy,      \* the rooms start_move lets a startup's agents into
  NoAgent, NoTask, NoRoom,
  MaxReviewRounds,  \* mcp_dispatch::MAX_REVIEW_ROUNDS
  AutoSteal,        \* startups with auto_steal_enabled = 1
  AutoRecovery,     \* startups with auto_recovery_enabled = 1
  MaxAttempts,      \* startups.auto_recovery_max_attempts
  Metered,          \* startups whose spend crosses the dispatch gate
  Flaky,            \* agents whose worker connects and disconnects
  Lossy,            \* agents whose try_send, or whose spawn, may fail
  Wanderers,        \* agents that call move_intent
  Dissolvable,      \* startups an operator may delete
  MayRestart,       \* whether the world process may be restarted
  PerTask           \* CLIPTOWN_PER_TASK_WORKERS=1: a worker per task

ASSUME RosterAssumption ==
  /\ Startups # {}
  /\ StartupOf \in [Agents -> Startups]
  /\ ManagerOf \in [Agents -> Agents \cup {NoAgent}]
  /\ PeerReviewers \subseteq Agents
  /\ HomeOf \in [Agents -> Rooms]
  /\ RoomChoices \subseteq Rooms \cup {NoRoom}
  /\ EnterableBy \in [Startups -> SUBSET Rooms]
  /\ NoAgent \notin Agents
  /\ NoTask \notin Tasks
  /\ NoRoom \notin Rooms

ASSUME LimitAssumption ==
  /\ MaxReviewRounds \in Nat \ {0}
  /\ MaxAttempts \in Nat \ {0}
  /\ PerTask \in BOOLEAN

VARIABLES
  status,       \* tasks.status, "absent" before the row exists
  startup,      \* tasks.startup_id
  parent,       \* tasks.parent_id
  assignee,     \* tasks.assignee_agent_id
  required,     \* tasks.required_room
  blockedOn,    \* tasks.blocked_on
  round,        \* tasks.review_round
  avatar,       \* the avatar's status in WorldView, "absent" if not there
  at,           \* the avatar's room_id
  path,         \* the room its path in flight leads to, or NoRoom
  bus,          \* agents with an out_bus entry
  gated,        \* startups whose spend is at 95% of the cap or more
  tick          \* the tick in progress: its pass and the rows left in it

rows    == <<status, startup, parent, assignee, required, blockedOn, round>>
avatars == <<avatar, at, path>>
vars    == <<rows, avatars, bus, gated, tick>>

Absent == "absent"
Ready  == [pass |-> "none", todo |-> {}]

\* Statuses a blocker may have for its dependents to start: here, unlike in
\* task_sm, "escalated" counts as terminal.
Settled == {"done", "failed", "escalated"}

Created == {t \in Tasks : status[t] # Absent}

\* The loop is between commands.
LoopReady == tick = Ready

TypeOK ==
  /\ status \in [Tasks -> Status \cup {Absent}]
  /\ startup \in [Tasks -> Startups]
  /\ parent \in [Tasks -> Tasks \cup {NoTask}]
  /\ assignee \in [Tasks -> Agents \cup {NoAgent}]
  /\ required \in [Tasks -> Rooms \cup {NoRoom}]
  /\ blockedOn \in [Tasks -> Tasks \cup {NoTask}]
  /\ round \in [Tasks -> 0..MaxReviewRounds]
  /\ avatar \in [Agents -> {"absent", "idle", "working"}]
  /\ at \in [Agents -> Rooms]
  /\ path \in [Agents -> Rooms \cup {NoRoom}]
  /\ bus \subseteq Agents
  /\ gated \subseteq Startups
  /\ tick \in [pass : {"none", "dispatch", "steal", "recover"}, todo : SUBSET Tasks]

-----------------------------------------------------------------------------
(* The state after create_startup's agents have connected: no task yet.    *)

Init ==
  /\ status = [t \in Tasks |-> Absent]
  /\ startup \in [Tasks -> {CHOOSE s \in Startups : TRUE}]
  /\ parent = [t \in Tasks |-> NoTask]
  /\ assignee = [t \in Tasks |-> NoAgent]
  /\ required = [t \in Tasks |-> NoRoom]
  /\ blockedOn = [t \in Tasks |-> NoTask]
  /\ round = [t \in Tasks |-> 0]
  /\ avatar = [a \in Agents |-> "idle"]
  /\ at = HomeOf
  /\ path = [a \in Agents |-> NoRoom]
  /\ bus = Agents
  /\ gated = {}
  /\ tick = Ready

-----------------------------------------------------------------------------
(* Who may ask for what.                                                   *)

\* caller_is_manager_of_task: the parent's assignee, or, for a root task, the
\* manager of its assignee.
IsManagerOf(a, t) ==
  IF parent[t] # NoTask
    THEN assignee[parent[t]] = a
    ELSE assignee[t] # NoAgent /\ ManagerOf[assignee[t]] = a

\* caller_manages_parent.
ManagesParent(a, t) == parent[t] # NoTask /\ assignee[parent[t]] = a

\* Mutant: a call is served in the middle of a tick.
CallsAnytime(a, t) ==
  /\ avatar[a] # Absent
  /\ t \in Created
  /\ startup[t] = StartupOf[a]

\* dispatch's gate on every MCP call: the loop is free and knows the caller,
\* and the row exists and is of the caller's startup.
Calls(a, t) ==
  /\ LoopReady
  /\ avatar[a] # Absent
  /\ t \in Created
  /\ startup[t] = StartupOf[a]

\* Mutant: any agent may be named.
AnyoneAssignable(s) == Agents

\* Agents that may be named as the assignee of a task of startup s.
Assignable(s) == {a \in Agents : StartupOf[a] = s}

\* The row write most handlers share: the status task_sm::next grants.
Transit(t, kind) ==
  /\ next(status[t], Request(kind)) # Illegal
  /\ status' = [status EXCEPT ![t] = next(@, Request(kind))]

\* An INSERT INTO tasks.
Insert(t, s, p, st, a, r, b) ==
  /\ status[t] = Absent
  /\ status' = [status EXCEPT ![t] = st]
  /\ startup' = [startup EXCEPT ![t] = s]
  /\ parent' = [parent EXCEPT ![t] = p]
  /\ assignee' = [assignee EXCEPT ![t] = a]
  /\ required' = [required EXCEPT ![t] = r]
  /\ blockedOn' = [blockedOn EXCEPT ![t] = b]
  /\ UNCHANGED round

-----------------------------------------------------------------------------
(* MCP handlers, called by an agent's CLI.                                 *)

\* handle_task_done, past the artifact path and the self-review gate, which
\* end the call without writing the row's status when they refuse it.
TaskDone(a, t) ==
  /\ Calls(a, t)
  /\ assignee[t] = a
  /\ Transit(t, "TaskDoneMcp")
  /\ avatar' = [avatar EXCEPT ![a] = "idle"]
  /\ UNCHANGED <<startup, parent, assignee, required, blockedOn, round,
                 at, path, bus, gated, tick>>

\* handle_task_failed.
TaskFailed(a, t) ==
  /\ Calls(a, t)
  /\ assignee[t] = a
  /\ Transit(t, "Fail")
  /\ avatar' = [avatar EXCEPT ![a] = "idle"]
  /\ UNCHANGED <<startup, parent, assignee, required, blockedOn, round,
                 at, path, bus, gated, tick>>

\* handle_subtask_create by the parent's assignee: queued, with the assignee
\* it names, if any, of its own startup.
SubtaskQueued(a, p, t, b, r) ==
  /\ Calls(a, p)
  /\ assignee[p] = a
  /\ b \in Assignable(StartupOf[a]) \cup {NoAgent}
  /\ Insert(t, StartupOf[a], p, To([kind |-> "SubtaskCreate", caller |-> "Manager"]),
            b, r, NoTask)
  /\ UNCHANGED <<avatars, bus, gated, tick>>

\* Mutant: a proposal keeps the caller as its assignee.
SubtaskProposedToSelf(a, p, t, r) ==
  /\ Calls(a, p)
  /\ assignee[p] # a
  /\ Insert(t, StartupOf[a], p, To([kind |-> "SubtaskCreate", caller |-> "NonManager"]),
            a, r, NoTask)
  /\ UNCHANGED <<avatars, bus, gated, tick>>

\* handle_subtask_create by anyone else: proposed, and the assignee is dropped.
SubtaskProposed(a, p, t, r) ==
  /\ Calls(a, p)
  /\ assignee[p] # a
  /\ Insert(t, StartupOf[a], p, To([kind |-> "SubtaskCreate", caller |-> "NonManager"]),
            NoAgent, r, NoTask)
  /\ UNCHANGED <<avatars, bus, gated, tick>>

\* handle_accept_proposal.
AcceptProposal(a, t, b, r) ==
  /\ Calls(a, t)
  /\ ManagesParent(a, t)
  /\ b \in Assignable(StartupOf[a])
  /\ Transit(t, "AcceptProposal")
  /\ assignee' = [assignee EXCEPT ![t] = b]
  /\ required' = [required EXCEPT ![t] = r]
  /\ UNCHANGED <<startup, parent, blockedOn, round, avatars, bus, gated, tick>>

\* handle_reject_proposal.
RejectProposal(a, t) ==
  /\ Calls(a, t)
  /\ ManagesParent(a, t)
  /\ Transit(t, "RejectProposal")
  /\ UNCHANGED <<startup, parent, assignee, required, blockedOn, round,
                 avatars, bus, gated, tick>>

\* handle_task_accept.
TaskAccept(a, t) ==
  /\ Calls(a, t)
  /\ IsManagerOf(a, t)
  /\ Transit(t, "TaskAccept")
  /\ UNCHANGED <<startup, parent, assignee, required, blockedOn, round,
                 avatars, bus, gated, tick>>

\* Who may send a task back: its manager, or a peer reviewer that is not its
\* assignee; and the task must have an assignee to send it to.
Reviews(a, t) ==
  /\ Calls(a, t)
  /\ IsManagerOf(a, t) \/ (a \in PeerReviewers /\ assignee[t] # a)
  /\ assignee[t] # NoAgent

\* Mutant: the cap is off by one.
RoundsLeftAtCap(t) == round[t] <= MaxReviewRounds

\* The test of review_round against the cap.
RoundsLeft(t) == round[t] < MaxReviewRounds

\* handle_task_request_changes below the cap: one more round.  The assignee's
\* avatar keeps its status.
RequestChanges(a, t) ==
  /\ Reviews(a, t)
  /\ RoundsLeft(t)
  /\ Transit(t, "RequestChanges")
  /\ round' = [round EXCEPT ![t] = @ + 1]
  /\ UNCHANGED <<startup, parent, assignee, required, blockedOn,
                 avatars, bus, gated, tick>>

\* handle_task_request_changes at the cap: the task escalates, from whatever
\* status that is neither done nor failed.
EscalateAtCap(a, t) ==
  /\ Reviews(a, t)
  /\ ~RoundsLeft(t)
  /\ Transit(t, "Escalate")
  /\ UNCHANGED <<startup, parent, assignee, required, blockedOn, round,
                 avatars, bus, gated, tick>>

\* handle_task_set_blocking's blocked_on field: any other task, or none.
SetBlocking(a, t, b) ==
  /\ Calls(a, t)
  /\ IsManagerOf(a, t) \/ assignee[t] = a
  /\ b \in (Created \ {t}) \cup {NoTask}
  /\ blockedOn' = [blockedOn EXCEPT ![t] = b]
  /\ UNCHANGED <<status, startup, parent, assignee, required, round,
                 avatars, bus, gated, tick>>

\* handle_task_steal.
TaskSteal(a, t) ==
  /\ Calls(a, t)
  /\ avatar[a] = "idle"
  /\ status[t] = "queued"
  /\ assignee[t] \notin {NoAgent, a}
  /\ RoleOf[assignee[t]] = RoleOf[a]
  /\ assignee' = [assignee EXCEPT ![t] = a]
  /\ UNCHANGED <<status, startup, parent, required, blockedOn, round,
                 avatars, bus, gated, tick>>

\* handle_move_intent when move_sys::start_move lets the agent in.
MoveIntent(a, r) ==
  /\ LoopReady
  /\ a \in Wanderers
  /\ avatar[a] # Absent
  /\ r \in EnterableBy[StartupOf[a]]
  /\ path' = [path EXCEPT ![a] = r]
  /\ UNCHANGED <<rows, avatar, at, bus, gated, tick>>

-----------------------------------------------------------------------------
(* Console commands of an operator and HTTP handlers.                      *)

\* OperatorAcceptProposal.
OperatorAcceptProposal(t, b, r) ==
  /\ LoopReady
  /\ t \in Created
  /\ b \in Assignable(startup[t])
  /\ Transit(t, "AcceptProposal")
  /\ assignee' = [assignee EXCEPT ![t] = b]
  /\ required' = [required EXCEPT ![t] = r]
  /\ UNCHANGED <<startup, parent, blockedOn, round, avatars, bus, gated, tick>>

\* OperatorRejectProposal, OperatorForceAccept and OperatorForceFail: the
\* status alone.  No handler of the three looks at the assignee's avatar.
OperatorResolves(t) ==
  /\ LoopReady
  /\ t \in Created
  /\ \E kind \in {"RejectProposal", "OperatorForceAccept", "OperatorForceFail"} :
       Transit(t, kind)
  /\ UNCHANGED <<startup, parent, assignee, required, blockedOn, round,
                 avatars, bus, gated, tick>>

\* api_tasks::create_task, outside the loop: queued if an assignee is named.
\* parent_id and blocked_on are foreign keys into any startup's tasks.
CreateTask(t, s, b, p, r, k) ==
  /\ b \in Assignable(s) \cup {NoAgent}
  /\ p \in Created \cup {NoTask}
  /\ k \in Created \cup {NoTask}
  /\ Insert(t, s, p, IF b = NoAgent THEN "proposed" ELSE "queued", b, r, k)
  /\ UNCHANGED <<avatars, bus, gated, tick>>

\* The spend of a startup crosses 95% of its cap, by a worker's budget report
\* (a loop command) or by a PATCH that lowers the cap (outside the loop); a
\* PATCH that raises the cap brings it back under.
BudgetCloses(s) ==
  /\ s \in Metered \ gated
  /\ gated' = gated \cup {s}
  /\ UNCHANGED <<rows, avatars, bus, tick>>

BudgetOpens(s) ==
  /\ s \in gated
  /\ gated' = gated \ {s}
  /\ UNCHANGED <<rows, avatars, bus, tick>>

-----------------------------------------------------------------------------
(* Workers coming and going, startups deleted, the process restarted.      *)

\* Cmd::RegisterWorker and Cmd::UnregisterWorker.
RegisterWorker(a) ==
  /\ LoopReady
  /\ a \notin bus
  /\ bus' = bus \cup {a}
  /\ UNCHANGED <<rows, avatars, gated, tick>>

UnregisterWorker(a) ==
  /\ LoopReady
  /\ a \in bus \cap Flaky
  /\ bus' = bus \ {a}
  /\ UNCHANGED <<rows, avatars, gated, tick>>

\* Cmd::ReleaseSuite at the end of delete_startup: the avatars go, the rows
\* and the paths stay.
ReleaseSuite(s) ==
  /\ LoopReady
  /\ s \in Dissolvable
  /\ avatar' = [a \in Agents |-> IF StartupOf[a] = s THEN Absent ELSE avatar[a]]
  /\ UNCHANGED <<rows, at, path, bus, gated, tick>>

\* main.rs after a crash: the rows are still in SQLite, the loop starts from
\* WorldView::default(), an empty out_bus and an empty PathStore.
Restart ==
  /\ MayRestart
  /\ avatar' = [a \in Agents |-> Absent]
  /\ path' = [a \in Agents |-> NoRoom]
  /\ bus' = {}
  /\ tick' = Ready
  /\ UNCHANGED <<rows, at, gated>>

-----------------------------------------------------------------------------
(* Cmd::Tick.                                                              *)

\* Mutant: the SELECT takes running tasks too.
OpenRows == {t \in Tasks : status[t] \in {"queued", "in_progress"} /\ assignee[t] # NoAgent}

QueuedRows == {t \in Tasks : status[t] = "queued" /\ assignee[t] # NoAgent}

\* Agents on their way.
Walking == {a \in Agents : path[a] # NoRoom /\ avatar[a] # Absent}

\* Mutant: step_all forgets to remove the path of an agent that has arrived.
BeginTickKeepsPath(arriving) ==
  /\ LoopReady
  /\ arriving \subseteq Walking
  /\ at' = [a \in Agents |-> IF a \in arriving THEN path[a] ELSE at[a]]
  /\ tick' = [pass |-> "dispatch", todo |-> QueuedRows]
  /\ UNCHANGED <<rows, avatar, path, bus, gated>>

\* move_sys::step_all, then scheduler::tick's SELECT.  An agent on its way may
\* be in any room its route crosses; those in `arriving` end theirs; the path
\* of an avatar that is gone is dropped.
BeginTick(arriving) ==
  /\ LoopReady
  /\ arriving \subseteq Walking
  /\ at' \in {f \in [Agents -> Rooms] : \A a \in Agents :
                /\ a \notin Walking => f[a] = at[a]
                /\ a \in arriving => f[a] = path[a]}
  /\ path' = [a \in Agents |-> IF a \in Walking \ arriving THEN path[a] ELSE NoRoom]
  /\ tick' = [pass |-> "dispatch", todo |-> QueuedRows]
  /\ UNCHANGED <<rows, avatar, bus, gated>>

\* The dispatch loop turns to row t; every way through ends with the next row.
Row(pass, t) ==
  /\ tick.pass = pass
  /\ t \in tick.todo
  /\ tick' = [tick EXCEPT !.todo = @ \ {t}]

Blocked(t) == blockedOn[t] # NoTask /\ status[blockedOn[t]] \notin Settled

\* The first two `continue`s: the assignee is not idle, or not there; or the
\* task it waits for is not settled.
SkipRow(t) ==
  /\ Row("dispatch", t)
  /\ avatar[assignee[t]] # "idle" \/ Blocked(t)
  /\ UNCHANGED <<rows, avatars, bus, gated>>

\* Mutant: no blocking gate.
UnblockedAnyway(t) ==
  /\ Row("dispatch", t)
  /\ avatar[assignee[t]] = "idle"
  /\ blockedOn' = [blockedOn EXCEPT ![t] = NoTask]
  /\ UNCHANGED <<startup, parent, assignee, required, round, at, bus, gated>>

\* Past the blocking gate, whatever comes next: blocked_on is cleared.
Unblocked(t) ==
  /\ Row("dispatch", t)
  /\ avatar[assignee[t]] = "idle"
  /\ ~Blocked(t)
  /\ blockedOn' = [blockedOn EXCEPT ![t] = NoTask]
  /\ UNCHANGED <<startup, parent, assignee, required, round, at, bus, gated>>

\* Mutant: a task without a required_room is never in the right room.
InThatRoom(t) == required[t] = at[assignee[t]]

\* The required_room gate.
InRoom(t) == required[t] \in {NoRoom, at[assignee[t]]}

\* Behind it: send the agent there, unless it is already on its way somewhere
\* or start_move refuses the room.
SendToRoom(t) ==
  /\ Unblocked(t)
  /\ ~InRoom(t)
  /\ path' = [path EXCEPT ![assignee[t]] =
                IF @ = NoRoom /\ required[t] \in EnterableBy[StartupOf[assignee[t]]]
                  THEN required[t] ELSE @]
  /\ UNCHANGED <<status, avatar>>

\* The budget gate and the out_bus gate: the agent's worker is connected, or,
\* with a worker per task, the last one is gone.
Open(a) == StartupOf[a] \notin gated /\ (PerTask <=> a \notin bus)

\* A closed gate holds the row for a later tick.
HoldRow(t) ==
  /\ Unblocked(t)
  /\ InRoom(t)
  /\ ~Open(assignee[t])
  /\ UNCHANGED <<status, avatar, path>>

Sendable(t) ==
  /\ Unblocked(t)
  /\ InRoom(t)
  /\ Open(assignee[t])
  /\ UNCHANGED path

\* The task goes to the worker, or to a worker spawned for it, which connects
\* later (RegisterWorker).
Dispatch(t) ==
  /\ Sendable(t)
  /\ status' = [status EXCEPT ![t] = "in_progress"]
  /\ avatar' = [avatar EXCEPT ![assignee[t]] = "working"]

\* Mutant: only the row is rolled back.
DispatchFailsHalfway(t) ==
  /\ Sendable(t)
  /\ assignee[t] \in Lossy
  /\ status' = [status EXCEPT ![t] = "queued"]
  /\ avatar' = [avatar EXCEPT ![assignee[t]] = "working"]

\* try_send found the channel full or closed, or the spawn failed: row and
\* avatar are rolled back.
DispatchFails(t) ==
  /\ Sendable(t)
  /\ assignee[t] \in Lossy
  /\ status' = [status EXCEPT ![t] = "queued"]
  /\ avatar' = [avatar EXCEPT ![assignee[t]] = "idle"]

\* auto_steal_pass's SELECT: the queued rows of opted-in startups that nobody
\* touched for auto_steal_after_secs; which ones those are is left open.
BeginSteal(stale) ==
  /\ tick = [pass |-> "dispatch", todo |-> {}]
  /\ \A t \in stale : t \in QueuedRows /\ startup[t] \in AutoSteal
  /\ tick' = [pass |-> "steal", todo |-> stale]
  /\ UNCHANGED <<rows, avatars, bus, gated>>

\* Mutant: any idle agent of the startup is a peer.
IdlePeers(t) ==
  {p \in Agents \ {assignee[t]} : avatar[p] = "idle" /\ StartupOf[p] = startup[t]}

\* Idle agents of the task's startup with its assignee's role, other than it.
Peers(t) ==
  {p \in Agents \ {assignee[t]} :
     /\ avatar[p] = "idle"
     /\ StartupOf[p] = startup[t]
     /\ RoleOf[p] = RoleOf[assignee[t]]}

\* One stale row whose assignee is not idle goes to an idle peer.
StealRow(t) ==
  /\ Row("steal", t)
  /\ avatar[assignee[t]] # "idle"
  /\ \E p \in Peers(t) : assignee' = [assignee EXCEPT ![t] = p]
  /\ UNCHANGED <<status, startup, parent, required, blockedOn, round,
                 avatars, bus, gated>>

KeepRow(t) ==
  /\ Row("steal", t)
  /\ avatar[assignee[t]] = "idle" \/ Peers(t) = {}
  /\ UNCHANGED <<rows, avatars, bus, gated>>

\* auto_recovery_pass's SELECT.
BeginRecovery ==
  /\ tick = [pass |-> "steal", todo |-> {}]
  /\ tick' = [pass |-> "recover",
              todo |-> {t \in Tasks : /\ status[t] = "changes_requested"
                                      /\ assignee[t] # NoAgent
                                      /\ startup[t] \in AutoRecovery
                                      /\ round[t] >= MaxAttempts}]
  /\ UNCHANGED <<rows, avatars, bus, gated>>

\* Mutant: review_round is not reset.
RecoverRowKeepsRound(t) ==
  /\ Row("recover", t)
  /\ \E p \in Peers(t) : assignee' = [assignee EXCEPT ![t] = p]
  /\ status' = [status EXCEPT ![t] = "queued"]
  /\ UNCHANGED <<startup, parent, required, blockedOn, round, avatars, bus, gated>>

\* The task starts over with an idle peer: queued, review_round 0.  The old
\* assignee's avatar keeps its status.
RecoverRow(t) ==
  /\ Row("recover", t)
  /\ \E p \in Peers(t) : assignee' = [assignee EXCEPT ![t] = p]
  /\ status' = [status EXCEPT ![t] = "queued"]
  /\ round' = [round EXCEPT ![t] = 0]
  /\ UNCHANGED <<startup, parent, required, blockedOn, avatars, bus, gated>>

GiveUpRow(t) ==
  /\ Row("recover", t)
  /\ Peers(t) = {}
  /\ UNCHANGED <<rows, avatars, bus, gated>>

EndTick ==
  /\ tick = [pass |-> "recover", todo |-> {}]
  /\ tick' = Ready
  /\ UNCHANGED <<rows, avatars, bus, gated>>

-----------------------------------------------------------------------------
AgentCall ==
  \E a \in Agents, t \in Tasks :
    \/ TaskDone(a, t)
    \/ TaskFailed(a, t)
    \/ \E p \in Tasks, r \in RoomChoices :
         \/ \E b \in Agents \cup {NoAgent} : SubtaskQueued(a, p, t, b, r)
         \/ SubtaskProposed(a, p, t, r)
    \/ \E b \in Agents, r \in RoomChoices : AcceptProposal(a, t, b, r)
    \/ RejectProposal(a, t)
    \/ TaskAccept(a, t)
    \/ RequestChanges(a, t)
    \/ EscalateAtCap(a, t)
    \/ \E b \in Tasks \cup {NoTask} : SetBlocking(a, t, b)
    \/ TaskSteal(a, t)

OperatorCall ==
  \E t \in Tasks :
    \/ \E b \in Agents, r \in RoomChoices : OperatorAcceptProposal(t, b, r)
    \/ OperatorResolves(t)
    \/ \E s \in Startups, b \in Agents \cup {NoAgent}, p, k \in Tasks \cup {NoTask},
          r \in RoomChoices : CreateTask(t, s, b, p, r, k)

Environment ==
  \/ \E a \in Agents : RegisterWorker(a) \/ UnregisterWorker(a)
  \/ \E a \in Agents, r \in Rooms : MoveIntent(a, r)
  \/ \E s \in Startups : BudgetCloses(s) \/ BudgetOpens(s) \/ ReleaseSuite(s)
  \/ Restart

TickRow ==
  \E t \in Tasks :
    \/ SkipRow(t) \/ SendToRoom(t) \/ HoldRow(t) \/ Dispatch(t) \/ DispatchFails(t)
    \/ StealRow(t) \/ KeepRow(t)
    \/ RecoverRow(t) \/ GiveUpRow(t)

TickStep ==
  \/ TickRow
  \/ \E stale \in SUBSET Tasks : BeginSteal(stale)
  \/ BeginRecovery
  \/ EndTick

Next ==
  \/ AgentCall
  \/ OperatorCall
  \/ Environment
  \/ \E arriving \in SUBSET Agents : BeginTick(arriving)
  \/ TickStep

Spec == Init /\ [][Next]_vars

(* Fairness.  The timer sends a Tick every second and the channel is first  *)
(* in, first out, so a tick is taken and runs to its end; a walk has        *)
(* finitely many tiles and the scheduler lets it run, so it ends unless the *)
(* agent itself keeps changing its mind; a worker drains its channel, so a  *)
(* try_send that keeps being tried succeeds.  Agents, operators and         *)
(* connections promise nothing.                                             *)
Fairness ==
  /\ WF_vars(\E arriving \in SUBSET Agents : BeginTick(arriving))
  /\ WF_vars(TickStep)
  /\ \A a \in Agents \ Wanderers :
       SF_vars(\E arriving \in SUBSET Agents : a \in arriving /\ BeginTick(arriving))
  /\ \A t \in Tasks : SF_vars(Dispatch(t))

FairSpec == Spec /\ Fairness

-----------------------------------------------------------------------------
(* Properties.                                                             *)

\* What a tick acts on is what its SELECTs saw: a row it has still to look at is
\* in the status, and has the assignee, that put it there, because commands
\* wait for the loop and the HTTP handlers that do not wait only insert.
SnapshotHolds ==
  \A t \in tick.todo :
    /\ assignee[t] # NoAgent
    /\ tick.pass \in {"dispatch", "steal"} => status[t] = "queued"
    /\ tick.pass = "recover" => status[t] = "changes_requested"

\* A proposal is nobody's task: only accept_proposal, with its check of the
\* startup, gives it an assignee.
ProposalsUnassigned ==
  \A t \in Tasks : status[t] \in {"absent", "proposed"} => assignee[t] = NoAgent

\* Tenant isolation on the board: whatever mix of create_task, subtask_create,
\* accept_proposal, steals and recoveries assigned it, a task's assignee is an
\* agent of the task's own startup, so that its task_done is never refused as
\* cross_startup after the scheduler has dispatched it.
AssigneeInStartup ==
  \A t \in Created : assignee[t] # NoAgent => StartupOf[assignee[t]] = startup[t]

\* A task that waits for an agent or runs has no review round behind it: every
\* way back to the queue (auto_recovery_pass) resets review_round.  It is why
\* task_request_changes at the cap never escalates a running task under its
\* agent, although task_sm would let it.
OpenWorkIsFresh ==
  \A t \in Tasks :
    status[t] \in {"absent", "proposed", "queued", "in_progress"} => round[t] = 0

\* An avatar marked working has a task in progress, or one that was failed
\* under it (operator_force_fail leaves the avatar as it is): no steal,
\* recovery, review or rollback takes a running task away from its agent.
WorkingAgentHasTask ==
  \A a \in Agents :
    avatar[a] = "working" =>
      \E t \in Created : assignee[t] = a /\ status[t] \in {"in_progress", "failed"}

\* A task changes hands only while it is queued or sent back, and only to an
\* agent with its assignee's role: the guarded UPDATEs of task_steal,
\* auto_steal_pass and auto_recovery_pass, whatever happened since their
\* SELECT.
HandoversKeepRole ==
  [][\A t \in Created :
       assignee[t] # NoAgent /\ assignee'[t] # assignee[t] =>
         /\ assignee'[t] # NoAgent
         /\ status[t] \in {"queued", "changes_requested"}
         /\ RoleOf[assignee'[t]] = RoleOf[assignee[t]]]_vars

\* blocked_on holds its task back: it starts, or a tick forgets what it waits
\* for, only once that is settled.
BlockersHold ==
  [][\A t \in Created :
       \/ status[t] = "queued" /\ status'[t] = "in_progress"
       \/ ~LoopReady /\ blockedOn'[t] # blockedOn[t]
       => ~Blocked(t)]_vars

\* Every step of the board is a step of ReviewCycle, or changes no column.
Cycle == INSTANCE ReviewCycle WITH
  Tasks <- Tasks, MaxReviewRounds <- MaxReviewRounds, status <- status, round <- round
CycleSpec == Cycle!Spec

\* The scheduler's promise to idle hands: it is not the case that from some
\* moment on an agent is idle and its gates are open, with a task queued for it
\* that waits for no other and for no room but one it may enter, and the agent
\* is given neither that task nor another one.  Two queued tasks with rooms of
\* their own do not send an agent back and forth for ever.
Startable(a, t) ==
  /\ status[t] = "queued"
  /\ assignee[t] = a
  /\ ~Blocked(t)
  /\ required[t] \in EnterableBy[StartupOf[a]] \cup {NoRoom}

NoIdleStarvation ==
  \A a \in Agents \ Wanderers, t \in Tasks :
    []<>~(avatar[a] = "idle" /\ Open(a) /\ Startable(a, t))

-----------------------------------------------------------------------------
(* What comments and documents say and the code does not do.               *)

\* scheduler.rs:115, at the check of the avatar's status: "agent is busy; wait
\* until it finishes its current work."  So no agent with a task in progress
\* is given a second one.
BusyAgentsWait ==
  [][\A t, u \in Created :
       /\ status[t] = "queued" /\ status'[t] = "in_progress"
       /\ t # u /\ assignee[u] = assignee[t]
       => status[u] # "in_progress"]_vars
=============================================================================
