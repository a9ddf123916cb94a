# A TLA+ model of the cliptown world

Cliptown runs simulated companies ("startups") of AI agents in a pixel town.
One Rust process, the *world* (`src/crates/world`), owns all state: a SQLite
database of startups, agents and tasks, and an in-memory `WorldView` of avatars
and rooms.  Beside it run one TypeScript *worker* per agent, which drives an
external CLI (the actual language model), and a browser *console* for the
human operator.  This directory is a verification development of the world
process: TLA+ modules translated from its Rust source, TLC configurations that
model-check them, and machine-checked proofs of what they promise.

Paths below are relative to `src/`; `world/x.rs` is `crates/world/src/x.rs`.

## 1. Inventory

### Components, their state and their operations

| Component | Source | State | Operations |
|---|---|---|---|
| Task state machine | `world/task_sm.rs` | none (pure) | `next(status, transition)` |
| Task board | `world/mcp_dispatch.rs`, `world/cmd_console.rs`, `world/api_tasks.rs`, `world/persist.rs` | rows of `tasks`, `audit_trail` | `task_done`, `task_failed`, `subtask_create`, `accept_proposal`, `reject_proposal`, `task_accept`, `task_request_changes`, `task_set_blocking`, `task_steal`; `POST /api/tasks`; the operator's accept, reject, force-accept, force-fail |
| Scheduler | `world/scheduler.rs` | none of its own; writes rows and avatars | dispatch pass, auto-steal pass, auto-recovery pass, deadline scan, once per tick |
| World loop | `world/loop_.rs`, `world/state.rs`, `world/main.rs` | `WorldView` (avatars, rooms), `out_bus`, `PathStore`, sessions | one `Cmd` at a time from an mpsc channel; `Tick` every second |
| Movement | `world/move_sys.rs`, `world/path.rs`, `world/seed.rs` | `PathStore` | `start_move`, `step_all`, A* over tiles, Dijkstra over rooms |
| Worker sessions | `world/http.rs` (`/ws/worker`), `world/cmd_worker.rs`, `world/auth.rs` | `out_bus`: one bounded channel per agent | connect, register, report, disconnect |
| Agent supervisor | `world/agent_supervisor.rs` | child processes, tombstones | spawn, watch, back off and respawn, dissolve |
| Startup lifecycle | `world/api_startups.rs` | rows of `startups`, `agents`; suites | create, delete |
| Budget | `world/budget.rs`, `world/http.rs` | spend and cap per startup, thresholds crossed | worker report, pause, PATCH of the cap |
| Locks and presence | `world/action_locks.rs`, `world/presence.rs`, GC timers of `world/loop_.rs` | lease rows, presence map | acquire, release, expire; connect, heartbeat, leave, collect |
| Console sessions | `world/cmd_console.rs`, `world/http.rs` | session, possession, directives | connect, possess, direct |
| Proximity, health, permissions | `world/proximity.rs`, `world/health.rs`, `world/permissions.rs` | none (pure) | who hears whom; score of an agent; who may do what |
| Skills | `world/skills.rs`, `world/api_skills.rs` | skills, files, revisions, attachments | upsert, revert, attach, detach, share, delete; snapshot and frames to consoles |
| Self-review | `world/self_review.rs` | `tasks.self_reviewed_at` | record; nothing reads it |
| Housekeeping | `world/backup.rs`, `world/execenv_gc.rs`, `world/sandbox.rs` | files | back up, prune, sandbox |
| Views and settings | `world/view.rs`, `world/metrics.rs`, `world/config.rs`, ... | none that others read | projections |
| Worker process | `packages/worker` | one CLI session | connect, run a task, exit |
| CLI adapters, frontend | `packages/adapters`, `packages/frontend` | none of the system's | process I/O, rendering |

### How they interact

- **Everything that touches `WorldView` is a command of the loop.**  MCP calls
  (`mcp_http.rs`), worker and console frames and the one-second timer are sent
  into one channel; the loop awaits each handler to its end before it takes the
  next.  Handlers are therefore atomic with respect to each other.
- **HTTP handlers are not.**  `POST /api/tasks`, `PATCH /api/startups/:id`,
  create and delete of a startup run on their own tasks and write the same
  SQLite tables, so they interleave with the awaits *inside* a tick.
- **Rows and memory are two stores.**  A task's status is a row; the status of
  its assignee's avatar is memory.  A dispatch writes both, a failure must undo
  both, a crash keeps one and loses the other.
- **Events to workers and consoles are `try_send`s** on bounded channels: a
  full or closed channel drops them, except the `Task` event, whose failure the
  scheduler notices and rolls back.

### What is hard here

1. One agent has one avatar status and many tasks; reports about one task
   change the status the scheduler reads for another.
2. A tick's three passes act on SELECTs that are several awaits old.
3. Three different owners of "start over": the reviewer (changes requested),
   the recovery pass (requeue with a peer), the operator; each resets a
   different set of columns, and the escalation cap counts one of them.
4. A task passes five gates before it starts (agent idle, blocker settled, room,
   budget, connection), each opened and closed by somebody else, and two tasks
   of one agent compete for its path.
5. The process may stop between any two steps and comes back with the rows only.
6. Registrations, suites, locks and child processes are keyed by agent or
   startup, not by connection, claim or generation, so a late release can hit
   its successor.
7. A console learns of one thing by two ways, a snapshot it reads and frames it
   is sent, which overtake each other; and a frame that announces a change is
   sent some awaits after the change.
8. A walk is planned at once and walked for minutes, while suites are claimed
   and released and the agent changes its mind on any tile.

`PROJECT.json` lists each hazard at its line with the properties that cover it.

### What makes each component correct

- *Task board*: nobody outside a startup gets its tasks; a task follows the
  review cycle; it changes hands only when nobody is at work on it, and within
  a role; no task starts before its blocker is settled.
- *Scheduler*: acts only on rows that still are what its SELECT saw; a failed
  dispatch leaves no trace; an idle agent whose gates are open is not starved.
- *Loop and restart*: no step, a restart included, leaves an avatar working
  without a task of its own.
- *Worker sessions*: a connected worker stays registered while it is connected.
- *Supervisor*: no worker outlives its startup; a crashed one is respawned or
  given up, never two for one agent.
- *Startups*: one owner per suite; an avatar for each live agent.
- *Budget*: each threshold announced once per crossing; no dispatch past the gate.
- *Locks*: a lock lasts as long as its command and no longer than its time, and a
  browser left alone shows the locks there are.
- *Presence*: whoever is listed has a console open; all consoles list the same.
- *Skills*: history and live content agree; a browser shows each skill's
  attachments, and what it reverts to is what it showed.
- *Paths*: tile by tile, inside the agent's room, to where it was sent, and into
  another startup's suite only if it was let in before the suite was claimed.

## 2. Modules

| Module | What it is |
|---|---|
| `TaskSM` | `task_sm.rs`: the statuses, the requests, and `next` as a table of operators |
| `ReviewCycle` | abstract: one task's life, whoever acts on it |
| `TaskWorld` | the task board, the scheduler and the loop; extends `TaskSM`, implements `ReviewCycle` |
| `Supervisor` | worker processes, their watch loops, tombstones and dissolution; has no next-state relation of its own |
| `StartupLife` | extends `Supervisor` with those who call it: create and delete of a startup, worker sessions, the loop's command channel, the suites and avatars in its memory |
| `Errand` | abstract: what the scheduler takes walking to be |
| `Movement` | `move_sys.rs` and `path.rs`: planning and walking over rooms, doors and tiles; implements `Errand` |
| `Budget` | `budget.rs`: spend, cap, thresholds, warnings, pauses, and the scheduler's gate |
| `ActionLocks` | `action_locks.rs`, the locked console commands, operators' accounts, and what a browser shows of the locks |
| `Presence` | `presence.rs`, its callers and its GC |
| `Skills` | `skills.rs`, its callers, and the browser's reducer for skills |
| `TaskWorldProofs`, `StartupLifeProofs`, `MovementProofs`, `BudgetProofs`, `ActionLocksProofs`, `PresenceProofs`, `SkillsProofs` | invariants and theorems about the module of that name |
| `MCTaskWorld`, `MCTaskGates`, `MCStartupLife`, `MCMovement`, `MCBudget`, `MCActionLocks`, `MCPresence`, `MCSkills` | TLC constants |

How they compose: `TaskWorld` uses a walk as an errand (an agent on its way may
be in any room, and when the way ends it is where it was sent), and `Movement`
is shown to implement `Errand`.  `TaskWorld` knows of a budget only whether a
startup is past the gate; `Budget` says how it gets there.  `TaskWorld`'s
`EnterableBy` is fixed, `StartupLife` moves the ownership of suites, and `Movement`
has both the claims and the walkers.

### State of `TaskWorld`

| Variable | In the code |
|---|---|
| `status`, `startup`, `parent`, `assignee`, `required`, `blockedOn`, `round` | columns of `tasks` (`status`, `startup_id`, `parent_id`, `assignee_agent_id`, `required_room`, `blocked_on`, `review_round`); `status` is `"absent"` before the INSERT |
| `avatar`, `at` | `Avatar::status` and `room_id` in `WorldView`; `"absent"` when the avatar is not there |
| `path` | the room an entry of `PathStore` leads to |
| `bus` | agents with an entry in `out_bus` |
| `gated` | startups whose spend is at least 95% of their cap |
| `tick` | the tick in progress: its pass, and the rows of that pass's SELECT it has still to look at |

### Actions and atomicity of `TaskWorld`

Each handler is one action, with the early returns of the code as guards; a
refused call changes nothing the model has and is a stutter.  A call is enabled
only between ticks (`LoopReady`), because the loop is busy during one.  A tick
is the exception to "one handler, one action": it is split into `BeginTick`
(`step_all` and the SELECT of queued rows), one step per row of each pass,
`BeginSteal`, `BeginRecovery` and `EndTick`, because `CreateTask`,
`BudgetCloses` and `BudgetOpens` come from HTTP handlers that run between those
awaits.  The rows of a SELECT are taken in any order.

| Actions | Code |
|---|---|
| `TaskDone`, `TaskFailed`, `SubtaskQueued`/`SubtaskProposed`, `AcceptProposal`, `RejectProposal`, `TaskAccept`, `RequestChanges`/`EscalateAtCap`, `SetBlocking`, `TaskSteal`, `MoveIntent` | `handle_*` of `mcp_dispatch.rs` |
| `OperatorAcceptProposal`, `OperatorResolves` | `cmd_console.rs` |
| `CreateTask` | `api_tasks::create_task` |
| `BudgetCloses`, `BudgetOpens` | reports and PATCHes as far as the 95% gate sees them |
| `RegisterWorker`, `UnregisterWorker`, `ReleaseSuite`, `Restart` | loop commands, `main.rs` |
| `SkipRow`, `SendToRoom`, `HoldRow`, `Dispatch`, `DispatchFails` | the ways a row can go through `scheduler::tick` |
| `StealRow`, `KeepRow`, `RecoverRow`, `GiveUpRow` | the same for `auto_steal_pass` and `auto_recovery_pass` |

### State and actions of `Supervisor` and `StartupLife`

| Variable | In the code |
|---|---|
| `child` | for each process id: how it runs, and the local state of the `watch_loop` that owns it (`failures`, where it is) |
| `entry`, `tomb` | the maps `agents` (the pid recorded) and `tombstones` |
| `dissolve`, `targets` | the program counter and the snapshot of a running `dissolve_startup` |
| `life`, `owner` | `startups.status`; `rooms.private_to_startup_id` in SQL |
| `creating`, `suite`, `toSpawn` | program counter and locals of `create_startup` |
| `channel` | commands sent to the loop and not taken yet |
| `claim`, `inWorld`, `busy`, `bus` | the loop's layout, the startups whose avatars it has, the avatars that are working, `out_bus` (by the registering process) |
| `session` | the agent of each process's open socket, as `handle_worker` knows it |

Here the atomicity is finer, because nothing serialises these actors.  An
action is what one of them does between two awaits: `CreateCommits` (the
transaction), one `CreateSpawns` per agent, `CreateAnswers`; `DeleteCommits`,
`ListWorkers`, `Sigterm`, `Sigkill`, `DeleteReleases`; `BackOff`, `Respawn`,
`RecordPid`.  A send to the loop waits while the channel is full, and the loop
takes one command at a time (`InsertAvatars`, `ReleaseSuite`,
`RegisterWorker`, `UnregisterWorker`).  A SIGTERM only asks, and a process may
end at any time with either status, so the signal is no step of its own.

With `PerTask` a worker is spawned by the scheduler for each task
(`CLIPTOWN_PER_TASK_WORKERS=1`, `SpawnForTask`) and `Report` stands for the
`task_done` or `task_failed` of its CLI; which task, and the gates of the
dispatch that concern tasks, are `TaskWorld`'s matter.  `Impatient` names the
startups whose DELETE may come before their POST has answered (a console's
snapshot shows the row as soon as it is committed).

The grace period is longer than the moment between a respawn and the
recording of its pid, so `Sigkill` waits for `RecordPid`; no other timing is
assumed.  A process id is given out again only when nothing refers to it.

### State and actions of `Movement`

| Variable | In the code |
|---|---|
| `room`, `pos`, `target` | `room_id`, `current_pos`, `target_pos` of an avatar |
| `paths` | `PathStore`: the steps left, each a tile and perhaps a room to enter |
| `private` | `RoomDef::private_to_startup_id` in the loop's layout |
| `overtaken` | history: the suites that were claimed while an agent's walk led into them |

`StartMove` is `start_move` whole: the permission, the route over rooms, the
tiles of each segment, the removal of doubled tiles and of the tile the agent
stands on.  A* returns some shortest path, so `Routes` and `TilePaths` are the
sets of all of them, and a plan is any choice.  `FullRoutes` puts a route together
segment by segment: `Entry` is the tile where a segment begins, `Legs` the ways it
may take, `StepsOf` the steps made of one, and `Dedupe` goes through them and
`Keep`s each that is to another tile than the one kept before.  Refusals (`NoPath`, no
permission) change nothing.  `StepAll` is a tick of `step_all`; `InsertAvatars`
and `ReleaseSuite` are the loop's commands.  As in the code, `InsertAvatars`
overwrites whatever claim it finds and never looks at the path store; all it
needs is that the avatars and their paths are new, because agents get new ids.  A move to where the agent already
stands clears its target and leaves the path of an earlier move, as the code
does.  `Hears` is who `handle_speak` sends a chat to.

`TownAssumption` says which towns the model is about: finitely many rooms that do
not overlap, doors whose tile lies in one of their rooms and touches the other, a
tile of its own for each door, at most one door between two rooms, and one door
for each suite.  The town of `seed.rs` is one of them (`DefaultTownFits`).

`NoTurning` excludes the one case of the finding `lost_walker`.

### State and actions of `Budget`

| Variable | In the code |
|---|---|
| `spent`, `cap` | `startups.budget_spent_usd`, `budget_cap_usd` |
| `ledger`, `events` | the sum of `budget_events.cost_usd`; threshold rows of `system_events` |
| `loop` | the report or dispatch under way, with what its SELECT saw |
| `bus`, `inbox` | `out_bus`, and each worker's bounded channel |
| `since` | history: the spend at which the cap in force took over |
| `unlogged` | history: the cost of the reports whose row the database refused |

A report is two steps, `ReadBudget` (the SELECT) and `ApplyReport` (the UPDATE
with an absolute value, the ledger row, the event, the frames).  The frame of a
report names its task, which nothing checks but the foreign key
`budget_events.task_id`: of a task there is not, `RecordBudgetEvent` adds nothing
to the ledger, which the code only logs, after the spend was committed.  A dispatch is `CheckGate` and
`StartTask`; `PatchCap` is an HTTP handler and comes between any two.  The three
thresholds are those of the code, which does not read `config.rs:29`
(`BudgetCfg`).  Money is counted in units small enough for the percentages to be
exact.  A frame carries the cap it was sent under, for the properties only.

### State and actions of `ActionLocks`

| Variable | In the code |
|---|---|
| `account` | `operators.role`, or that the row is gone |
| `row` | `action_locks` by key: how old, whose, and in which life of the world it was put in |
| `loop` | the command under way in `cmd_console.rs` and how far it is |
| `gc` | the keys `gc_expired` has selected |
| `session` | the task of each console and the identity of its hello |
| `backlog`, `due` | broadcast frames, and a changed view, that a console has still to take |
| `shown` | the browser's `actionLocks` (`store.ts`) |
| `life` | how often the world was restarted |

A locked command is `StartLocked`, `Sweep`, `Insert`, `Act`, `Release`, `Reply`,
one step per statement; the GC's `GcSelect`, `GcDelete`, `GcUnlock` and the
consoles' `Hello`, `NoticeView`, `SendSnapshot`, `TakeFrame` run beside it.  Time
is `Expire`, at any moment after the INSERT.  The keys of `force_accept` and
`force_fail` differ in nothing but their name, and one kind stands for both.
The foreign key of `action_locks.operator_id` is in `HasRow`: the token of the
environment (`op_env`) has no row in `operators`, so that its locked commands
fail.  A revoke deletes by cascade the lock rows of the revoked without a frame.

### State and actions of `Presence`

| Variable | In the code |
|---|---|
| `registry` | `PresenceRegistry`, with the focus of each operator |
| `session` | how far a console's task is, and whose it is |
| `sending` | per task: nothing, the registry to be read, or the list that was read |
| `backlog`, `shown` | frames to take, and the browser's list |

Every change of the registry (`Join`, `Heartbeat`, `Leave`, `Collect`) is
followed by two steps of the same task, `ReadRegistry` and `Send`, with the lock
released in between.  `Collect` may drop any entry: how long ago a heartbeat was
is left out.

### State and actions of `Skills`

| Variable | In the code |
|---|---|
| `skill`, `revisions`, `attached` | the tables `skills` (with the file names of `skill_files`), `skill_revisions`, `agent_skills` |
| `born` | uuids that were given out |
| `unlogged` | history: skills whose last writing could not be logged |
| `console` | what a console's task has still to read for its snapshot |
| `frames`, `shown`, `cache` | `SkillChanged` frames to take; the browser's skills and `skillRevisions` |

The loop's commands (`Insert`, `Update`, `Revert`, `Attach`, `Detach`, `Delete`,
`SetGlobal`, `ChangeFiles`) are one step each with their broadcast; a console
subscribes first and then reads startup by startup (`HydrateRows`) and skill by
skill (`HydrateAttachments`).  An author without a row in `operators` (`rowless`)
violates the foreign key of `skill_revisions`: the skill is written and the
revision is not, which the code only logs.  `Applied` is what the browser's reducer
makes of a frame.

### Abstractions

- SQL statements succeed, except for the constraints named above, among them the
  foreign keys of `action_locks`, `skill_revisions` and `budget_events`.  The guarded
  UPDATEs (`... WHERE status = 'queued'`) keep their guards.
- The per-startup SELECTs of a pass are taken together at its start.  The rows
  of two startups share no agent (`AssigneeInStartup`), so their order does not
  matter.
- In `TaskWorld` time is left out: which rows are old enough to steal is a free
  choice (`stale`), and so is when a walk ends (`arriving`).
- `EnterableBy` says which rooms `can_enter` admits a startup's agents to.  It
  is a constant: privacy of a suite changes only with the startups' lifecycle.
- Auto-steal and auto-recovery settings do not change during a run, and all
  startups share `MaxAttempts`.
- A refused `task_done` (artifact path, chunk limit) changes no column the model
  has.  Deadlines, directives and the epistemic log are left out.
- The layout, which goes back to the default town after a restart, is not state
  of `TaskWorld`.
- A broadcast channel that a console is `MaxBacklog` frames behind on closes it,
  as `RecvError::Lagged` does; the frames lost are not counted.
- In `Budget`, the warning about a report whose cost differs from the price
  table's (cost variance) is reporting and left out.
- In `Skills`, a snapshot's row and its files are read at one moment; only which
  agents a skill is attached to can be torn.

## 3. Runs

| Run | Instance | Checks | Expectation |
|---|---|---|---|
| `board` | manager, two peer engineers, a stranger of another startup; two tasks; three review rounds, recovery after two | `TypeOK`, the five safety invariants, two action properties, refinement of `ReviewCycle` | holds |
| `gates` | manager and engineer, one task, two rooms; budget gate, lost sends, flaky worker, wandering manager, deletion, restart | `WorkingAgentHasTask`; `NoIdleStarvation` under fairness | holds |
| `queue` | one agent, a worker per task, two tasks that each want a room and may wait for each other | `NoIdleStarvation` under fairness | holds |
| `startups` | two startups in turn in one suite, one agent, two process ids, daemon workers | four safety invariants, `DeletesComplete` under fairness | holds |
| `per_task` | one startup, a worker per task, DELETE at any moment after the commit | `NoDeadRegistration` | holds |
| `walk` | two agents of two startups, a lobby between two suites, five destinations | four invariants, `LetInWhenPlanned`, refinement of `Errand`, `WalksEnd` under fairness | holds |
| `budget` | one worker, caps 0, 20 and 40, costs 0, 3 and 16, of tasks there are and are not, channel of two | four invariants | holds |
| `locks` | two consoles, one with a browser, two operators and the environment's token, one task, one crash | three invariants, `NoLiveLockSwept`, `LocksEnd` under fairness | holds |
| `presence` | two tabs of one or two operators, backlog of one | two invariants | holds |
| `skills` | two startups, one agent each, two skills of one name, three kinds of author, one console | `TypeOK`, three invariants | holds |
| `busy_agents` | manager and engineer, three tasks | `BusyAgentsWait` | violated |
| `lost_walker` | as `walk`, turning back through the door one stands on allowed | `InsideItsRoom` | violated |

### The properties

Of the board:

- `SnapshotHolds`: the rows a tick has still to look at are in the status, and
  have an assignee, as its SELECT found them.  It justifies the code's reads
  of a row fetched several awaits earlier.
- `ProposalsUnassigned`, `AssigneeInStartup`: whatever mix of API, MCP and
  scheduler calls assigned a task, its assignee is of its startup, and a
  proposal has none.
- `OpenWorkIsFresh`: a task that waits or runs has `review_round` 0.  This is
  the reason the escalation branch, which tests the round before it tests
  anything of the status but "not done, not failed", never escalates a task
  under the agent that works on it.
- `WorkingAgentHasTask`: an avatar marked working has a task in progress, or
  one that was failed under it.  Run `board` checks it over every call, run
  `gates` over sends that fail halfway and over a restart.
- `HandoversKeepRole`: a task changes hands only while queued or sent back and
  only within a role.
- `BlockersHold`: no tick starts a task, or forgets its blocker, while the
  blocker is open.
- `CycleSpec`: the projection on `status` and `round` is a behaviour of
  `ReviewCycle`.  In it, only reviewed work escalates, an approved or failed
  task stays so, and a start always begins with round 0.
- `NoIdleStarvation`: an agent is not for ever idle, with its gates open and
  with a startable task of its own, without being given a task.

Of startups and workers:

- `NoDeadRegistration`: an `out_bus` entry whose session is over has its
  `UnregisterWorker` on the way, whichever order registrations and closes of
  successive workers of one agent arrive in.
- `OneWorker`: never two live processes for one agent.
- `DissolvedStaysDead`: once a dissolution has killed its workers, none of the
  startup runs, and no watch loop that slept through it spawns one.
- `InLockStep`: whenever no handler is at work and the channel is empty, the
  loop's suite ownership and avatars are what SQL says, however a DELETE of one
  startup and a POST of the next overlapped on the same suite.
- `DeletesComplete`: of a deleted startup nothing stays in the loop, the bus or
  the supervisor.

Of walking:

- `StepByStep`: the steps in store lead from the tile the avatar stands on, tile
  by adjacent tile, although moves are re-planned on any tile of earlier ones.
- `InsideItsRoom`: an avatar stands inside its `room_id` or on a door of it.  One
  that does not can never move again.
- `HeadsForTarget`: a target that is set is where the steps end.
- `LetInWhenPlanned`: permission is asked once, for the target, when a walk is
  planned, and that covers each room the walk then enters, through any
  re-planning.  Who enters another startup's suite was let in, and the suite was
  claimed during that very walk.  That nobody enters one at all is not so
  (section 4).
- `SuiteTalkStaysInside`: what is said at a desk of one's own suite is heard in
  the startup only, even with a stranger in the room.
- `WalksAreErrands`, `WalksEnd`: a walk ends, in the room it was planned to.

Of budgets:

- `SpendIsReported`: the spend, written as an absolute value read one await
  earlier, is the sum of the reports: of those in the ledger, and of those whose
  ledger row was refused.  No PATCH and no other report is lost in between.
- `AnnouncedOnce`: under one cap a threshold is announced once, and never after a
  higher one, though the cap is changed and changed back meanwhile.
- `NoSilentCrossing`: a threshold that spend crosses while a cap is in force is
  announced under that cap, or a higher one is.  What lowering a cap crosses is
  silent, as in the code.
- `NoTaskBehindPause`: a worker is sent no task behind a pause, unless the cap
  was raised or taken away in between.

Of locks:

- `ShowsTheLocks`: left alone, a browser shows as locked every live lock, and
  nothing that has no row: whatever a sweep, a cascade, a crash or the GC's late
  unlock did without or against its frames, the next view heals.
- `NoLiveLockSwept`: a live lock ends with its command or its operator, never by
  the sweep of another or by a GC that had selected its key earlier.
- `BouncesOffACrash`: `locked_by` is answered only for a lock that a crash left.
  Commands run one after the other and each releases its lock, so two clicks
  never meet on a lock otherwise.
- `SomeoneRemains`: operators with identities as old as their hello may revoke
  each other in any order; the last account stays.
- `LocksEnd`: what a crash left goes, again and again.

Of presence and skills:

- `SameList`: two consoles that have taken all their frames show the same list.
  It may be out of date: a list read before another may be sent after it, and
  then all consoles agree on the older one until the next change.
- `NoGhosts`: an operator in the registry has a console open, although the
  registry knows operators and not tabs.
- `NewestIsLive`: the newest revision is the live content, unless the last
  writing had an author who cannot be logged.
- `ShowsAttachments`: a browser that has taken its frames shows no deleted skill,
  and each with its attachments, though it read its snapshot in pieces.
- `CacheIsHistory`: a history the browser kept is a prefix of the real one, so
  that reverting to revision n restores what was shown as n.

`TypeOK` is checked in `board` and `skills`, where a wrong step shows in the
types, and proved for every module with a next-state relation but the two
abstract ones.

### Bounds, and why they are enough

- `MaxReviewRounds = 3` is the code's constant; with `MaxAttempts = 2`, the
  column's default, recovery strikes strictly below the cap, so both ways out of a
  review are reached.
- Four agents in two startups are the least with a peer to steal from and
  recover to, a manager, a peer reviewer of the same role, and somebody who
  must be kept out.  Two tasks give parent and subtask, blocker and dependent,
  and two tasks competing for an agent; `busy_agents` needs a third.
- `gates` has a single task because liveness has to be checked without
  symmetry and with every gate changing; `queue` adds the second task for the
  interaction of two.
- The engineers are interchangeable in `MCTaskWorld` (same role, manager, room,
  reviewing right) and so are task ids, which makes the symmetry sets sound; so
  are tabs and operators in `MCPresence`, skill ids and contents in `MCSkills`.
  Runs with liveness use none.
- One agent is enough for the supervisor: its maps are keyed by agent, and
  agents meet in nothing else.  Two process ids let a worker and its successor
  exist together; one back-off delay reaches a respawn, a second failure and
  the end of the retries.  Two startups and one suite make a release and a
  claim of the same suite meet in the channel, and two places in the channel
  make them queue behind each other and make senders wait.
- `walk` has a town of three rooms of four tiles, cut from the default town: one
  door whose tile is in the lobby, one whose tile is in the suite, paths
  with several shortest ways, and a destination on each door.
  That the default town meets what the module assumes of a town is an
  assumption TLC evaluates (`DefaultTownFits`).
- `budget`: the caps 20 and 40 make 80, 95 and 100 per cent come out at 16, 19,
  20 and 32, 38, 40; costs of 3 and 16 hit them exactly, step over them one by
  one, and jump over several; `MaxSpend = 44` ends the run beyond the largest cap.
- `locks`: two operators are the least who can revoke each other; a second task
  would add keys that meet in nothing.  A backlog of two makes a browser lag.
- `skills`: `MaxRevisions = 3` allows a write, a second and a revert; one startup
  authors, the other's agent is there to be refused; a backlog of two lags.
- `CHECK_DEADLOCK` is on everywhere.

### Fairness

`TaskWorld`'s `FairSpec` assumes what the loop's own scheduling gives: the timer
sends a `Tick` every second into a first-in first-out channel, so ticks begin and
run to their end (weak fairness of `BeginTick` and `TickStep`); a walk has finitely
many tiles, so an agent that does not itself change its mind infinitely often
arrives (strong fairness, because calls interrupt it); a worker drains its
channel, so a `try_send` that is tried again and again succeeds (strong
fairness of `Dispatch`; without it a lossy channel could refuse for ever).
Agents, operators, connections and budgets promise nothing: if a gate keeps
closing, `NoIdleStarvation` says nothing.

In `StartupLife`, `FairSpec` assumes that the handlers, the watch loops and the
loop itself keep running (weak fairness) and that a waiting sender gets its
turn in the channel, as tokio's mpsc queues them (strong fairness of
`CreateAnswers`, `DeleteReleases` and of the socket task of a process that is
gone).  It assumes nothing of a worker's connecting, ending or losing its
connection, nor of any operator.

In `Movement` only the timer is fair (`StepAll`).  In `ActionLocks` the loop and
the GC run on, and thirty seconds pass; no operator and no console promises
anything.

## 4. Findings

Each is a run that TLC ends with a counterexample to a sentence of the
repository.

1. **A busy agent is given a second task** (`busy_agents`).  `scheduler.rs:115`
   says "agent is busy; wait until it finishes its current work."  `task_done`
   and `task_failed` set the caller's avatar to idle whatever task they are
   about.  An agent with task 1 in progress that fails its queued task 2 is idle
   for the scheduler, and the next tick dispatches task 3.
2. **An agent is lost on a doorstep** (`lost_walker`).  `move_sys.rs:11-12` says
   that a step on a door's tile updates `room_id`.  `start_move` drops the first
   step when it is to the tile the agent stands on, and the room to enter with
   it.  An agent that stands on the tile of a door inside its own room, and is
   sent through that door, walks on with its old `room_id`; from then on its tile
   is outside its room and every move is `NoPath`.

Met on the way.  TLC shows each of these with an instance of the same modules
and the change named here; they are no runs of their own, because nothing in the
code could make the property hold, or the sentence is the design's and not the
code's.

- *Trespass.*  Without its disjunct about `overtaken`, TLC refutes
  `LetInWhenPlanned`: a suite claimed while a stranger is on the way is entered all
  the same (`docs/superpowers/specs/2026-05-07-cliptown-design.md:411`: "A may never
  enter a suite owned by a different startup").
- *A spend without a ledger row.*  `spent = ledger` fails: a report that names an
  unknown task is counted, and its row of `budget_events` is refused and only
  logged (`budget.rs:146-163`), although the module promises that a report
  "appends a `budget_events` row" (`budget.rs:7`).
- *A circle of blockers.*  `task_set_blocking` refuses a task that blocks
  itself, for the reason that it "would deadlock the scheduler"
  (`mcp_dispatch.rs:1805`); a circle of two does the same.
- *A queued task that nobody has.*  `api_tasks.rs:119` derives the status from
  the assignee and says that it mirrors the subtask handler; there a manager's
  call without an assignee inserts `queued`.  Scheduler, `task_steal` and
  `accept_proposal` all pass such a row over.
- *Recovery repeats.*  `migrations/0015_auto_recovery.sql:13` says "if the peer
  also fails, escalate"; the pass resets `review_round`, which is also what the
  escalation cap counts, and keeps no record that it has run.
- *A restart loses the agents.*  The design (line 611) promises that the state
  is rehydrated from SQLite; `main.rs` starts from an empty `WorldView`, and only
  creating a startup inserts avatars.
- *A worker that a dissolution misses*, with `PerTask`: `DissolvedStaysDead`
  fails.  The dissolution (`agent_supervisor.rs:7`) works on one snapshot, the
  avatars go only after its grace period, and the scheduler does not read
  `startups.status`; it may spawn a worker in between, which nothing kills.
- *Two workers for one agent*, with `PerTask`: `OneWorker` fails.
  `scheduler.rs:219-221` takes a missing `out_bus` entry for the end of a worker:
  "Don't double-spawn."  A worker in `--real` mode does not stop when its socket
  closes; its CLI reports by HTTP, the avatar is idle, and a second process
  starts.  When the first one ends, its watch loop removes the second one's map
  entry, since `remove_agent` goes by name.
- *A DELETE that overtakes its POST*, with `Impatient` set: `InLockStep` fails.
  The `ReleaseSuite` comes before the `InsertAvatars`, and ghost avatars and a
  claimed suite stay.  It takes a POST that is held up for longer than the five
  seconds of grace.
- *The second click bounces* (`migrations/0013_action_locks.sql`): it does so only
  after a crash (`BouncesOffACrash`).  A command's lock is released before the
  loop takes the next command, so a second click finds no lock.
- *Two admins may demote each other* with the roles of their hellos, and no
  admin remains; what `SomeoneRemains` says of accounts does not hold of admins.
- *A pause is for good.*  The design (line 618) has "Operator raises cap to
  resume"; no code sends anything when the cap is raised.  A pause also misses
  workers that register later and those whose channel is full.
- *An operator's own edit of a skill is not shown*: its frame has `skill: None`,
  though `ws_messages.rs:165-169` says 'For kind="upsert" the `skill` field
  carries the listing row'; a browser shows a new skill of an operator after the
  next snapshot only.  `set_global` frames are not applied at all.
- *An older presence list may be sent last*, although the list is "re-emitted
  whenever the registry mutates" (`presence.rs:9-12`); hence `SameList` does not
  say that what all show is true.
- A global skill and an agent's own of the same name are written to the same
  directory by the worker (`execenv.ts:64`).
- Daemon workers are spawned without `--task-id`, which
  `packages/worker/src/main.ts:80` requires.
- The design's section 9 promises a respawn after a lost connection; the worker
  exits with success then, which the supervisor does not respawn.  The
  `cli_session_ended` of the same table appears nowhere in the code, so a worker
  that ends without a report leaves its avatar working.
- `OperatorForceFail` leaves the avatar of the agent that was working at
  `working`, and no later step frees it unless the agent reports about another
  task (`WorkingAgentHasTask` has a disjunct for it).
- `docs/OPERATOR.md:53` names `failed` as the status after the last review
  round; the code writes `escalated`, which is settled for the scheduler's
  blocking gate and open for `task_sm`.

## 5. Proofs

For every value of the constants that meets the named assumptions of the
modules, which TLC evaluates in every run:

| Module | Theorem | Statement |
|---|---|---|
| `TaskWorldProofs` | `TypeCorrect` | `Spec => []TypeOK` |
| | `SnapshotCorrect` | `Spec => []SnapshotHolds` |
| | `ProposalsFree` | `Spec => []ProposalsUnassigned` |
| | `TenantIsolation` | `Spec => []AssigneeInStartup` |
| | `FreshWork` | `Spec => []OpenWorkIsFresh` |
| | `NoTaskLost` | `Spec => []WorkingAgentHasTask` |
| | `RoleKept` | `Spec => HandoversKeepRole` |
| | `BlockersObeyed` | `Spec => BlockersHold` |
| | `Refinement` | `Spec => CycleSpec` |
| `StartupLifeProofs` | `StartupTypes` | `Spec => []TypeOK` |
| | `NoRegistrationLeftDead` | `Spec => []NoDeadRegistration` |
| | `OneWorkerEach` | `~PerTask` gives `Spec => []OneWorker` |
| | `DissolvedForGood` | `~PerTask` and `Impatient = {}` give `Spec => []DissolvedStaysDead` |
| | `MemoryFollowsSql` | `Impatient = {}` gives `Spec => []InLockStep` |
| `BudgetProofs` | `SpecTypeOK` | `Spec => []TypeOK` |
| | `SpecSpendIsReported`, `SpecAnnouncedOnce`, `SpecNoSilentCrossing`, `SpecNoTaskBehindPause` | `Spec => []` the property of that name |
| `ActionLocksProofs` | `LockTypes` | `Spec => []TypeOK` |
| | `BouncesOnlyOffACrash` | `Spec => []BouncesOffACrash` |
| | `NeverTheLast` | `Spec => []SomeoneRemains` |
| | `LiveLocksStay` | `Spec => NoLiveLockSwept` |
| | `BrowserShowsLocks` | `Spec => []ShowsTheLocks` |
| `PresenceProofs` | `PresenceTypes` | `Spec => []TypeOK` |
| | `NobodyLeftBehind` | `Spec => []NoGhosts` |
| | `ConsolesAgree` | `Spec => []SameList` |
| `SkillsProofs` | `SkillTypes` | `Spec => []TypeOK` |
| | `HistoryEndsLive` | `Spec => []NewestIsLive` |
| | `BrowsersFollow` | `Spec => []ShowsAttachments` |
| | `HistoriesKept` | `Spec => []CacheIsHistory` |
| `MovementProofs` | `WalkTypes` | `Spec => []TypeOK` |
| | `WalksAreWalks` | `Spec => []StepByStep` |
| | `TargetsAreReached` | `Spec => []HeadsForTarget` |
| | `StaysInside` | `NoTurning` gives `Spec => []InsideItsRoom` |
| | `TalkStaysInside` | `NoTurning` gives `Spec => []SuiteTalkStaysInside` |
| | `EntrantsWereLetIn` | `Spec => LetInWhenPlanned` |
| | `WalksImplementErrands` | `NoTurning` gives `Spec => WalksAreErrands` |

So every invariant, action property and refinement that a passing run checks is
a theorem; the runs' liveness properties are not.

TLC refutes the properties of `StartupLife` without `~PerTask` or `Impatient = {}`
and `InsideItsRoom` without `NoTurning` (section 4).

### The board

`IInv` is the conjunction of the six invariants of run `board`; none of them is
inductive alone.

- `WorkingAgentHasTask` needs `SnapshotHolds`: a steal or a recovery of a
  row that had meanwhile started would take it from its agent.
- It also needs `OpenWorkIsFresh`: the only reason `EscalateAtCap` cannot fire
  on a task in progress is that such a task has round 0 and the cap is positive.
- `OpenWorkIsFresh` needs `SnapshotHolds` too: `Dispatch` starts a row because
  the SELECT saw it queued, and a queued row is fresh.
- `AssigneeInStartup` needs `ProposalsUnassigned` for the handlers that keep
  an assignee while they change the status, and the action property
  `HandoversKeepRole` needs it for `accept_proposal`, which names an assignee
  of any role and is harmless only because a proposal has none.

Lemmas first group the actions that do the same to the invariant: `SettleInv` for
those that write only a status, `InsertInv` for the three that insert a row,
`AcceptInv` for the two acceptances, `HandoverInv` for the three that change an
assignee, `PassInv` and `PassedOverInv` for the steps of a tick that change no
row.  `AgentCallInv`, `OperatorCallInv`, `EnvironmentInv` and `TickRowInv`
assemble them, one step per action, and `StepInv` and `Invariance` close the
induction.  The two action properties and the refinement come from one list,
`Steps`, that says which step may change which columns.

`ReviewCycle` is instantiated with the same names, so the refinement mapping is
the identity on `status` and `round`.  `TaskDone` maps to `Submit`,
`RequestChanges` to `Bounce`, `EscalateAtCap` to `Escalate` (by
`OpenWorkIsFresh`, which excludes its other statuses), `Dispatch` to `Start`
and `RecoverRow` to `StartOver` (both by `SnapshotHolds`), the inserts to
`Create`, rejections, failures and force-fails to `Fail`; all others stutter.

### Startups and workers

Four inductive arguments over the same types, each as weak as its theorem
allows.

- `RegInv`, for `NoRegistrationLeftDead`, holds in every mode.  It adds to the
  types `RegistrationsAnswered` (a registration, in the bus or still in the
  channel, whose session is over is followed in the channel by the command that
  ends it) and `StartingUnknown` (a process that has not connected has never been
  registered).
- `SoleInv`, for `OneWorkerEach`: with daemons, whoever spawns for an agent is the
  only one that can, because `create_startup` spawns once and a watch loop
  respawns only when its own process is gone (`Sole`).
- `DeathInv`, for `DissolvedForGood`, adds that nobody is spawned before the
  startup is there (`CreatedFirst`), that the map knows each process but one
  just spawned (`MapKnows`), and for each stage of the dissolution what it has
  already made of every process: in the snapshot, then in the tombstones, then
  dead (`Dissolution`).
- For `MemoryFollowsSql`, `Stages` says how far POST and DELETE of each startup
  have come and what SQL says then, and `LoopFollows` what the channel and the
  loop's memory hold of it: its claim stands before its release in the
  channel, and every claim of an earlier holder of the suite before that of the
  present one.  With an empty channel and no handler at work, this is
  `InLockStep`.

### Budgets

The invariant is `TypeOK`, `LoopSeesSpend` (the spend a SELECT saw is still the
spend, because only the loop writes it), `EventsReached` (what is announced was
reached), `PausesReached` (the same of pauses in channels, which is why the gate,
which shuts before the pause, lets no task follow) and the four properties
themselves.

### Locks

The invariant is `TypeOK`, `RowsAndCommands` (a row of the present life of the
world is the lock of the command under way), `OwnLock` (a command acts under its
own row or none), `Revoker` (whoever revokes has a row in `operators` and revokes
another) and the two invariants proved.  `SomeoneRemains` is then the foreign key
at work: at the moment of a revoke, the revoker's account is there.
`LiveLocksStay` follows from `RowsAndCommands` and `OwnLock` step by step.

`BrowserShowsLocks` needs four more (`ViewInv`), of which the two that matter are
about a backlog of frames and what will come after it.  `OldLocks`: a live lock
that a crash left was there before anybody's session, so no backlog has a frame
about it, the GC has not selected it, and every view shows it; and at rest no other
lock is live.  `NewsComing`: whatever a browser shows without a row behind it, is
going to be put right, by a frame in its backlog, a view that is due, the command
under way, or the GC's unlock.  `UnlockFollows` keeps that true when frames are
taken: a "locked" frame has an "unlocked" one behind it unless its command is
still under way.  `Selected` says how far the GC is with a key it has selected.

### Presence

`NoGhosts` is inductive with the types.  `SameList` is not: `SameComing` says that
the lists two consoles are heading for, which is the last one in the backlog or
the one shown, are the same unless one has lagged or is joining.

### Skills

`NewestIsLive` and `CacheIsHistory` are inductive with the types.  For
`ShowsAttachments`, `LastWordIsTrue` says of each skill and agent that the last
frame of a backlog that decides whether the browser shows them together says what
the table says, and that without such a frame the browser is right already; the
broadcasts keep it because each follows its UPDATE within one command of the loop,
and the piecemeal reading keeps it because the console subscribed before it read.
`DeletesComing` says that a skill that is gone, and that a browser shows, will
show from a frame, or has still to ask the attachments of, has its "delete" frame
in the backlog, with no later one that would bring it back.

### Movement

The theorems hold in every town that `TownAssumption` admits, so that the plans
are not enumerated but reasoned about.

- `RoutesAreWays`: a shortest way over rooms never leaves a room for the one it came
  from, since it could be cut short.  As doors have tiles of their own, a way
  never takes the same door tile twice in a row (`NextDoor`).
- `Run(s, r, e)` says that an agent in room r that takes the steps s ends in room
  e, and stands after each of them inside the room it is in then, or on one of its
  doors.  `LegFacts` shows it of each segment, and `FullRouteFacts` of the whole
  route: where two segments meet, the next one begins beside the door's tile or on
  it, and in the latter case with a step that enters nothing.  This is why the
  step that `Dedupe` drops there loses no room (`DedupeFacts`).
- `FullRoutes` and `Dedupe` are recursive functions.  `FullRoutesAre` and `DedupeIs`
  unfold them: the function exists up to each n, by induction over a set of
  naturals (`NatSet`, from the well-foundedness of `<`), and the CHOOSE behind the
  definition therefore picks one.
- `PlanFacts` sums up: a plan goes from the tile the agent stands on, by adjacent
  tiles, to the target, is a `Run` from room to room, and enters rooms of its way
  only.

`WalkInv` is the types, `StepByStep`, `HeadsForTarget`, that whoever is in the world
stands on a tile, and that whoever is not has no target.  `AllOnRoute` adds, where
nobody turns on a doorstep, that each agent is inside its room and that its path is
a `Run` to the room its last tile is in; this is `InsideItsRoom`, and the goal of
the errand.  `start_move` keeps it because the step it drops then enters nothing,
and the rest of a run is a run (`RunTail`).  `SuiteTalkStaysInside` follows: who
stands inside a suite is in it, and `Hears` asks for the speaker's startup there.

`LetInWhenPlanned` rests on `BeyondFacts`: all rooms of a way but its ends are
public, because a suite has one door and a way does not turn back.  So permission
for the target is permission for the whole way.  `ClaimInv` says that each room
left on a path lets its agent in or is in `overtaken`: `start_move` makes it true of
the steps it stores, a release opens rooms only, and `InsertAvatars` puts the suite
it claims into `overtaken` of whoever is on the way there.

The refinement takes `Walk` to `Send`, a step to `Pass` or, when it is the last,
to `Arrive`, a claim to `Appear` and a release to `Vanish`.

### Only model-checked

Liveness under fairness is out of the prover's reach: `NoIdleStarvation`,
`DeletesComplete`, `WalksEnd`, `LocksEnd`.  That `Routes` and `TilePaths` of the
default town are not empty, and which of the shortest ways A* finds, is not
asked anywhere: a move without a plan is refused.

## 6. Not modelled, and why

- Of a worker's session: `move_complete`, proximity frames and chat as messages
  (who receives a chat is `Hears`), because no step of the world depends on
  them.  The commands a worker's death leaves undone (a task stays in progress)
  are in `TaskWorld` as what does not happen; the session's own protocol on a
  reconnect is in the worker, which is not modelled.
- Of the startup handlers: a client that hangs up in the middle of a request
  (which cancels the handler), SQL errors, and two DELETEs of one startup at the
  same time.  A world restart is modelled for the board and for locks and not
  for the startups: workers die with the world (`kill_on_drop`), and the loop's
  memory starts empty.
- Of budgets: a crash in the middle of a report.  `Budget` has no restart; in the
  code one leaves a committed spend whose row, event and frames never come.
- Of the console: directives, possession and moves by the operator, and plain
  UPDATEs of settings.
- Self-review: `self_reviewed_at` is written and never read, so that there is
  nothing it could break; the checks of artifact paths and chunks are about
  files and text.
- Deadlines: the scan writes an audit entry and reads it to avoid a second one,
  inside the loop.
- Health is a function of one timestamp; `permissions.rs` is called by tests only.
- In skills, what is refused (names, sizes, roles) and `for_agent`, which reads.
- Backup, workspace GC and sandbox are about the file system; views, metrics,
  configuration and storage change no state that other parts read; the adapters
  and the frontend wrap external programs and a renderer.  Of the frontend, the
  reducers for locks, presence and skills are in the modules of those.

## 7. Plan

Done: `TaskSM`, `ReviewCycle`, `TaskWorld`; `Supervisor`, `StartupLife`;
`Errand`, `Movement`; `Budget`; `ActionLocks`; `Presence`; `Skills`; proofs of every
safety property and refinement the runs check.

To come, in order of importance:

1. `StartupLife` with two agents and a restart of the world, its theorems with it.
2. The deadline scan as a fourth pass of `TaskWorld`'s tick.
3. Of liveness, what can be said as safety: that a walk gets shorter at each tick,
   and that a dissolution never goes back to an earlier stage.
