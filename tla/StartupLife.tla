----------------------------- MODULE StartupLife -----------------------------
(***************************************************************************)
(* The life of a startup, from POST to DELETE /api/startups: its rows, its *)
(* suite, its avatars in the world, its worker processes and their         *)
(* sessions.                                                               *)
(*                                                                         *)
(* Five kinds of actors run at the same time: the HTTP handlers            *)
(* create_startup and delete_startup, the supervisor's tasks, the worker   *)
(* processes, one socket task per session (http::handle_worker), and the   *)
(* world loop.  They reach the loop through one first-in first-out channel *)
(* of commands, so what a handler has committed to SQL and what the loop   *)
(* holds in memory differ until the command arrives.                       *)
(***************************************************************************)
EXTENDS Supervisor, Sequences, Functions

CONSTANTS
  Suites, NoStartup, NoSuite,
  ChannelSize, \* mpsc::channel::<Cmd>(1024)
  PerTask,     \* CLIPTOWN_PER_TASK_WORKERS=1: a worker per task, no daemons
  Impatient    \* startups whose DELETE may overtake their own POST

ASSUME StartupAssumption ==
  /\ NoStartup \notin Startups
  /\ NoSuite \notin Suites
  /\ ChannelSize \in Nat \ {0}
  /\ PerTask \in BOOLEAN
  /\ Impatient \subseteq Startups

VARIABLES
  life,       \* startups.status
  owner,      \* rooms.private_to_startup_id in SQL
  creating,   \* the progress of create_startup
  suite,      \* its suite_id
  toSpawn,    \* the agents it has still to spawn a worker for
  channel,    \* commands on their way to the loop
  claim,      \* rooms.private_to_startup_id in the loop's layout
  inWorld,    \* startups whose avatars are in WorldView
  busy,       \* agents whose avatar is `working`
  bus,        \* out_bus: the session registered for an agent, by its process
  session     \* each process's open socket, by its agent's name

sql    == <<life, owner>>
create == <<creating, suite, toSpawn>>
memory == <<claim, inWorld, busy, bus>>
vars   == <<supervisor, sql, create, channel, memory, session>>

Crew(s) == {a \in Agents : StartupOf[a] = s}

Command ==
  [op : {"InsertAvatars"}, startup : Startups, suite : Suites]
  \cup [op : {"ReleaseSuite"}, startup : Startups]
  \cup [op : {"RegisterWorker"}, agent : Agents, pid : Pids]
  \cup [op : {"UnregisterWorker"}, agent : Agents]

TypeOK ==
  /\ SupervisorTypeOK
  /\ life \in [Startups -> {"absent", "active", "dissolved"}]
  /\ owner \in [Suites -> Startups \cup {NoStartup}]
  /\ creating \in [Startups -> {"no", "spawning", "answered"}]
  /\ suite \in [Startups -> Suites \cup {NoSuite}]
  /\ toSpawn \subseteq Agents
  /\ channel \in Seq(Command)
  /\ claim \in [Suites -> Startups \cup {NoStartup}]
  /\ inWorld \subseteq Startups
  /\ busy \subseteq Agents
  /\ bus \in [Agents -> Pids \cup {NoPid}]
  /\ session \in [Pids -> Agents \cup {NoAgent}]

Init ==
  /\ SupervisorInit
  /\ life = [s \in Startups |-> "absent"]
  /\ owner = [x \in Suites |-> NoStartup]
  /\ creating = [s \in Startups |-> "no"]
  /\ suite = [s \in Startups |-> NoSuite]
  /\ toSpawn = {}
  /\ channel = <<>>
  /\ claim = [x \in Suites |-> NoStartup]
  /\ inWorld = {}
  /\ busy = {}
  /\ bus = [a \in Agents |-> NoPid]
  /\ session = [p \in Pids |-> NoAgent]

\* tx.send(cmd).await, which waits while the channel is full.
Send(cmd) ==
  /\ Len(channel) < ChannelSize
  /\ channel' = Append(channel, cmd)

\* A process id nothing refers to any more.
Unused(p) ==
  /\ child[p] = Gone
  /\ session[p] = NoAgent
  /\ \A a \in Agents : p \notin {entry[a], bus[a]}
  /\ \A cmd \in Range(channel) : cmd.op = "RegisterWorker" => cmd.pid # p

\* The operating system names a new process.
Fresh(p) == Unused(p) /\ p = CHOOSE q \in Pids : Unused(q)

-----------------------------------------------------------------------------
(* create_startup.                                                         *)

\* Its transaction: the startup, its agents and a free suite.
CreateCommits(s) ==
  /\ life[s] = "absent"
  /\ \E x \in Suites :
       /\ owner[x] = NoStartup
       /\ owner' = [owner EXCEPT ![x] = s]
       /\ suite' = [suite EXCEPT ![s] = x]
  /\ life' = [life EXCEPT ![s] = "active"]
  /\ creating' = [creating EXCEPT ![s] = "spawning"]
  /\ toSpawn' = IF PerTask THEN toSpawn ELSE toSpawn \cup Crew(s)
  /\ UNCHANGED <<supervisor, channel, memory, session>>

\* Mutant: the loop comes back to an agent it has spawned a worker for.
CreateSpawnsAgain(a, p) ==
  /\ a \in toSpawn
  /\ Fresh(p)
  /\ SpawnAgent(a, p)
  /\ UNCHANGED <<sql, create, channel, memory, session>>

\* One turn of its loop over the agents; a spawn that fails is only logged.
CreateSpawns(a, p) ==
  /\ a \in toSpawn
  /\ Fresh(p)
  /\ SpawnAgent(a, p)
  /\ toSpawn' = toSpawn \ {a}
  /\ UNCHANGED <<sql, creating, suite, channel, memory, session>>

CreateSpawnFails(a) ==
  /\ a \in toSpawn
  /\ toSpawn' = toSpawn \ {a}
  /\ UNCHANGED <<supervisor, sql, creating, suite, channel, memory, session>>

\* The avatars and the claim go to the loop, and the answer to the operator.
CreateAnswers(s) ==
  /\ creating[s] = "spawning"
  /\ toSpawn \cap Crew(s) = {}
  /\ creating' = [creating EXCEPT ![s] = "answered"]
  /\ Send([op |-> "InsertAvatars", startup |-> s, suite |-> suite[s]])
  /\ UNCHANGED <<supervisor, sql, suite, toSpawn, memory, session>>

-----------------------------------------------------------------------------
(* delete_startup, which may be called again and again, though the model    *)
(* has one call for a startup at a time.                                    *)

\* Its transaction, and the call of dissolve_startup.
DeleteCommits(s) ==
  /\ life[s] # "absent"
  /\ creating[s] = "answered" \/ s \in Impatient
  /\ dissolve[s] = "idle"
  /\ life' = [life EXCEPT ![s] = "dissolved"]
  /\ owner' = [x \in Suites |-> IF owner[x] = s THEN NoStartup ELSE owner[x]]
  /\ dissolve' = [dissolve EXCEPT ![s] = "called"]
  /\ UNCHANGED <<child, entry, tomb, targets, create, channel, memory, session>>

DeleteReleases(s) ==
  /\ dissolve[s] = "killed"
  /\ dissolve' = [dissolve EXCEPT ![s] = "idle"]
  /\ Send([op |-> "ReleaseSuite", startup |-> s])
  /\ UNCHANGED <<child, entry, tomb, targets, sql, create, memory, session>>

-----------------------------------------------------------------------------
(* Worker processes and their sessions.                                    *)

\* hello, its answer, and RegisterWorker.  The agent's row outlives its
\* startup, so a worker of a dissolved startup is let in.
Connect(p) ==
  /\ child[p].run = "starting"
  /\ child' = [child EXCEPT ![p].run = "connected"]
  /\ session' = [session EXCEPT ![p] = child[p].agent]
  /\ Send([op |-> "RegisterWorker", agent |-> child[p].agent, pid |-> p])
  /\ UNCHANGED <<entry, tomb, dissolve, targets, sql, create, memory>>

\* Mutant: the socket task returns without a word to the loop.
DisconnectSilently(p) ==
  /\ session[p] # NoAgent
  /\ session' = [session EXCEPT ![p] = NoAgent]
  /\ UNCHANGED <<supervisor, sql, create, channel, memory>>

\* The socket is closed: the process ended, or the network did.  The command
\* names the agent, not the session.
Disconnect(p) ==
  /\ session[p] # NoAgent
  /\ session' = [session EXCEPT ![p] = NoAgent]
  /\ Send([op |-> "UnregisterWorker", agent |-> session[p]])
  /\ UNCHANGED <<supervisor, sql, create, memory>>

\* The scheduler hands a task to a worker spawned for it: the avatar is idle
\* and no session is registered.
SpawnForTask(a, p) ==
  /\ PerTask
  /\ StartupOf[a] \in inWorld
  /\ a \notin busy
  /\ bus[a] = NoPid
  /\ Fresh(p)
  /\ SpawnAgent(a, p)
  /\ busy' = busy \cup {a}
  /\ UNCHANGED <<sql, create, channel, claim, inWorld, bus, session>>

\* The worker's CLI calls task_done or task_failed: the avatar is idle again.
\* The call goes through the channel too, behind the worker's RegisterWorker.
Report(p) ==
  /\ child[p].run = "connected"
  /\ child[p].agent \in busy
  /\ [op |-> "RegisterWorker", agent |-> child[p].agent, pid |-> p] \notin Range(channel)
  /\ busy' = busy \ {child[p].agent}
  /\ UNCHANGED <<supervisor, sql, create, channel, claim, inWorld, bus, session>>

-----------------------------------------------------------------------------
(* The world loop takes a command.                                         *)

Takes(op) ==
  /\ channel # <<>>
  /\ Head(channel).op = op
  /\ channel' = Tail(channel)

\* Mutant: a suite that has an owner keeps it.
InsertAvatarsPolitely ==
  /\ Takes("InsertAvatars")
  /\ LET cmd == Head(channel) IN
       /\ inWorld' = inWorld \cup {cmd.startup}
       /\ claim' = [claim EXCEPT ![cmd.suite] = IF @ = NoStartup THEN cmd.startup ELSE @]
       /\ busy' = busy \ Crew(cmd.startup)
  /\ UNCHANGED <<supervisor, sql, create, bus, session>>

InsertAvatars ==
  /\ Takes("InsertAvatars")
  /\ LET cmd == Head(channel) IN
       /\ inWorld' = inWorld \cup {cmd.startup}
       /\ claim' = [claim EXCEPT ![cmd.suite] = cmd.startup]
       /\ busy' = busy \ Crew(cmd.startup)
  /\ UNCHANGED <<supervisor, sql, create, bus, session>>

ReleaseSuite ==
  /\ Takes("ReleaseSuite")
  /\ LET s == Head(channel).startup IN
       /\ inWorld' = inWorld \ {s}
       /\ claim' = [x \in Suites |-> IF claim[x] = s THEN NoStartup ELSE claim[x]]
       /\ busy' = busy \ Crew(s)
  /\ UNCHANGED <<supervisor, sql, create, bus, session>>

RegisterWorker ==
  /\ Takes("RegisterWorker")
  /\ bus' = [bus EXCEPT ![Head(channel).agent] = Head(channel).pid]
  /\ UNCHANGED <<supervisor, sql, create, claim, inWorld, busy, session>>

\* Whatever session is registered for the agent, it goes.
UnregisterWorker ==
  /\ Takes("UnregisterWorker")
  /\ bus' = [bus EXCEPT ![Head(channel).agent] = NoPid]
  /\ UNCHANGED <<supervisor, sql, create, claim, inWorld, busy, session>>

Loop ==
  InsertAvatars \/ ReleaseSuite \/ RegisterWorker \/ UnregisterWorker

-----------------------------------------------------------------------------
others == <<sql, create, channel, memory, session>>

\* The supervisor's own steps.
SupervisorStep ==
  \/ \E p \in Pids : (Exit(p) \/ Watch(p)) /\ UNCHANGED others
  \/ \E p, q \in Pids : Fresh(q) /\ Respawn(p, q) /\ UNCHANGED others
  \/ \E s \in Startups : Dissolving(s) /\ UNCHANGED others

Spawning(s) ==
  \E a \in Crew(s) : CreateSpawnFails(a) \/ \E p \in Pids : CreateSpawns(a, p)

Next ==
  \/ \E s \in Startups :
       \/ CreateCommits(s) \/ Spawning(s) \/ CreateAnswers(s)
       \/ DeleteCommits(s) \/ DeleteReleases(s)
  \/ \E p \in Pids : Connect(p) \/ Disconnect(p) \/ Report(p)
  \/ \E a \in Agents, p \in Pids : SpawnForTask(a, p)
  \/ Loop
  \/ SupervisorStep

Spec == Init /\ [][Next]_vars

(* Fairness: the handlers, the watch loops, the socket tasks of ended       *)
(* processes and the world loop keep running, and the channel serves its    *)
(* senders in turn; processes, the network and operators promise nothing.   *)
Fairness ==
  /\ \A s \in Startups :
       /\ WF_vars(Spawning(s))
       /\ SF_vars(CreateAnswers(s))
       /\ WF_vars(Dissolving(s) /\ UNCHANGED others)
       /\ SF_vars(DeleteReleases(s))
  /\ \A p \in Pids :
       /\ WF_vars(Watch(p) /\ UNCHANGED others)
       /\ SF_vars(child[p] = Gone /\ Disconnect(p))
  /\ WF_vars(Loop)

FairSpec == Spec /\ Fairness

-----------------------------------------------------------------------------
(* Properties.                                                             *)

\* A registered channel is never a dead one for good: its session is open, or
\* the command that will take it off the bus is on its way.  Until then the
\* scheduler may push a task into it.
NoDeadRegistration ==
  \A a \in Agents :
    bus[a] # NoPid /\ session[bus[a]] = NoAgent =>
      [op |-> "UnregisterWorker", agent |-> a] \in Range(channel)

\* "Supervisor: per agent, ensures one worker": never two processes run for
\* one agent, through crashes, back-offs, failed respawns and dissolutions.
OneWorker ==
  \A p, q \in Pids :
    Alive(p) /\ Alive(q) /\ child[p].agent = child[q].agent => p = q

\* agent_supervisor.rs:7: "On startup dissolve: SIGTERM all that startup's
\* workers; 5s grace; SIGKILL."  So when a dissolution is over no worker of the
\* startup runs, and none is ever respawned by a loop that was backing off or
\* spawning while the tombstones were set.
DissolvedStaysDead ==
  \A s \in Startups, p \in Pids :
    life[s] = "dissolved" /\ dissolve[s] \in {"killed", "idle"} /\ Alive(p)
      => StartupOf[child[p].agent] # s

\* loop_.rs:110-114: the loop flips "suite ownership in lock-step with the SQL
\* writes".  With no handler at work and no command on its way, the layout and
\* the avatars are those of the rows, whichever handlers of different startups
\* overlapped on the same suite.
InLockStep ==
  (/\ \A s \in Startups : creating[s] # "spawning" /\ dissolve[s] = "idle"
   /\ channel = <<>>)
  => claim = owner /\ inWorld = {s \in Startups : life[s] = "active"}

\* Nothing is left of startup s but its rows.
Vanished(s) ==
  /\ s \notin inWorld
  /\ \A x \in Suites : claim[x] # s
  /\ \A a \in Crew(s) : bus[a] = NoPid /\ entry[a] = NoPid
  /\ \A p \in Pids : child[p] # Gone => child[p].agent \notin Crew(s)

\* A deleted startup vanishes, some time, from the loop, the bus and the
\* supervisor, and stays away: no worker that connects late, no session that
\* closes late and no watch loop that was asleep leaves anything behind.
DeletesComplete ==
  <>[](\A s \in Startups : life[s] = "dissolved" => Vanished(s))
=============================================================================
