----------------------------- MODULE Supervisor -----------------------------
(***************************************************************************)
(* agent_supervisor.rs: the worker processes, the watch loop beside each   *)
(* of them, and the dissolution of a startup.                              *)
(*                                                                         *)
(* spawn_agent, every watch loop and every dissolve_startup are tasks of   *)
(* their own: they meet in two maps behind mutexes, `agents` and           *)
(* `tombstones`, and an action is what one of them does between two of its *)
(* waits.  This module has no Next: StartupLife composes it with those who *)
(* call it.                                                                *)
(***************************************************************************)
EXTENDS Naturals

CONSTANTS
  Agents,
  Startups,
  StartupOf,   \* SpawnConfig.startup_id of an agent
  Pids,        \* process ids; one in use is not given out again
  NoAgent, NoPid,
  Backoffs     \* config.backoff_ms.len()

ASSUME SupervisorAssumption ==
  /\ StartupOf \in [Agents -> Startups]
  /\ NoAgent \notin Agents
  /\ NoPid \notin Pids
  /\ Backoffs \in Nat

VARIABLES
  child,      \* each process: how it runs, its agent, and its watch loop
  entry,      \* the map `agents`: the pid recorded for an agent
  tomb,       \* the set `tombstones`
  dissolve,   \* how far dissolve_startup has come for a startup
  targets     \* the agents it found in the map

supervisor == <<child, entry, tomb, dissolve, targets>>

\* A process starts, says hello to the world, and exits; its watch loop waits
\* for the exit, sleeps before a respawn, or has spawned a new child and not
\* recorded its pid yet.
Child ==
  [run : {"starting", "connected", "ok", "failed"}, agent : Agents,
   watch : {"waiting", "backoff", "spawned"}, failures : 0..Backoffs]

\* A process id that names no process and no exit status to be read.
Gone == [run |-> "gone", agent |-> NoAgent, watch |-> "none", failures |-> 0]

SupervisorTypeOK ==
  /\ child \in [Pids -> Child \cup {Gone}]
  /\ entry \in [Agents -> Pids \cup {NoPid}]
  /\ tomb \subseteq Agents
  /\ dissolve \in [Startups -> {"idle", "called", "listed", "grace", "killed"}]
  /\ targets \in [Startups -> SUBSET Agents]

SupervisorInit ==
  /\ child = [p \in Pids |-> Gone]
  /\ entry = [a \in Agents |-> NoPid]
  /\ tomb = {}
  /\ dissolve = [s \in Startups |-> "idle"]
  /\ targets = [s \in Startups |-> {}]

Alive(p) == child[p].run \in {"starting", "connected"}

-----------------------------------------------------------------------------
(* Spawning and watching.                                                  *)

\* spawn_agent: the child, its entry in the map, its watch loop.
SpawnAgent(a, p) ==
  /\ child[p] = Gone
  /\ child' = [child EXCEPT ![p] = [run |-> "starting", agent |-> a,
                                    watch |-> "waiting", failures |-> 0]]
  /\ entry' = [entry EXCEPT ![a] = p]
  /\ UNCHANGED <<tomb, dissolve, targets>>

\* A process ends, by itself or by a signal, with success or not.
Exit(p) ==
  /\ Alive(p)
  /\ \E r \in {"ok", "failed"} : child' = [child EXCEPT ![p].run = r]
  /\ UNCHANGED <<entry, tomb, dissolve, targets>>

\* The watch loop of p sees its child's exit status.
Reaps(p) == child[p].watch = "waiting" /\ ~Alive(p)

\* Mutant: the agent stays in the map.
EndWatchKeepsEntry(p) ==
  /\ child' = [child EXCEPT ![p] = Gone]
  /\ UNCHANGED <<entry, dissolve, targets>>

\* The watch loop returns: remove_agent, by the agent's name, whichever pid is
\* recorded there.
EndWatch(p) ==
  /\ child' = [child EXCEPT ![p] = Gone]
  /\ entry' = [entry EXCEPT ![child[p].agent] = NoPid]
  /\ UNCHANGED <<dissolve, targets>>

\* take_tombstone finds one, after an exit or after the back-off's sleep.
HonourTombstone(p) ==
  /\ Reaps(p) \/ child[p].watch = "backoff"
  /\ child[p].agent \in tomb
  /\ tomb' = tomb \ {child[p].agent}
  /\ EndWatch(p)

WorkerDone(p) ==
  /\ Reaps(p)
  /\ child[p].agent \notin tomb
  /\ child[p].run = "ok"
  /\ EndWatch(p)
  /\ UNCHANGED tomb

\* The worker_dead event, and the end of the loop.
WorkerDead(p) ==
  /\ Reaps(p)
  /\ child[p].agent \notin tomb
  /\ child[p].run = "failed"
  /\ child[p].failures = Backoffs
  /\ EndWatch(p)
  /\ UNCHANGED tomb

BackOff(p) ==
  /\ Reaps(p)
  /\ child[p].agent \notin tomb
  /\ child[p].run = "failed"
  /\ child[p].failures < Backoffs
  /\ child' = [child EXCEPT ![p].watch = "backoff", ![p].failures = @ + 1]
  /\ UNCHANGED <<entry, tomb, dissolve, targets>>

\* Mutant: the tombstone is not looked at again after the sleep.
RespawnUnchecked(p, q) ==
  /\ child[p].watch = "backoff"
  /\ child[q] = Gone
  /\ child' = [child EXCEPT ![p] = Gone,
                            ![q] = [child[p] EXCEPT !.run = "starting", !.watch = "spawned"]]
  /\ UNCHANGED <<entry, tomb, dissolve, targets>>

\* The sleep is over and nobody dissolved the startup meanwhile: spawn_child.
Respawn(p, q) ==
  /\ child[p].watch = "backoff"
  /\ child[p].agent \notin tomb
  /\ child[q] = Gone
  /\ child' = [child EXCEPT ![p] = Gone,
                            ![q] = [child[p] EXCEPT !.run = "starting", !.watch = "spawned"]]
  /\ UNCHANGED <<entry, tomb, dissolve, targets>>

\* spawn_child fails: back to wait(), which returns the old exit status again.
RespawnFails(p) ==
  /\ child[p].watch = "backoff"
  /\ child[p].agent \notin tomb
  /\ child' = [child EXCEPT ![p].watch = "waiting"]
  /\ UNCHANGED <<entry, tomb, dissolve, targets>>

\* The new pid goes into the map, if the agent is still there.
RecordPid(p) ==
  /\ child[p].watch = "spawned"
  /\ child' = [child EXCEPT ![p].watch = "waiting"]
  /\ entry' = [entry EXCEPT ![child[p].agent] = IF @ = NoPid THEN NoPid ELSE p]
  /\ UNCHANGED <<tomb, dissolve, targets>>

Watch(p) ==
  \/ HonourTombstone(p) \/ WorkerDone(p) \/ WorkerDead(p) \/ BackOff(p)
  \/ RespawnFails(p) \/ RecordPid(p)

-----------------------------------------------------------------------------
(* dissolve_startup.                                                       *)

\* The snapshot of the map.
ListWorkers(s) ==
  /\ dissolve[s] = "called"
  /\ dissolve' = [dissolve EXCEPT ![s] = "listed"]
  /\ targets' = [targets EXCEPT ![s] =
                   {a \in Agents : StartupOf[a] = s /\ entry[a] # NoPid}]
  /\ UNCHANGED <<child, entry, tomb>>

\* Tombstones, then SIGTERM.  The signal only asks: a process takes its time
\* to exit, as it may at any time (Exit).
Sigterm(s) ==
  /\ dissolve[s] = "listed"
  /\ dissolve' = [dissolve EXCEPT ![s] = "grace"]
  /\ tomb' = tomb \cup targets[s]
  /\ UNCHANGED <<child, entry, targets>>

\* After the grace period the pids are read again and killed.  The period
\* (5 s) is longer than a watch loop takes from spawn_child to its entry.
Sigkill(s) ==
  /\ dissolve[s] = "grace"
  /\ \A p \in Pids : child[p].watch = "spawned" => child[p].agent \notin targets[s]
  /\ dissolve' = [dissolve EXCEPT ![s] = "killed"]
  /\ child' = [p \in Pids |->
                 IF Alive(p) /\ \E a \in targets[s] : entry[a] = p
                 THEN [child[p] EXCEPT !.run = "failed"] ELSE child[p]]
  /\ targets' = [targets EXCEPT ![s] = {}]
  /\ UNCHANGED <<entry, tomb>>

Dissolving(s) == ListWorkers(s) \/ Sigterm(s) \/ Sigkill(s)
=============================================================================
