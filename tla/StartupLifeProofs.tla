-------------------------- MODULE StartupLifeProofs --------------------------
(***************************************************************************)
(* Types, and four invariants of StartupLife, for any number of agents,    *)
(* startups, suites and process ids and any capacity of the channel: that  *)
(* no registration is left dead, with daemons or with a worker per task;   *)
(* with daemons, that there is one worker to an agent, and that none       *)
(* survives a dissolution; and that the loop's memory is in lock step with *)
(* SQL.  The last two are for a DELETE that waits for its POST.            *)
(***************************************************************************)
EXTENDS StartupLife, SequenceTheorems, TLAPS

Unregister(a) == [op |-> "UnregisterWorker", agent |-> a]

(* Whoever is registered, or about to be, has a session, or behind him in the  *)
(* channel is the command that will unregister him.                            *)
RegistrationsAnswered ==
  /\ \A a \in Agents, p \in Pids :
       bus[a] = p /\ session[p] # a =>
         \E j \in 1..Len(channel) : channel[j] = Unregister(a)
  /\ \A i \in 1..Len(channel) :
       channel[i].op = "RegisterWorker" /\ session[channel[i].pid] # channel[i].agent =>
         \E j \in 1..Len(channel) : j > i /\ channel[j] = Unregister(channel[i].agent)

(* A process that has not said hello is known to nobody by its id.             *)
StartingUnknown ==
  \A p \in Pids : child[p].run = "starting" =>
    /\ session[p] = NoAgent
    /\ \A a \in Agents : bus[a] # p
    /\ \A i \in 1..Len(channel) : channel[i].op = "RegisterWorker" => channel[i].pid # p

(* Who is still spawning has its suite.                                        *)
Suited == \A s \in Startups : creating[s] = "spawning" => suite[s] \in Suites

TypeInv == TypeOK /\ Suited
RegInv == TypeInv /\ RegistrationsAnswered /\ StartingUnknown

(* One process id to an agent, counting what only its watch loop remembers; and *)
(* none where create_startup has still to spawn one.                            *)
Sole ==
  /\ \A p, q \in Pids :
       child[p] # Gone /\ child[q] # Gone /\ child[p].agent = child[q].agent => p = q
  /\ \A p \in Pids : child[p] # Gone => child[p].agent \notin toSpawn
  /\ \A s \in Startups : life[s] = "absent" =>
       /\ creating[s] = "no"
       /\ toSpawn \cap Crew(s) = {}
       /\ \A p \in Pids : child[p] # Gone => child[p].agent \notin Crew(s)

(* create_startup is over where delete_startup was called.                      *)
CreatedFirst ==
  /\ \A s \in Startups : dissolve[s] # "idle" => life[s] = "dissolved"
  /\ \A s \in Startups : life[s] = "dissolved" => creating[s] = "answered"
  /\ \A s \in Startups : creating[s] = "answered" => toSpawn \cap Crew(s) = {}

(* The map has every agent with a process, and its pid unless that is new.      *)
MapKnows ==
  \A p \in Pids : child[p] # Gone =>
    /\ entry[child[p].agent] # NoPid
    /\ child[p].watch # "spawned" => entry[child[p].agent] = p

(* What a dissolution has done to the processes of its startup.                 *)
Dissolution ==
  \A p \in Pids : child[p] # Gone =>
    LET a == child[p].agent
        s == StartupOf[a]
    IN /\ dissolve[s] \in {"listed", "grace"} => a \in targets[s]
       /\ dissolve[s] = "grace" => a \in tomb
       /\ life[s] = "dissolved" /\ dissolve[s] \in {"killed", "idle"} =>
            a \in tomb /\ ~Alive(p) /\ child[p].watch # "spawned"

(* The channel, as far as it is about suites.                                   *)
Inserts(s) == {i \in 1..Len(channel) : channel[i].op = "InsertAvatars" /\ channel[i].startup = s}
Releases(s) == {i \in 1..Len(channel) : channel[i].op = "ReleaseSuite" /\ channel[i].startup = s}

(* How far POST and DELETE have come, and what SQL says then.                   *)
Stages ==
  \A s \in Startups :
    /\ life[s] = "absent" <=> creating[s] = "no"
    /\ life[s] = "dissolved" => creating[s] = "answered"
    /\ dissolve[s] # "idle" => life[s] = "dissolved"
    /\ life[s] = "active" => suite[s] \in Suites /\ owner[suite[s]] = s
    /\ \A x \in Suites : owner[x] = s => life[s] = "active" /\ suite[s] = x

(* The loop has heard nothing of s.                                             *)
Unheard(s) ==
  Inserts(s) = {} /\ s \notin inWorld /\ \A x \in Suites : claim[x] # s

(* What the loop knows of s, or is about to hear: its claim before its release, *)
(* and before the claim of whoever had the suite after it.                      *)
Follows(s) ==
  /\ \A i \in Inserts(s), j \in Releases(s) : i < j
  /\ creating[s] # "answered" => Unheard(s) /\ Releases(s) = {}
  /\ creating[s] = "answered" /\ life[s] = "active" =>
       /\ Releases(s) = {}
       /\ Inserts(s) # {} \/ (s \in inWorld /\ claim[suite[s]] = s)
       /\ \A t \in Startups \ {s} : suite[t] = suite[s] =>
            \A i \in Inserts(t) : \E j \in Inserts(s) : i < j
  /\ life[s] = "dissolved" /\ dissolve[s] = "idle" => Releases(s) # {} \/ Unheard(s)
  /\ \A x \in Suites : claim[x] = s => suite[s] = x
  /\ \A i \in Inserts(s) : channel[i].suite = suite[s]

LoopFollows == \A s \in Startups : Follows(s)

SoleInv == TypeInv /\ Sole
DeathInv == SoleInv /\ CreatedFirst /\ MapKnows /\ Dissolution

-----------------------------------------------------------------------------
(* The channel.                                                                *)

LEMMA SendFacts ==
  ASSUME TypeOK, NEW cmd \in Command, Send(cmd)
  PROVE  /\ channel' \in Seq(Command)
         /\ Len(channel) \in Nat
         /\ Len(channel') = Len(channel) + 1
         /\ \A i \in 1..Len(channel) : channel'[i] = channel[i]
         /\ channel'[Len(channel) + 1] = cmd
<1>1. channel \in Seq(Command) /\ channel' = Append(channel, cmd)
  BY DEF TypeOK, Send
<1>2. QED
  BY <1>1, AppendProperties, LenProperties

LEMMA TakesFacts ==
  ASSUME TypeOK, NEW op, Takes(op)
  PROVE  /\ channel' \in Seq(Command)
         /\ Head(channel) \in Command /\ Head(channel).op = op
         /\ Head(channel) = channel[1]
         /\ Len(channel) \in Nat \ {0}
         /\ Len(channel') = Len(channel) - 1
         /\ \A i \in 1..(Len(channel) - 1) : channel'[i] = channel[i + 1]
<1>1. channel \in Seq(Command) /\ channel # <<>> /\ channel' = Tail(channel)
      /\ Head(channel).op = op
  BY DEF TypeOK, Takes
<1>2. Len(channel) \in Nat /\ (Len(channel) = 0 <=> channel = <<>>)
  BY <1>1, EmptySeq, LenProperties
<1>3. /\ Head(channel) \in Command
      /\ channel' \in Seq(Command)
      /\ Len(channel') = Len(channel) - 1
      /\ \A i \in 1..Len(channel') : channel'[i] = channel[i + 1]
  BY <1>1, HeadTailProperties
<1>4. Head(channel) = channel[1]
  BY <1>1
<1>5. QED
  BY <1>1, <1>2, <1>3, <1>4

\* Which command it is tells its fields.
LEMMA CommandFacts ==
  ASSUME NEW c \in Command
  PROVE  /\ c.op = "InsertAvatars" => c.startup \in Startups /\ c.suite \in Suites
         /\ c.op = "ReleaseSuite" => c.startup \in Startups
         /\ c.op = "RegisterWorker" => c.agent \in Agents /\ c.pid \in Pids
         /\ c.op = "UnregisterWorker" => c.agent \in Agents /\ c = Unregister(c.agent)
BY DEF Command, Unregister

LEMMA CommandTypes ==
  /\ \A s \in Startups, x \in Suites : [op |-> "InsertAvatars", startup |-> s, suite |-> x] \in Command
  /\ \A s \in Startups : [op |-> "ReleaseSuite", startup |-> s] \in Command
  /\ \A a \in Agents, p \in Pids : [op |-> "RegisterWorker", agent |-> a, pid |-> p] \in Command
  /\ \A a \in Agents : [op |-> "UnregisterWorker", agent |-> a] \in Command
BY DEF Command

\* What is not Gone is a child of some agent.
LEMMA ChildFacts ==
  ASSUME TypeOK, NEW p \in Pids
  PROVE  /\ child[p] \in Child \cup {Gone}
         /\ Gone.run = "gone" /\ Gone.watch = "none"
         /\ child[p] # Gone => child[p] \in Child /\ child[p].agent \in Agents
         /\ child[p].run # "gone" \/ child[p].watch # "none" => child[p] # Gone
         /\ Alive(p) => child[p] # Gone
BY DEF TypeOK, SupervisorTypeOK, Child, Gone, Alive

-----------------------------------------------------------------------------
(* Types.                                                                      *)

LEMMA TypeInit == Init => TypeOK
<1> SUFFICES ASSUME Init PROVE TypeOK
  OBVIOUS
<1>1. SupervisorTypeOK
  BY DEF Init, SupervisorInit, SupervisorTypeOK
<1>2. channel \in Seq(Command)
  BY DEF Init
<1>3. QED
  BY <1>1, <1>2 DEF Init, TypeOK

LEMMA TypeSpawn ==
  ASSUME TypeOK, NEW a \in Agents, NEW p \in Pids, SpawnAgent(a, p)
  PROVE  SupervisorTypeOK'
<1>1. [run |-> "starting", agent |-> a, watch |-> "waiting", failures |-> 0] \in Child
  BY SupervisorAssumption DEF Child
<1>2. QED
  BY <1>1 DEF TypeOK, SupervisorTypeOK, SpawnAgent

LEMMA TypeWatch ==
  ASSUME TypeOK, NEW p \in Pids, Exit(p) \/ Watch(p)
  PROVE  SupervisorTypeOK'
<1>1. CASE Exit(p)
  <2>1. child[p] \in Child
    BY <1>1, ChildFacts DEF Exit
  <2>2. PICK r \in {"ok", "failed"} : child' = [child EXCEPT ![p].run = r]
    BY <1>1 DEF Exit
  <2>3. [child[p] EXCEPT !.run = r] \in Child
    BY <2>1 DEF Child
  <2>4. QED
    BY <1>1, <2>2, <2>3 DEF TypeOK, SupervisorTypeOK, Exit
<1>2. ASSUME child' = [child EXCEPT ![p] = Gone],
             entry' = [entry EXCEPT ![child[p].agent] = NoPid],
             UNCHANGED <<dissolve, targets>>, tomb' \subseteq tomb
      PROVE  SupervisorTypeOK'
  BY <1>2 DEF TypeOK, SupervisorTypeOK
<1>3. CASE HonourTombstone(p) \/ WorkerDone(p) \/ WorkerDead(p)
  BY <1>2, <1>3 DEF HonourTombstone, WorkerDone, WorkerDead, EndWatch
<1>4. CASE BackOff(p)
  <2>1. child[p] \in Child
    BY <1>4, ChildFacts DEF BackOff, Reaps
  <2>2. child[p].failures + 1 \in 0..Backoffs
    BY <1>4, <2>1, SupervisorAssumption DEF Child, BackOff
  <2>3. [child[p] EXCEPT !.watch = "backoff", !.failures = child[p].failures + 1] \in Child
    BY <2>1, <2>2 DEF Child
  <2>4. child' = [child EXCEPT ![p] =
                    [child[p] EXCEPT !.watch = "backoff", !.failures = child[p].failures + 1]]
    BY <1>4 DEF TypeOK, SupervisorTypeOK, BackOff
  <2>5. QED
    BY <1>4, <2>3, <2>4 DEF TypeOK, SupervisorTypeOK, BackOff
<1>5. CASE RespawnFails(p) \/ RecordPid(p)
  <2>1. child[p] \in Child
    BY <1>5, ChildFacts DEF RespawnFails, RecordPid
  <2>2. [child[p] EXCEPT !.watch = "waiting"] \in Child
    BY <2>1 DEF Child
  <2>3. child' = [child EXCEPT ![p] = [child[p] EXCEPT !.watch = "waiting"]]
    BY <1>5 DEF TypeOK, SupervisorTypeOK, RespawnFails, RecordPid
  <2>4. child' \in [Pids -> Child \cup {Gone}]
    BY <2>2, <2>3 DEF TypeOK, SupervisorTypeOK
  <2>5. entry' \in [Agents -> Pids \cup {NoPid}]
    BY <1>5 DEF TypeOK, SupervisorTypeOK, RespawnFails, RecordPid
  <2>6. QED
    BY <1>5, <2>4, <2>5 DEF TypeOK, SupervisorTypeOK, RespawnFails, RecordPid
<1>6. QED
  BY <1>1, <1>3, <1>4, <1>5 DEF Watch

\* A respawn moves the agent from one process id to another.
LEMMA RespawnFacts ==
  ASSUME TypeOK, NEW p \in Pids, NEW q \in Pids, Respawn(p, q)
  PROVE  LET new == [child[p] EXCEPT !.run = "starting", !.watch = "spawned"] IN
         /\ p # q /\ child[p] \in Child /\ child[q] = Gone
         /\ new \in Child /\ new.agent = child[p].agent
         /\ child' = [r \in Pids |-> IF r = p THEN Gone ELSE IF r = q THEN new ELSE child[r]]
<1>1. child[p].watch = "backoff" /\ child[q] = Gone
  BY DEF Respawn
<1>2. child[p] \in Child /\ p # q
  BY <1>1, ChildFacts DEF Gone
<1>3. [child[p] EXCEPT !.run = "starting", !.watch = "spawned"] \in Child
  BY <1>2 DEF Child
<1>4. [child[p] EXCEPT !.run = "starting", !.watch = "spawned"].agent = child[p].agent
  BY <1>2 DEF Child
<1>5. child' = [child EXCEPT ![p] = Gone,
                             ![q] = [child[p] EXCEPT !.run = "starting", !.watch = "spawned"]]
  BY DEF Respawn
<1>6. DOMAIN child = Pids /\ child = [r \in Pids |-> child[r]]
  BY DEF TypeOK, SupervisorTypeOK
<1>7. QED
  BY <1>1, <1>2, <1>3, <1>4, <1>5, <1>6

LEMMA TypeDissolving ==
  ASSUME TypeOK, NEW s \in Startups, Dissolving(s)
  PROVE  SupervisorTypeOK'
<1>1. CASE ListWorkers(s)
  BY <1>1 DEF TypeOK, SupervisorTypeOK, ListWorkers
<1>2. CASE Sigterm(s)
  BY <1>2 DEF TypeOK, SupervisorTypeOK, Sigterm
<1>3. CASE Sigkill(s)
  <2>1. ASSUME NEW p \in Pids, Alive(p)
        PROVE  [child[p] EXCEPT !.run = "failed"] \in Child
    BY <2>1, ChildFacts DEF Child
  <2>2. child' \in [Pids -> Child \cup {Gone}]
    BY <1>3, <2>1 DEF TypeOK, SupervisorTypeOK, Sigkill
  <2>3. targets' \in [Startups -> SUBSET Agents]
    BY <1>3 DEF TypeOK, SupervisorTypeOK, Sigkill
  <2>4. QED
    BY <1>3, <2>2, <2>3 DEF TypeOK, SupervisorTypeOK, Sigkill
<1>4. QED
  BY <1>1, <1>2, <1>3 DEF Dissolving

LEMMA TypeSupervisor ==
  ASSUME TypeOK, SupervisorStep
  PROVE  TypeOK'
<1>1. UNCHANGED others
  BY DEF SupervisorStep
<1>2. SupervisorTypeOK'
  <2>1. ASSUME NEW p \in Pids, NEW q \in Pids, Respawn(p, q) PROVE SupervisorTypeOK'
    <3> DEFINE new == [child[p] EXCEPT !.run = "starting", !.watch = "spawned"]
    <3>1. /\ new \in Child
          /\ child' = [r \in Pids |-> IF r = p THEN Gone ELSE IF r = q THEN new ELSE child[r]]
      BY <2>1, RespawnFacts
    <3> HIDE DEF new
    <3>2. child' \in [Pids -> Child \cup {Gone}]
      BY <3>1 DEF TypeOK, SupervisorTypeOK
    <3>3. QED
      BY <2>1, <3>2 DEF TypeOK, SupervisorTypeOK, Respawn
  <2>2. QED
    BY <2>1, TypeWatch, TypeDissolving DEF SupervisorStep
<1>3. QED
  BY <1>1, <1>2 DEF TypeOK, others, sql, create, memory

\* The two handlers.
LEMMA TypeHandlers ==
  ASSUME TypeOK, Suited, NEW s \in Startups,
         CreateCommits(s) \/ Spawning(s) \/ CreateAnswers(s) \/ DeleteCommits(s) \/ DeleteReleases(s)
  PROVE  TypeOK'
<1>1. CASE CreateCommits(s)
  <2>1. SupervisorTypeOK'
    BY <1>1 DEF TypeOK, SupervisorTypeOK, CreateCommits, supervisor
  <2>2. toSpawn' \subseteq Agents
    BY <1>1 DEF TypeOK, CreateCommits, Crew
  <2>3. QED
    BY <1>1, <2>1, <2>2 DEF TypeOK, CreateCommits, memory
<1>2. ASSUME NEW a \in Crew(s), CreateSpawnFails(a) PROVE TypeOK'
  BY <1>2 DEF TypeOK, SupervisorTypeOK, CreateSpawnFails, supervisor, sql, memory
<1>3. ASSUME NEW a \in Crew(s), NEW p \in Pids, CreateSpawns(a, p) PROVE TypeOK'
  <2>1. SupervisorTypeOK'
    BY <1>3, TypeSpawn DEF CreateSpawns, Crew
  <2>2. QED
    BY <1>3, <2>1 DEF TypeOK, CreateSpawns, sql, memory
<1>4. CASE CreateAnswers(s)
  <2>1. suite[s] \in Suites
    BY <1>4 DEF Suited, CreateAnswers
  <2>2. channel' \in Seq(Command)
    BY <1>4, <2>1, CommandTypes, SendFacts DEF CreateAnswers
  <2>3. QED
    BY <1>4, <2>2 DEF TypeOK, SupervisorTypeOK, CreateAnswers, supervisor, sql, memory
<1>5. CASE DeleteCommits(s)
  BY <1>5 DEF TypeOK, SupervisorTypeOK, DeleteCommits, create, memory
<1>6. CASE DeleteReleases(s)
  <2>1. channel' \in Seq(Command)
    BY <1>6, CommandTypes, SendFacts DEF DeleteReleases
  <2>2. QED
    BY <1>6, <2>1 DEF TypeOK, SupervisorTypeOK, DeleteReleases, sql, create, memory
<1>7. QED
  BY <1>1, <1>2, <1>3, <1>4, <1>5, <1>6 DEF Spawning

\* Worker processes, and what is done for a task.
LEMMA TypeWorkers ==
  ASSUME TypeOK, NEW p \in Pids,
         \/ Connect(p) \/ Disconnect(p) \/ Report(p)
         \/ \E a \in Agents : SpawnForTask(a, p)
  PROVE  TypeOK'
<1>1. CASE Connect(p)
  <2>1. child[p] \in Child
    BY <1>1, ChildFacts DEF Connect
  <2>2. child[p].agent \in Agents /\ [child[p] EXCEPT !.run = "connected"] \in Child
    BY <2>1 DEF Child
  <2>3. channel' \in Seq(Command)
    BY <1>1, <2>2, CommandTypes, SendFacts DEF Connect
  <2>4. child' \in [Pids -> Child \cup {Gone}]
    BY <1>1, <2>2 DEF TypeOK, SupervisorTypeOK, Connect
  <2>5. QED
    BY <1>1, <2>2, <2>3, <2>4 DEF TypeOK, SupervisorTypeOK, Connect, sql, create, memory
<1>2. CASE Disconnect(p)
  <2>1. session[p] \in Agents
    BY <1>2 DEF TypeOK, Disconnect
  <2>2. channel' \in Seq(Command)
    BY <1>2, <2>1, CommandTypes, SendFacts DEF Disconnect
  <2>3. QED
    BY <1>2, <2>2 DEF TypeOK, SupervisorTypeOK, Disconnect, supervisor, sql, create, memory
<1>3. CASE Report(p)
  BY <1>3 DEF TypeOK, SupervisorTypeOK, Report, supervisor, sql, create
<1>4. ASSUME NEW a \in Agents, SpawnForTask(a, p) PROVE TypeOK'
  <2>1. SupervisorTypeOK'
    BY <1>4, TypeSpawn DEF SpawnForTask
  <2>2. QED
    BY <1>4, <2>1 DEF TypeOK, SpawnForTask, sql, create
<1>5. QED
  BY <1>1, <1>2, <1>3, <1>4

LEMMA TypeLoop ==
  ASSUME TypeOK, Loop
  PROVE  TypeOK'
<1>1. CASE InsertAvatars
  <2>1. /\ channel' \in Seq(Command)
        /\ Head(channel).startup \in Startups /\ Head(channel).suite \in Suites
    BY <1>1, TakesFacts, CommandFacts DEF InsertAvatars
  <2>2. QED
    BY <1>1, <2>1 DEF TypeOK, SupervisorTypeOK, InsertAvatars, supervisor, sql, create
<1>2. CASE ReleaseSuite
  <2>1. channel' \in Seq(Command) /\ Head(channel).startup \in Startups
    BY <1>2, TakesFacts, CommandFacts DEF ReleaseSuite
  <2>2. QED
    BY <1>2, <2>1 DEF TypeOK, SupervisorTypeOK, ReleaseSuite, supervisor, sql, create
<1>3. CASE RegisterWorker
  <2>1. /\ channel' \in Seq(Command)
        /\ Head(channel).agent \in Agents /\ Head(channel).pid \in Pids
    BY <1>3, TakesFacts, CommandFacts DEF RegisterWorker
  <2>2. QED
    BY <1>3, <2>1 DEF TypeOK, SupervisorTypeOK, RegisterWorker, supervisor, sql, create
<1>4. CASE UnregisterWorker
  <2>1. channel' \in Seq(Command) /\ Head(channel).agent \in Agents
    BY <1>4, TakesFacts, CommandFacts DEF UnregisterWorker
  <2>2. QED
    BY <1>4, <2>1 DEF TypeOK, SupervisorTypeOK, UnregisterWorker, supervisor, sql, create
<1>5. QED
  BY <1>1, <1>2, <1>3, <1>4 DEF Loop

LEMMA SuitedStep == TypeOK /\ Suited /\ [Next]_vars => Suited'
<1> SUFFICES ASSUME TypeOK, Suited, [Next]_vars PROVE Suited'
  OBVIOUS
<1>1. CASE UNCHANGED <<creating, suite>>
  BY <1>1 DEF Suited
<1>2. ASSUME NEW s \in Startups, CreateCommits(s) PROVE Suited'
  BY <1>2 DEF TypeOK, Suited, CreateCommits
<1>3. ASSUME NEW s \in Startups, CreateAnswers(s) PROVE Suited'
  BY <1>3 DEF TypeOK, Suited, CreateAnswers
<1>4. QED
  BY <1>1, <1>2, <1>3
     DEF Next, vars, create, others, Spawning, CreateSpawns, CreateSpawnFails, DeleteCommits,
         DeleteReleases, Connect, Disconnect, Report, SpawnForTask, Loop, InsertAvatars,
         ReleaseSuite, RegisterWorker, UnregisterWorker, SupervisorStep

LEMMA TypeStep == TypeInv /\ [Next]_vars => TypeInv'
<1> SUFFICES ASSUME TypeInv, [Next]_vars PROVE TypeInv'
  OBVIOUS
<1>1. TypeOK /\ Suited
  BY DEF TypeInv
<1>2. CASE UNCHANGED vars
  BY <1>1, <1>2 DEF TypeOK, SupervisorTypeOK, vars, supervisor, sql, create, memory, Suited, TypeInv
<1>3. CASE Next
  BY <1>1, <1>3, SuitedStep, TypeHandlers, TypeWorkers, TypeLoop, TypeSupervisor DEF Next, TypeInv
<1>4. QED
  BY <1>2, <1>3

-----------------------------------------------------------------------------
(* What the steps of the supervisor do to a process.                           *)

\* p does not become another agent's, nor alive, nor newly spawned.
Fades(p) ==
  child'[p] # Gone =>
    /\ child[p] # Gone
    /\ child'[p].agent = child[p].agent
    /\ child'[p].run = "starting" => child[p].run = "starting"
    /\ child'[p].run = "connected" => Alive(p)
    /\ child'[p].watch = "spawned" => child[p].watch = "spawned"

LEMMA FadesWhenSame ==
  ASSUME NEW p \in Pids, child'[p] = child[p]
  PROVE  Fades(p)
BY DEF Fades, Alive

LEMMA SpawnFacts ==
  ASSUME TypeOK, NEW a \in Agents, NEW p \in Pids, SpawnAgent(a, p)
  PROVE  /\ child[p] = Gone
         /\ child'[p] # Gone /\ child'[p].agent = a /\ child'[p].watch = "waiting"
         /\ entry'[a] = p
         /\ \A q \in Pids : q # p => child'[q] = child[q]
         /\ \A b \in Agents : b # a => entry'[b] = entry[b]
         /\ UNCHANGED <<tomb, dissolve, targets>>
BY DEF TypeOK, SupervisorTypeOK, SpawnAgent, Gone

\* The watch loop ends, and takes its agent off the map; or its process is as it was,
\* or fades, and the map is as it was; or it records the pid.
LEMMA WatchFacts ==
  ASSUME TypeOK, NEW p \in Pids, Exit(p) \/ Watch(p)
  PROVE  /\ child[p] \in Child
         /\ \A q \in Pids : q # p => child'[q] = child[q]
         /\ UNCHANGED <<dissolve, targets>>
         /\ \/ /\ child'[p] = Gone
               /\ entry' = [entry EXCEPT ![child[p].agent] = NoPid]
               /\ tomb' \in {tomb, tomb \ {child[p].agent}}
            \/ /\ child'[p] \in Child /\ Fades(p)
               /\ child'[p].watch = "spawned" <=> child[p].watch = "spawned"
               /\ UNCHANGED <<entry, tomb>>
            \/ /\ child'[p] \in Child /\ Fades(p)
               /\ child[p].watch = "spawned" /\ child'[p].watch = "waiting"
               /\ entry' = [entry EXCEPT ![child[p].agent] = IF @ = NoPid THEN NoPid ELSE p]
               /\ UNCHANGED tomb
<1>1. child[p] \in Child
  BY ChildFacts DEF Exit, Watch, HonourTombstone, WorkerDone, WorkerDead, BackOff, RespawnFails,
                    RecordPid, Reaps
<1>2. Gone \notin Child
  BY DEF Gone, Child
<1>3. CASE Exit(p)
  <2>1. PICK r \in {"ok", "failed"} : child' = [child EXCEPT ![p].run = r]
    BY <1>3 DEF Exit
  <2>2. /\ child'[p] = [child[p] EXCEPT !.run = r]
        /\ \A q \in Pids : q # p => child'[q] = child[q]
    BY <2>1 DEF TypeOK, SupervisorTypeOK
  <2>3. /\ child'[p] \in Child /\ child'[p].run = r
        /\ child'[p].agent = child[p].agent /\ child'[p].watch = child[p].watch
    BY <1>1, <2>2 DEF Child
  <2>4. Fades(p)
    BY <1>1, <1>2, <2>3 DEF Fades
  <2>5. QED
    BY <1>1, <1>3, <2>2, <2>3, <2>4 DEF Exit
<1>4. CASE HonourTombstone(p) \/ WorkerDone(p) \/ WorkerDead(p)
  <2>1. EndWatch(p) /\ tomb' \in {tomb, tomb \ {child[p].agent}}
    BY <1>4 DEF HonourTombstone, WorkerDone, WorkerDead
  <2>2. QED
    BY <1>1, <2>1 DEF EndWatch, TypeOK, SupervisorTypeOK
<1>5. CASE BackOff(p)
  <2> DEFINE new == [child[p] EXCEPT !.watch = "backoff", !.failures = child[p].failures + 1]
  <2>1. child[p].failures + 1 \in 0..Backoffs
    BY <1>1, <1>5, SupervisorAssumption DEF Child, BackOff
  <2>2. /\ new \in Child /\ new.agent = child[p].agent /\ new.run = child[p].run
        /\ new.watch = "backoff"
    BY <1>1, <2>1 DEF Child
  <2>3. child'[p] = new /\ \A q \in Pids : q # p => child'[q] = child[q]
    BY <1>5 DEF TypeOK, SupervisorTypeOK, BackOff
  <2>4. child[p].watch # "spawned"
    BY <1>5 DEF BackOff, Reaps
  <2> HIDE DEF new
  <2>5. Fades(p)
    BY <1>1, <1>2, <2>2, <2>3 DEF Fades, Alive
  <2>6. QED
    BY <1>1, <1>5, <2>2, <2>3, <2>4, <2>5 DEF BackOff
<1>6. CASE RespawnFails(p) \/ RecordPid(p)
  <2> DEFINE new == [child[p] EXCEPT !.watch = "waiting"]
  <2>1. /\ new \in Child /\ new.agent = child[p].agent /\ new.run = child[p].run
        /\ new.watch = "waiting"
    BY <1>1 DEF Child
  <2>2. child'[p] = new /\ \A q \in Pids : q # p => child'[q] = child[q]
    BY <1>6 DEF TypeOK, SupervisorTypeOK, RespawnFails, RecordPid
  <2> HIDE DEF new
  <2>3. Fades(p)
    BY <1>1, <1>2, <2>1, <2>2 DEF Fades, Alive
  <2>4. CASE RespawnFails(p)
    BY <1>1, <2>1, <2>2, <2>3, <2>4 DEF RespawnFails
  <2>5. CASE RecordPid(p)
    BY <1>1, <2>1, <2>2, <2>3, <2>5 DEF RecordPid
  <2>6. QED
    BY <1>6, <2>4, <2>5
<1>7. QED
  BY <1>3, <1>4, <1>5, <1>6 DEF Watch

LEMMA SigkillFacts ==
  ASSUME TypeOK, NEW s \in Startups, Sigkill(s)
  PROVE  \A p \in Pids :
           /\ Fades(p)
           /\ child[p] # Gone => child'[p] # Gone /\ child'[p].watch = child[p].watch
           /\ (\E a \in targets[s] : entry[a] = p) => child'[p].run \notin {"starting", "connected"}
<1> SUFFICES ASSUME NEW p \in Pids
             PROVE  /\ Fades(p)
                    /\ child[p] # Gone => child'[p] # Gone /\ child'[p].watch = child[p].watch
                    /\ (\E a \in targets[s] : entry[a] = p) =>
                         child'[p].run \notin {"starting", "connected"}
  OBVIOUS
<1>1. CASE Alive(p) /\ \E a \in targets[s] : entry[a] = p
  <2>1. child[p] \in Child
    BY <1>1, ChildFacts
  <2>2. child'[p] = [child[p] EXCEPT !.run = "failed"]
    BY <1>1 DEF Sigkill
  <2>3. /\ child'[p] \in Child /\ child'[p].run = "failed"
        /\ child'[p].agent = child[p].agent /\ child'[p].watch = child[p].watch
    BY <2>1, <2>2 DEF Child
  <2>4. QED
    BY <2>1, <2>3 DEF Fades, Child, Gone
<1>2. CASE ~(Alive(p) /\ \E a \in targets[s] : entry[a] = p)
  <2>1. child'[p] = child[p]
    BY <1>2 DEF Sigkill
  <2>2. QED
    BY <1>2, <2>1, FadesWhenSame DEF Alive
<1>3. QED
  BY <1>1, <1>2

LEMMA ConnectFacts ==
  ASSUME TypeOK, NEW p \in Pids, Connect(p)
  PROVE  \A q \in Pids : Fades(q) /\ (child'[q].watch = child[q].watch)
<1>1. child[p] \in Child /\ child[p].run = "starting"
  BY ChildFacts DEF Connect
<1>2. child'[p] = [child[p] EXCEPT !.run = "connected"] /\ \A q \in Pids : q # p => child'[q] = child[q]
  BY DEF TypeOK, SupervisorTypeOK, Connect
<1>3. /\ child'[p].agent = child[p].agent /\ child'[p].watch = child[p].watch
      /\ child[p] # Gone
  BY <1>1, <1>2 DEF Child, Gone
<1>4. Fades(p)
  BY <1>1, <1>3 DEF Fades, Alive
<1>5. QED
  BY <1>2, <1>3, <1>4, FadesWhenSame

-----------------------------------------------------------------------------
(* Registrations.                                                              *)

\* A step that sends nothing, changes no session and registers nobody, and starts no
\* process but one whose id nothing refers to.
LEMMA QuietReg ==
  ASSUME TypeOK, RegistrationsAnswered, StartingUnknown,
         UNCHANGED <<bus, session, channel>>,
         \A p \in Pids : child'[p].run = "starting" => child[p].run = "starting" \/ Unused(p)
  PROVE  (RegistrationsAnswered /\ StartingUnknown)'
<1>1. RegistrationsAnswered'
  BY DEF RegistrationsAnswered
<1>2. ASSUME NEW p \in Pids, Unused(p)
      PROVE  /\ session[p] = NoAgent
             /\ \A a \in Agents : bus[a] # p
             /\ \A i \in 1..Len(channel) : channel[i].op = "RegisterWorker" => channel[i].pid # p
  <2>1. \A i \in 1..Len(channel) : channel[i] \in Range(channel)
    BY DEF TypeOK, Range
  <2>2. QED
    BY <1>2, <2>1 DEF Unused
<1>3. StartingUnknown'
  BY <1>2 DEF StartingUnknown
<1>4. QED
  BY <1>1, <1>3

\* A send of anything but a registration.
LEMMA SendReg ==
  ASSUME TypeOK, RegistrationsAnswered, StartingUnknown,
         NEW cmd \in Command, cmd.op # "RegisterWorker", Send(cmd),
         UNCHANGED <<bus, session>>, \A p \in Pids : child'[p].run = "starting" => child[p].run = "starting"
  PROVE  (RegistrationsAnswered /\ StartingUnknown)'
<1>1. /\ Len(channel) \in Nat
      /\ Len(channel') = Len(channel) + 1
      /\ \A i \in 1..Len(channel) : channel'[i] = channel[i]
      /\ channel'[Len(channel) + 1] = cmd
  BY SendFacts
<1>2. \A i \in 1..Len(channel') : i \in 1..Len(channel) \/ channel'[i] = cmd
  BY <1>1
<1>3. \A i \in 1..Len(channel) : i \in 1..Len(channel')
  BY <1>1
<1> HIDE DEF Send
<1>4. RegistrationsAnswered'
  BY <1>1, <1>2, <1>3 DEF RegistrationsAnswered
<1>5. StartingUnknown'
  BY <1>1, <1>2 DEF StartingUnknown
<1>6. QED
  BY <1>4, <1>5

\* The session is opened before its registration is sent.
LEMMA ConnectReg ==
  ASSUME TypeOK, RegistrationsAnswered, StartingUnknown, NEW p \in Pids, Connect(p)
  PROVE  (RegistrationsAnswered /\ StartingUnknown)'
<1> DEFINE a == child[p].agent
           cmd == [op |-> "RegisterWorker", agent |-> a, pid |-> p]
<1>1. child[p].run = "starting" /\ a \in Agents
  BY ChildFacts DEF Connect
<1>2. /\ Len(channel) \in Nat
      /\ Len(channel') = Len(channel) + 1
      /\ \A i \in 1..Len(channel) : channel'[i] = channel[i]
      /\ channel'[Len(channel) + 1] = cmd
  BY <1>1, SendFacts, CommandTypes DEF Connect
<1>3. /\ \A i \in 1..Len(channel') : i \in 1..Len(channel) \/ channel'[i] = cmd
      /\ \A i \in 1..Len(channel) : i \in 1..Len(channel')
  BY <1>2
<1>4. /\ bus' = bus
      /\ session' = [session EXCEPT ![p] = a]
      /\ session'[p] = a
      /\ \A q \in Pids : q # p => session'[q] = session[q] /\ child'[q] = child[q]
      /\ child'[p].run = "connected"
  BY ChildFacts DEF TypeOK, SupervisorTypeOK, Connect, memory, Child, Gone
<1>5. /\ \A b \in Agents : bus[b] # p
      /\ \A i \in 1..Len(channel) : channel[i].op = "RegisterWorker" => channel[i].pid # p
  BY <1>1 DEF StartingUnknown
<1>6. cmd.pid = p /\ cmd.agent = a /\ cmd.op = "RegisterWorker"
  OBVIOUS
<1>7. \A i \in 1..Len(channel) : channel[i] \in Command
  BY DEF TypeOK
<1> HIDE DEF a, cmd
<1>8. ASSUME NEW b \in Agents, NEW q \in Pids, bus'[b] = q, session'[q] # b
      PROVE  \E j \in 1..Len(channel') : channel'[j] = Unregister(b)
  <2>1. q # p /\ bus[b] = q /\ session[q] # b
    BY <1>4, <1>5, <1>8
  <2>2. PICK j \in 1..Len(channel) : channel[j] = Unregister(b)
    BY <2>1 DEF RegistrationsAnswered
  <2>3. QED
    BY <1>2, <1>3, <2>2
<1>9. ASSUME NEW i \in 1..Len(channel'), channel'[i].op = "RegisterWorker",
             session'[channel'[i].pid] # channel'[i].agent
      PROVE  \E j \in 1..Len(channel') : j > i /\ channel'[j] = Unregister(channel'[i].agent)
  <2>1. i \in 1..Len(channel)
    BY <1>3, <1>4, <1>6, <1>9
  <2>2. channel'[i] = channel[i] /\ channel[i].pid \in Pids /\ channel[i].pid # p
    BY <1>2, <1>5, <1>7, <1>9, <2>1, CommandFacts
  <2>3. PICK j \in 1..Len(channel) : j > i /\ channel[j] = Unregister(channel[i].agent)
    BY <1>4, <1>9, <2>1, <2>2 DEF RegistrationsAnswered
  <2>4. QED
    BY <1>2, <1>3, <2>2, <2>3
<1>10. RegistrationsAnswered'
  BY <1>8, <1>9 DEF RegistrationsAnswered, Unregister
<1>11. StartingUnknown'
  BY <1>2, <1>3, <1>4, <1>6 DEF StartingUnknown
<1>12. QED
  BY <1>10, <1>11

\* Whoever loses his session sends the command that takes him off the bus.
LEMMA DisconnectReg ==
  ASSUME TypeOK, RegistrationsAnswered, StartingUnknown, NEW p \in Pids, Disconnect(p)
  PROVE  (RegistrationsAnswered /\ StartingUnknown)'
<1> DEFINE a == session[p]
<1>1. a \in Agents
  BY DEF TypeOK, Disconnect
<1>2. /\ Len(channel) \in Nat
      /\ Len(channel') = Len(channel) + 1
      /\ \A i \in 1..Len(channel) : channel'[i] = channel[i]
      /\ channel'[Len(channel) + 1] = Unregister(a)
  BY <1>1, SendFacts, CommandTypes DEF Disconnect, Unregister
<1>3. /\ \A i \in 1..Len(channel') : i \in 1..Len(channel) \/ i = Len(channel) + 1
      /\ \A i \in 1..Len(channel) : i \in 1..Len(channel') /\ i < Len(channel) + 1
      /\ Len(channel) + 1 \in 1..Len(channel')
  BY <1>2
<1>4. /\ bus' = bus /\ child' = child
      /\ session'[p] = NoAgent
      /\ \A q \in Pids : q # p => session'[q] = session[q]
  BY DEF TypeOK, Disconnect, memory, supervisor
<1>5. Unregister(a).op = "UnregisterWorker"
  BY DEF Unregister
<1>6. \A i \in 1..Len(channel) : channel[i] \in Command
  BY DEF TypeOK
<1>7. ASSUME NEW b \in Agents, NEW q \in Pids, bus'[b] = q, session'[q] # b
      PROVE  \E j \in 1..Len(channel') : channel'[j] = Unregister(b)
  <2>1. CASE session[q] # b
    BY <1>2, <1>3, <1>4, <1>7, <2>1 DEF RegistrationsAnswered
  <2>2. CASE session[q] = b
    BY <1>2, <1>3, <1>4, <1>7, <2>2
  <2>3. QED
    BY <2>1, <2>2
<1>8. ASSUME NEW i \in 1..Len(channel'), channel'[i].op = "RegisterWorker",
             session'[channel'[i].pid] # channel'[i].agent
      PROVE  \E j \in 1..Len(channel') : j > i /\ channel'[j] = Unregister(channel'[i].agent)
  <2>1. i \in 1..Len(channel) /\ channel'[i] = channel[i]
    BY <1>2, <1>3, <1>5, <1>8
  <2>2. channel[i].pid \in Pids
    BY <1>6, <1>8, <2>1, CommandFacts
  <2>3. CASE session[channel[i].pid] # channel[i].agent
    BY <1>2, <1>3, <1>8, <2>1, <2>3 DEF RegistrationsAnswered
  <2>4. CASE session[channel[i].pid] = channel[i].agent
    <3>1. channel[i].agent = a
      BY <1>4, <1>8, <2>1, <2>2, <2>4
    <3>2. Len(channel) + 1 > i
      BY <1>2, <2>1
    <3>3. QED
      BY <1>2, <1>3, <2>1, <3>1, <3>2
  <2>5. QED
    BY <2>3, <2>4
<1>9. RegistrationsAnswered'
  BY <1>7, <1>8 DEF RegistrationsAnswered, Unregister
<1>10. StartingUnknown'
  BY <1>1, <1>2, <1>3, <1>4, <1>5, SupervisorAssumption DEF StartingUnknown
<1>11. QED
  BY <1>9, <1>10

\* The loop takes the first command: the others come one place nearer.
LEMMA LoopReg ==
  ASSUME TypeOK, RegistrationsAnswered, StartingUnknown, Loop
  PROVE  (RegistrationsAnswered /\ StartingUnknown)'
<1> DEFINE c == Head(channel)
<1>1. PICK op : Takes(op)
  BY DEF Loop, InsertAvatars, ReleaseSuite, RegisterWorker, UnregisterWorker
<1>2. c \in Command /\ c = channel[1]
  BY <1>1, TakesFacts
<1>3. PICK n \in Nat : Len(channel) = n + 1
  <2>1. Len(channel) \in Nat \ {0}
    BY <1>1, TakesFacts
  <2>2. Len(channel) - 1 \in Nat /\ Len(channel) = (Len(channel) - 1) + 1
    BY <2>1
  <2>3. QED
    BY <2>2
<1>4. Len(channel') = n /\ \A i \in 1..n : channel'[i] = channel[i + 1]
  <2>1. (n + 1) - 1 = n
    OBVIOUS
  <2>2. QED
    BY <1>1, <1>3, <2>1, TakesFacts
<1>5. /\ \A i \in 1..n : i + 1 \in 1..(n + 1)
      /\ \A j \in 1..(n + 1) : j = 1 \/ (j - 1 \in 1..n /\ (j - 1) + 1 = j)
      /\ 1 \in 1..(n + 1)
  OBVIOUS
<1>6. session' = session /\ child' = child
  BY DEF Loop, InsertAvatars, ReleaseSuite, RegisterWorker, UnregisterWorker, supervisor
<1>7. c.op = "RegisterWorker" => c.agent \in Agents /\ c.pid \in Pids
  BY <1>2, CommandFacts
<1>8. /\ c.op = "RegisterWorker" => bus' = [bus EXCEPT ![c.agent] = c.pid]
      /\ c.op = "UnregisterWorker" => bus' = [bus EXCEPT ![c.agent] = NoPid]
      /\ c.op \notin {"RegisterWorker", "UnregisterWorker"} => bus' = bus
  BY DEF Loop, Takes, InsertAvatars, ReleaseSuite, RegisterWorker, UnregisterWorker
<1>9. \A b \in Agents : Unregister(b).op = "UnregisterWorker" /\ Unregister(b).agent = b
  BY DEF Unregister
<1> HIDE DEF c
\* What still waits behind the first command waits one place nearer.
<1>10. \A j \in 1..(n + 1) : j # 1 => j - 1 \in 1..Len(channel') /\ channel'[j - 1] = channel[j]
  BY <1>4, <1>5
<1>11. ASSUME NEW b \in Agents, NEW q \in Pids, bus'[b] = q, session'[q] # b
       PROVE  \E j \in 1..Len(channel') : channel'[j] = Unregister(b)
  <2>1. CASE bus[b] = q /\ ~(c.op = "UnregisterWorker" /\ c.agent = b)
    <3>1. PICK j \in 1..(n + 1) : channel[j] = Unregister(b)
      BY <1>3, <1>6, <1>11, <2>1 DEF RegistrationsAnswered
    <3>2. j # 1
      BY <1>2, <1>9, <2>1, <3>1
    <3>3. QED
      BY <1>10, <3>1, <3>2
  <2>2. CASE c.op = "RegisterWorker" /\ c.agent = b /\ c.pid = q
    <3>1. PICK j \in 1..(n + 1) : j > 1 /\ channel[j] = Unregister(b)
      BY <1>2, <1>3, <1>5, <1>6, <1>11, <2>2 DEF RegistrationsAnswered
    <3>2. j # 1
      BY <3>1
    <3>3. QED
      BY <1>10, <3>1, <3>2
  <2>3. CASE c.op = "UnregisterWorker" /\ c.agent = b
    BY <1>8, <1>11, <2>3, SupervisorAssumption DEF TypeOK
  <2>4. bus[b] = q \/ (c.op = "RegisterWorker" /\ c.agent = b /\ c.pid = q)
        \/ (c.op = "UnregisterWorker" /\ c.agent = b)
    BY <1>8, <1>11 DEF TypeOK
  <2>5. QED
    BY <2>1, <2>2, <2>3, <2>4
<1>12. ASSUME NEW i \in 1..Len(channel'), channel'[i].op = "RegisterWorker",
              session'[channel'[i].pid] # channel'[i].agent
       PROVE  \E j \in 1..Len(channel') : j > i /\ channel'[j] = Unregister(channel'[i].agent)
  <2>1. i \in 1..n /\ i + 1 \in 1..(n + 1) /\ channel'[i] = channel[i + 1]
    BY <1>4, <1>5
  <2>2. PICK j \in 1..(n + 1) : j > i + 1 /\ channel[j] = Unregister(channel'[i].agent)
    BY <1>3, <1>6, <1>12, <2>1 DEF RegistrationsAnswered
  <2>3. j # 1 /\ j - 1 > i
    BY <2>1, <2>2
  <2>4. QED
    BY <1>10, <2>2, <2>3
<1>13. RegistrationsAnswered'
  BY <1>11, <1>12 DEF RegistrationsAnswered, Unregister
<1>14. StartingUnknown'
  <2>1. ASSUME NEW p \in Pids, child[p].run = "starting"
        PROVE  /\ \A b \in Agents : bus'[b] # p
               /\ \A i \in 1..Len(channel') : channel'[i].op = "RegisterWorker" => channel'[i].pid # p
    <3>1. /\ \A b \in Agents : bus[b] # p
          /\ \A i \in 1..(n + 1) : channel[i].op = "RegisterWorker" => channel[i].pid # p
      BY <1>3, <2>1 DEF StartingUnknown
    <3>2. c.op = "RegisterWorker" => c.pid # p
      BY <1>2, <1>5, <3>1
    <3>3. \A b \in Agents : bus'[b] # p
      BY <1>8, <3>1, <3>2, SupervisorAssumption DEF TypeOK
    <3>4. QED
      BY <1>4, <1>5, <3>1, <3>3
  <2>2. QED
    BY <1>6, <2>1 DEF StartingUnknown
<1>15. QED
  BY <1>13, <1>14

LEMMA StartsReg ==
  ASSUME TypeOK, NEW p \in Pids, NEW q \in Pids,
         \/ \E a \in Agents : Fresh(p) /\ SpawnAgent(a, p)
         \/ Fresh(p) /\ Respawn(q, p)
         \/ Exit(p)
         \/ Watch(p)
  PROVE  \A r \in Pids : child'[r].run = "starting" => child[r].run = "starting" \/ Unused(r)
<1>1. ASSUME NEW a \in Agents, Fresh(p), SpawnAgent(a, p)
      PROVE  \A r \in Pids : child'[r].run = "starting" => child[r].run = "starting" \/ Unused(r)
  BY <1>1 DEF TypeOK, SupervisorTypeOK, SpawnAgent, Fresh
<1>2. ASSUME Fresh(p), Respawn(q, p)
      PROVE  \A r \in Pids : child'[r].run = "starting" => child[r].run = "starting" \/ Unused(r)
  <2> DEFINE new == [child[q] EXCEPT !.run = "starting", !.watch = "spawned"]
  <2>1. child' = [r \in Pids |-> IF r = q THEN Gone ELSE IF r = p THEN new ELSE child[r]]
    BY <1>2, RespawnFacts
  <2>2. Unused(p)
    BY <1>2 DEF Fresh
  <2> HIDE DEF new
  <2>3. QED
    BY <2>1, <2>2 DEF Gone
<1>3. CASE Exit(p) \/ Watch(p)
  <2>1. child'[p].run = "starting" => child[p].run = "starting"
    BY <1>3, WatchFacts DEF Fades, Child, Gone
  <2>2. \A r \in Pids : r # p => child'[r] = child[r]
    BY <1>3, WatchFacts
  <2>3. QED
    BY <2>1, <2>2
<1>4. QED
  BY <1>1, <1>2, <1>3

LEMMA RegStep == RegInv /\ [Next]_vars => RegInv'
<1> SUFFICES ASSUME RegInv, [Next]_vars PROVE RegInv'
  OBVIOUS
<1>1. TypeOK /\ TypeInv /\ Suited /\ RegistrationsAnswered /\ StartingUnknown
  BY DEF RegInv, TypeInv
<1>2. SUFFICES (RegistrationsAnswered /\ StartingUnknown)'
  BY <1>1, TypeStep DEF RegInv
<1>3. CASE UNCHANGED <<child, bus, session, channel>>
  BY <1>1, <1>3, QuietReg
<1>4. ASSUME NEW s \in Startups, Spawning(s) PROVE (RegistrationsAnswered /\ StartingUnknown)'
  <2>1. ASSUME NEW a \in Crew(s), CreateSpawnFails(a)
        PROVE  (RegistrationsAnswered /\ StartingUnknown)'
    BY <1>3, <2>1 DEF CreateSpawnFails, supervisor, memory
  <2>2. ASSUME NEW a \in Crew(s), NEW p \in Pids, CreateSpawns(a, p)
        PROVE  (RegistrationsAnswered /\ StartingUnknown)'
    <3>1. a \in Agents /\ Fresh(p) /\ SpawnAgent(a, p) /\ UNCHANGED <<bus, session, channel>>
      BY <2>2 DEF CreateSpawns, Crew, memory
    <3>2. QED
      BY <1>1, <3>1, StartsReg, QuietReg
  <2>3. QED
    BY <1>4, <2>1, <2>2 DEF Spawning
<1>5. ASSUME NEW s \in Startups, CreateAnswers(s) PROVE (RegistrationsAnswered /\ StartingUnknown)'
  <2> DEFINE cmd == [op |-> "InsertAvatars", startup |-> s, suite |-> suite[s]]
  <2>1. suite[s] \in Suites /\ cmd.op # "RegisterWorker"
    BY <1>1, <1>5 DEF Suited, CreateAnswers
  <2>2. cmd \in Command /\ Send(cmd) /\ UNCHANGED <<child, bus, session>>
    BY <1>5, <2>1, CommandTypes DEF CreateAnswers, supervisor, memory
  <2> HIDE DEF cmd
  <2>3. QED
    BY <1>1, <2>1, <2>2, SendReg
<1>6. ASSUME NEW s \in Startups, DeleteReleases(s) PROVE (RegistrationsAnswered /\ StartingUnknown)'
  <2> DEFINE cmd == [op |-> "ReleaseSuite", startup |-> s]
  <2>1. cmd.op # "RegisterWorker"
    OBVIOUS
  <2>2. cmd \in Command /\ Send(cmd) /\ UNCHANGED <<child, bus, session>>
    BY <1>6, CommandTypes DEF DeleteReleases, memory
  <2> HIDE DEF cmd
  <2>3. QED
    BY <1>1, <2>1, <2>2, SendReg
<1>7. ASSUME NEW a \in Agents, NEW p \in Pids, SpawnForTask(a, p)
      PROVE  (RegistrationsAnswered /\ StartingUnknown)'
  <2>1. Fresh(p) /\ SpawnAgent(a, p) /\ UNCHANGED <<bus, session, channel>>
    BY <1>7 DEF SpawnForTask
  <2>2. QED
    BY <1>1, <2>1, StartsReg, QuietReg
<1>8. CASE SupervisorStep
  <2>1. UNCHANGED <<bus, session, channel>>
    BY <1>8 DEF SupervisorStep, others, memory
  <2>2. ASSUME NEW p \in Pids, Exit(p) \/ Watch(p)
        PROVE  (RegistrationsAnswered /\ StartingUnknown)'
    BY <1>1, <2>1, <2>2, StartsReg, QuietReg
  <2>3. ASSUME NEW p \in Pids, NEW q \in Pids, Fresh(q), Respawn(p, q)
        PROVE  (RegistrationsAnswered /\ StartingUnknown)'
    BY <1>1, <2>1, <2>3, StartsReg, QuietReg
  <2>4. ASSUME NEW s \in Startups, Dissolving(s)
        PROVE  (RegistrationsAnswered /\ StartingUnknown)'
    <3>1. \A r \in Pids : child'[r].run = "starting" => child[r].run = "starting"
      <4>1. CASE Sigkill(s)
        BY <1>1, <4>1, ChildFacts DEF Sigkill, Child, Gone
      <4>2. CASE ListWorkers(s) \/ Sigterm(s)
        BY <4>2 DEF ListWorkers, Sigterm
      <4>3. QED
        BY <2>4, <4>1, <4>2 DEF Dissolving
    <3>2. QED
      BY <1>1, <2>1, <3>1, QuietReg
  <2>5. QED
    BY <1>8, <2>2, <2>3, <2>4 DEF SupervisorStep
<1>9. CASE Next
  BY <1>1, <1>3, <1>4, <1>5, <1>6, <1>7, <1>8, <1>9, ConnectReg, DisconnectReg, LoopReg
     DEF Next, CreateCommits, DeleteCommits, Report, supervisor, memory
<1>10. QED
  BY <1>3, <1>9 DEF vars, supervisor, memory

-----------------------------------------------------------------------------
(* One worker to an agent.                                                     *)

\* No new process, no new agent to spawn for, no startup that was not there.
LEMMA QuietSole ==
  ASSUME TypeOK, Sole, \A p \in Pids : Fades(p), toSpawn' \subseteq toSpawn,
         \A s \in Startups : life'[s] = "absent" => life[s] = "absent" /\ creating'[s] = creating[s]
  PROVE  Sole'
BY DEF Sole, Fades, Crew

LEMMA RespawnSole ==
  ASSUME TypeOK, Sole, NEW p \in Pids, NEW q \in Pids, Respawn(p, q),
         UNCHANGED <<toSpawn, life, creating>>
  PROVE  Sole'
<1> DEFINE new == [child[p] EXCEPT !.run = "starting", !.watch = "spawned"]
<1>1. /\ p # q /\ child[p] \in Child /\ new.agent = child[p].agent
      /\ child' = [r \in Pids |-> IF r = p THEN Gone ELSE IF r = q THEN new ELSE child[r]]
  BY RespawnFacts
<1>2. child[p] # Gone
  BY <1>1 DEF Child, Gone
<1> HIDE DEF new
\* Who has a process had one, under the same id or, for q, under p.
<1>3. ASSUME NEW r \in Pids, child'[r] # Gone
      PROVE  \/ r = q /\ child'[r].agent = child[p].agent
             \/ r # q /\ r # p /\ child[r] # Gone /\ child'[r].agent = child[r].agent
  BY <1>1, <1>3
<1>4. \A r, t \in Pids : child'[r] # Gone /\ child'[t] # Gone /\ child'[r].agent = child'[t].agent => r = t
  BY <1>2, <1>3 DEF Sole
<1>5. \A r \in Pids : child'[r] # Gone => child'[r].agent \notin toSpawn
  BY <1>2, <1>3 DEF Sole
<1>6. ASSUME NEW s \in Startups, life[s] = "absent"
      PROVE  \A r \in Pids : child'[r] # Gone => child'[r].agent \notin Crew(s)
  BY <1>2, <1>3, <1>6 DEF Sole
<1>7. QED
  BY <1>4, <1>5, <1>6 DEF Sole, Crew

LEMMA SpawnSole ==
  ASSUME TypeOK, Sole, NEW a \in Agents, NEW p \in Pids, CreateSpawns(a, p)
  PROVE  Sole'
<1>1. /\ a \in toSpawn /\ toSpawn' = toSpawn \ {a}
      /\ UNCHANGED <<life, creating>>
      /\ SpawnAgent(a, p)
  BY DEF CreateSpawns, sql
<1>2. /\ child[p] = Gone /\ child'[p].agent = a
      /\ \A q \in Pids : q # p => child'[q] = child[q]
  BY <1>1, SpawnFacts
<1>3. \A r, t \in Pids : child'[r] # Gone /\ child'[t] # Gone /\ child'[r].agent = child'[t].agent => r = t
  BY <1>1, <1>2 DEF Sole
<1>4. \A r \in Pids : child'[r] # Gone => child'[r].agent \notin toSpawn'
  BY <1>1, <1>2 DEF Sole
<1>5. ASSUME NEW s \in Startups, life[s] = "absent"
      PROVE  /\ creating[s] = "no" /\ toSpawn' \cap Crew(s) = {}
             /\ \A r \in Pids : child'[r] # Gone => child'[r].agent \notin Crew(s)
  BY <1>1, <1>2, <1>5 DEF Sole
<1>6. QED
  BY <1>1, <1>3, <1>4, <1>5 DEF Sole, Crew

LEMMA CommitSole ==
  ASSUME TypeOK, Sole, NEW s \in Startups, CreateCommits(s)
  PROVE  Sole'
<1>1. /\ life[s] = "absent" /\ child' = child
      /\ toSpawn' \in {toSpawn, toSpawn \cup Crew(s)}
      /\ life'[s] = "active"
      /\ \A t \in Startups : t # s => life'[t] = life[t] /\ creating'[t] = creating[t]
  BY DEF TypeOK, CreateCommits, supervisor
<1>2. \A t \in Startups : t # s => Crew(t) \cap Crew(s) = {}
  BY DEF Crew
<1>3. \A p \in Pids : child[p] # Gone => child[p].agent \notin toSpawn'
  BY <1>1 DEF Sole
<1>4. ASSUME NEW t \in Startups, life'[t] = "absent"
      PROVE  /\ creating'[t] = "no" /\ toSpawn' \cap Crew(t) = {}
             /\ \A p \in Pids : child[p] # Gone => child[p].agent \notin Crew(t)
  BY <1>1, <1>2, <1>4 DEF Sole
<1>5. QED
  BY <1>1, <1>3, <1>4 DEF Sole, Crew

LEMMA SoleStep == TypeOK /\ Sole /\ ~PerTask /\ [Next]_vars => Sole'
<1> SUFFICES ASSUME TypeOK, Sole, ~PerTask, [Next]_vars PROVE Sole'
  OBVIOUS
<1>1. CASE UNCHANGED <<child, toSpawn, life, creating>>
  <2>1. \A p \in Pids : Fades(p)
    BY <1>1, FadesWhenSame
  <2>2. QED
    BY <1>1, <2>1, QuietSole
<1>2. ASSUME NEW s \in Startups, CreateCommits(s) PROVE Sole'
  BY <1>2, CommitSole
<1>3. ASSUME NEW s \in Startups, Spawning(s) PROVE Sole'
  <2>1. ASSUME NEW a \in Crew(s), CreateSpawnFails(a) PROVE Sole'
    <3>1. /\ child' = child /\ toSpawn' \subseteq toSpawn /\ UNCHANGED <<life, creating>>
      BY <2>1 DEF CreateSpawnFails, supervisor, sql
    <3>2. \A p \in Pids : Fades(p)
      BY <3>1, FadesWhenSame
    <3>3. QED
      BY <3>1, <3>2, QuietSole
  <2>2. QED
    BY <1>3, <2>1, SpawnSole DEF Spawning, Crew
<1>4. ASSUME NEW s \in Startups, CreateAnswers(s) \/ DeleteCommits(s) PROVE Sole'
  <2>1. /\ child' = child /\ toSpawn' = toSpawn
        /\ \A t \in Startups : life'[t] = "absent" => life[t] = "absent"
    BY <1>4 DEF TypeOK, CreateAnswers, DeleteCommits, supervisor, sql, create
  <2>2. \A t \in Startups : life[t] = "absent" => creating'[t] = creating[t]
    BY <1>4 DEF TypeOK, CreateAnswers, DeleteCommits, create, Sole
  <2>3. \A p \in Pids : Fades(p)
    BY <2>1, FadesWhenSame
  <2>4. QED
    BY <2>1, <2>2, <2>3, QuietSole
<1>5. ASSUME NEW p \in Pids, Connect(p) PROVE Sole'
  <2>1. \A q \in Pids : Fades(q)
    BY <1>5, ConnectFacts
  <2>2. QED
    BY <1>5, <2>1, QuietSole DEF Connect, sql, create
<1>6. CASE SupervisorStep
  <2>1. UNCHANGED <<toSpawn, life, creating>>
    BY <1>6 DEF SupervisorStep, others, sql, create
  <2>2. ASSUME NEW p \in Pids, Exit(p) \/ Watch(p) PROVE Sole'
    <3>1. \A q \in Pids : Fades(q)
      BY <2>2, WatchFacts, FadesWhenSame DEF Fades
    <3>2. QED
      BY <2>1, <3>1, QuietSole
  <2>3. ASSUME NEW p \in Pids, NEW q \in Pids, Respawn(p, q) PROVE Sole'
    BY <2>1, <2>3, RespawnSole
  <2>4. ASSUME NEW s \in Startups, Dissolving(s) PROVE Sole'
    <3>1. CASE Sigkill(s)
      BY <2>1, <3>1, SigkillFacts, QuietSole
    <3>2. CASE ListWorkers(s) \/ Sigterm(s)
      BY <1>1, <2>1, <3>2 DEF ListWorkers, Sigterm
    <3>3. QED
      BY <2>4, <3>1, <3>2 DEF Dissolving
  <2>5. QED
    BY <1>6, <2>2, <2>3, <2>4 DEF SupervisorStep
<1>7. CASE Next
  BY <1>1, <1>2, <1>3, <1>4, <1>5, <1>6, <1>7
     DEF Next, DeleteReleases, Disconnect, Report, SpawnForTask, Loop, InsertAvatars,
         ReleaseSuite, RegisterWorker, UnregisterWorker, supervisor, sql, create
<1>8. QED
  BY <1>1, <1>7 DEF vars, supervisor, sql, create

-----------------------------------------------------------------------------
(* The map of workers, and the dissolutions.                                   *)

LEMMA CreatedFirstStep ==
  TypeOK /\ Sole /\ CreatedFirst /\ ~PerTask /\ Impatient = {} /\ [Next]_vars => CreatedFirst'
<1> SUFFICES ASSUME TypeOK, Sole, CreatedFirst, ~PerTask, Impatient = {}, [Next]_vars
             PROVE  CreatedFirst'
  OBVIOUS
<1>1. CASE toSpawn' \subseteq toSpawn /\ UNCHANGED <<dissolve, life, creating>>
  BY <1>1 DEF CreatedFirst
<1>2. ASSUME NEW s \in Startups, CreateCommits(s) PROVE CreatedFirst'
  <2>1. /\ life[s] = "absent" /\ creating'[s] = "spawning" /\ life'[s] = "active"
        /\ \A t \in Startups : t # s => life'[t] = life[t] /\ creating'[t] = creating[t]
        /\ toSpawn' \subseteq toSpawn \cup Crew(s) /\ dissolve' = dissolve
    BY <1>2 DEF TypeOK, CreateCommits, supervisor
  <2>2. \A t \in Startups : t # s => Crew(t) \cap Crew(s) = {}
    BY DEF Crew
  <2>3. \A t \in Startups : creating'[t] = "answered" => toSpawn' \cap Crew(t) = {}
    BY <2>1, <2>2 DEF CreatedFirst
  <2>4. QED
    BY <2>1, <2>3 DEF CreatedFirst, Crew
<1>3. ASSUME NEW s \in Startups, CreateAnswers(s) PROVE CreatedFirst'
  <2>1. /\ toSpawn \cap Crew(s) = {} /\ creating'[s] = "answered"
        /\ \A t \in Startups : t # s => creating'[t] = creating[t]
        /\ UNCHANGED <<toSpawn, life, dissolve>>
    BY <1>3 DEF TypeOK, CreateAnswers, supervisor, sql
  <2>2. QED
    BY <2>1 DEF CreatedFirst, Crew
<1>4. ASSUME NEW s \in Startups, DeleteCommits(s) PROVE CreatedFirst'
  <2>1. /\ creating[s] = "answered" /\ life'[s] = "dissolved"
        /\ \A t \in Startups : t # s => life'[t] = life[t] /\ dissolve'[t] = dissolve[t]
        /\ UNCHANGED <<toSpawn, creating>>
    BY <1>4 DEF TypeOK, SupervisorTypeOK, DeleteCommits, create
  <2>2. QED
    BY <2>1 DEF CreatedFirst, Crew
<1>5. ASSUME NEW s \in Startups, dissolve[s] # "idle",
             \A t \in Startups : t # s => dissolve'[t] = dissolve[t],
             UNCHANGED <<toSpawn, life, creating>>
      PROVE  CreatedFirst'
  BY <1>5 DEF CreatedFirst, Crew
<1>6. ASSUME NEW s \in Startups, DeleteReleases(s) PROVE CreatedFirst'
  BY <1>5, <1>6 DEF TypeOK, SupervisorTypeOK, DeleteReleases, sql, create
<1>7. CASE SupervisorStep
  <2>1. UNCHANGED <<toSpawn, life, creating>>
    BY <1>7 DEF SupervisorStep, others, sql, create
  <2>2. ASSUME NEW p \in Pids, Exit(p) \/ Watch(p) PROVE CreatedFirst'
    BY <1>1, <2>1, <2>2, WatchFacts
  <2>3. ASSUME NEW p \in Pids, NEW q \in Pids, Respawn(p, q) PROVE CreatedFirst'
    BY <1>1, <2>1, <2>3 DEF Respawn
  <2>4. ASSUME NEW s \in Startups, Dissolving(s) PROVE CreatedFirst'
    BY <1>5, <2>1, <2>4 DEF TypeOK, SupervisorTypeOK, Dissolving, ListWorkers, Sigterm, Sigkill
  <2>5. QED
    BY <1>7, <2>2, <2>3, <2>4 DEF SupervisorStep
<1>8. ASSUME NEW s \in Startups, Spawning(s) PROVE CreatedFirst'
  <2>1. toSpawn' \subseteq toSpawn /\ UNCHANGED <<dissolve, life, creating>>
    BY <1>8 DEF Spawning, CreateSpawns, CreateSpawnFails, SpawnAgent, supervisor, sql
  <2>2. QED
    BY <1>1, <2>1
<1>9. CASE Next
  BY <1>1, <1>2, <1>3, <1>4, <1>6, <1>7, <1>8, <1>9
     DEF Next, Connect, Disconnect, Report, SpawnForTask, Loop, InsertAvatars,
         ReleaseSuite, RegisterWorker, UnregisterWorker, supervisor, sql, create
<1>10. QED
  BY <1>1, <1>9 DEF vars, supervisor, sql, create

\* Processes fade while map, tombstones and dissolutions stay.
LEMMA QuietDeath ==
  ASSUME TypeOK, MapKnows, Dissolution, \A p \in Pids : Fades(p),
         \A p \in Pids : child'[p] # Gone /\ child[p].watch = "spawned" => child'[p].watch = "spawned",
         UNCHANGED <<entry, tomb, dissolve, targets, life>>
  PROVE  (MapKnows /\ Dissolution)'
<1>1. MapKnows'
  BY DEF MapKnows, Fades
<1>2. Dissolution'
  BY DEF Dissolution, Fades, Alive
<1>3. QED
  BY <1>1, <1>2

LEMMA SpawnDeath ==
  ASSUME TypeOK, Sole, CreatedFirst, MapKnows, Dissolution,
         NEW a \in Agents, NEW p \in Pids, CreateSpawns(a, p)
  PROVE  (MapKnows /\ Dissolution)'
<1>1. SpawnAgent(a, p) /\ a \in toSpawn /\ life' = life
  BY DEF CreateSpawns, sql
<1>2. /\ child[p] = Gone
      /\ child'[p] # Gone /\ child'[p].agent = a /\ child'[p].watch = "waiting"
      /\ entry'[a] = p
      /\ \A q \in Pids : q # p => child'[q] = child[q]
      /\ \A b \in Agents : b # a => entry'[b] = entry[b]
      /\ UNCHANGED <<tomb, dissolve, targets>>
  BY <1>1, SpawnFacts
<1>3. \A q \in Pids : q # p /\ child[q] # Gone => child[q].agent # a /\ child[q].agent \in Agents
  BY <1>1, ChildFacts DEF Sole
<1>4. StartupOf[a] \in Startups /\ life[StartupOf[a]] # "dissolved" /\ dissolve[StartupOf[a]] = "idle"
  BY <1>1, SupervisorAssumption DEF CreatedFirst, Crew
<1>5. MapKnows'
  BY <1>2, <1>3, SupervisorAssumption DEF MapKnows
<1>6. ASSUME NEW q \in Pids, child'[q] # Gone
      PROVE  LET b == child'[q].agent
                 s == StartupOf[b]
             IN /\ dissolve'[s] \in {"listed", "grace"} => b \in targets'[s]
                /\ dissolve'[s] = "grace" => b \in tomb'
                /\ life'[s] = "dissolved" /\ dissolve'[s] \in {"killed", "idle"} =>
                     /\ b \in tomb' /\ child'[q].run \notin {"starting", "connected"}
                     /\ child'[q].watch # "spawned"
  <2>1. CASE q = p
    BY <1>1, <1>2, <1>4, <2>1
  <2>2. CASE q # p
    BY <1>1, <1>2, <1>6, <2>2 DEF Dissolution, Alive
  <2>3. QED
    BY <2>1, <2>2
<1>7. Dissolution'
  BY <1>6 DEF Dissolution, Alive
<1>8. QED
  BY <1>5, <1>7

LEMMA WatchDeath ==
  ASSUME TypeOK, Sole, MapKnows, Dissolution,
         NEW p \in Pids, Exit(p) \/ Watch(p), life' = life
  PROVE  (MapKnows /\ Dissolution)'
<1> DEFINE a == child[p].agent
<1>1. /\ child[p] \in Child /\ child[p] # Gone /\ a \in Agents
      /\ \A q \in Pids : q # p => child'[q] = child[q]
      /\ UNCHANGED <<dissolve, targets>>
  BY WatchFacts DEF Child, Gone
<1>2. \A q \in Pids : q # p /\ child[q] # Gone => child[q].agent # a /\ child[q].agent \in Agents
  BY <1>1, ChildFacts DEF Sole
<1>3. CASE /\ child'[p] = Gone
           /\ entry' = [entry EXCEPT ![a] = NoPid]
           /\ tomb' \in {tomb, tomb \ {a}}
  <2>1. \A b \in Agents : b # a => entry'[b] = entry[b] /\ (b \in tomb => b \in tomb')
    BY <1>3 DEF TypeOK, SupervisorTypeOK
  <2>2. \A q \in Pids : child'[q] # Gone => q # p /\ child'[q] = child[q] /\ child[q].agent # a
                                            /\ child[q].agent \in Agents
    BY <1>1, <1>2, <1>3
  <2> HIDE DEF a
  <2>3. MapKnows'
    BY <2>1, <2>2 DEF MapKnows
  <2>4. Dissolution'
    BY <1>1, <2>1, <2>2 DEF Dissolution, Alive
  <2>5. QED
    BY <2>3, <2>4
<1>4. CASE /\ Fades(p)
           /\ child'[p].watch = "spawned" <=> child[p].watch = "spawned"
           /\ UNCHANGED <<entry, tomb>>
  <2>1. \A q \in Pids : Fades(q)
    BY <1>1, <1>4, FadesWhenSame
  <2>2. \A q \in Pids : child'[q] # Gone /\ child[q].watch = "spawned" => child'[q].watch = "spawned"
    BY <1>1, <1>4
  <2>3. QED
    BY <1>1, <1>4, <2>1, <2>2, QuietDeath
<1>5. CASE /\ Fades(p) /\ child[p].watch = "spawned" /\ child'[p].watch = "waiting"
           /\ entry' = [entry EXCEPT ![a] = IF @ = NoPid THEN NoPid ELSE p]
           /\ UNCHANGED tomb
  <2>1. entry[a] # NoPid
    BY <1>1 DEF MapKnows
  <2>2. entry'[a] = p /\ \A b \in Agents : b # a => entry'[b] = entry[b]
    BY <1>1, <1>5, <2>1 DEF TypeOK, SupervisorTypeOK
  <2>3. child'[p] # Gone => child'[p].agent = a
    BY <1>5 DEF Fades
  <2> HIDE DEF a
  <2>4. MapKnows'
    BY <1>1, <1>2, <2>2, <2>3, SupervisorAssumption DEF MapKnows
  <2>5. ASSUME NEW q \in Pids, child'[q] # Gone
        PROVE  /\ child[q] # Gone /\ child'[q].agent = child[q].agent
               /\ child'[q].run \in {"starting", "connected"} => Alive(q)
               /\ child'[q].watch = "spawned" => child[q].watch = "spawned"
    BY <1>1, <1>5, <2>5 DEF Fades, Alive
  <2>6. Dissolution'
    BY <1>1, <1>5, <2>5 DEF Dissolution, Alive
  <2>7. QED
    BY <2>4, <2>6
<1>6. QED
  BY <1>3, <1>4, <1>5, WatchFacts

\* An agent that is respawned has no tombstone, so that no dissolution has passed it.
LEMMA RespawnDeath ==
  ASSUME TypeOK, MapKnows, Dissolution,
         NEW p \in Pids, NEW q \in Pids, Respawn(p, q), life' = life
  PROVE  (MapKnows /\ Dissolution)'
<1> DEFINE new == [child[p] EXCEPT !.run = "starting", !.watch = "spawned"]
           a == child[p].agent
<1>1. /\ p # q /\ child[p] \in Child /\ new \in Child /\ new.agent = a
      /\ child' = [r \in Pids |-> IF r = p THEN Gone ELSE IF r = q THEN new ELSE child[r]]
  BY RespawnFacts
<1>2. child[p] # Gone /\ new.watch = "spawned"
  BY <1>1 DEF Child, Gone
<1>3. a \notin tomb /\ UNCHANGED <<entry, tomb, dissolve, targets>>
  BY DEF Respawn
<1>4. entry[a] # NoPid
  BY <1>2 DEF MapKnows
<1>5. /\ dissolve[StartupOf[a]] = "listed" => a \in targets[StartupOf[a]]
      /\ dissolve[StartupOf[a]] # "grace"
      /\ ~(life[StartupOf[a]] = "dissolved" /\ dissolve[StartupOf[a]] \in {"killed", "idle"})
  BY <1>2, <1>3 DEF Dissolution
<1> HIDE DEF new
<1>6. \A r \in Pids : child'[r] # Gone =>
        \/ r = q /\ child'[r] = new
        \/ r # q /\ child[r] # Gone /\ child'[r] = child[r]
  BY <1>1
<1>7. MapKnows'
  BY <1>1, <1>2, <1>3, <1>4, <1>6 DEF MapKnows
<1>8. ASSUME NEW r \in Pids, child'[r] # Gone
      PROVE  LET b == child'[r].agent
                 s == StartupOf[b]
             IN /\ dissolve'[s] \in {"listed", "grace"} => b \in targets'[s]
                /\ dissolve'[s] = "grace" => b \in tomb'
                /\ life'[s] = "dissolved" /\ dissolve'[s] \in {"killed", "idle"} =>
                     /\ b \in tomb' /\ child'[r].run \notin {"starting", "connected"}
                     /\ child'[r].watch # "spawned"
  <2>1. CASE child'[r] = new
    BY <1>1, <1>3, <1>5, <2>1
  <2>2. CASE child[r] # Gone /\ child'[r] = child[r]
    BY <1>3, <2>2 DEF Dissolution, Alive
  <2>3. QED
    BY <1>6, <1>8, <2>1, <2>2
<1>9. Dissolution'
  BY <1>8 DEF Dissolution, Alive
<1>10. QED
  BY <1>7, <1>9

LEMMA DissolvingDeath ==
  ASSUME TypeOK, Sole, CreatedFirst, MapKnows, Dissolution,
         NEW s \in Startups, Dissolving(s), life' = life
  PROVE  (MapKnows /\ Dissolution)'
<1>0. \A p \in Pids : child[p] # Gone => child[p].agent \in Agents
  BY ChildFacts
<1>1. CASE ListWorkers(s)
  <2>1. /\ UNCHANGED <<child, entry, tomb>>
        /\ dissolve'[s] = "listed"
        /\ targets'[s] = {a \in Agents : StartupOf[a] = s /\ entry[a] # NoPid}
        /\ \A t \in Startups : t # s => dissolve'[t] = dissolve[t] /\ targets'[t] = targets[t]
    BY <1>1 DEF TypeOK, SupervisorTypeOK, ListWorkers
  <2>2. MapKnows'
    BY <2>1 DEF MapKnows
  <2>3. ASSUME NEW p \in Pids, child[p] # Gone
        PROVE  LET b == child[p].agent
                   t == StartupOf[b]
               IN /\ dissolve'[t] \in {"listed", "grace"} => b \in targets'[t]
                  /\ dissolve'[t] = "grace" => b \in tomb
                  /\ life[t] = "dissolved" /\ dissolve'[t] \in {"killed", "idle"} =>
                       b \in tomb /\ ~Alive(p) /\ child[p].watch # "spawned"
    <3>1. CASE StartupOf[child[p].agent] = s
      BY <1>0, <2>1, <2>3, <3>1 DEF MapKnows
    <3>2. CASE StartupOf[child[p].agent] # s
      <4>1. StartupOf[child[p].agent] \in Startups
        BY <1>0, <2>3, SupervisorAssumption
      <4>2. QED
        BY <2>1, <2>3, <3>2, <4>1 DEF Dissolution
    <3>3. QED
      BY <3>1, <3>2
  <2>4. Dissolution'
    BY <2>1, <2>3 DEF Dissolution, Alive
  <2>5. QED
    BY <2>2, <2>4
<1>2. CASE Sigterm(s)
  <2>1. /\ UNCHANGED <<child, entry, targets>>
        /\ dissolve[s] = "listed" /\ dissolve'[s] = "grace"
        /\ tomb' = tomb \cup targets[s]
        /\ \A t \in Startups : t # s => dissolve'[t] = dissolve[t]
    BY <1>2 DEF TypeOK, SupervisorTypeOK, Sigterm
  <2>2. MapKnows'
    BY <2>1 DEF MapKnows
  <2>3. ASSUME NEW p \in Pids, child[p] # Gone
        PROVE  LET b == child[p].agent
                   t == StartupOf[b]
               IN /\ dissolve'[t] \in {"listed", "grace"} => b \in targets[t]
                  /\ dissolve'[t] = "grace" => b \in tomb'
                  /\ life[t] = "dissolved" /\ dissolve'[t] \in {"killed", "idle"} =>
                       b \in tomb' /\ ~Alive(p) /\ child[p].watch # "spawned"
    <3>1. CASE StartupOf[child[p].agent] = s
      BY <2>1, <2>3, <3>1 DEF Dissolution
    <3>2. CASE StartupOf[child[p].agent] # s
      <4>1. StartupOf[child[p].agent] \in Startups
        BY <1>0, <2>3, SupervisorAssumption
      <4>2. QED
        BY <2>1, <2>3, <3>2, <4>1 DEF Dissolution
    <3>3. QED
      BY <3>1, <3>2
  <2>4. Dissolution'
    BY <2>1, <2>3 DEF Dissolution, Alive
  <2>5. QED
    BY <2>2, <2>4
<1>3. CASE Sigkill(s)
  <2>1. /\ UNCHANGED <<entry, tomb>>
        /\ dissolve[s] = "grace" /\ dissolve'[s] = "killed"
        /\ \A t \in Startups : t # s => dissolve'[t] = dissolve[t] /\ targets'[t] = targets[t]
        /\ \A p \in Pids : child[p].watch = "spawned" => child[p].agent \notin targets[s]
    BY <1>3 DEF TypeOK, SupervisorTypeOK, Sigkill
  <2>2. \A p \in Pids :
          /\ Fades(p)
          /\ child[p] # Gone => child'[p] # Gone /\ child'[p].watch = child[p].watch
          /\ (\E a \in targets[s] : entry[a] = p) => child'[p].run \notin {"starting", "connected"}
    BY <1>3, SigkillFacts
  <2>3. MapKnows'
    BY <2>1, <2>2 DEF MapKnows, Fades
  <2>4. ASSUME NEW p \in Pids, child'[p] # Gone
        PROVE  LET b == child'[p].agent
                   t == StartupOf[b]
               IN /\ dissolve'[t] \in {"listed", "grace"} => b \in targets'[t]
                  /\ dissolve'[t] = "grace" => b \in tomb'
                  /\ life'[t] = "dissolved" /\ dissolve'[t] \in {"killed", "idle"} =>
                       /\ b \in tomb' /\ child'[p].run \notin {"starting", "connected"}
                       /\ child'[p].watch # "spawned"
    <3>1. child[p] # Gone /\ child'[p].agent = child[p].agent
      BY <2>2, <2>4 DEF Fades
    <3>2. CASE StartupOf[child[p].agent] = s
      <4>1. child[p].agent \in targets[s] /\ child[p].agent \in tomb
        BY <2>1, <3>1, <3>2 DEF Dissolution
      <4>2. child[p].watch # "spawned" /\ entry[child[p].agent] = p
        BY <2>1, <3>1, <4>1 DEF MapKnows
      <4>3. child'[p].run \notin {"starting", "connected"} /\ child'[p].watch # "spawned"
        BY <2>2, <3>1, <4>1, <4>2
      <4>4. QED
        BY <2>1, <3>1, <3>2, <4>1, <4>3
    <3>3. CASE StartupOf[child[p].agent] # s
      <4>1. StartupOf[child[p].agent] \in Startups
        BY <1>0, <3>1, SupervisorAssumption
      <4>2. QED
        BY <2>1, <2>2, <2>4, <3>1, <3>3, <4>1 DEF Dissolution, Fades, Alive
    <3>4. QED
      BY <3>2, <3>3
  <2>5. Dissolution'
    BY <2>4 DEF Dissolution, Alive
  <2>6. QED
    BY <2>3, <2>5
<1>4. QED
  BY <1>1, <1>2, <1>3 DEF Dissolving

\* A DELETE starts over, or is done: nothing is asked of its first steps, and what
\* its kill has left behind is there when it ends.
LEMMA DeleteDeath ==
  ASSUME TypeOK, CreatedFirst, MapKnows, Dissolution, NEW s \in Startups,
         DeleteCommits(s) \/ DeleteReleases(s)
  PROVE  (MapKnows /\ Dissolution)'
<1>1. /\ UNCHANGED <<child, entry, tomb, targets>>
      /\ \/ dissolve'[s] = "called"
         \/ dissolve[s] = "killed" /\ dissolve'[s] = "idle" /\ life'[s] = life[s]
      /\ \A t \in Startups : t # s => dissolve'[t] = dissolve[t] /\ life'[t] = life[t]
  BY DEF TypeOK, SupervisorTypeOK, DeleteCommits, DeleteReleases, sql
<1>2. MapKnows'
  BY <1>1 DEF MapKnows
<1>3. \A p \in Pids : child[p] # Gone => StartupOf[child[p].agent] \in Startups
  BY ChildFacts, SupervisorAssumption
<1>4. dissolve[s] = "killed" => life[s] = "dissolved"
  BY DEF CreatedFirst
<1>5. ASSUME NEW p \in Pids, child[p] # Gone
      PROVE  LET b == child[p].agent
                 t == StartupOf[b]
             IN /\ dissolve'[t] \in {"listed", "grace"} => b \in targets[t]
                /\ dissolve'[t] = "grace" => b \in tomb
                /\ life'[t] = "dissolved" /\ dissolve'[t] \in {"killed", "idle"} =>
                     b \in tomb /\ ~Alive(p) /\ child[p].watch # "spawned"
  <2>1. CASE StartupOf[child[p].agent] = s
    BY <1>1, <1>4, <1>5, <2>1 DEF Dissolution
  <2>2. CASE StartupOf[child[p].agent] # s
    BY <1>1, <1>3, <1>5, <2>2 DEF Dissolution
  <2>3. QED
    BY <2>1, <2>2
<1>6. Dissolution'
  BY <1>1, <1>5 DEF Dissolution, Alive
<1>7. QED
  BY <1>2, <1>6

\* A startup whose row comes into being has no process yet.
LEMMA CommitDeath ==
  ASSUME TypeOK, MapKnows, Dissolution, NEW s \in Startups, CreateCommits(s)
  PROVE  (MapKnows /\ Dissolution)'
<1>1. /\ UNCHANGED <<child, entry, tomb, dissolve, targets>>
      /\ \A t \in Startups : life'[t] = "dissolved" => life[t] = "dissolved"
  BY DEF TypeOK, CreateCommits, supervisor
<1>2. \A p \in Pids : child[p] # Gone => StartupOf[child[p].agent] \in Startups
  BY ChildFacts, SupervisorAssumption
<1>3. MapKnows' /\ Dissolution'
  BY <1>1, <1>2 DEF MapKnows, Dissolution, Alive
<1>4. QED
  BY <1>3

LEMMA DeathStep ==
  /\ TypeOK /\ Sole /\ CreatedFirst /\ MapKnows /\ Dissolution
  /\ ~PerTask /\ [Next]_vars
  => (MapKnows /\ Dissolution)'
<1> SUFFICES ASSUME TypeOK, Sole, CreatedFirst, MapKnows, Dissolution, ~PerTask, [Next]_vars
             PROVE  (MapKnows /\ Dissolution)'
  OBVIOUS
<1>1. CASE UNCHANGED <<supervisor, life>>
  <2>1. UNCHANGED <<child, entry, tomb, dissolve, targets, life>>
    BY <1>1 DEF supervisor
  <2>2. \A p \in Pids : Fades(p)
    BY <2>1, FadesWhenSame
  <2>3. QED
    BY <2>1, <2>2, QuietDeath
<1>2. ASSUME NEW p \in Pids, Connect(p) PROVE (MapKnows /\ Dissolution)'
  BY <1>2, ConnectFacts, QuietDeath DEF Connect, sql
<1>3. CASE SupervisorStep
  <2>1. life' = life
    BY <1>3 DEF SupervisorStep, others, sql
  <2>2. QED
    BY <1>3, <2>1, WatchDeath, RespawnDeath, DissolvingDeath DEF SupervisorStep
<1>4. ASSUME NEW s \in Startups, Spawning(s) PROVE (MapKnows /\ Dissolution)'
  BY <1>1, <1>4, SpawnDeath DEF Spawning, CreateSpawnFails, Crew, sql
<1>5. CASE Next
  BY <1>1, <1>2, <1>3, <1>4, <1>5, CommitDeath, DeleteDeath
     DEF Next, CreateAnswers, Disconnect, Report, SpawnForTask, Loop, InsertAvatars,
         ReleaseSuite, RegisterWorker, UnregisterWorker, sql
<1>6. QED
  BY <1>1, <1>5 DEF vars, sql

-----------------------------------------------------------------------------
(* Suites.                                                                     *)

LEMMA StagesStep == TypeOK /\ Stages /\ Impatient = {} /\ [Next]_vars => Stages'
<1> SUFFICES ASSUME TypeOK, Stages, Impatient = {}, [Next]_vars PROVE Stages'
  OBVIOUS
<1>1. CASE UNCHANGED <<dissolve, sql, creating, suite>>
  BY <1>1 DEF Stages, sql
<1>2. ASSUME NEW s \in Startups, CreateCommits(s) PROVE Stages'
  <2>1. PICK x \in Suites : /\ owner[x] = NoStartup
                            /\ owner' = [owner EXCEPT ![x] = s]
                            /\ suite' = [suite EXCEPT ![s] = x]
    BY <1>2 DEF CreateCommits
  <2>2. /\ life[s] = "absent" /\ life'[s] = "active"
        /\ creating'[s] = "spawning" /\ suite'[s] = x /\ owner'[x] = s
        /\ dissolve' = dissolve
        /\ \A t \in Startups : t # s => /\ life'[t] = life[t] /\ creating'[t] = creating[t]
                                        /\ suite'[t] = suite[t]
        /\ \A y \in Suites : y # x => owner'[y] = owner[y]
    BY <1>2, <2>1 DEF TypeOK, CreateCommits, supervisor
  <2>3. \A t \in Startups : owner[x] # t
    BY <2>1, StartupAssumption
  <2>4. QED
    BY <2>2, <2>3 DEF Stages
<1>3. ASSUME NEW s \in Startups, CreateAnswers(s) PROVE Stages'
  <2>1. /\ creating[s] = "spawning" /\ creating'[s] = "answered"
        /\ \A t \in Startups : t # s => creating'[t] = creating[t]
        /\ UNCHANGED <<dissolve, life, owner, suite>>
    BY <1>3 DEF TypeOK, CreateAnswers, supervisor, sql
  <2>2. QED
    BY <2>1 DEF Stages
<1>4. ASSUME NEW s \in Startups, DeleteCommits(s) PROVE Stages'
  <2>1. /\ creating[s] = "answered" /\ life'[s] = "dissolved"
        /\ \A t \in Startups : t # s => life'[t] = life[t] /\ dissolve'[t] = dissolve[t]
        /\ UNCHANGED <<creating, suite>>
        /\ \A y \in Suites : owner'[y] = IF owner[y] = s THEN NoStartup ELSE owner[y]
    BY <1>4 DEF TypeOK, SupervisorTypeOK, DeleteCommits, create
  <2>2. QED
    BY <2>1, StartupAssumption DEF Stages
<1>5. ASSUME NEW s \in Startups, dissolve[s] # "idle",
             \A t \in Startups : t # s => dissolve'[t] = dissolve[t],
             UNCHANGED <<sql, creating, suite>>
      PROVE  Stages'
  BY <1>5 DEF Stages, sql
<1>6. ASSUME NEW s \in Startups, DeleteReleases(s) PROVE Stages'
  BY <1>5, <1>6 DEF TypeOK, SupervisorTypeOK, DeleteReleases, create
<1>7. CASE SupervisorStep
  <2>1. UNCHANGED <<sql, creating, suite>>
    BY <1>7 DEF SupervisorStep, others, create
  <2>2. ASSUME NEW p \in Pids, Exit(p) \/ Watch(p) PROVE Stages'
    BY <1>1, <2>1, <2>2, WatchFacts
  <2>3. ASSUME NEW p \in Pids, NEW q \in Pids, Respawn(p, q) PROVE Stages'
    BY <1>1, <2>1, <2>3 DEF Respawn
  <2>4. ASSUME NEW s \in Startups, Dissolving(s) PROVE Stages'
    BY <1>5, <2>1, <2>4 DEF TypeOK, SupervisorTypeOK, Dissolving, ListWorkers, Sigterm, Sigkill
  <2>5. QED
    BY <1>7, <2>2, <2>3, <2>4 DEF SupervisorStep
<1>8. ASSUME NEW a \in Agents, NEW p \in Pids,
             CreateSpawns(a, p) \/ CreateSpawnFails(a) \/ SpawnForTask(a, p)
      PROVE  Stages'
  BY <1>1, <1>8 DEF CreateSpawns, CreateSpawnFails, SpawnForTask, SpawnAgent, supervisor, create
<1>9. CASE Next
  <2>1. ASSUME NEW s \in Startups, Spawning(s) PROVE Stages'
    BY <1>1, <1>8, <2>1 DEF Spawning, Crew, CreateSpawnFails, supervisor
  <2>2. QED
    BY <1>1, <1>2, <1>3, <1>4, <1>6, <1>7, <1>8, <1>9, <2>1
       DEF Next, Connect, Disconnect, Report, Loop, InsertAvatars, ReleaseSuite,
           RegisterWorker, UnregisterWorker, supervisor, create
<1>10. QED
  BY <1>1, <1>9 DEF vars, supervisor, create

\* What is sent comes last,
LEMMA SendOrder ==
  ASSUME TypeOK, NEW cmd \in Command, Send(cmd), NEW s \in Startups
  PROVE  LET last == Len(channel) + 1 IN
         /\ Inserts(s)' = Inserts(s) \cup {i \in {last} : cmd.op = "InsertAvatars" /\ cmd.startup = s}
         /\ Releases(s)' = Releases(s) \cup {i \in {last} : cmd.op = "ReleaseSuite" /\ cmd.startup = s}
         /\ \A i \in 1..Len(channel) : i < last /\ channel'[i] = channel[i]
         /\ channel'[last] = cmd
         /\ Inserts(s) \subseteq 1..Len(channel) /\ Releases(s) \subseteq 1..Len(channel)
<1>1. /\ Len(channel) \in Nat
      /\ Len(channel') = Len(channel) + 1
      /\ \A i \in 1..Len(channel) : channel'[i] = channel[i]
      /\ channel'[Len(channel) + 1] = cmd
  BY SendFacts
<1>2. 1..Len(channel') = (1..Len(channel)) \cup {Len(channel) + 1}
  BY <1>1
<1> HIDE DEF Send
<1>3. /\ Inserts(s)' = {i \in 1..Len(channel') : channel'[i].op = "InsertAvatars" /\ channel'[i].startup = s}
      /\ Releases(s)' = {i \in 1..Len(channel') : channel'[i].op = "ReleaseSuite" /\ channel'[i].startup = s}
  BY DEF Inserts, Releases
<1>4. \A i \in 1..Len(channel) : i < Len(channel) + 1
  BY <1>1
<1>5. QED
  BY <1>1, <1>2, <1>3, <1>4 DEF Inserts, Releases

\* and what is taken was first.
LEMMA TakeOrder ==
  ASSUME TypeOK, NEW op, Takes(op), NEW s \in Startups
  PROVE  /\ \A i \in Inserts(s)' : i + 1 \in Inserts(s) /\ channel'[i] = channel[i + 1]
         /\ \A i \in Releases(s)' : i + 1 \in Releases(s)
         /\ \A i \in Inserts(s) : i # 1 => i - 1 \in Inserts(s)'
         /\ \A i \in Releases(s) : i # 1 => i - 1 \in Releases(s)'
         /\ 1 \in Inserts(s) <=> op = "InsertAvatars" /\ Head(channel).startup = s
         /\ 1 \in Releases(s) <=> op = "ReleaseSuite" /\ Head(channel).startup = s
         /\ \A t \in Startups : Inserts(t) \subseteq Nat \ {0} /\ Releases(t) \subseteq Nat \ {0}
         /\ Inserts(s)' \subseteq Nat \ {0} /\ Releases(s)' \subseteq Nat \ {0}
<1>1. PICK n \in Nat : Len(channel) = n + 1
  <2>1. Len(channel) \in Nat \ {0}
    BY TakesFacts
  <2>2. Len(channel) - 1 \in Nat /\ Len(channel) = (Len(channel) - 1) + 1
    BY <2>1
  <2>3. QED
    BY <2>2
<1>2. /\ Len(channel') = n /\ \A i \in 1..n : channel'[i] = channel[i + 1]
      /\ channel[1] = Head(channel) /\ Head(channel).op = op
  <2>1. (n + 1) - 1 = n
    OBVIOUS
  <2>2. QED
    BY <1>1, <2>1, TakesFacts
<1>3. /\ \A i \in 1..n : i + 1 \in 1..(n + 1)
      /\ \A i \in 1..(n + 1) : i # 1 => i - 1 \in 1..n /\ (i - 1) + 1 = i
      /\ 1 \in 1..(n + 1)
  OBVIOUS
<1>4. \A t \in Startups :
        /\ Inserts(t) = {i \in 1..(n + 1) : channel[i].op = "InsertAvatars" /\ channel[i].startup = t}
        /\ Releases(t) = {i \in 1..(n + 1) : channel[i].op = "ReleaseSuite" /\ channel[i].startup = t}
  BY <1>1 DEF Inserts, Releases
<1>5. /\ Inserts(s)' = {i \in 1..n : channel'[i].op = "InsertAvatars" /\ channel'[i].startup = s}
      /\ Releases(s)' = {i \in 1..n : channel'[i].op = "ReleaseSuite" /\ channel'[i].startup = s}
  BY <1>2 DEF Inserts, Releases
<1> HIDE DEF Takes
<1>6. \A i \in Inserts(s)' : i + 1 \in Inserts(s) /\ channel'[i] = channel[i + 1]
  BY <1>2, <1>3, <1>4, <1>5
<1>7. \A i \in Releases(s)' : i + 1 \in Releases(s)
  BY <1>2, <1>3, <1>4, <1>5
<1>8. \A i \in Inserts(s) : i # 1 => i - 1 \in Inserts(s)'
  <2>1. ASSUME NEW i \in 1..(n + 1), i # 1
        PROVE  i - 1 \in 1..n /\ channel'[i - 1] = channel[i]
    BY <1>2, <1>3, <2>1
  <2>2. QED
    BY <1>4, <1>5, <2>1
<1>9. \A i \in Releases(s) : i # 1 => i - 1 \in Releases(s)'
  <2>1. ASSUME NEW i \in 1..(n + 1), i # 1
        PROVE  i - 1 \in 1..n /\ channel'[i - 1] = channel[i]
    BY <1>2, <1>3, <2>1
  <2>2. QED
    BY <1>4, <1>5, <2>1
<1>10. /\ 1 \in Inserts(s) <=> op = "InsertAvatars" /\ Head(channel).startup = s
       /\ 1 \in Releases(s) <=> op = "ReleaseSuite" /\ Head(channel).startup = s
  BY <1>2, <1>3, <1>4
<1>11. \A t \in Startups : Inserts(t) \subseteq Nat \ {0} /\ Releases(t) \subseteq Nat \ {0}
  BY <1>4
<1>12. Inserts(s)' \subseteq Nat \ {0} /\ Releases(s)' \subseteq Nat \ {0}
  BY <1>5
<1>13. QED
  BY <1>6, <1>7, <1>8, <1>9, <1>10, <1>11, <1>12

\* A step after which the loop has heard, and is about to hear, what it was before.
LEMMA SameFollows ==
  ASSUME LoopFollows, UNCHANGED <<claim, inWorld, creating, suite, life>>,
         \A s \in Startups :
           /\ Inserts(s)' = Inserts(s) /\ Releases(s)' = Releases(s)
           /\ \A i \in Inserts(s) : channel'[i] = channel[i]
           /\ dissolve'[s] = "idle" => dissolve[s] = "idle"
  PROVE  LoopFollows'
BY DEF LoopFollows, Follows, Unheard

\* A command that is about no suite.
LEMMA SendFollows ==
  ASSUME TypeOK, LoopFollows, NEW cmd \in Command, Send(cmd),
         cmd.op \notin {"InsertAvatars", "ReleaseSuite"},
         UNCHANGED <<claim, inWorld, creating, suite, life, dissolve>>
  PROVE  LoopFollows'
<1>1. ASSUME NEW s \in Startups
      PROVE  /\ Inserts(s)' = Inserts(s) /\ Releases(s)' = Releases(s)
             /\ \A i \in Inserts(s) : channel'[i] = channel[i]
  <2> DEFINE last == Len(channel) + 1
  <2>1. /\ Inserts(s)' = Inserts(s) \cup {i \in {last} : cmd.op = "InsertAvatars" /\ cmd.startup = s}
        /\ Releases(s)' = Releases(s) \cup {i \in {last} : cmd.op = "ReleaseSuite" /\ cmd.startup = s}
        /\ \A i \in 1..Len(channel) : channel'[i] = channel[i]
        /\ Inserts(s) \subseteq 1..Len(channel)
    BY SendOrder
  <2>2. QED
    BY <2>1
<1>2. QED
  BY <1>1, SameFollows

LEMMA CommitFollows ==
  ASSUME TypeOK, Stages, LoopFollows, NEW s \in Startups, CreateCommits(s)
  PROVE  LoopFollows'
<1>1. PICK x \in Suites : /\ owner[x] = NoStartup
                          /\ suite' = [suite EXCEPT ![s] = x]
  BY DEF CreateCommits
<1>2. /\ life[s] = "absent" /\ life'[s] = "active"
      /\ creating'[s] = "spawning" /\ suite'[s] = x
      /\ UNCHANGED <<dissolve, channel, claim, inWorld>>
      /\ \A t \in Startups : t # s => /\ life'[t] = life[t] /\ creating'[t] = creating[t]
                                      /\ suite'[t] = suite[t]
  BY <1>1 DEF TypeOK, CreateCommits, supervisor, memory
<1>3. \A t \in Startups : Inserts(t)' = Inserts(t) /\ Releases(t)' = Releases(t)
  BY <1>2 DEF Inserts, Releases
<1>4. Unheard(s) /\ Releases(s) = {}
  BY <1>2 DEF Stages, LoopFollows, Follows
<1>5. Follows(s)'
  BY <1>2, <1>3, <1>4 DEF Follows, Unheard
<1>6. ASSUME NEW t \in Startups, t # s PROVE Follows(t)'
  <2>1. Follows(t)
    BY DEF LoopFollows
  <2>2. ASSUME creating[t] = "answered", life[t] = "active",
               NEW u \in Startups \ {t}, suite'[u] = suite[t], NEW i \in Inserts(u)
        PROVE  \E j \in Inserts(t) : i < j
    <3>1. u # s
      BY <1>4, <2>2 DEF Unheard
    <3>2. QED
      BY <1>2, <2>1, <2>2, <3>1 DEF Follows
  <2>3. QED
    BY <1>2, <1>3, <1>6, <2>1, <2>2 DEF Follows, Unheard
<1>7. QED
  BY <1>5, <1>6 DEF LoopFollows

\* The claim is sent behind every claim of the suite's earlier owners, who are gone.
LEMMA AnswerFollows ==
  ASSUME TypeOK, Suited, Stages, LoopFollows, NEW s \in Startups, CreateAnswers(s)
  PROVE  LoopFollows'
<1> DEFINE last == Len(channel) + 1
           cmd == [op |-> "InsertAvatars", startup |-> s, suite |-> suite[s]]
<1>1. /\ creating[s] = "spawning" /\ creating'[s] = "answered" /\ life[s] = "active"
      /\ \A t \in Startups : t # s => creating'[t] = creating[t]
      /\ UNCHANGED <<dissolve, life, suite, claim, inWorld>>
  BY DEF TypeOK, CreateAnswers, supervisor, sql, memory, Stages
<1>2. cmd \in Command /\ Send(cmd)
  BY <1>1, CommandTypes DEF Suited, CreateAnswers
<1>3. ASSUME NEW t \in Startups
      PROVE  /\ Inserts(t)' = Inserts(t) \cup {i \in {last} : s = t}
             /\ Releases(t)' = Releases(t)
             /\ \A i \in Inserts(t) : i < last /\ channel'[i] = channel[i]
             /\ channel'[last] = cmd
  <2>1. /\ Inserts(t)' = Inserts(t) \cup {i \in {last} : cmd.op = "InsertAvatars" /\ cmd.startup = t}
        /\ Releases(t)' = Releases(t) \cup {i \in {last} : cmd.op = "ReleaseSuite" /\ cmd.startup = t}
        /\ \A i \in 1..Len(channel) : i < last /\ channel'[i] = channel[i]
        /\ channel'[last] = cmd
        /\ Inserts(t) \subseteq 1..Len(channel)
    BY <1>2, SendOrder
  <2>2. QED
    BY <2>1
<1>4. cmd.suite = suite[s]
  OBVIOUS
<1> HIDE DEF last, cmd
<1>5. Unheard(s) /\ Releases(s) = {}
  BY <1>1 DEF LoopFollows, Follows
<1>6. Inserts(s)' = {last} /\ Releases(s)' = {}
  BY <1>3, <1>5 DEF Unheard
<1>7. \A t \in Startups : t # s => Inserts(t)' = Inserts(t) /\ Releases(t)' = Releases(t)
  BY <1>3
<1>8. Follows(s)'
  BY <1>1, <1>3, <1>4, <1>5, <1>6, <1>7 DEF Follows, Unheard
<1>9. ASSUME NEW t \in Startups, t # s PROVE Follows(t)'
  <2>1. Follows(t)
    BY DEF LoopFollows
  <2>2. life[t] = "active" => suite[t] # suite[s]
    BY <1>1, <1>9 DEF Stages
  <2>3. QED
    BY <1>1, <1>3, <1>7, <1>9, <2>1, <2>2 DEF Follows, Unheard
<1>10. QED
  BY <1>8, <1>9 DEF LoopFollows

LEMMA DeleteFollows ==
  ASSUME TypeOK, Stages, LoopFollows, Impatient = {}, NEW s \in Startups, DeleteCommits(s)
  PROVE  LoopFollows'
<1>1. /\ creating[s] = "answered" /\ life'[s] = "dissolved" /\ dissolve'[s] = "called"
      /\ \A t \in Startups : t # s => life'[t] = life[t] /\ dissolve'[t] = dissolve[t]
      /\ UNCHANGED <<creating, suite, channel, claim, inWorld>>
  BY DEF TypeOK, SupervisorTypeOK, DeleteCommits, create, memory
<1>2. \A t \in Startups : Inserts(t)' = Inserts(t) /\ Releases(t)' = Releases(t)
  BY <1>1 DEF Inserts, Releases
<1>3. QED
  BY <1>1, <1>2 DEF LoopFollows, Follows, Unheard

\* The release is sent behind the startup's own claim.
LEMMA ReleaseFollows ==
  ASSUME TypeOK, Stages, LoopFollows, NEW s \in Startups, DeleteReleases(s)
  PROVE  LoopFollows'
<1> DEFINE last == Len(channel) + 1
           cmd == [op |-> "ReleaseSuite", startup |-> s]
<1>1. /\ life[s] = "dissolved" /\ creating[s] = "answered"
      /\ \A t \in Startups : t # s => dissolve'[t] = dissolve[t]
      /\ UNCHANGED <<life, creating, suite, claim, inWorld>>
  BY DEF TypeOK, SupervisorTypeOK, DeleteReleases, sql, create, memory, Stages
<1>2. cmd \in Command /\ Send(cmd)
  BY CommandTypes DEF DeleteReleases
<1>3. ASSUME NEW t \in Startups
      PROVE  /\ Releases(t)' = Releases(t) \cup {i \in {last} : s = t}
             /\ Inserts(t)' = Inserts(t)
             /\ \A i \in Inserts(t) : i < last /\ channel'[i] = channel[i]
  <2>1. /\ Inserts(t)' = Inserts(t) \cup {i \in {last} : cmd.op = "InsertAvatars" /\ cmd.startup = t}
        /\ Releases(t)' = Releases(t) \cup {i \in {last} : cmd.op = "ReleaseSuite" /\ cmd.startup = t}
        /\ \A i \in 1..Len(channel) : i < last /\ channel'[i] = channel[i]
        /\ Inserts(t) \subseteq 1..Len(channel)
    BY <1>2, SendOrder
  <2>2. QED
    BY <2>1
<1> HIDE DEF last, cmd
<1>4. ASSUME NEW t \in Startups, t # s PROVE Follows(t)'
  <2>1. Follows(t)
    BY DEF LoopFollows
  <2>2. QED
    BY <1>1, <1>3, <1>4, <2>1 DEF Follows, Unheard
<1>5. Follows(s)'
  <2>1. Follows(s)
    BY DEF LoopFollows
  <2>2. \A i \in Inserts(s)', j \in Releases(s)' : i < j
    BY <1>3, <2>1 DEF Follows
  <2>3. Releases(s)' # {}
    BY <1>3
  <2>4. QED
    BY <1>1, <1>3, <2>1, <2>2, <2>3 DEF Follows
<1>6. QED
  BY <1>4, <1>5 DEF LoopFollows

\* The loop takes a command that is not about t.
LEMMA TakeOther ==
  ASSUME TypeOK, LoopFollows, NEW op, Takes(op), NEW t \in Startups,
         1 \notin Inserts(t), 1 \notin Releases(t),
         UNCHANGED <<creating, suite, life, dissolve>>,
         t \in inWorld <=> t \in inWorld',
         \A x \in Suites : claim'[x] = t => claim[x] = t,
         creating[t] = "answered" /\ life[t] = "active" =>
           Inserts(t) # {} \/ claim'[suite[t]] = claim[suite[t]]
  PROVE  Follows(t)'
<1>1. Follows(t)
  BY DEF LoopFollows
<1>2. /\ \A i \in Inserts(t)' : i \in Nat /\ i + 1 \in Inserts(t) /\ channel'[i] = channel[i + 1]
      /\ \A i \in Releases(t)' : i \in Nat /\ i + 1 \in Releases(t)
      /\ \A i \in Inserts(t) : i \in Nat /\ i - 1 \in Inserts(t)'
      /\ \A i \in Releases(t) : i - 1 \in Releases(t)'
  BY TakeOrder
<1>3. \A i \in Inserts(t)', j \in Releases(t)' : i < j
  <2>1. ASSUME NEW i \in Inserts(t)', NEW j \in Releases(t)' PROVE i < j
    <3>1. i \in Nat /\ j \in Nat /\ i + 1 < j + 1
      BY <1>1, <1>2 DEF Follows
    <3>2. QED
      BY <3>1
  <2>2. QED
    BY <2>1
<1>4. ASSUME Unheard(t) PROVE Unheard(t)'
  BY <1>2, <1>4 DEF Unheard
<1>5. Releases(t) = {} => Releases(t)' = {}
  BY <1>2
<1>6. Inserts(t) # {} => Inserts(t)' # {}
  BY <1>2
<1>7. ASSUME creating[t] = "answered", life[t] = "active",
             NEW u \in Startups \ {t}, suite[u] = suite[t], NEW i \in Inserts(u)'
      PROVE  \E j \in Inserts(t)' : i < j
  <2>1. i \in Nat /\ i + 1 \in Inserts(u)
    BY TakeOrder
  <2>2. PICK j \in Inserts(t) : i + 1 < j
    BY <1>1, <1>7, <2>1 DEF Follows
  <2>3. j \in Nat /\ j - 1 \in Inserts(t)'
    BY <1>2
  <2>4. i < j - 1
    BY <2>1, <2>2, <2>3
  <2>5. QED
    BY <2>3, <2>4
<1>8. \A i \in Inserts(t)' : channel'[i].suite = suite[t]
  BY <1>1, <1>2 DEF Follows
<1>9. creating[t] = "answered" /\ life[t] = "active" =>
        Inserts(t)' # {} \/ (t \in inWorld' /\ claim'[suite[t]] = t)
  BY <1>1, <1>6 DEF Follows
<1>10. life[t] = "dissolved" /\ dissolve[t] = "idle" => Releases(t)' # {} \/ Unheard(t)'
  BY <1>1, <1>2, <1>4 DEF Follows
<1>11. creating[t] # "answered" => Unheard(t)' /\ Releases(t)' = {}
  BY <1>1, <1>4, <1>5 DEF Follows
<1>12. creating[t] = "answered" /\ life[t] = "active" => Releases(t)' = {}
  BY <1>1, <1>5 DEF Follows
<1>13. \A x \in Suites : claim'[x] = t => suite[t] = x
  BY <1>1 DEF Follows
<1>14. QED
  BY <1>3, <1>7, <1>8, <1>9, <1>10, <1>11, <1>12, <1>13 DEF Follows

\* A startup's claim is taken: it takes the suite from nobody who should keep it.
LEMMA InsertAvatarsFollows ==
  ASSUME TypeOK, Stages, LoopFollows, InsertAvatars
  PROVE  LoopFollows'
<1>0. /\ Takes("InsertAvatars") /\ Head(channel) = channel[1]
      /\ Head(channel).startup \in Startups /\ Head(channel).suite \in Suites
  BY TakesFacts, CommandFacts DEF InsertAvatars
<1> PICK s \in Startups, x \in Suites : s = Head(channel).startup /\ x = Head(channel).suite
  BY <1>0
<1>1. /\ Takes("InsertAvatars") /\ Head(channel) = channel[1]
      /\ s = Head(channel).startup /\ x = Head(channel).suite
  BY <1>0
<1>2. 1 \in Inserts(s) /\ \A t \in Startups : 1 \notin Releases(t) /\ (1 \in Inserts(t) <=> t = s)
  BY <1>1, TakeOrder
<1>3. /\ UNCHANGED <<creating, suite, life, dissolve>>
      /\ inWorld' = inWorld \cup {s}
      /\ claim'[x] = s
      /\ \A y \in Suites : y # x => claim'[y] = claim[y]
  BY <1>1 DEF TypeOK, InsertAvatars, supervisor, sql, create
<1>4. x = suite[s] /\ creating[s] = "answered" /\ Follows(s)
  BY <1>1, <1>2 DEF LoopFollows, Follows, Unheard
<1>5. ASSUME NEW t \in Startups, t # s PROVE Follows(t)'
  <2>1. creating[t] = "answered" /\ life[t] = "active" =>
          Inserts(t) # {} \/ claim'[suite[t]] = claim[suite[t]]
    <3>1. CASE suite[t] = suite[s]
      BY <1>1, <1>2, <1>5, <3>1 DEF LoopFollows, Follows
    <3>2. CASE suite[t] # suite[s]
      <4>1. life[t] = "active" => suite[t] \in Suites
        BY DEF Stages
      <4>2. QED
        BY <1>3, <1>4, <3>2, <4>1
    <3>3. QED
      BY <3>1, <3>2
  <2>2. t \in inWorld <=> t \in inWorld'
    BY <1>3, <1>5
  <2>3. \A y \in Suites : claim'[y] = t => claim[y] = t
    BY <1>3, <1>5
  <2>4. QED
    BY <1>1, <1>2, <1>3, <1>5, <2>1, <2>2, <2>3, TakeOther
<1>6. Follows(s)'
  <2>1. /\ \A i \in Inserts(s)' : i \in Nat /\ i + 1 \in Inserts(s) /\ channel'[i] = channel[i + 1]
        /\ \A j \in Releases(s)' : j \in Nat /\ j + 1 \in Releases(s)
        /\ \A j \in Releases(s) : j - 1 \in Releases(s)'
        /\ \A i \in Inserts(s) : i # 1 => i \in Nat /\ i - 1 \in Inserts(s)'
    BY <1>1, <1>2, TakeOrder
  <2>2. ASSUME NEW i \in Inserts(s)', NEW j \in Releases(s)' PROVE i < j
    <3>1. i \in Nat /\ j \in Nat /\ i + 1 < j + 1
      BY <1>4, <2>1 DEF Follows
    <3>2. QED
      BY <3>1
  <2>3. life[s] = "active" => Releases(s)' = {}
    BY <1>4, <2>1 DEF Follows
  <2>4. ASSUME life[s] = "active", NEW u \in Startups \ {s}, suite[u] = suite[s], NEW i \in Inserts(u)'
        PROVE  \E j \in Inserts(s)' : i < j
    <3>1. i \in Nat \ {0} /\ i + 1 \in Inserts(u)
      BY <1>1, TakeOrder
    <3>2. PICK j \in Inserts(s) : i + 1 < j
      BY <1>4, <2>4, <3>1 DEF Follows
    <3>3. j \in Nat
      BY <2>1, <3>2
    <3>4. j # 1
      BY <3>1, <3>2
    <3>5. i < j - 1 /\ j - 1 \in Inserts(s)'
      BY <2>1, <3>1, <3>2, <3>3, <3>4
    <3>6. QED
      BY <3>5
  <2>5. life[s] = "dissolved" /\ dissolve[s] = "idle" => Releases(s)' # {}
    BY <1>2, <1>4, <2>1 DEF Follows, Unheard
  <2>6. \A y \in Suites : claim'[y] = s => suite[s] = y
    BY <1>3, <1>4 DEF Follows
  <2>7. \A i \in Inserts(s)' : channel'[i].suite = suite[s]
    BY <1>4, <2>1 DEF Follows
  <2>8. s \in inWorld' /\ claim'[suite[s]] = s
    BY <1>3, <1>4
  <2>9. QED
    BY <1>3, <1>4, <2>2, <2>3, <2>4, <2>5, <2>6, <2>7, <2>8 DEF Follows
<1>7. QED
  BY <1>5, <1>6 DEF LoopFollows

\* A release is taken: nothing of the startup is left, for its claim came before.
LEMMA ReleaseSuiteFollows ==
  ASSUME TypeOK, Stages, LoopFollows, ReleaseSuite
  PROVE  LoopFollows'
<1>0. Takes("ReleaseSuite") /\ Head(channel).startup \in Startups
  BY TakesFacts, CommandFacts DEF ReleaseSuite
<1> PICK s \in Startups : s = Head(channel).startup
  BY <1>0
<1>1. Takes("ReleaseSuite") /\ s = Head(channel).startup
  BY <1>0
<1>2. 1 \in Releases(s) /\ \A t \in Startups : 1 \notin Inserts(t) /\ (1 \in Releases(t) <=> t = s)
  BY <1>1, TakeOrder
<1>3. /\ UNCHANGED <<creating, suite, life, dissolve>>
      /\ inWorld' = inWorld \ {s}
      /\ \A y \in Suites : claim'[y] = IF claim[y] = s THEN NoStartup ELSE claim[y]
  BY <1>1 DEF TypeOK, ReleaseSuite, supervisor, sql, create
<1>4. Follows(s) /\ creating[s] = "answered" /\ life[s] # "active"
  BY <1>1, <1>2 DEF LoopFollows, Follows
<1>5. ASSUME NEW t \in Startups, t # s PROVE Follows(t)'
  <2>1. creating[t] = "answered" /\ life[t] = "active" =>
          Inserts(t) # {} \/ claim'[suite[t]] = claim[suite[t]]
    <3>1. life[t] = "active" => suite[t] \in Suites
      BY DEF Stages
    <3>2. creating[t] = "answered" /\ life[t] = "active" => Inserts(t) # {} \/ claim[suite[t]] = t
      BY DEF LoopFollows, Follows
    <3>3. QED
      BY <1>3, <1>5, <3>1, <3>2
  <2>2. t \in inWorld <=> t \in inWorld'
    BY <1>3, <1>5
  <2>3. \A y \in Suites : claim'[y] = t => claim[y] = t
    BY <1>3, StartupAssumption
  <2>4. QED
    BY <1>1, <1>2, <1>3, <1>5, <2>1, <2>2, <2>3, TakeOther
<1>6. Follows(s)'
  <2>1. Inserts(s) = {}
    <3>1. ASSUME NEW i \in Inserts(s) PROVE FALSE
      <4>1. i \in Nat \ {0} /\ i < 1
        BY <1>1, <1>2, <1>4, TakeOrder DEF Follows
      <4>2. QED
        BY <4>1
    <3>2. QED
      BY <3>1
  <2>2. Inserts(s)' = {}
    BY <1>1, <2>1, TakeOrder
  <2>3. s \notin inWorld' /\ \A y \in Suites : claim'[y] # s
    BY <1>1, <1>3, StartupAssumption
  <2>4. QED
    BY <1>3, <1>4, <2>2, <2>3 DEF Follows, Unheard
<1>7. QED
  BY <1>5, <1>6 DEF LoopFollows

LEMMA FollowsStep ==
  TypeInv /\ Stages /\ LoopFollows /\ Impatient = {} /\ [Next]_vars => LoopFollows'
<1> SUFFICES ASSUME TypeOK, Suited, Stages, LoopFollows, Impatient = {}, [Next]_vars
             PROVE  LoopFollows'
  BY DEF TypeInv
<1>1. ASSUME UNCHANGED <<channel, claim, inWorld, creating, suite, life>>,
             \A s \in Startups : dissolve'[s] = "idle" => dissolve[s] = "idle"
      PROVE  LoopFollows'
  BY <1>1, SameFollows DEF Inserts, Releases
<1>2. ASSUME NEW p \in Pids, Connect(p) PROVE LoopFollows'
  <2> DEFINE cmd == [op |-> "RegisterWorker", agent |-> child[p].agent, pid |-> p]
  <2>1. child[p].agent \in Agents
    BY <1>2, ChildFacts DEF Connect
  <2>2. /\ cmd \in Command /\ Send(cmd) /\ cmd.op \notin {"InsertAvatars", "ReleaseSuite"}
        /\ UNCHANGED <<claim, inWorld, creating, suite, life, dissolve>>
    BY <1>2, <2>1, CommandTypes DEF Connect, sql, create, memory
  <2> HIDE DEF cmd
  <2>3. QED
    BY <2>2, SendFollows
<1>3. ASSUME NEW p \in Pids, Disconnect(p) PROVE LoopFollows'
  <2> DEFINE cmd == [op |-> "UnregisterWorker", agent |-> session[p]]
  <2>1. session[p] \in Agents
    BY <1>3 DEF TypeOK, Disconnect
  <2>2. /\ cmd \in Command /\ Send(cmd) /\ cmd.op \notin {"InsertAvatars", "ReleaseSuite"}
        /\ UNCHANGED <<claim, inWorld, creating, suite, life, dissolve>>
    BY <1>3, <2>1, CommandTypes DEF Disconnect, supervisor, sql, create, memory
  <2> HIDE DEF cmd
  <2>3. QED
    BY <2>2, SendFollows
<1>4. ASSUME NEW op, Takes(op), op \notin {"InsertAvatars", "ReleaseSuite"},
             UNCHANGED <<claim, inWorld, creating, suite, life, dissolve>>
      PROVE  LoopFollows'
  <2>1. ASSUME NEW t \in Startups PROVE Follows(t)'
    BY <1>4, TakeOrder, TakeOther
  <2>2. QED
    BY <2>1 DEF LoopFollows
<1>5. CASE Loop
  <2>1. CASE RegisterWorker \/ UnregisterWorker
    BY <1>4, <2>1 DEF RegisterWorker, UnregisterWorker, supervisor, sql, create
  <2>2. QED
    BY <1>5, <2>1, InsertAvatarsFollows, ReleaseSuiteFollows DEF Loop
<1>6. CASE SupervisorStep
  <2>1. UNCHANGED <<channel, claim, inWorld, creating, suite, life>>
    BY <1>6 DEF SupervisorStep, others, sql, create, memory
  <2>2. ASSUME NEW p \in Pids, Exit(p) \/ Watch(p) PROVE LoopFollows'
    BY <1>1, <2>1, <2>2, WatchFacts
  <2>3. ASSUME NEW p \in Pids, NEW q \in Pids, Respawn(p, q) PROVE LoopFollows'
    BY <1>1, <2>1, <2>3 DEF Respawn
  <2>4. ASSUME NEW s \in Startups, Dissolving(s) PROVE LoopFollows'
    BY <1>1, <2>1, <2>4 DEF TypeOK, SupervisorTypeOK, Dissolving, ListWorkers, Sigterm, Sigkill
  <2>5. QED
    BY <1>6, <2>2, <2>3, <2>4 DEF SupervisorStep
<1>7. ASSUME NEW a \in Agents, NEW p \in Pids, CreateSpawns(a, p) \/ SpawnForTask(a, p)
      PROVE  LoopFollows'
  BY <1>1, <1>7 DEF CreateSpawns, SpawnForTask, SpawnAgent, sql, create, memory
<1>8. ASSUME NEW s \in Startups, Spawning(s) PROVE LoopFollows'
  <2>1. ASSUME NEW a \in Crew(s), CreateSpawnFails(a) PROVE LoopFollows'
    BY <1>1, <2>1 DEF CreateSpawnFails, supervisor, sql, memory
  <2>2. QED
    BY <1>7, <1>8, <2>1 DEF Spawning, Crew
<1>9. ASSUME NEW p \in Pids, Report(p) PROVE LoopFollows'
  BY <1>1, <1>9 DEF Report, supervisor, sql, create
<1>10. CASE UNCHANGED vars
  BY <1>1, <1>10 DEF vars, supervisor, sql, create, memory
<1>11. CASE Next
  BY <1>2, <1>3, <1>5, <1>6, <1>7, <1>8, <1>9, <1>11,
     CommitFollows, AnswerFollows, DeleteFollows, ReleaseFollows DEF Next
<1>12. QED
  BY <1>10, <1>11

-----------------------------------------------------------------------------
(* The theorems.                                                               *)

LEMMA InitInv == Init => RegInv /\ DeathInv
<1> SUFFICES ASSUME Init PROVE RegInv /\ DeathInv
  OBVIOUS
<1>1. \A p \in Pids : child[p] = Gone
  BY DEF Init, SupervisorInit
<1>2. TypeInv
  BY TypeInit DEF Init, TypeInv, Suited
<1>3. RegistrationsAnswered /\ StartingUnknown
  BY <1>1, SupervisorAssumption DEF Init, RegistrationsAnswered, StartingUnknown, Gone
<1>4. Sole /\ MapKnows /\ Dissolution
  BY <1>1 DEF Init, Sole, MapKnows, Dissolution
<1>5. CreatedFirst
  BY DEF Init, SupervisorInit, CreatedFirst
<1>6. QED
  BY <1>2, <1>3, <1>4, <1>5 DEF RegInv, DeathInv, SoleInv

LEMMA Registrations == Spec => []RegInv
<1>1. Init => RegInv
  BY InitInv
<1>2. QED
  BY <1>1, RegStep, PTL DEF Spec

\* Rows, the channel's commands, the loop's memory and the supervisor's maps keep
\* their types, whoever overtakes whom.
THEOREM StartupTypes == Spec => []TypeOK
<1>1. RegInv => TypeOK
  BY DEF RegInv, TypeInv
<1>2. QED
  BY <1>1, Registrations, PTL

\* An out_bus entry whose session is over has its UnregisterWorker on the way, for
\* daemons and for a worker per task, and for a DELETE that overtakes its POST.
THEOREM NoRegistrationLeftDead == Spec => []NoDeadRegistration
<1>1. RegInv => NoDeadRegistration
  <2> SUFFICES ASSUME RegInv, NEW a \in Agents, bus[a] # NoPid, session[bus[a]] = NoAgent
               PROVE  [op |-> "UnregisterWorker", agent |-> a] \in Range(channel)
    BY DEF NoDeadRegistration
  <2>1. bus[a] \in Pids /\ session[bus[a]] # a
    BY SupervisorAssumption DEF RegInv, TypeInv, TypeOK
  <2>2. PICK j \in 1..Len(channel) : channel[j] = Unregister(a)
    BY <2>1 DEF RegInv, RegistrationsAnswered
  <2>3. j \in DOMAIN channel
    BY <2>2 DEF RegInv, TypeInv, TypeOK
  <2>4. QED
    BY <2>2, <2>3 DEF Range, Unregister
<1>2. QED
  BY <1>1, Registrations, PTL

\* The supervisor runs one worker to an agent, through crashes, back-offs and
\* respawns, where workers are daemons.
THEOREM OneWorkerEach == ASSUME ~PerTask PROVE Spec => []OneWorker
<1>1. Init => SoleInv
  BY InitInv DEF DeathInv
<1>2. SoleInv /\ [Next]_vars => SoleInv'
  BY TypeStep, SoleStep DEF SoleInv, TypeInv
<1>3. SoleInv => OneWorker
  BY ChildFacts DEF SoleInv, TypeInv, Sole, OneWorker
<1>4. QED
  BY <1>1, <1>2, <1>3, PTL DEF Spec

\* No daemon outlives the dissolution of its startup, nor is one respawned after it
\* by a watch loop that slept through it, if the DELETE waited for the POST.
THEOREM DissolvedForGood ==
  ASSUME ~PerTask, Impatient = {}
  PROVE  Spec => []DissolvedStaysDead
<1>1. Init => DeathInv
  BY InitInv
<1>2. DeathInv /\ [Next]_vars => DeathInv'
  BY TypeStep, SoleStep, CreatedFirstStep, DeathStep DEF DeathInv, SoleInv, TypeInv
<1>3. DeathInv => DissolvedStaysDead
  BY ChildFacts DEF DeathInv, SoleInv, TypeInv, Dissolution, DissolvedStaysDead
<1>4. QED
  BY <1>1, <1>2, <1>3, PTL DEF Spec

\* With no handler at work and nothing in the channel, the loop's avatars and suites
\* are those of SQL, whichever startups had the same suite in turn.
THEOREM MemoryFollowsSql ==
  ASSUME Impatient = {}
  PROVE  Spec => []InLockStep
<1>1. Init => TypeInv /\ Stages /\ LoopFollows
  <2> SUFFICES ASSUME Init PROVE TypeInv /\ Stages /\ LoopFollows
    OBVIOUS
  <2>1. TypeInv
    BY InitInv DEF RegInv
  <2>2. Stages
    BY StartupAssumption DEF Init, SupervisorInit, Stages
  <2>3. \A s \in Startups : Inserts(s) = {} /\ Releases(s) = {}
    BY DEF Init, Inserts, Releases
  <2>4. LoopFollows
    BY <2>3, StartupAssumption DEF Init, LoopFollows, Follows, Unheard
  <2>5. QED
    BY <2>1, <2>2, <2>4
<1>2. TypeInv /\ Stages /\ LoopFollows /\ [Next]_vars => (TypeInv /\ Stages /\ LoopFollows)'
  BY TypeStep, StagesStep, FollowsStep DEF TypeInv
<1>3. TypeInv /\ Stages /\ LoopFollows => InLockStep
  <2> SUFFICES ASSUME TypeOK, Stages, LoopFollows,
                      \A s \in Startups : creating[s] # "spawning" /\ dissolve[s] = "idle",
                      channel = <<>>
               PROVE  claim = owner /\ inWorld = {s \in Startups : life[s] = "active"}
    BY DEF TypeInv, InLockStep
  <2>1. \A s \in Startups : Inserts(s) = {} /\ Releases(s) = {}
    BY DEF Inserts, Releases
  <2>2. \A s \in Startups : life[s] # "active" => Unheard(s)
    BY <2>1 DEF TypeOK, Stages, LoopFollows, Follows
  <2>3. \A s \in Startups : life[s] = "active" => s \in inWorld /\ claim[suite[s]] = s
    BY <2>1 DEF TypeOK, Stages, LoopFollows, Follows
  <2>4. inWorld = {s \in Startups : life[s] = "active"}
    BY <2>2, <2>3 DEF TypeOK, Unheard
  <2>5. ASSUME NEW x \in Suites PROVE claim[x] = owner[x]
    <3>1. CASE claim[x] \in Startups
      <4>1. life[claim[x]] = "active" /\ suite[claim[x]] = x
        BY <2>2, <3>1 DEF Unheard, LoopFollows, Follows
      <4>2. QED
        BY <3>1, <4>1 DEF Stages
    <3>2. CASE claim[x] = NoStartup
      <4>1. owner[x] \notin Startups
        BY <2>3, <3>2, StartupAssumption DEF Stages
      <4>2. QED
        BY <3>2, <4>1 DEF TypeOK
    <3>3. QED
      BY <3>1, <3>2 DEF TypeOK
  <2>6. claim = owner
    BY <2>5 DEF TypeOK
  <2>7. QED
    BY <2>4, <2>6
<1>4. QED
  BY <1>1, <1>2, <1>3, PTL DEF Spec
=============================================================================
