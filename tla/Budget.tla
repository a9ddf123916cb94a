------------------------------- MODULE Budget -------------------------------
(***************************************************************************)
(* budget.rs: what one startup has spent, what it may spend, and who is    *)
(* told.  Reports and the scheduler's gate are the world loop's, one at a  *)
(* time, though each waits for SQL between its SELECT and what it does     *)
(* with it; PATCH of the cap is an HTTP handler and comes at any moment.   *)
(***************************************************************************)
EXTENDS Integers, Sequences

CONSTANTS
  Workers,     \* the startup's agents
  Caps,        \* budget_cap_usd as operators set it; 0 among them is allowed
  Costs,       \* the cost of a report; 0 when the model has no price
  MaxSpend,    \* a bound of the model: nothing is reported past it
  ChannelSize  \* the bounded channel of a worker's session

ASSUME BudgetAssumption ==
  /\ Caps \subseteq Nat
  /\ Costs \subseteq Nat
  /\ MaxSpend \in Nat
  /\ ChannelSize \in Nat \ {0}

VARIABLES
  spent,   \* startups.budget_spent_usd
  cap,     \* startups.budget_cap_usd
  ledger,  \* the sum of budget_events.cost_usd
  events,  \* the rows of system_events about thresholds
  loop,    \* what the world loop is doing, and what its last SELECT saw
  bus,     \* out_bus
  inbox,   \* each worker's channel; a frame carries the cap it was sent under
  since,   \* history: the spend at which the cap in force took over
  unlogged \* history: the cost of the reports whose row of budget_events was refused

vars == <<spent, cap, ledger, events, loop, bus, inbox, since, unlogged>>

Thresholds == {80, 95, 100}   \* Threshold, in percent

Free == [at |-> "free"]

Doing ==
  {Free}
  \cup [at : {"report"}, spent : Nat, cap : Caps, cost : Costs, known : BOOLEAN]
  \cup [at : {"dispatch"}, spent : Nat, cap : Caps, worker : Workers]

TypeOK ==
  /\ spent \in Nat
  /\ cap \in Caps
  /\ ledger \in Nat
  /\ events \in Seq([level : Thresholds, cap : Caps])
  /\ loop \in Doing
  /\ bus \subseteq Workers
  /\ inbox \in [Workers -> Seq([kind : {"task", "warn", "pause"}, cap : Caps])]
  /\ since \in Nat
  /\ unlogged \in Nat

Init ==
  /\ spent = 0
  /\ cap \in Caps
  /\ ledger = 0
  /\ events = <<>>
  /\ loop = Free
  /\ bus = {}
  /\ inbox = [w \in Workers |-> <<>>]
  /\ since = 0
  /\ unlogged = 0

-----------------------------------------------------------------------------
(* A report.                                                               *)

LoopFree == loop = Free

\* apply_report's SELECT.  The frame names its task, if any, as the worker likes:
\* known says that it names none, or one that is a row of tasks.
ReadBudget(cost, known) ==
  /\ LoopFree
  /\ spent + cost <= MaxSpend
  /\ loop' = [at |-> "report", spent |-> spent, cap |-> cap,
              cost |-> cost, known |-> known]
  /\ UNCHANGED <<spent, cap, ledger, events, bus, inbox, since, unlogged>>

\* Mutant: the lowest threshold crossed.
LowestCrossed(prev, new, c) ==
  {t \in Thresholds :
     /\ c > 0 /\ 100 * prev < t * c /\ t * c <= 100 * new
     /\ \A u \in Thresholds : 100 * prev < u * c /\ u * c <= 100 * new => t <= u}

\* Mutant: every threshold at or below the new spend.
ReachedNotCrossed(prev, new, c) ==
  {t \in Thresholds :
     /\ prev <= new /\ c > 0 /\ t * c <= 100 * new
     /\ \A u \in Thresholds : u * c <= 100 * new => u <= t}

\* newly_crossed: the highest threshold crossed by this report, if any.
NewlyCrossed(prev, new, c) ==
  {t \in Thresholds :
     /\ c > 0 /\ 100 * prev < t * c /\ t * c <= 100 * new
     /\ \A u \in Thresholds : 100 * prev < u * c /\ u * c <= 100 * new => u <= t}

\* warn_startup and pause_startup: try_send to each of the startup's sessions;
\* a full channel drops the frame.
Broadcast(frame) ==
  inbox' = [w \in Workers |->
              IF w \in bus /\ Len(inbox[w]) < ChannelSize
              THEN Append(inbox[w], frame) ELSE inbox[w]]

\* record_threshold_event and the frames.
Announce(t, c) ==
  /\ events' = Append(events, [level |-> t, cap |-> c])
  /\ Broadcast([kind |-> IF t = 100 THEN "pause" ELSE "warn", cap |-> c])

\* record_budget_event: the foreign key of task_id refuses the row of an unknown
\* task, which is logged and no more.
RecordBudgetEvent(cost, known) ==
  IF known THEN ledger' = ledger + cost /\ UNCHANGED unlogged
           ELSE unlogged' = unlogged + cost /\ UNCHANGED ledger

\* The rest of the handler: the UPDATE, the row of budget_events, and what
\* follows from the spend and the cap its SELECT saw.
ApplyReport ==
  /\ loop.at = "report"
  /\ LET new == loop.spent + loop.cost
         crossed == NewlyCrossed(loop.spent, new, loop.cap)
     IN  /\ spent' = new
         /\ RecordBudgetEvent(loop.cost, loop.known)
         /\ IF crossed = {} THEN UNCHANGED <<events, inbox>>
            ELSE \E t \in crossed : Announce(t, loop.cap)
  /\ loop' = Free
  /\ UNCHANGED <<cap, bus, since>>

\* What a report under way will make of the spend.
SpendToCome == IF loop.at = "report" THEN spent + loop.cost ELSE spent

\* Mutant: a new cap begins a new account.
PatchResetsSpend(c) ==
  /\ cap' = c
  /\ since' = 0
  /\ spent' = 0
  /\ UNCHANGED <<ledger, events, loop, bus, inbox, unlogged>>

\* PATCH /api/startups/:id.
PatchCap(c) ==
  /\ cap' = c
  /\ since' = SpendToCome
  /\ UNCHANGED <<spent, ledger, events, loop, bus, inbox, unlogged>>

-----------------------------------------------------------------------------
(* The scheduler's gate.                                                   *)

\* Mutant: the gate is where the pause is.
GateAtTheCap(s, c) == c = 0 \/ s <= c

\* No new task from 95% on; a cap of 0 is no cap.
GateOpen(s, c) == c = 0 \/ 100 * s < 95 * c

\* The pass of a tick has found a task for an idle agent w with a session.
CheckGate(w) ==
  /\ LoopFree
  /\ w \in bus
  /\ GateOpen(spent, cap)
  /\ loop' = [at |-> "dispatch", spent |-> spent, cap |-> cap, worker |-> w]
  /\ UNCHANGED <<spent, cap, ledger, events, bus, inbox, since, unlogged>>

\* The task goes out, or is rolled back because the channel is full.
StartTask ==
  /\ loop.at = "dispatch"
  /\ LET w == loop.worker IN
       inbox' = IF Len(inbox[w]) < ChannelSize
                THEN [inbox EXCEPT ![w] = Append(@, [kind |-> "task", cap |-> loop.cap])]
                ELSE inbox
  /\ loop' = Free
  /\ UNCHANGED <<spent, cap, ledger, events, bus, since, unlogged>>

-----------------------------------------------------------------------------
(* Sessions.                                                               *)

\* A command of the loop; a new session has a new channel.
RegisterWorker(w) ==
  /\ LoopFree
  /\ bus' = bus \cup {w}
  /\ inbox' = [inbox EXCEPT ![w] = <<>>]
  /\ UNCHANGED <<spent, cap, ledger, events, loop, since, unlogged>>

UnregisterWorker(w) ==
  /\ LoopFree
  /\ bus' = bus \ {w}
  /\ inbox' = [inbox EXCEPT ![w] = <<>>]
  /\ UNCHANGED <<spent, cap, ledger, events, loop, since, unlogged>>

\* The socket's task takes a frame from the channel.
TakeFrame(w) ==
  /\ inbox[w] # <<>>
  /\ inbox' = [inbox EXCEPT ![w] = Tail(@)]
  /\ UNCHANGED <<spent, cap, ledger, events, loop, bus, since, unlogged>>

-----------------------------------------------------------------------------
Next ==
  \/ \E cost \in Costs, known \in BOOLEAN : ReadBudget(cost, known)
  \/ ApplyReport
  \/ \E c \in Caps : PatchCap(c)
  \/ \E w \in Workers :
       CheckGate(w) \/ RegisterWorker(w) \/ UnregisterWorker(w) \/ TakeFrame(w)
  \/ StartTask

Spec == Init /\ [][Next]_vars

-----------------------------------------------------------------------------
(* Properties.                                                             *)

\* apply_report writes an absolute value, read one await earlier: no report is
\* lost by it, and no PATCH disturbs it.  What the spend has more than the ledger
\* is what reports of unknown tasks cost, which count but leave no row.
SpendIsReported == spent = ledger + unlogged

\* Under one cap, a threshold is announced once, and after a higher one never,
\* though the cap may be changed and changed back between and inside reports.
AnnouncedOnce ==
  \A i, j \in 1..Len(events) :
    i < j /\ events[i].cap = events[j].cap => events[i].level < events[j].level

\* "newly_crossed only fires on transitions": what passes in silence is only
\* what the cap in force made of spend that was there, or being reported, when
\* it was set.  Every later threshold is announced under that cap, or a higher one.
NoSilentCrossing ==
  \A t \in Thresholds :
    cap > 0 /\ 100 * since < t * cap /\ t * cap <= 100 * spent =>
      \E i \in 1..Len(events) : events[i].cap = cap /\ events[i].level >= t

\* "The gate here is what keeps queued tasks from being handed to a worker that's
\* already supposed to be paused": behind a pause that a worker has still to read
\* there is a task only if the cap was raised, or taken away.
NoTaskBehindPause ==
  \A w \in Workers : \A i, j \in 1..Len(inbox[w]) :
    /\ i < j
    /\ inbox[w][i].kind = "pause"
    /\ inbox[w][j].kind = "task"
    => inbox[w][i].cap < inbox[w][j].cap \/ inbox[w][j].cap = 0
=============================================================================
