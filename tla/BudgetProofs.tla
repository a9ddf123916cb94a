---------------------------- MODULE BudgetProofs ----------------------------
(***************************************************************************)
(* Proofs about Budget, for any caps, costs, workers and channel size.     *)
(*                                                                         *)
(* That spend only grows, and is what the loop's last SELECT saw whenever  *)
(* the loop acts on it, is what every property rests on: a threshold       *)
(* announced once stays reached (EventsReached), a pause once sent stays   *)
(* due (PausesReached).                                                    *)
(***************************************************************************)
EXTENDS Budget, SequenceTheorems, TLAPS

Frame == [kind : {"task", "warn", "pause"}, cap : Caps]

\* The loop acts on the spend there is, though perhaps not on the cap there is.
LoopSeesSpend ==
  /\ loop.at # "free" => loop.spent = spent
  /\ loop.at = "dispatch" => GateOpen(loop.spent, loop.cap)
  /\ loop.at = "report" /\ loop.cap # cap => loop.spent + loop.cost <= since

EventsReached ==
  \A i \in 1..Len(events) :
    events[i].cap > 0 /\ events[i].level * events[i].cap <= 100 * spent

PausesReached ==
  \A w \in Workers : \A i \in 1..Len(inbox[w]) :
    inbox[w][i].kind = "pause" => inbox[w][i].cap <= spent

IInv ==
  /\ TypeOK
  /\ LoopSeesSpend
  /\ EventsReached
  /\ PausesReached
  /\ SpendIsReported
  /\ AnnouncedOnce
  /\ NoSilentCrossing
  /\ NoTaskBehindPause

-----------------------------------------------------------------------------
(* One step.                                                               *)

LEMMA InitInv == Init => IInv
  BY BudgetAssumption DEF Init, IInv, TypeOK, Doing, Free, LoopSeesSpend, EventsReached,
     PausesReached, SpendIsReported, AnnouncedOnce, NoSilentCrossing, NoTaskBehindPause, Thresholds

\* What the loop holds while it does a thing.
LEMMA Reporting ==
  ASSUME TypeOK, loop.at = "report"
  PROVE  loop.spent \in Nat /\ loop.cap \in Caps /\ loop.cost \in Costs /\ loop.cost \in Nat
<1>1. loop \in Doing
  BY DEF TypeOK
<1>2. loop.spent \in Nat /\ loop.cap \in Caps /\ loop.cost \in Costs
  BY <1>1 DEF Doing, Free
<1>3. QED
  BY <1>2, BudgetAssumption

LEMMA Dispatching ==
  ASSUME TypeOK, loop.at = "dispatch"
  PROVE  loop.spent \in Nat /\ loop.cap \in Caps /\ loop.worker \in Workers
<1>1. loop \in Doing
  BY DEF TypeOK
<1>2. QED
  BY <1>1 DEF Doing, Free

\* A step that leaves the rows and the frames alone, and sees what it sees.
LEMMA QuietInv ==
  ASSUME IInv, TypeOK', LoopSeesSpend',
         UNCHANGED <<spent, cap, ledger, unlogged, events, inbox, since>>
  PROVE  IInv'
  BY DEF IInv, EventsReached, PausesReached, SpendIsReported, AnnouncedOnce, NoSilentCrossing,
     NoTaskBehindPause

LEMMA ReadInv ==
  ASSUME IInv, NEW cost \in Costs, NEW known \in BOOLEAN, ReadBudget(cost, known)
  PROVE  IInv'
<1>1. TypeOK'
  BY BudgetAssumption DEF IInv, TypeOK, ReadBudget, Doing
<1>2. LoopSeesSpend'
  BY DEF ReadBudget, LoopSeesSpend
<1>3. QED
  BY <1>1, <1>2, QuietInv DEF ReadBudget

LEMMA GateInv ==
  ASSUME IInv, NEW w \in Workers, CheckGate(w)
  PROVE  IInv'
<1>1. TypeOK'
  BY DEF IInv, TypeOK, CheckGate, Doing
<1>2. LoopSeesSpend'
  BY DEF CheckGate, LoopSeesSpend, GateOpen
<1>3. QED
  BY <1>1, <1>2, QuietInv DEF CheckGate

\* A new cap takes over at the spend there will be: nothing is behind it.
LEMMA PatchInv ==
  ASSUME IInv, NEW c \in Caps, PatchCap(c)
  PROVE  IInv'
<1>1. /\ spent \in Nat /\ since' \in Nat /\ spent <= since'
      /\ cap' = c /\ c \in Nat
      /\ UNCHANGED <<spent, ledger, unlogged, events, loop, bus, inbox>>
  <2>1. CASE loop.at = "report"
    <3>1. loop.cost \in Nat
      BY <2>1, Reporting DEF IInv
    <3>2. QED
      BY <2>1, <3>1, BudgetAssumption DEF IInv, TypeOK, PatchCap, SpendToCome
  <2>2. CASE loop.at # "report"
    BY <2>2, BudgetAssumption DEF IInv, TypeOK, PatchCap, SpendToCome
  <2>3. QED
    BY <2>1, <2>2
<1>2. TypeOK'
  BY <1>1 DEF IInv, TypeOK
<1>3. LoopSeesSpend'
  <2>1. loop.at = "report" => since' = loop.spent + loop.cost
    BY DEF IInv, LoopSeesSpend, PatchCap, SpendToCome
  <2>2. loop.at = "report" => loop.spent + loop.cost \in Nat
    BY Reporting DEF IInv
  <2>3. QED
    BY <1>1, <2>1, <2>2 DEF IInv, LoopSeesSpend, GateOpen
<1>3a. EventsReached' /\ PausesReached'
  BY <1>1 DEF IInv, EventsReached, PausesReached
<1>4. SpendIsReported' /\ AnnouncedOnce' /\ NoTaskBehindPause'
  BY <1>1 DEF IInv, SpendIsReported, AnnouncedOnce, NoTaskBehindPause
<1>5. NoSilentCrossing'
  <2> SUFFICES ASSUME NEW t \in Thresholds
               PROVE  ~(100 * since' < t * c /\ t * c <= 100 * spent)
    BY <1>1 DEF NoSilentCrossing
  <2>1. t * c \in Int
    BY <1>1 DEF Thresholds
  <2>2. QED
    BY <1>1, <2>1
<1>6. QED
  BY <1>2, <1>3, <1>3a, <1>4, <1>5 DEF IInv

\* The frames of a session that is new, gone, or read are those it had, or fewer.
LEMMA SessionInv ==
  ASSUME IInv, NEW w \in Workers,
         RegisterWorker(w) \/ UnregisterWorker(w) \/ TakeFrame(w)
  PROVE  IInv'
<1>1. /\ UNCHANGED <<spent, cap, ledger, unlogged, events, loop, since>>
      /\ bus' \subseteq Workers
      /\ inbox' = [inbox EXCEPT ![w] = inbox'[w]]
      /\ inbox'[w] = <<>> \/ (inbox[w] # <<>> /\ inbox'[w] = Tail(inbox[w]))
  BY DEF IInv, TypeOK, RegisterWorker, UnregisterWorker, TakeFrame
<1>2. inbox \in [Workers -> Seq(Frame)]
  BY DEF IInv, TypeOK, Frame
<1>3. inbox'[w] \in Seq(Frame)
  <2>1. inbox[w] \in Seq(Frame) /\ <<>> \in Seq(Frame)
    BY <1>2
  <2>2. inbox[w] # <<>> => Tail(inbox[w]) \in Seq(Frame)
    BY <2>1
  <2>3. QED
    BY <1>1, <2>1, <2>2
<1>4. inbox' \in [Workers -> Seq(Frame)]
  BY <1>1, <1>2, <1>3
<1>5. TypeOK' /\ LoopSeesSpend'
  BY <1>1, <1>4 DEF IInv, TypeOK, LoopSeesSpend, GateOpen, Frame
<1>6. EventsReached' /\ SpendIsReported' /\ AnnouncedOnce' /\ NoSilentCrossing'
  BY <1>1 DEF IInv, EventsReached, SpendIsReported, AnnouncedOnce, NoSilentCrossing
<1>7. \A v \in Workers : \/ inbox'[v] = inbox[v]
                         \/ inbox'[v] = <<>>
                         \/ /\ Len(inbox'[v]) = Len(inbox[v]) - 1
                            /\ \A i \in 1..Len(inbox'[v]) : inbox'[v][i] = inbox[v][i + 1]
  BY <1>1, <1>2
<1>8. \A v \in Workers : Len(inbox[v]) \in Nat /\ Len(inbox'[v]) \in Nat
  BY <1>2, <1>4
\* Where a frame stands now, it stood before, as far behind any other.
<1>9. ASSUME NEW v \in Workers
      PROVE  \E d \in {0, 1} : \A i \in 1..Len(inbox'[v]) :
               i + d \in 1..Len(inbox[v]) /\ inbox'[v][i] = inbox[v][i + d]
  <2>1. CASE inbox'[v] = inbox[v] \/ inbox'[v] = <<>>
    <3>1. \A i \in 1..Len(inbox'[v]) :
            i + 0 \in 1..Len(inbox[v]) /\ inbox'[v][i] = inbox[v][i + 0]
      BY <2>1, <1>8
    <3>2. QED
      BY <3>1
  <2>2. CASE /\ Len(inbox'[v]) = Len(inbox[v]) - 1
             /\ \A i \in 1..Len(inbox'[v]) : inbox'[v][i] = inbox[v][i + 1]
    <3>1. \A i \in 1..Len(inbox'[v]) :
            i + 1 \in 1..Len(inbox[v]) /\ inbox'[v][i] = inbox[v][i + 1]
      BY <2>2, <1>8
    <3>2. QED
      BY <3>1
  <2>3. QED
    BY <1>7, <2>1, <2>2
<1>10. PausesReached'
  <2> SUFFICES ASSUME NEW v \in Workers, NEW i \in 1..Len(inbox'[v]), inbox'[v][i].kind = "pause"
               PROVE  inbox'[v][i].cap <= spent'
    BY DEF PausesReached
  <2>1. PICK d \in {0, 1} : \A k \in 1..Len(inbox'[v]) :
          k + d \in 1..Len(inbox[v]) /\ inbox'[v][k] = inbox[v][k + d]
    BY <1>9
  <2>2. i + d \in 1..Len(inbox[v]) /\ inbox[v][i + d].kind = "pause"
    BY <2>1
  <2>3. QED
    BY <1>1, <2>1, <2>2 DEF IInv, PausesReached
<1>11. NoTaskBehindPause'
  <2> SUFFICES ASSUME NEW v \in Workers, NEW i \in 1..Len(inbox'[v]), NEW j \in 1..Len(inbox'[v]),
                      i < j, inbox'[v][i].kind = "pause", inbox'[v][j].kind = "task"
               PROVE  inbox'[v][i].cap < inbox'[v][j].cap \/ inbox'[v][j].cap = 0
    BY DEF NoTaskBehindPause
  <2>1. PICK d \in {0, 1} : \A k \in 1..Len(inbox'[v]) :
          k + d \in 1..Len(inbox[v]) /\ inbox'[v][k] = inbox[v][k + d]
    BY <1>9
  <2>2. /\ i + d < j + d
        /\ i + d \in 1..Len(inbox[v]) /\ inbox[v][i + d].kind = "pause"
        /\ j + d \in 1..Len(inbox[v]) /\ inbox[v][j + d].kind = "task"
    BY <1>8, <2>1
  <2>3. inbox[v][i + d].cap < inbox[v][j + d].cap \/ inbox[v][j + d].cap = 0
    BY <2>2 DEF IInv, NoTaskBehindPause
  <2>4. QED
    BY <2>1, <2>3
<1>12. QED
  BY <1>5, <1>6, <1>10, <1>11 DEF IInv

-----------------------------------------------------------------------------
(* A frame goes to some of the workers: a pause that is due, or a task under a *)
(* cap that no pause was sent at.                                              *)

Spread(P, f) == [v \in Workers |-> IF v \in P THEN Append(inbox[v], f) ELSE inbox[v]]

LEMMA FramesInv ==
  ASSUME IInv, spent' \in Nat, spent <= spent', NEW f \in Frame,
         f.kind = "pause" => f.cap <= spent',
         f.kind = "task" => f.cap = 0 \/ spent < f.cap,
         NEW P \in SUBSET Workers,
         inbox' = Spread(P, f)
  PROVE  inbox' \in [Workers -> Seq(Frame)] /\ PausesReached' /\ NoTaskBehindPause'
<1>1. \A v \in Workers : inbox[v] \in Seq(Frame)
  BY DEF IInv, TypeOK, Frame
<1> USE DEF Spread
<1>2. f.cap \in Nat /\ spent \in Nat
  BY BudgetAssumption DEF Frame, IInv, TypeOK
<1>3. inbox' \in [Workers -> Seq(Frame)]
  <2>1. ASSUME NEW v \in Workers
        PROVE  Append(inbox[v], f) \in Seq(Frame)
    BY <1>1, AppendProperties
  <2>2. QED
    BY <1>1, <2>1
<1>4. ASSUME NEW v \in Workers, NEW i \in 1..Len(inbox[v])
      PROVE  inbox[v][i].cap \in Nat
  <2>1. inbox[v][i] \in Frame
    BY <1>1
  <2>2. QED
    BY <2>1, BudgetAssumption DEF Frame
\* A frame of the channel is one it had, or the last.
<1>5. ASSUME NEW v \in Workers, NEW i \in 1..Len(inbox'[v])
      PROVE  \/ i \in 1..Len(inbox[v]) /\ inbox'[v][i] = inbox[v][i]
             \/ i = Len(inbox'[v]) /\ inbox'[v][i] = f
  <2>1. CASE inbox'[v] = inbox[v]
    BY <2>1
  <2>2. CASE inbox'[v] = Append(inbox[v], f)
    BY <1>1, <2>2, AppendProperties
  <2>3. QED
    BY <2>1, <2>2
<1>6. PausesReached'
  <2> SUFFICES ASSUME NEW v \in Workers, NEW i \in 1..Len(inbox'[v]), inbox'[v][i].kind = "pause"
               PROVE  inbox'[v][i].cap <= spent'
    BY DEF PausesReached
  <2>1. CASE i \in 1..Len(inbox[v]) /\ inbox'[v][i] = inbox[v][i]
    <3>1. inbox[v][i].cap <= spent
      BY <2>1 DEF IInv, PausesReached
    <3>2. QED
      BY <2>1, <3>1, <1>2, <1>4
  <2>2. CASE inbox'[v][i] = f
    BY <2>2
  <2>3. QED
    BY <1>5, <2>1, <2>2
<1>7. NoTaskBehindPause'
  <2> SUFFICES ASSUME NEW v \in Workers, NEW i \in 1..Len(inbox'[v]), NEW j \in 1..Len(inbox'[v]),
                      i < j, inbox'[v][i].kind = "pause", inbox'[v][j].kind = "task"
               PROVE  inbox'[v][i].cap < inbox'[v][j].cap \/ inbox'[v][j].cap = 0
    BY DEF NoTaskBehindPause
  <2>1. i \in 1..Len(inbox[v]) /\ inbox'[v][i] = inbox[v][i]
    BY <1>3, <1>5
  <2>2. CASE j \in 1..Len(inbox[v]) /\ inbox'[v][j] = inbox[v][j]
    BY <2>1, <2>2 DEF IInv, NoTaskBehindPause
  <2>3. CASE inbox'[v][j] = f
    <3>1. inbox[v][i].cap <= spent
      BY <2>1 DEF IInv, PausesReached
    <3>2. QED
      BY <2>1, <2>3, <3>1, <1>2, <1>4
  <2>4. QED
    BY <1>5, <2>2, <2>3
<1>8. QED
  BY <1>3, <1>6, <1>7

LEMMA StartInv ==
  ASSUME IInv, StartTask
  PROVE  IInv'
<1> DEFINE f == [kind |-> "task", cap |-> loop.cap]
           P == {v \in Workers : v = loop.worker /\ Len(inbox[v]) < ChannelSize}
<1>1. /\ loop.at = "dispatch" /\ loop.worker \in Workers /\ loop.cap \in Caps
      /\ loop.spent = spent
      /\ loop.cap = 0 \/ 100 * spent < 95 * loop.cap
      /\ loop' = Free
      /\ UNCHANGED <<spent, cap, ledger, unlogged, events, bus, since>>
  BY Dispatching DEF IInv, LoopSeesSpend, GateOpen, StartTask
<1>2. f \in Frame /\ spent \in Nat /\ loop.cap \in Nat
  BY <1>1, BudgetAssumption DEF IInv, TypeOK, Frame
<1>3. inbox' = Spread(P, f)
  BY <1>1 DEF StartTask, IInv, TypeOK, Spread
<1>4. f.cap = 0 \/ spent < f.cap
  BY <1>1, <1>2
<1>5. inbox' \in [Workers -> Seq(Frame)] /\ PausesReached' /\ NoTaskBehindPause'
  <2> HIDE DEF P
  <2>1. P \in SUBSET Workers
    BY DEF P
  <2>2. f.kind = "task" /\ spent' \in Nat /\ spent <= spent'
    BY <1>1, <1>2
  <2> HIDE DEF f
  <2>3. QED
    BY <1>2, <1>3, <1>4, <2>1, <2>2, FramesInv
<1>6. TypeOK' /\ LoopSeesSpend'
  BY <1>1, <1>5 DEF IInv, TypeOK, Doing, Free, LoopSeesSpend, Frame
<1>7. EventsReached' /\ SpendIsReported' /\ AnnouncedOnce' /\ NoSilentCrossing'
  BY <1>1 DEF IInv, EventsReached, SpendIsReported, AnnouncedOnce, NoSilentCrossing
<1>8. QED
  BY <1>5, <1>6, <1>7 DEF IInv

-----------------------------------------------------------------------------
(* Of two thresholds of one cap, the one the spend has reached is the lower.    *)
LEMMA LowerThreshold ==
  ASSUME NEW t \in Thresholds, NEW u \in Thresholds, NEW c \in Nat, NEW s \in Nat,
         t * c <= 100 * s, 100 * s < u * c
  PROVE  t < u
  BY DEF Thresholds

(* A report.  Its SELECT saw the spend there is; when it saw another cap than  *)
(* the one in force, that cap took over at the spend there will be.            *)
LEMMA ApplyInv ==
  ASSUME IInv, ApplyReport
  PROVE  IInv'
<1> DEFINE new == spent + loop.cost
           c == loop.cap
           crossed == NewlyCrossed(spent, new, c)
<1>1. /\ loop.at = "report" /\ c \in Caps /\ c \in Nat /\ loop.cost \in Nat
      /\ spent \in Nat /\ ledger \in Nat /\ unlogged \in Nat
      /\ since \in Nat /\ cap \in Nat /\ new \in Nat
      /\ spent' = new /\ RecordBudgetEvent(loop.cost, loop.known) /\ loop' = Free
      /\ UNCHANGED <<cap, bus, since>>
  <2>1. loop.at = "report" /\ loop.spent = spent
    BY DEF ApplyReport, IInv, LoopSeesSpend
  <2>2. c \in Caps /\ c \in Nat /\ loop.cost \in Nat
    BY <2>1, Reporting, BudgetAssumption DEF IInv
  <2>3. spent \in Nat /\ ledger \in Nat /\ unlogged \in Nat /\ since \in Nat /\ cap \in Nat
    BY BudgetAssumption DEF IInv, TypeOK
  <2>4. /\ spent' = new /\ RecordBudgetEvent(loop.cost, loop.known) /\ loop' = Free
        /\ UNCHANGED <<cap, bus, since>>
    BY <2>1 DEF ApplyReport
  <2>5. QED
    BY <2>1, <2>2, <2>3, <2>4
\* The cost goes to the ledger, or to what the ledger misses.
<1>0a. ledger' \in Nat /\ unlogged' \in Nat /\ ledger' + unlogged' = ledger + unlogged + loop.cost
  BY <1>1 DEF RecordBudgetEvent
<1>0. /\ spent' \in Nat /\ ledger' \in Nat /\ unlogged' \in Nat /\ loop' \in Doing
      /\ UNCHANGED <<cap, bus, since>>
  BY <1>0a, <1>1 DEF Doing
<1>2. \/ crossed = {} /\ UNCHANGED <<events, inbox>>
      \/ \E t \in crossed : Announce(t, c)
  BY <1>1 DEF IInv, LoopSeesSpend, ApplyReport
<1>3. c # cap => new <= since
  BY <1>1 DEF IInv, LoopSeesSpend
<1>4. LoopSeesSpend'
  BY <1>1 DEF LoopSeesSpend, Free
<1>5. SpendIsReported'
  BY <1>0a, <1>1 DEF IInv, SpendIsReported
<1>6. \A i \in 1..Len(events) : events[i].level \in Thresholds /\ events[i].cap \in Nat
  <2> DEFINE Row == [level : Thresholds, cap : Caps]
  <2>1. events \in Seq(Row)
    BY DEF IInv, TypeOK
  <2>2. \A r \in Row : r.level \in Thresholds /\ r.cap \in Nat
    BY BudgetAssumption
  <2> HIDE DEF Row
  <2>3. QED
    BY <2>1, <2>2
\* What was reached stays reached.
<1>7. \A i \in 1..Len(events) :
        /\ events[i].cap > 0
        /\ events[i].level * events[i].cap <= 100 * spent
        /\ events[i].level * events[i].cap <= 100 * new
  <2> TAKE i \in 1..Len(events)
  <2> DEFINE reached == events[i].level * events[i].cap
  <2>1. reached \in Int
    BY <1>6 DEF Thresholds
  <2>2. events[i].cap > 0 /\ reached <= 100 * spent
    BY DEF IInv, EventsReached
  <2> HIDE DEF reached
  <2>3. reached <= 100 * new
    BY <1>1, <2>1, <2>2
  <2>4. QED
    BY <2>2, <2>3 DEF reached
\* A threshold of the cap in force that this report is the first to reach is one it sees.
<1>8. ASSUME NEW t \in Thresholds, cap > 0, 100 * since < t * cap, t * cap <= 100 * new,
             ~(t * cap <= 100 * spent)
      PROVE  c = cap /\ c > 0 /\ 100 * spent < t * c /\ t * c <= 100 * new
  BY <1>1, <1>3, <1>8 DEF Thresholds
<1>9. CASE crossed = {} /\ UNCHANGED <<events, inbox>>
  <2>1. TypeOK'
    BY <1>0, <1>9 DEF IInv, TypeOK
  <2>2. EventsReached'
    BY <1>1, <1>7, <1>9 DEF EventsReached
  <2>3. PausesReached'
    <3> SUFFICES ASSUME NEW v \in Workers, NEW i \in 1..Len(inbox[v]), inbox[v][i].kind = "pause"
                 PROVE  inbox[v][i].cap <= new
      BY <1>1, <1>9 DEF PausesReached
    <3>1. inbox[v][i] \in Frame
      <4>1. inbox[v] \in Seq(Frame)
        BY DEF IInv, TypeOK, Frame
      <4>2. QED
        BY <4>1
    <3>2. inbox[v][i].cap \in Nat
      BY <3>1, BudgetAssumption DEF Frame
    <3>3. inbox[v][i].cap <= spent
      BY DEF IInv, PausesReached
    <3>4. QED
      BY <1>1, <3>2, <3>3
  <2>4. AnnouncedOnce' /\ NoTaskBehindPause'
    BY <1>9 DEF IInv, AnnouncedOnce, NoTaskBehindPause
  <2>5. NoSilentCrossing'
    <3> SUFFICES ASSUME NEW t \in Thresholds, cap > 0, 100 * since < t * cap, t * cap <= 100 * new
                 PROVE  \E i \in 1..Len(events) : events[i].cap = cap /\ events[i].level >= t
      BY <1>1, <1>9 DEF NoSilentCrossing
    <3>1. CASE t * cap <= 100 * spent
      BY <3>1 DEF IInv, NoSilentCrossing
    <3>2. CASE ~(t * cap <= 100 * spent)
      <4>1. c > 0 /\ 100 * spent < t * c /\ t * c <= 100 * new
        BY <1>8, <3>2
      <4>2. crossed # {}
        BY <1>1, <4>1 DEF NewlyCrossed, Thresholds
      <4>3. QED
        BY <1>9, <4>2
    <3>3. QED
      BY <3>1, <3>2
  <2>6. QED
    BY <1>4, <1>5, <2>1, <2>2, <2>3, <2>4, <2>5 DEF IInv
<1>10. CASE \E t \in crossed : Announce(t, c)
  <2>1. PICK t \in crossed : Announce(t, c)
    BY <1>10
  <2> DEFINE row == [level |-> t, cap |-> c]
             Row == [level : Thresholds, cap : Caps]
             f == [kind |-> IF t = 100 THEN "pause" ELSE "warn", cap |-> c]
             P == {v \in Workers : v \in bus /\ Len(inbox[v]) < ChannelSize}
  <2>2. /\ t \in Thresholds /\ c > 0 /\ 100 * spent < t * c /\ t * c <= 100 * new
        /\ \A u \in Thresholds : 100 * spent < u * c /\ u * c <= 100 * new => u <= t
    BY DEF NewlyCrossed
  <2>3. events' = Append(events, row) /\ inbox' = Spread(P, f)
    BY <2>1 DEF Announce, Broadcast, Spread
  <2>4. events \in Seq(Row) /\ row \in Row /\ f \in Frame
    BY <1>1, <2>2 DEF IInv, TypeOK, Frame
  <2>5. inbox' \in [Workers -> Seq(Frame)] /\ PausesReached' /\ NoTaskBehindPause'
    <3>1. f.kind # "task" /\ (f.kind = "pause" => f.cap <= spent')
      BY <1>1, <2>2
    <3>2. spent' \in Nat /\ spent <= spent'
      BY <1>1
    <3>3. P \in SUBSET Workers
      OBVIOUS
    <3> HIDE DEF P, f
    <3>4. QED
      BY <2>3, <2>4, <3>1, <3>2, <3>3, FramesInv
  <2>6. /\ events' \in Seq(Row)
        /\ Len(events) \in Nat /\ Len(events') = Len(events) + 1
        /\ \A i \in 1..Len(events) : events'[i] = events[i]
        /\ events'[Len(events) + 1] = row
    <3> HIDE DEF Row, row
    <3>1. QED
      BY <2>3, <2>4, AppendProperties
  <2>7. TypeOK'
    BY <1>0, <2>5, <2>6 DEF IInv, TypeOK, Frame
  <2>8. EventsReached'
    <3> SUFFICES ASSUME NEW i \in 1..Len(events')
                 PROVE  events'[i].cap > 0 /\ events'[i].level * events'[i].cap <= 100 * spent'
      BY DEF EventsReached
    <3>1. CASE i \in 1..Len(events)
      BY <1>1, <1>7, <2>6, <3>1
    <3>2. CASE i = Len(events) + 1
      BY <1>1, <2>2, <2>6, <3>2
    <3>3. QED
      BY <2>6, <3>1, <3>2
  <2>9. AnnouncedOnce'
    <3> SUFFICES ASSUME NEW i \in 1..Len(events'), NEW j \in 1..Len(events'), i < j,
                        events'[i].cap = events'[j].cap
                 PROVE  events'[i].level < events'[j].level
      BY DEF AnnouncedOnce
    <3>1. i \in 1..Len(events) /\ events'[i] = events[i]
      BY <2>6
    <3>2. CASE j \in 1..Len(events)
      BY <2>6, <3>1, <3>2 DEF IInv, AnnouncedOnce
    <3>3. CASE j = Len(events) + 1
      <4>1. events[i].cap = c /\ events'[j].level = t
        BY <2>6, <3>1, <3>3
      <4>2. events[i].level \in Thresholds /\ events[i].level * c <= 100 * spent
        BY <1>6, <1>7, <3>1, <4>1
      <4>3. QED
        BY <1>1, <2>2, <3>1, <4>1, <4>2, LowerThreshold
    <3>4. QED
      BY <2>6, <3>2, <3>3
  <2>10. NoSilentCrossing'
    <3> SUFFICES ASSUME NEW u \in Thresholds, cap > 0, 100 * since < u * cap, u * cap <= 100 * new
                 PROVE  \E i \in 1..Len(events') : events'[i].cap = cap /\ events'[i].level >= u
      BY <1>1 DEF NoSilentCrossing
    <3>1. CASE u * cap <= 100 * spent
      <4>1. PICK i \in 1..Len(events) : events[i].cap = cap /\ events[i].level >= u
        BY <3>1 DEF IInv, NoSilentCrossing
      <4>2. i \in 1..Len(events') /\ events'[i] = events[i]
        BY <2>6
      <4>3. QED
        BY <4>1, <4>2
    <3>2. CASE ~(u * cap <= 100 * spent)
      <4>1. c = cap /\ u <= t
        BY <1>8, <2>2, <3>2
      <4>2. events'[Len(events')].cap = cap /\ events'[Len(events')].level >= u
        BY <2>2, <2>6, <4>1 DEF Thresholds
      <4>3. QED
        BY <2>6, <4>2
    <3>3. QED
      BY <3>1, <3>2
  <2>11. QED
    BY <1>4, <1>5, <2>5, <2>7, <2>8, <2>9, <2>10 DEF IInv
<1>11. QED
  BY <1>2, <1>9, <1>10

-----------------------------------------------------------------------------
LEMMA StepInv == IInv /\ [Next]_vars => IInv'
<1> SUFFICES ASSUME IInv, [Next]_vars PROVE IInv'
  OBVIOUS
<1>1. ASSUME NEW cost \in Costs, NEW known \in BOOLEAN, ReadBudget(cost, known) PROVE IInv'
  BY <1>1, ReadInv
<1>2. ASSUME ApplyReport PROVE IInv'
  BY <1>2, ApplyInv
<1>3. ASSUME NEW c \in Caps, PatchCap(c) PROVE IInv'
  BY <1>3, PatchInv
<1>4. ASSUME NEW w \in Workers, CheckGate(w) PROVE IInv'
  BY <1>4, GateInv
<1>5. ASSUME NEW w \in Workers, RegisterWorker(w) \/ UnregisterWorker(w) \/ TakeFrame(w)
      PROVE  IInv'
  BY <1>5, SessionInv
<1>6. ASSUME StartTask PROVE IInv'
  BY <1>6, StartInv
<1>7. ASSUME UNCHANGED vars PROVE IInv'
  <2>1. TypeOK' /\ LoopSeesSpend'
    BY <1>7 DEF vars, IInv, TypeOK, LoopSeesSpend, GateOpen
  <2>2. QED
    BY <1>7, <2>1, QuietInv DEF vars
<1>8. QED
  BY <1>1, <1>2, <1>3, <1>4, <1>5, <1>6, <1>7 DEF Next

LEMMA Invariance == Spec => []IInv
  BY InitInv, StepInv, PTL DEF Spec

\* Every variable stays in its type, frames and rows included.
THEOREM SpecTypeOK == Spec => []TypeOK
  BY Invariance, PTL DEF IInv

(* apply_report's absolute UPDATE loses no report, whatever is patched between *)
(* it and its SELECT; record_budget_event may lose its row, and then the ledger *)
(* misses the cost of that report and nothing else.                            *)
THEOREM SpecSpendIsReported == Spec => []SpendIsReported
  BY Invariance, PTL DEF IInv

\* newly_crossed says each threshold of a cap once, in rising order.
THEOREM SpecAnnouncedOnce == Spec => []AnnouncedOnce
  BY Invariance, PTL DEF IInv

\* newly_crossed misses no threshold that a report reached under the cap in force.
THEOREM SpecNoSilentCrossing == Spec => []NoSilentCrossing
  BY Invariance, PTL DEF IInv

\* The scheduler's gate puts no task behind a pause, short of a higher cap.
THEOREM SpecNoTaskBehindPause == Spec => []NoTaskBehindPause
  BY Invariance, PTL DEF IInv
=============================================================================
