----------------------------- MODULE ReviewCycle -----------------------------
(***************************************************************************)
(* What the task board promises of one task's life, whoever asks for what: *)
(* the columns of the kanban, the moves between them, and the count of     *)
(* review rounds.  TaskWorld, with its agents, gates and ticks, implements *)
(* it.                                                                     *)
(***************************************************************************)
EXTENDS Naturals

CONSTANTS Tasks, MaxReviewRounds

VARIABLES status, round

vars == <<status, round>>

Init ==
  /\ status = [t \in Tasks |-> "absent"]
  /\ round = [t \in Tasks |-> 0]

\* Task t moves from a column in `from` to column `to`; its rounds go to n.
Move(t, from, to, n) ==
  /\ status[t] \in from
  /\ status' = [status EXCEPT ![t] = to]
  /\ round' = [round EXCEPT ![t] = n]

Create(t)  == \E s \in {"proposed", "queued"} : Move(t, {"absent"}, s, 0)
Accept(t)  == Move(t, {"proposed"}, "queued", 0)
Start(t)   == Move(t, {"queued"}, "in_progress", 0)
Submit(t)  == Move(t, {"in_progress", "changes_requested"}, "awaiting_review", round[t])
Approve(t) == Move(t, {"awaiting_review"}, "done", round[t])

\* One more round, while there are rounds left.
Bounce(t) ==
  /\ round[t] < MaxReviewRounds
  /\ Move(t, {"awaiting_review"}, "changes_requested", round[t] + 1)

\* Out of rounds.  Only work under review escalates, never work in progress;
\* an escalated task may escalate again.
Escalate(t) ==
  /\ round[t] = MaxReviewRounds
  /\ Move(t, {"awaiting_review", "changes_requested"}, "escalated", round[t])

\* A rejected proposal, a failure or an operator's decision: anything open.
Fail(t) ==
  Move(t, {"proposed", "queued", "in_progress", "awaiting_review",
           "changes_requested", "escalated"}, "failed", round[t])

\* Somebody else starts the task over.
StartOver(t) == Move(t, {"changes_requested"}, "queued", 0)

Next ==
  \E t \in Tasks :
    \/ Create(t) \/ Accept(t) \/ Start(t) \/ Submit(t) \/ Approve(t)
    \/ Bounce(t) \/ Escalate(t) \/ Fail(t) \/ StartOver(t)

Spec == Init /\ [][Next]_vars
=============================================================================
