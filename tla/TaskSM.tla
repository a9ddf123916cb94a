------------------------------- MODULE TaskSM -------------------------------
(***************************************************************************)
(* The pure task state machine of crates/world/src/task_sm.rs: the         *)
(* statuses of a task row, the requests that can change one, and the       *)
(* function `next` that every handler asks before it writes the row.       *)
(***************************************************************************)

\* TaskStatus: the column's values.
Status ==
  {"proposed", "queued", "in_progress", "awaiting_review",
   "changes_requested", "done", "failed", "escalated"}

Actor == {"Manager", "NonManager", "Operator", "System"}

\* Transition: the requests.  Three of them carry the caller, but only
\* SubtaskCreate looks at it, so the two proposal requests leave it out.
Transition ==
  [kind : {"SubtaskCreate"}, caller : Actor]
  \cup
  [kind : {"AcceptProposal", "RejectProposal", "AssignFromQueued",
           "TaskDoneMcp", "RequestChanges", "TaskAccept",
           "OperatorForceAccept", "OperatorForceFail", "Fail", "Escalate"}]

\* The Err result of `next`.
Illegal == "illegal transition"

\* Mutant: a finished task may still fail.
ClosedByFailureOnly == {"failed"}

\* The two statuses that OperatorForceFail, Fail and Escalate refuse.  The
\* status "escalated" is not one of them.
Closed == {"done", "failed"}

\* The statuses a request of each kind may start from.
From(kind) ==
  CASE kind = "SubtaskCreate" -> Status
    [] kind \in {"AcceptProposal", "RejectProposal"} -> {"proposed"}
    [] kind = "AssignFromQueued" -> {"queued"}
    [] kind = "TaskDoneMcp" -> {"in_progress", "changes_requested"}
    [] kind \in {"RequestChanges", "TaskAccept", "OperatorForceAccept"}
         -> {"awaiting_review"}
    [] kind \in {"OperatorForceFail", "Fail", "Escalate"} -> Status \ Closed

\* The status a legal request leads to.
To(t) ==
  CASE t.kind = "SubtaskCreate" ->
         IF t.caller = "NonManager" THEN "proposed" ELSE "queued"
    [] t.kind = "AcceptProposal" -> "queued"
    [] t.kind \in {"RejectProposal", "OperatorForceFail", "Fail"} -> "failed"
    [] t.kind = "AssignFromQueued" -> "in_progress"
    [] t.kind = "TaskDoneMcp" -> "awaiting_review"
    [] t.kind = "RequestChanges" -> "changes_requested"
    [] t.kind \in {"TaskAccept", "OperatorForceAccept"} -> "done"
    [] t.kind = "Escalate" -> "escalated"

\* task_sm::next.
next(current, t) == IF current \in From(t.kind) THEN To(t) ELSE Illegal

\* The requests that carry no caller.
Request(kind) == [kind |-> kind]
=============================================================================
