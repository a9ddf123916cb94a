----------------------------- MODULE ActionLocks -----------------------------
(***************************************************************************)
(* The soft locks of the operators' console, and who may take one:         *)
(* action_locks.rs, the locked commands of cmd_console.rs, the lock GC of  *)
(* loop_.rs, and a console session of http.rs as far as it shows locks.    *)
(*                                                                         *)
(* The world loop runs one command at a time, every statement of it an     *)
(* await; the GC and each session are tasks of their own beside it.  Rows  *)
(* and accounts are SQLite's and survive a crash.                          *)
(***************************************************************************)
EXTENDS Integers, Sequences, FiniteSets

CONSTANTS
  Sessions,     \* console connections
  Viewers,      \* those whose browser is modelled; nothing depends on what it shows
  Operators,    \* rows there are, or were, in operators
  Env,          \* op_env: the token of the environment, an admin with no row
  Tasks,        \* tasks an operator may force
  Roles,        \* the roles of the model; "viewer" may do nothing modelled here
  MaxBacklog,   \* capacity of the broadcast channel (4096 in main.rs)
  MaxCrashes    \* a bound of the model

ASSUME LocksAssumption ==
  /\ Viewers \subseteq Sessions
  /\ Env \notin Operators
  /\ Roles \subseteq {"viewer", "manager", "admin"} /\ "admin" \in Roles
  /\ MaxBacklog \in Nat \ {0}
  /\ MaxCrashes \in Nat

VARIABLES
  account,  \* operators.role, or "none"
  row,      \* action_locks, by lock_key
  loop,     \* the command under way in the world loop, and how far it is
  gc,       \* the keys gc_expired has selected
  session,  \* how far a console's task is, and the identity of its hello
  backlog,  \* broadcast frames a session has still to take
  due,      \* its watch receiver has a world view it has not seen
  shown,    \* the browser's actionLocks
  life      \* how often the world was restarted

vars == <<account, row, loop, gc, session, backlog, due, shown, life>>

Keys == [kind : {"force"}, of : Tasks] \cup [kind : {"revoke"}, of : Operators]

\* No row; a row; a row past expires_at; one a GC under way finds past it.
Ages == {"none", "live", "expired", "selected"}
NoRow == [age |-> "none", by |-> Env, life |-> 0]

Frames == [kind : {"locked", "unlocked"}, key : Keys] \cup {[kind |-> "lagged"]}

Identities == (Operators \cup {Env}) \X Roles

Off == [at |-> "off", op |-> Env, role |-> "admin"]
Idle == [at |-> "idle"]

TypeOK ==
  /\ account \in [Operators -> Roles \cup {"none"}]
  /\ row \in [Keys -> [age : Ages, by : Operators \cup {Env}, life : Nat]]
  /\ loop \in {Idle} \cup [at : {"sweep", "insert", "act", "release", "bounce", "reply"},
                          key : Keys, by : Operators \cup {Env}, from : Sessions]
  /\ gc \in [at : {"idle", "delete", "unlock"}, keys : SUBSET Keys]
  /\ session \in [Sessions -> [at : {"off", "read", "on", "waiting"},
                               op : Operators \cup {Env}, role : Roles]]
  /\ backlog \in [Viewers -> Seq(Frames)]
  /\ due \subseteq Viewers
  /\ shown \in [Viewers -> SUBSET Keys]
  /\ life \in Nat

Init ==
  /\ account \in [Operators -> Roles]
  /\ \E o \in Operators : account[o] = "admin"     \* op_default of migration 0003
  /\ row = [k \in Keys |-> NoRow]
  /\ loop = Idle
  /\ gc = [at |-> "idle", keys |-> {}]
  /\ session = [s \in Sessions |-> Off]
  /\ backlog = [s \in Viewers |-> <<>>]
  /\ due = {}
  /\ shown = [s \in Viewers |-> {}]
  /\ life = 0

Live == {k \in Keys : row[k].age = "live"}
Held == {k \in Keys : row[k].age # "none"}

\* event_tx.send: every subscriber; one that is MaxBacklog behind has lagged.
Broadcast(f) ==
  backlog' = [s \in Viewers |->
                IF session[s].at = "off" THEN <<>>
                ELSE IF Len(backlog[s]) < MaxBacklog THEN Append(backlog[s], f)
                     ELSE <<[kind |-> "lagged"]>>]

-----------------------------------------------------------------------------
(* A console session.                                                      *)

\* hello: the identity is what the table says now, and stays what it was.  The
\* session subscribes before it reads its first snapshot.
Hello(s, o) ==
  /\ session[s].at = "off"
  /\ o # Env => account[o] # "none"
  /\ session' = [session EXCEPT ![s] =
       [at |-> IF s \in Viewers THEN "read" ELSE "on",
        op |-> o, role |-> IF o = Env THEN "admin" ELSE account[o]]]
  /\ UNCHANGED <<account, row, loop, gc, backlog, due, shown, life>>

\* view_rx.changed(), and the view is marked as seen.
NoticeView(s) ==
  /\ session[s].at = "on"
  /\ s \in due
  /\ session' = [session EXCEPT ![s].at = "read"]
  /\ due' = due \ {s}
  /\ UNCHANGED <<account, row, loop, gc, backlog, shown, life>>

\* build_console_snapshot: list_active leaves expired rows out.  The snapshot is
\* sent before the session takes anything else.
SendSnapshot(s) ==
  /\ session[s].at = "read"
  /\ session' = [session EXCEPT ![s].at = "on"]
  /\ shown' = [shown EXCEPT ![s] = Live]
  /\ UNCHANGED <<account, row, loop, gc, backlog, due, life>>

Close(s) ==
  /\ session' = [session EXCEPT ![s] = Off]
  /\ backlog' = [v \in Viewers |-> IF v = s THEN <<>> ELSE backlog[v]]
  /\ due' = due \ {s}
  /\ shown' = [v \in Viewers |-> IF v = s THEN {} ELSE shown[v]]

\* event_rx.recv(); the browser applies the frame.  Lagged closes the session.
TakeFrame(s) ==
  /\ session[s].at = "on"
  /\ backlog[s] # <<>>
  /\ LET f == Head(backlog[s]) IN
       IF f.kind = "lagged" THEN Close(s)
       ELSE /\ shown' = [shown EXCEPT ![s] =
                           IF f.kind = "locked" THEN @ \cup {f.key} ELSE @ \ {f.key}]
            /\ backlog' = [backlog EXCEPT ![s] = Tail(@)]
            /\ UNCHANGED <<session, due>>
  /\ UNCHANGED <<account, row, loop, gc, life>>

Disconnect(s) ==
  /\ session[s].at = "on"
  /\ Close(s)
  /\ UNCHANGED <<account, row, loop, gc, life>>

\* view_tx.send.
SendView == due' = {s \in Viewers : session[s].at # "off"}

-----------------------------------------------------------------------------
(* Commands.  While the loop runs one, or others before it, the session    *)
(* that sent it takes no frame.                                            *)

\* is_manager for a force; admin for a revoke, and not of oneself.
May(s, k) ==
  IF k.kind = "force" THEN session[s].role \in {"manager", "admin"}
  ELSE session[s].role = "admin" /\ k.of # session[s].op

\* OperatorForceAccept, OperatorForceFail, OperatorRevoke.
StartLocked(s, k) ==
  /\ loop = Idle
  /\ session[s].at = "on"
  /\ May(s, k)
  /\ loop' = [at |-> "sweep", key |-> k, by |-> session[s].op, from |-> s]
  /\ session' = [session EXCEPT ![s].at = "waiting"]
  /\ UNCHANGED <<account, row, gc, backlog, due, shown, life>>

\* OperatorSetRole and OperatorCreate, neither locked; an id is never used twice,
\* so that an account that is gone does not come back.
SetRole(s, o, r) ==
  /\ loop = Idle
  /\ session[s].at = "on"
  /\ session[s].role = "admin"
  /\ o = session[s].op => r = session[s].role
  /\ account[o] # "none"
  /\ account' = [account EXCEPT ![o] = r]
  /\ SendView
  /\ UNCHANGED <<row, loop, gc, session, backlog, shown, life>>

At(step) == loop # Idle /\ loop.at = step
Goto(step) == loop' = [loop EXCEPT !.at = step]

\* try_acquire: an expired row of this key goes first,
Sweep ==
  /\ At("sweep")
  /\ row' = IF row[loop.key].age \in {"expired", "selected"}
            THEN [row EXCEPT ![loop.key] = NoRow] ELSE row
  /\ Goto("insert")
  /\ UNCHANGED <<account, gc, session, backlog, due, shown, life>>

\* Mutant: whoever had a row at the hello.
HasASession(o) == o \in Operators

\* REFERENCES operators(id): op_env has no row, a revoked operator none any more.
HasRow(o) == o \in Operators /\ account[o] # "none"

\* then the INSERT: a conflict (UNIQUE), an error (the foreign key), or the lock,
\* which is broadcast.
Insert ==
  /\ At("insert")
  /\ \/ /\ row[loop.key].age # "none"
        /\ Goto("bounce")
        /\ UNCHANGED <<row, backlog>>
     \/ /\ row[loop.key].age = "none"
        /\ ~HasRow(loop.by)
        /\ Goto("reply")
        /\ UNCHANGED <<row, backlog>>
     \/ /\ row[loop.key].age = "none"
        /\ HasRow(loop.by)
        /\ row' = [row EXCEPT ![loop.key] = [age |-> "live", by |-> loop.by, life |-> life]]
        /\ Broadcast([kind |-> "locked", key |-> loop.key])
        /\ Goto("act")
  /\ UNCHANGED <<account, gc, session, due, shown, life>>

\* The transition (TaskWorld), or DELETE FROM operators: ON DELETE CASCADE takes
\* the operator's own locks along.
Act ==
  /\ At("act")
  /\ IF loop.key.kind = "force" THEN UNCHANGED <<account, row>>
     ELSE /\ account' = [account EXCEPT ![loop.key.of] = "none"]
          /\ row' = [k \in Keys |->
                       IF row[k].by = loop.key.of THEN NoRow ELSE row[k]]
  /\ Goto("release")
  /\ UNCHANGED <<gc, session, backlog, due, shown, life>>

\* Mutant: the lock is left to its time.
KeepTheLock ==
  /\ At("release")
  /\ Broadcast([kind |-> "unlocked", key |-> loop.key])
  /\ Goto("reply")
  /\ UNCHANGED <<account, row, gc, session, due, shown, life>>

\* release deletes by key, whoever holds it; the unlock is broadcast in any case.
Release ==
  /\ At("release")
  /\ row' = [row EXCEPT ![loop.key] = NoRow]
  /\ Broadcast([kind |-> "unlocked", key |-> loop.key])
  /\ Goto("reply")
  /\ UNCHANGED <<account, gc, session, due, shown, life>>

\* Mutant: no new view for the sessions.
ReplyOnly ==
  /\ At("reply") \/ At("bounce")
  /\ loop' = Idle
  /\ session' = [session EXCEPT ![loop.from].at = IF @ = "waiting" THEN "on" ELSE @]
  /\ UNCHANGED <<account, row, gc, backlog, due, shown, life>>

\* locked_by, or any other reply; the loop sends its view before it replies.
Reply ==
  /\ At("reply") \/ At("bounce")
  /\ loop' = Idle
  /\ SendView
  /\ session' = [session EXCEPT ![loop.from].at = IF @ = "waiting" THEN "on" ELSE @]
  /\ UNCHANGED <<account, row, gc, backlog, shown, life>>

\* The view of a tick.
Tick ==
  /\ loop = Idle
  /\ SendView
  /\ UNCHANGED <<account, row, loop, gc, session, backlog, shown, life>>

-----------------------------------------------------------------------------
(* Time, the GC, and crashes.                                              *)

\* Thirty seconds pass; a command under way may well take them.
Expire(k) ==
  /\ row[k].age = "live"
  /\ row' = [row EXCEPT ![k].age = "expired"]
  /\ UNCHANGED <<account, loop, gc, session, backlog, due, shown, life>>

\* gc_expired: SELECT, with one `now` for both statements;
GcSelect ==
  LET old == {k \in Keys : row[k].age = "expired"} IN
  /\ gc.at = "idle"
  /\ old # {}
  /\ gc' = [at |-> "delete", keys |-> old]
  /\ row' = [k \in Keys |-> IF k \in old THEN [row[k] EXCEPT !.age = "selected"] ELSE row[k]]
  /\ UNCHANGED <<account, loop, session, backlog, due, shown, life>>

\* Mutant: the keys selected, whatever row they have by now.
GcDeleteByKey ==
  /\ gc.at = "delete"
  /\ row' = [k \in Keys |-> IF k \in gc.keys THEN NoRow ELSE row[k]]
  /\ gc' = [gc EXCEPT !.at = "unlock"]
  /\ UNCHANGED <<account, loop, session, backlog, due, shown, life>>

\* Mutant: the selected rows stay.
GcDeleteNothing ==
  /\ gc.at = "delete"
  /\ gc' = [gc EXCEPT !.at = "unlock"]
  /\ UNCHANGED <<account, row, loop, session, backlog, due, shown, life>>

\* DELETE: a row put in since has a later expires_at;
GcDelete ==
  /\ gc.at = "delete"
  /\ row' = [k \in Keys |-> IF row[k].age = "selected" THEN NoRow ELSE row[k]]
  /\ gc' = [gc EXCEPT !.at = "unlock"]
  /\ UNCHANGED <<account, loop, session, backlog, due, shown, life>>

\* then an unlock for every key selected.
GcUnlock ==
  /\ gc.at = "unlock"
  /\ IF gc.keys = {} THEN gc' = [gc EXCEPT !.at = "idle"] /\ UNCHANGED backlog
     ELSE \E k \in gc.keys :
            /\ Broadcast([kind |-> "unlocked", key |-> k])
            /\ gc' = [gc EXCEPT !.keys = @ \ {k}]
  /\ UNCHANGED <<account, row, loop, session, due, shown, life>>

\* The process dies; what is not in the database is gone.
Crash ==
  /\ life < MaxCrashes
  /\ life' = life + 1
  /\ loop' = Idle
  /\ gc' = [at |-> "idle", keys |-> {}]
  /\ row' = [k \in Keys |-> IF row[k].age = "selected"
                            THEN [row[k] EXCEPT !.age = "expired"] ELSE row[k]]
  /\ session' = [s \in Sessions |-> Off]
  /\ backlog' = [s \in Viewers |-> <<>>]
  /\ due' = {}
  /\ shown' = [s \in Viewers |-> {}]
  /\ UNCHANGED account

-----------------------------------------------------------------------------
LoopStep == Sweep \/ Insert \/ Act \/ Release \/ Reply
GcStep == GcSelect \/ GcDelete \/ GcUnlock

Next ==
  \/ \E s \in Sessions :
       \/ \E o \in Operators \cup {Env} : Hello(s, o)
       \/ Disconnect(s)
       \/ \E k \in Keys : StartLocked(s, k)
       \/ \E o \in Operators, r \in Roles : SetRole(s, o, r)
  \/ \E s \in Viewers : NoticeView(s) \/ SendSnapshot(s) \/ TakeFrame(s)
  \/ LoopStep
  \/ Tick
  \/ \E k \in Keys : Expire(k)
  \/ GcStep
  \/ Crash

Spec == Init /\ [][Next]_vars

\* The loop and the GC run on; thirty seconds pass.
FairSpec ==
  /\ Spec
  /\ WF_vars(LoopStep)
  /\ WF_vars(GcStep)
  /\ \A k \in Keys : WF_vars(Expire(k))

-----------------------------------------------------------------------------
(* Properties.                                                             *)

Quiet(s) ==
  /\ loop = Idle /\ gc.at = "idle"
  /\ session[s].at = "on" /\ s \notin due /\ backlog[s] = <<>>

\* Left alone, a browser disables what is locked and nothing else, though its
\* snapshots and its frames come by different ways, a sweep, a cascade and a crash
\* unlock without a frame, and the GC's unlock may come after the next lock.
ShowsTheLocks == \A s \in Viewers : Quiet(s) => Live \subseteq shown[s] /\ shown[s] \subseteq Held

\* A lock ends with its command, with its operator, or with its time: "it doesn't
\* interfere with live locks held by others".
NoLiveLockSwept ==
  [][\A k \in Live : row'[k].age = "none" =>
       \/ At("release") /\ loop.key = k /\ loop.by = row[k].by
       \/ At("act") /\ loop.key = [kind |-> "revoke", of |-> row[k].by]]_vars

\* The loop is one: "locked_by" is said only of a lock that a crash left.
BouncesOffACrash == At("bounce") => row[loop.key].life < life

\* cannot_revoke_self, and the lock's foreign key, which stops whoever was revoked
\* meanwhile: the last account is never revoked.
SomeoneRemains == \E o \in Operators : account[o] # "none"

\* "so a stuck operator doesn't wedge the lock past TTL": what a crash left goes,
\* and again and again no lock at all is held.
LocksEnd == Held # {} ~> Held = {}
=============================================================================
