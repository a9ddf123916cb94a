------------------------------ MODULE Presence ------------------------------
(***************************************************************************)
(* Who is at a console: presence.rs, the presence steps of handle_console  *)
(* in http.rs, and the presence GC of loop_.rs.  The registry is in memory *)
(* behind a lock; who changes it reads it again, under the lock once more, *)
(* and sends what was read to every console, so that three steps of one    *)
(* task may have steps of every other between them.                        *)
(***************************************************************************)
EXTENDS Integers, Sequences, FiniteSets

CONSTANTS
  Sessions,    \* console connections: browser tabs
  Operators,
  Startups,    \* what a console may be focused on
  GC,          \* the task that drops what was not heard of for PRESENCE_TTL_SECS
  MaxBacklog   \* capacity of the broadcast channel (4096 in main.rs)

ASSUME PresenceAssumption ==
  /\ GC \notin Sessions
  /\ MaxBacklog \in Nat \ {0}

Nowhere == "nowhere"   \* focused_startup_id: None

\* A console that is closed, and one whose task has still its last list to send.
Off == [at |-> "off", op |-> "nobody"]
Leaving == [at |-> "leaving", op |-> "nobody"]

VARIABLES
  registry,  \* PresenceRegistry; how old an entry is is left to Collect
  session,   \* how far a console's task is, and whose it is
  sending,   \* per task: nothing, the registry to be read, or what was read
  backlog,   \* broadcast frames a console has still to take
  shown      \* the browser's presence list

vars == <<registry, session, sending, backlog, shown>>

Focuses == Startups \cup {Nowhere}

\* The operators there are, with their focus: the registry, and what is read of it.
Lists == [Operators -> Focuses \cup {"absent"}]
Blank == [o \in Operators |-> "absent"]
Lagged == [lag |-> TRUE, list |-> Blank]

Tasks == Sessions \cup {GC}
Nothing == [at |-> "nothing", list |-> Blank]
ToRead == [at |-> "read", list |-> Blank]

TypeOK ==
  /\ registry \in Lists
  /\ session \in [Sessions -> [at : {"joining", "on"}, op : Operators] \cup {Off, Leaving}]
  /\ sending \in [Tasks -> [at : {"nothing", "read", "send"}, list : Lists]]
  /\ backlog \in [Sessions -> Seq([lag : BOOLEAN, list : Lists])]
  /\ shown \in [Sessions -> Lists]

Init ==
  /\ registry = Blank
  /\ session = [s \in Sessions |-> Off]
  /\ sending = [t \in Tasks |-> Nothing]
  /\ backlog = [s \in Sessions |-> <<>>]
  /\ shown = [s \in Sessions |-> Blank]

Present(o) == registry[o] # "absent"
AtConsole(s) == session[s].at \in {"joining", "on"}   \* and subscribed

-----------------------------------------------------------------------------
(* Telling everyone.                                                       *)

\* snapshot: the registry's read lock.
ReadRegistry(t) ==
  /\ sending[t].at = "read"
  /\ sending' = [sending EXCEPT ![t] = [at |-> "send", list |-> registry]]
  /\ UNCHANGED <<registry, session, backlog, shown>>

\* Where a task goes on that has sent its first list, or its last.
Sent(c) ==
  IF c.at = "joining" THEN [c EXCEPT !.at = "on"] ELSE IF c.at = "leaving" THEN Off ELSE c

\* event_tx.send: to every subscriber; one that is MaxBacklog behind has lagged.
Send(t) ==
  /\ sending[t].at = "send"
  /\ sending' = [sending EXCEPT ![t] = Nothing]
  /\ backlog' = [s \in Sessions |->
                   IF ~AtConsole(s) THEN <<>>
                   ELSE IF Len(backlog[s]) < MaxBacklog
                        THEN Append(backlog[s], [lag |-> FALSE, list |-> sending[t].list])
                        ELSE <<Lagged>>]
  /\ session' = [s \in Sessions |-> IF s = t THEN Sent(session[s]) ELSE session[s]]
  /\ UNCHANGED <<registry, shown>>

-----------------------------------------------------------------------------
(* A console.                                                              *)

\* presence::upsert; whether it calls for a broadcast.
Put(o, f) == registry' = [registry EXCEPT ![o] = f]

Changes(o, f) == registry[o] # f

\* Mutant: a broadcast where an upsert calls for one.
JoinQuietly(s, o) ==
  /\ session[s].at = "off"
  /\ Put(o, Nowhere)
  /\ session' = [session EXCEPT ![s] =
       [at |-> IF Changes(o, Nowhere) THEN "joining" ELSE "on", op |-> o]]
  /\ sending' = [sending EXCEPT ![s] = IF Changes(o, Nowhere) THEN ToRead ELSE Nothing]
  /\ backlog' = [backlog EXCEPT ![s] = <<>>]
  /\ shown' = [shown EXCEPT ![s] = Blank]

\* handle_console subscribes, upserts, and always broadcasts.  What the browser still
\* shows of its last connection counts for nothing: this first list replaces it.
Join(s, o) ==
  /\ session[s].at = "off"
  /\ Put(o, Nowhere)
  /\ session' = [session EXCEPT ![s] = [at |-> "joining", op |-> o]]
  /\ sending' = [sending EXCEPT ![s] = ToRead]
  /\ backlog' = [backlog EXCEPT ![s] = <<>>]
  /\ shown' = [shown EXCEPT ![s] = Blank]

\* The select! loop runs when nothing is being sent.
Listening(s) == session[s].at = "on" /\ sending[s].at = "nothing"

Heartbeat(s, f) ==
  LET o == session[s].op IN
  /\ Listening(s)
  /\ Put(o, f)
  /\ sending' = [sending EXCEPT ![s] = IF Changes(o, f) THEN ToRead ELSE Nothing]
  /\ UNCHANGED <<session, backlog, shown>>

\* Mutant: the entry is left to the GC.
LeaveEntry(s) ==
  /\ session' = [session EXCEPT ![s] = Off]
  /\ backlog' = [backlog EXCEPT ![s] = <<>>]
  /\ shown' = [shown EXCEPT ![s] = Blank]
  /\ UNCHANGED <<registry, sending>>

\* The loop is left: the operator is dropped, from however many tabs.
Leave(s) ==
  LET o == session[s].op IN
  /\ registry' = [registry EXCEPT ![o] = "absent"]
  /\ IF Present(o)
     THEN /\ session' = [session EXCEPT ![s] = Leaving]
          /\ sending' = [sending EXCEPT ![s] = ToRead]
     ELSE /\ session' = [session EXCEPT ![s] = Off]
          /\ UNCHANGED sending
  /\ backlog' = [backlog EXCEPT ![s] = <<>>]
  /\ shown' = [shown EXCEPT ![s] = Blank]

Disconnect(s) ==
  /\ Listening(s)
  /\ Leave(s)

\* event_rx.recv; Lagged closes the socket.
TakeFrame(s) ==
  /\ Listening(s)
  /\ backlog[s] # <<>>
  /\ IF Head(backlog[s]).lag THEN Leave(s)
     ELSE /\ shown' = [shown EXCEPT ![s] = Head(backlog[s]).list]
          /\ backlog' = [backlog EXCEPT ![s] = Tail(@)]
          /\ UNCHANGED <<registry, session, sending>>

-----------------------------------------------------------------------------
(* The GC drops whoever was not heard of for ninety seconds.               *)

Collect ==
  /\ sending[GC].at = "nothing"
  /\ \E old \in SUBSET {o \in Operators : Present(o)} \ {{}} :
       registry' = [o \in Operators |-> IF o \in old THEN "absent" ELSE registry[o]]
  /\ sending' = [sending EXCEPT ![GC] = ToRead]
  /\ UNCHANGED <<session, backlog, shown>>

-----------------------------------------------------------------------------
Next ==
  \/ \E t \in Tasks : ReadRegistry(t) \/ Send(t)
  \/ \E s \in Sessions :
       \/ \E o \in Operators : Join(s, o)
       \/ \E f \in Focuses : Heartbeat(s, f)
       \/ Disconnect(s) \/ TakeFrame(s)
  \/ Collect

Spec == Init /\ [][Next]_vars

-----------------------------------------------------------------------------
(* Properties.                                                             *)

\* A list is sent to all or to none, and everyone is sent one after he subscribes:
\* whoever has read all his frames shows what all the others show.
Settled(s) == session[s].at = "on" /\ backlog[s] = <<>>
SameList == \A s, t \in Sessions : Settled(s) /\ Settled(t) => shown[s] = shown[t]

\* An operator in the registry has a console open; the GC is not what drops him.
NoGhosts == \A o \in Operators :
  Present(o) => \E s \in Sessions : AtConsole(s) /\ session[s].op = o
=============================================================================
