------------------------------- MODULE Skills -------------------------------
(***************************************************************************)
(* Skills: skills.rs, its callers in mcp_dispatch.rs and cmd_console.rs,   *)
(* and what a console makes of the frames (store.ts).  Agents' and         *)
(* operators' commands go through the world loop, one whole command at a   *)
(* time; a console that connects reads the tables beside the loop.         *)
(*                                                                         *)
(* Names, sizes and roles that are refused change nothing and are left     *)
(* out.  A file is its name: what is in it only the worker reads.          *)
(***************************************************************************)
EXTENDS Integers, SequencesExt

CONSTANTS
  Startups, Agents,
  StartupOf,     \* agents.startup_id
  Ids,           \* uuids: none is given twice
  Names, Contents, FileNames,
  Consoles,
  Authoring,     \* bound: startups in which skills are written
  MaxRevisions,  \* bound: revisions of a skill
  MaxBacklog     \* capacity of the broadcast channel (4096 in main.rs)

ASSUME SkillsAssumption ==
  /\ Authoring \subseteq Startups
  /\ StartupOf \in [Agents -> Startups]
  /\ MaxRevisions \in Nat \ {0}
  /\ MaxBacklog \in Nat \ {0}

VARIABLES
  skill,      \* skills, with the names in skill_files
  revisions,  \* skill_revisions: rev_seq is the place
  attached,   \* agent_skills
  born,       \* ids that were given
  unlogged,   \* history: skills whose last writing could not be logged
  console,    \* a console's task: what is left to read for its snapshot
  frames,     \* SkillChanged frames it has still to take
  shown,      \* the browser's skills: whom each is attached to
  cache       \* the browser's skillRevisions

tables  == <<skill, revisions, attached, born, unlogged>>
browser == <<shown, cache>>
vars    == <<tables, console, frames, browser>>

None == [id \in {} |-> {}]
With(f, id, v) == [i \in DOMAIN f \cup {id} |-> IF i = id THEN v ELSE f[i]]
Without(f, id) == Restrict(f, DOMAIN f \ {id})
IsPartial(f, S, T) == DOMAIN f \subseteq S /\ f \in [DOMAIN f -> T]

Row == [startup : Startups, name : Names, md : Contents,
        global : BOOLEAN, files : SUBSET FileNames]
Live == DOMAIN skill
AttachedTo(id) == {a \in Agents : <<a, id>> \in attached}

\* How a console stands: closed, or hydrating, or with nothing left to read.
Off == [on |-> FALSE, startups |-> {}, ids |-> {}]
Listening(c) == console[c].on /\ console[c].startups = {} /\ console[c].ids = {}

\* An agent's upsert comes with the row, an operator's and a revert without; the
\* browser has no use for other kinds.
Kinds == {"row", "edit", "attach", "detach", "delete", "other"}
Frame(kind, id, agents) == [kind |-> kind, id |-> id, agents |-> agents]

TypeOK ==
  /\ IsPartial(skill, Ids, Row)
  /\ revisions \in [Live -> Seq(Contents)]
  /\ attached \subseteq {p \in Agents \X Live : StartupOf[p[1]] = skill[p[2]].startup}
  /\ born \subseteq Ids /\ unlogged \subseteq Live /\ Live \subseteq born
  /\ console \in [Consoles -> [on : BOOLEAN, startups : SUBSET Startups, ids : SUBSET Ids]]
  /\ frames \in [Consoles -> Seq([kind : Kinds, id : Ids, agents : SUBSET Agents])]
  /\ DOMAIN shown = Consoles /\ DOMAIN cache = Consoles
  /\ \A c \in Consoles : /\ IsPartial(shown[c], Ids, SUBSET Agents)
                        /\ IsPartial(cache[c], Ids, Seq(Contents))

Init ==
  /\ skill = None /\ revisions = None
  /\ attached = {} /\ born = {} /\ unlogged = {}
  /\ console = [c \in Consoles |-> Off]
  /\ frames = [c \in Consoles |-> <<>>]
  /\ shown = [c \in Consoles |-> None]
  /\ cache = [c \in Consoles |-> None]

-----------------------------------------------------------------------------
(* Commands.                                                               *)

\* Mutant: the task subscribes when its snapshot has been read.
BroadcastAfterHydration(f) ==
  LET lags == {c \in Consoles : Listening(c) /\ Len(frames[c]) = MaxBacklog} IN
  /\ console' = [c \in Consoles |-> IF c \in lags THEN Off ELSE console[c]]
  /\ frames' = [c \in Consoles |->
                  IF Listening(c) /\ c \notin lags THEN Append(frames[c], f) ELSE <<>>]
  /\ UNCHANGED browser

\* event_tx.send.  A console that is MaxBacklog behind has lagged: its next
\* recv closes the socket, whatever it had still to take.
Broadcast(f) ==
  LET lags == {c \in Consoles : console[c].on /\ Len(frames[c]) = MaxBacklog} IN
  /\ console' = [c \in Consoles |-> IF c \in lags THEN Off ELSE console[c]]
  /\ frames' = [c \in Consoles |->
                  IF console[c].on /\ c \notin lags THEN Append(frames[c], f) ELSE <<>>]
  /\ UNCHANGED browser

\* Who writes: an agent, an operator with a row in `operators`, or one without
\* (op_env, and whoever was revoked with his console open), whose name the foreign
\* key of skill_revisions does not accept.
Authors == {"agent", "operator", "rowless"}

\* append_revision; its failure is only logged.
AppendRevision(id, md, author) ==
  IF author = "rowless"
  THEN unlogged' = unlogged \cup {id} /\ UNCHANGED revisions
  ELSE /\ Len(revisions[id]) < MaxRevisions
       /\ revisions' = [revisions EXCEPT ![id] = Append(@, md)]
       /\ unlogged' = unlogged \ {id}

\* upsert_with_author, where the startup has a skill of this name ...
Update(id, md, author) ==
  /\ skill' = [skill EXCEPT ![id].md = md]
  /\ AppendRevision(id, md, author)
  /\ Broadcast(IF author = "agent" THEN Frame("row", id, AttachedTo(id))
                                   ELSE Frame("edit", id, {}))
  /\ UNCHANGED <<attached, born>>

\* ... and where it has none.
Insert(id, s, n, md, author) ==
  /\ \A j \in Live : skill[j].startup # s \/ skill[j].name # n
  /\ id \in Ids \ born
  /\ born' = born \cup {id}
  /\ skill' = With(skill, id, [startup |-> s, name |-> n, md |-> md, global |-> FALSE, files |-> {}])
  /\ revisions' = With(revisions, id, IF author = "rowless" THEN <<>> ELSE <<md>>)
  /\ unlogged' = IF author = "rowless" THEN unlogged \cup {id} ELSE unlogged
  /\ Broadcast(IF author = "agent" THEN Frame("row", id, {}) ELSE Frame("edit", id, {}))
  /\ UNCHANGED attached

\* Mutant: the history goes back, too.
RevertRewinds(id, n, author) ==
  /\ skill' = [skill EXCEPT ![id].md = revisions[id][n]]
  /\ revisions' = [revisions EXCEPT ![id] = SubSeq(@, 1, n)]
  /\ unlogged' = unlogged \ {id}
  /\ Broadcast(Frame("edit", id, {}))
  /\ UNCHANGED <<attached, born>>

\* Mutant: no new revision.
RevertUnlogged(id, n, author) ==
  /\ skill' = [skill EXCEPT ![id].md = revisions[id][n]]
  /\ Broadcast(Frame("edit", id, {}))
  /\ UNCHANGED <<revisions, unlogged, attached, born>>

\* revert_to_revision.
Revert(id, n, author) ==
  /\ skill' = [skill EXCEPT ![id].md = revisions[id][n]]
  /\ AppendRevision(id, revisions[id][n], author)
  /\ Broadcast(Frame("edit", id, {}))
  /\ UNCHANGED <<attached, born>>

Attach(a, id) ==
  /\ StartupOf[a] = skill[id].startup
  /\ attached' = attached \cup {<<a, id>>}
  /\ Broadcast(Frame("attach", id, {a}))
  /\ UNCHANGED <<skill, revisions, born, unlogged>>

Detach(a, id) ==
  /\ StartupOf[a] = skill[id].startup
  /\ attached' = attached \ {<<a, id>>}
  /\ Broadcast(Frame("detach", id, {a}))
  /\ UNCHANGED <<skill, revisions, born, unlogged>>

\* Mutant: no ON DELETE CASCADE.
DeleteRowOnly(id) ==
  /\ skill' = Without(skill, id)
  /\ Broadcast(Frame("delete", id, {}))
  /\ UNCHANGED <<revisions, attached, born, unlogged>>

\* The row, and by cascade its attachments, files and revisions.
Delete(id) ==
  /\ skill' = Without(skill, id)
  /\ revisions' = Without(revisions, id)
  /\ attached' = {p \in attached : p[2] # id}
  /\ unlogged' = unlogged \ {id}
  /\ Broadcast(Frame("delete", id, {}))
  /\ UNCHANGED born

SetGlobal(id) ==
  /\ \E g \in BOOLEAN : skill' = [skill EXCEPT ![id].global = g]
  /\ Broadcast(Frame("other", id, {}))
  /\ UNCHANGED <<revisions, attached, born, unlogged>>

\* upsert_file and delete_file.
ChangeFiles(id) ==
  /\ \/ \E f \in FileNames : skill' = [skill EXCEPT ![id].files = @ \cup {f}]
     \/ \E f \in skill[id].files : skill' = [skill EXCEPT ![id].files = @ \ {f}]
  /\ Broadcast(Frame("other", id, {}))
  /\ UNCHANGED <<revisions, attached, born, unlogged>>

Command ==
  \/ \E id \in Ids, s \in Authoring, n \in Names, md \in Contents, w \in Authors :
       Insert(id, s, n, md, w)
  \/ \E id \in Live :
       \/ \E w \in Authors :
            \/ \E md \in Contents : Update(id, md, w)
            \/ \E n \in 1..Len(revisions[id]) : Revert(id, n, w)
       \/ \E a \in Agents : Attach(a, id) \/ Detach(a, id)
       \/ Delete(id) \/ SetGlobal(id) \/ ChangeFiles(id)

-----------------------------------------------------------------------------
(* A console.                                                              *)

\* The task subscribes, then reads which startups have skills.  The snapshot will
\* replace what the browser shows; what it cached it keeps, unless it is reloaded.
Connect(c) ==
  /\ ~console[c].on
  /\ console' = [console EXCEPT ![c] =
       [on |-> TRUE, startups |-> {skill[id].startup : id \in Live}, ids |-> {}]]
  /\ shown' = [shown EXCEPT ![c] = None]
  /\ \E kept \in {cache[c], None} : cache' = [cache EXCEPT ![c] = kept]
  /\ UNCHANGED <<tables, frames>>

\* list_with_attachments: the startup's rows, then the attachments of each.
HydrateRows(c, s) ==
  /\ console[c].ids = {}
  /\ s \in console[c].startups
  /\ console' = [console EXCEPT ![c].startups = @ \ {s},
                                ![c].ids = {id \in Live : skill[id].startup = s}]
  /\ UNCHANGED <<tables, frames, browser>>

HydrateAttachments(c, id) ==
  /\ id \in console[c].ids
  /\ console' = [console EXCEPT ![c].ids = @ \ {id}]
  /\ shown' = [shown EXCEPT ![c] = With(@, id, AttachedTo(id))]
  /\ UNCHANGED <<tables, frames, cache>>

\* skill_changed in the browser's reducer: whom each skill is attached to.
Applied(f, view) ==
  LET knows == f.id \in DOMAIN view
  IN  CASE f.kind = "row" -> With(view, f.id, f.agents)
        [] f.kind = "delete" -> Without(view, f.id)
        [] f.kind = "attach" /\ knows -> [view EXCEPT ![f.id] = @ \cup f.agents]
        [] f.kind = "detach" /\ knows -> [view EXCEPT ![f.id] = @ \ f.agents]
        [] OTHER -> view

TakeFrame(c) ==
  LET f == Head(frames[c]) IN
  /\ Listening(c)
  /\ frames[c] # <<>>
  /\ frames' = [frames EXCEPT ![c] = Tail(@)]
  /\ shown' = [shown EXCEPT ![c] = Applied(f, @)]
  /\ cache' = [cache EXCEPT ![c] = IF f.kind \in {"row", "edit", "delete"} THEN Without(@, f.id) ELSE @]
  /\ UNCHANGED <<tables, console>>

\* SkillListRevisionsOperator, which the task waits for, and its answer.
AskHistory(c, id) ==
  /\ Listening(c)
  /\ cache' = [cache EXCEPT ![c] = With(@, id, revisions[id])]
  /\ UNCHANGED <<tables, console, frames, shown>>

Disconnect(c) ==
  /\ Listening(c)
  /\ console' = [console EXCEPT ![c] = Off]
  /\ frames' = [frames EXCEPT ![c] = <<>>]
  /\ UNCHANGED <<tables, browser>>

Console(c) ==
  \/ Connect(c) \/ TakeFrame(c) \/ Disconnect(c)
  \/ \E s \in Startups : HydrateRows(c, s)
  \/ \E id \in Ids : HydrateAttachments(c, id)
  \/ \E id \in Live : AskHistory(c, id)

Next == Command \/ \E c \in Consoles : Console(c)

Spec == Init /\ [][Next]_vars

-----------------------------------------------------------------------------
(* Properties.                                                             *)

\* The newest revision is what is live, unless that could not be logged.
NewestIsLive ==
  \A id \in Live \ unlogged :
    revisions[id] # <<>> /\ Last(revisions[id]) = skill[id].md

\* "Frontend hydrates a skills slice from snapshot + applies broadcasts": who has
\* taken all his frames shows no skill that is gone, and each with its attachments,
\* although the snapshot was read piecemeal beside the loop.
ShowsAttachments ==
  \A c \in Consoles : Listening(c) /\ frames[c] = <<>> =>
    \A id \in DOMAIN shown[c] : id \in Live /\ shown[c][id] = AttachedTo(id)

\* A browser may show an old history (it keeps it when it reconnects), but never a
\* wrong one: a revert to rev_seq n restores what the operator saw as n.
CacheIsHistory ==
  \A c \in Consoles : \A id \in DOMAIN cache[c] \cap Live :
    IsPrefix(cache[c][id], revisions[id])
=============================================================================
