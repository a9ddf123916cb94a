---------------------------- MODULE SkillsProofs ----------------------------
(***************************************************************************)
(* Types, and the three invariants of Skills, for any number of startups,  *)
(* agents, skills and consoles and any capacity of the broadcast channel.  *)
(***************************************************************************)
EXTENDS Skills, SequenceTheorems, TLAPS

FrameSet == [kind : Kinds, id : Ids, agents : SUBSET Agents]

(* What a console knows of was once there, and a closed one has no frames.     *)
KnownAreBorn ==
  \A c \in Consoles :
    /\ DOMAIN shown[c] \cup DOMAIN cache[c] \cup console[c].ids \subseteq born
    /\ \A i \in DOMAIN frames[c] : frames[c][i].id \in born
    /\ ~console[c].on => frames[c] = <<>>

(* A frame that decides whether a browser shows skill id at agent a, and what  *)
(* it says.                                                                    *)
Decides(f, id, a) ==
  /\ f.id = id
  /\ \/ f.kind = "row"
     \/ f.kind \in {"attach", "detach"} /\ a \in f.agents
Says(f, a) == f.kind # "detach" /\ a \in f.agents

(* Of a live skill, the last frame about an agent says what the table says; if *)
(* there is none, and the skill is shown, the browser does.                    *)
LastWordIsTrue ==
  \A c \in Consoles, id \in Live, a \in Agents : console[c].on =>
    /\ \A i \in DOMAIN frames[c] :
         /\ Decides(frames[c][i], id, a)
         /\ \A j \in DOMAIN frames[c] : j > i => ~Decides(frames[c][j], id, a)
         => (Says(frames[c][i], a) <=> <<a, id>> \in attached)
    /\ /\ id \in DOMAIN shown[c]
       /\ \A j \in DOMAIN frames[c] : ~Decides(frames[c][j], id, a)
       => (a \in shown[c][id] <=> <<a, id>> \in attached)

(* What a browser shows, or will show, of a skill that is gone is followed by  *)
(* the frame that says so; of a live one there is no such frame.               *)
Gone(c, id, i) ==
  /\ i \in DOMAIN frames[c]
  /\ frames[c][i].kind = "delete" /\ frames[c][i].id = id
  /\ \A j \in DOMAIN frames[c] :
       j > i => ~(frames[c][j].kind = "row" /\ frames[c][j].id = id)
ToShow(c) ==
  DOMAIN shown[c] \cup console[c].ids
    \cup {frames[c][i].id : i \in {j \in DOMAIN frames[c] : frames[c][j].kind = "row"}}
DeletesComing ==
  \A c \in Consoles : console[c].on =>
    /\ \A id \in ToShow(c) \ Live : \E i \in DOMAIN frames[c] : Gone(c, id, i)
    /\ \A i \in DOMAIN frames[c] : frames[c][i].kind = "delete" => frames[c][i].id \notin Live

IInv ==
  /\ TypeOK /\ NewestIsLive /\ CacheIsHistory
  /\ KnownAreBorn /\ LastWordIsTrue /\ DeletesComing

-----------------------------------------------------------------------------
(* Functions and sequences.                                                    *)

LEMMA WithType ==
  ASSUME NEW k, NEW v, NEW f, NEW S, NEW T, k \in S, v \in T, IsPartial(f, S, T)
  PROVE  IsPartial(With(f, k, v), S, T)
  BY DEF With, IsPartial

LEMMA WithoutFacts ==
  ASSUME NEW k, NEW f
  PROVE  /\ DOMAIN Without(f, k) = DOMAIN f \ {k}
         /\ \A x \in DOMAIN f : x # k => Without(f, k)[x] = f[x]
  BY DEF Without, Restrict

LEMMA WithoutType ==
  ASSUME NEW k, NEW f, NEW S, NEW T, IsPartial(f, S, T)
  PROVE  IsPartial(Without(f, k), S, T)
  BY DEF Without, Restrict, IsPartial

LEMMA AppendFacts ==
  ASSUME NEW S, NEW q \in Seq(S), NEW e \in S
  PROVE  /\ Append(q, e) \in Seq(S) /\ Append(q, e) # <<>>
         /\ Len(q) \in Nat /\ DOMAIN q = 1..Len(q)
         /\ DOMAIN Append(q, e) = 1..(Len(q) + 1)
         /\ Last(Append(q, e)) = e /\ Append(q, e)[Len(q) + 1] = e
         /\ \A i \in DOMAIN q : Append(q, e)[i] = q[i]
  BY DEF Last

LEMMA TailFacts ==
  ASSUME NEW S, NEW q \in Seq(S), q # <<>>
  PROVE  /\ Head(q) = q[1] /\ q[1] \in S
         /\ Tail(q) \in Seq(S)
         /\ Len(q) \in Nat \ {0} /\ DOMAIN q = 1..Len(q)
         /\ DOMAIN Tail(q) = 1..(Len(q) - 1)
         /\ \A i \in 1..(Len(q) - 1) : Tail(q)[i] = q[i + 1]
  OBVIOUS

LEMMA PrefixDef ==
  ASSUME NEW S, NEW s \in Seq(S), NEW t \in Seq(S)
  PROVE  IsPrefix(s, t) <=> Len(s) <= Len(t) /\ \A i \in 1..Len(s) : s[i] = t[i]
  BY DEF IsPrefix

LEMMA PrefixFacts ==
  ASSUME NEW S, NEW s \in Seq(S), NEW t \in Seq(S)
  PROVE  /\ IsPrefix(s, s)
         /\ \A e \in S : IsPrefix(s, Append(s, e))
         /\ \A u \in Seq(S) : IsPrefix(s, t) /\ IsPrefix(t, u) => IsPrefix(s, u)
<1>1. IsPrefix(s, s)
  BY PrefixDef
<1>2. ASSUME NEW e \in S PROVE IsPrefix(s, Append(s, e))
  <2>1. /\ Append(s, e) \in Seq(S) /\ Len(s) \in Nat /\ Len(Append(s, e)) = Len(s) + 1
        /\ \A i \in 1..Len(s) : Append(s, e)[i] = s[i]
    BY <1>2, AppendProperties, LenProperties
  <2>2. IsPrefix(s, Append(s, e)) <=>
          Len(s) <= Len(Append(s, e)) /\ \A i \in 1..Len(s) : s[i] = Append(s, e)[i]
    BY <2>1, PrefixDef
  <2>3. QED
    BY <2>1, <2>2
<1>3. ASSUME NEW u \in Seq(S), IsPrefix(s, t), IsPrefix(t, u) PROVE IsPrefix(s, u)
  <2>1. Len(s) <= Len(t) /\ \A i \in 1..Len(s) : s[i] = t[i]
    BY <1>3, PrefixDef
  <2>2. Len(t) <= Len(u) /\ \A i \in 1..Len(t) : t[i] = u[i]
    BY <1>3, PrefixDef
  <2>3. QED
    BY <2>1, <2>2, PrefixDef
<1>4. QED
  BY <1>1, <1>2, <1>3

-----------------------------------------------------------------------------
(* Commands: what they make of the tables, and whom they tell.                 *)

TablesOK ==
  /\ IsPartial(skill, Ids, Row)
  /\ revisions \in [Live -> Seq(Contents)]
  /\ attached \subseteq {p \in Agents \X Live : StartupOf[p[1]] = skill[p[2]].startup}
  /\ born \subseteq Ids /\ unlogged \subseteq Live /\ Live \subseteq born

ConsolesOK ==
  /\ console \in [Consoles -> [on : BOOLEAN, startups : SUBSET Startups, ids : SUBSET Ids]]
  /\ frames \in [Consoles -> Seq(FrameSet)]
  /\ DOMAIN shown = Consoles /\ DOMAIN cache = Consoles
  /\ \A c \in Consoles : /\ IsPartial(shown[c], Ids, SUBSET Agents)
                        /\ IsPartial(cache[c], Ids, Seq(Contents))

LEMMA TypeParts == TypeOK <=> TablesOK /\ ConsolesOK
  BY DEF TypeOK, TablesOK, ConsolesOK, FrameSet

(* The frame says all that a command did to attachments and existence, ids are *)
(* not used again, and histories only grow.                                    *)
Told(f) ==
  /\ f \in FrameSet
  /\ born \subseteq born' /\ f.id \in born'
  /\ \A id \in Live' \cap born : id \in Live /\ IsPrefix(revisions[id], revisions'[id])
  /\ \A id \in Live \ Live' : f.kind = "delete" /\ f.id = id
  /\ f.kind = "delete" => f.id \notin Live'
  /\ f.kind = "row" => f.id \in Live'
  /\ \A id \in Live', a \in Agents :
       IF Decides(f, id, a) THEN Says(f, a) <=> <<a, id>> \in attached'
       ELSE id \in Live => (<<a, id>> \in attached' <=> <<a, id>> \in attached)

Tells(f) == Told(f) /\ Broadcast(f) /\ TablesOK' /\ NewestIsLive'

LEMMA FrameType ==
  ASSUME NEW k \in Kinds, NEW id \in Ids, NEW as \in SUBSET Agents
  PROVE  /\ Frame(k, id, as) \in FrameSet
         /\ Frame(k, id, as).kind = k /\ Frame(k, id, as).id = id /\ Frame(k, id, as).agents = as
  BY DEF Frame, FrameSet

LEMMA WriteFacts ==
  ASSUME TablesOK, NewestIsLive,
         NEW id \in Live, NEW md \in Contents, NEW w \in Authors,
         skill' = [skill EXCEPT ![id].md = md],
         AppendRevision(id, md, w), UNCHANGED <<attached, born>>
  PROVE  /\ TablesOK' /\ NewestIsLive' /\ Live' = Live
         /\ \A x \in Live : IsPrefix(revisions[x], revisions'[x])
<1>1. /\ Live' = Live
      /\ \A x \in Live : /\ skill'[x] \in Row /\ skill'[x].startup = skill[x].startup
                         /\ skill'[x].md = IF x = id THEN md ELSE skill[x].md
      /\ IsPartial(skill, Ids, Row)'
  BY DEF TablesOK, IsPartial, Live, Row
<1>2. \A x \in Live : revisions[x] \in Seq(Contents)
  BY DEF TablesOK
<1>3. /\ revisions' \in [Live -> Seq(Contents)]
      /\ \A x \in Live : IsPrefix(revisions[x], revisions'[x])
      /\ unlogged' \subseteq Live
      /\ \A x \in Live \ unlogged' :
           \/ x # id /\ x \notin unlogged /\ revisions'[x] = revisions[x]
           \/ x = id /\ revisions'[x] = Append(revisions[x], md)
  <2>1. CASE w = "rowless"
    BY <2>1, <1>2, PrefixFacts DEF AppendRevision, TablesOK
  <2>2. CASE w # "rowless"
    <3>1. revisions' = [revisions EXCEPT ![id] = Append(revisions[id], md)] /\ unlogged' = unlogged \ {id}
      BY <2>2 DEF AppendRevision
    <3>2. Append(revisions[id], md) \in Seq(Contents) /\ IsPrefix(revisions[id], Append(revisions[id], md))
      BY <1>2, PrefixFacts, AppendFacts
    <3>3. revisions' \in [Live -> Seq(Contents)] /\ revisions'[id] = Append(revisions[id], md)
      BY <3>1, <3>2 DEF TablesOK
    <3>4. \A x \in Live : x # id => revisions'[x] = revisions[x]
      BY <3>1 DEF TablesOK
    <3>5. QED
      BY <3>1, <3>2, <3>3, <3>4, <1>2, PrefixFacts DEF TablesOK
  <2>3. QED
    BY <2>1, <2>2
<1>4. TablesOK'
  BY <1>1, <1>3 DEF TablesOK
<1>5. NewestIsLive'
  <2>1. SUFFICES ASSUME NEW x \in Live \ unlogged'
                 PROVE  revisions'[x] # <<>> /\ Last(revisions'[x]) = skill'[x].md
    BY <1>1 DEF NewestIsLive
  <2>2. CASE x # id
    BY <2>1, <2>2, <1>1, <1>3 DEF NewestIsLive
  <2>3. CASE x = id
    <3>1. revisions'[x] = Append(revisions[id], md) /\ skill'[x].md = md
      BY <2>1, <2>3, <1>1, <1>3
    <3>2. Append(revisions[id], md) # <<>> /\ Last(Append(revisions[id], md)) = md
      BY <1>2, AppendFacts
    <3>3. QED
      BY <3>1, <3>2
  <2>4. QED
    BY <2>2, <2>3
<1>6. QED
  BY <1>1, <1>3, <1>4, <1>5

(* A command that leaves attachments and existence alone, and says nothing of  *)
(* them, or the whole.                                                         *)
LEMMA QuietTells ==
  ASSUME TablesOK, Live' = Live, UNCHANGED <<attached, born>>,
         \A x \in Live : IsPrefix(revisions[x], revisions'[x]),
         NEW id \in Live, NEW f \in FrameSet, f.id = id,
         \/ f.kind \in {"edit", "other"}
         \/ f.kind = "row" /\ f.agents = AttachedTo(id)
  PROVE  Told(f)
<1>1. id \in born /\ Live \subseteq born
  BY DEF TablesOK
<1>2. ASSUME NEW x \in Live, NEW a \in Agents, Decides(f, x, a)
      PROVE  Says(f, a) <=> <<a, x>> \in attached'
  BY <1>2 DEF Decides, Says, AttachedTo
<1>3. QED
  BY <1>1, <1>2 DEF Told

LEMMA UpdateTells ==
  ASSUME IInv, NEW id \in Live, NEW md \in Contents, NEW w \in Authors, Update(id, md, w)
  PROVE  \E f : Tells(f)
<1>1. TablesOK /\ NewestIsLive /\ id \in Ids
  BY TypeParts DEF IInv, TablesOK, IsPartial, Live
<1>2. /\ TablesOK' /\ NewestIsLive' /\ Live' = Live
      /\ \A x \in Live : IsPrefix(revisions[x], revisions'[x])
      /\ UNCHANGED <<attached, born>>
  BY <1>1, WriteFacts DEF Update
<1>3. CASE w = "agent"
  <2>1. DEFINE f == Frame("row", id, AttachedTo(id))
  <2>2. f \in FrameSet /\ f.kind = "row" /\ f.id = id /\ f.agents = AttachedTo(id)
    <3>1. AttachedTo(id) \in SUBSET Agents /\ "row" \in Kinds
      BY DEF AttachedTo, Kinds
    <3>2. QED
      BY <1>1, <3>1, FrameType
  <2>3. Told(f)
    BY <1>1, <1>2, <2>2, QuietTells
  <2>4. QED
    BY <1>2, <1>3, <2>3 DEF Update, Tells
<1>4. CASE w # "agent"
  <2>1. DEFINE f == Frame("edit", id, {})
  <2>2. f \in FrameSet /\ f.kind = "edit" /\ f.id = id
    BY <1>1, FrameType DEF Kinds
  <2>3. Told(f)
    BY <1>1, <1>2, <2>2, QuietTells
  <2>4. QED
    BY <1>2, <1>4, <2>3 DEF Update, Tells
<1>5. QED
  BY <1>3, <1>4

LEMMA RevertTells ==
  ASSUME IInv, NEW id \in Live, NEW n \in 1..Len(revisions[id]), NEW w \in Authors, Revert(id, n, w)
  PROVE  \E f : Tells(f)
<1>1. TablesOK /\ NewestIsLive /\ id \in Ids /\ revisions[id][n] \in Contents
  BY TypeParts DEF IInv, TablesOK, IsPartial, Live
<1>2. /\ TablesOK' /\ NewestIsLive' /\ Live' = Live
      /\ \A x \in Live : IsPrefix(revisions[x], revisions'[x])
      /\ UNCHANGED <<attached, born>>
  BY <1>1, WriteFacts DEF Revert
<1>3. DEFINE f == Frame("edit", id, {})
<1>4. f \in FrameSet /\ f.kind = "edit" /\ f.id = id
  BY <1>1, FrameType DEF Kinds
<1>5. Told(f)
  BY <1>1, <1>2, <1>4, QuietTells
<1>6. QED
  BY <1>2, <1>5 DEF Revert, Tells

(* The two commands that change a row otherwise, and none of what is checked.  *)
LEMMA OtherTells ==
  ASSUME IInv, NEW id \in Live, SetGlobal(id) \/ ChangeFiles(id)
  PROVE  \E f : Tells(f)
<1>1. TablesOK /\ NewestIsLive /\ id \in Ids
  BY TypeParts DEF IInv, TablesOK, IsPartial, Live
<1>2. /\ Live' = Live /\ IsPartial(skill, Ids, Row)'
      /\ \A x \in Live : skill'[x].startup = skill[x].startup /\ skill'[x].md = skill[x].md
      /\ UNCHANGED <<revisions, attached, born, unlogged>>
  <2>1. CASE SetGlobal(id)
    <3>1. PICK g \in BOOLEAN : skill' = [skill EXCEPT ![id].global = g]
      BY <2>1 DEF SetGlobal
    <3>2. [skill[id] EXCEPT !.global = g] \in Row
      BY <1>1, <3>1 DEF TablesOK, IsPartial, Live, Row
    <3>3. UNCHANGED <<revisions, attached, born, unlogged>>
      BY <2>1 DEF SetGlobal
    <3>4. QED
      BY <1>1, <3>1, <3>2, <3>3 DEF TablesOK, IsPartial, Live
  <2>2. CASE ChangeFiles(id)
    <3>1. PICK fs \in SUBSET FileNames : skill' = [skill EXCEPT ![id].files = fs]
      <4>1. skill[id].files \subseteq FileNames
        BY <1>1 DEF TablesOK, IsPartial, Live, Row
      <4>2. CASE \E g \in FileNames : skill' = [skill EXCEPT ![id].files = @ \cup {g}]
        BY <4>1, <4>2
      <4>3. CASE \E g \in skill[id].files : skill' = [skill EXCEPT ![id].files = @ \ {g}]
        BY <4>1, <4>3
      <4>4. QED
        BY <2>2, <4>2, <4>3 DEF ChangeFiles
    <3>2. [skill[id] EXCEPT !.files = fs] \in Row
      BY <1>1, <3>1 DEF TablesOK, IsPartial, Live, Row
    <3>3. QED
      BY <1>1, <2>2, <3>1, <3>2 DEF ChangeFiles, TablesOK, IsPartial, Live
  <2>3. QED
    BY <2>1, <2>2
<1>3. TablesOK' /\ NewestIsLive'
  BY <1>1, <1>2 DEF TablesOK, NewestIsLive
<1>4. DEFINE f == Frame("other", id, {})
<1>5. f \in FrameSet /\ f.kind = "other" /\ f.id = id
  BY <1>1, FrameType DEF Kinds
<1>6. \A x \in Live : IsPrefix(revisions[x], revisions'[x])
  BY <1>1, <1>2, PrefixFacts DEF TablesOK
<1>7. Told(f)
  BY <1>1, <1>2, <1>5, <1>6, QuietTells
<1>8. QED
  BY <1>3, <1>7 DEF SetGlobal, ChangeFiles, Tells

LEMMA InsertTells ==
  ASSUME IInv, NEW id \in Ids, NEW s \in Authoring, NEW n \in Names, NEW md \in Contents,
         NEW w \in Authors, Insert(id, s, n, md, w)
  PROVE  \E f : Tells(f)
<1> DEFINE row == [startup |-> s, name |-> n, md |-> md, global |-> FALSE, files |-> {}]
           log == IF w = "rowless" THEN <<>> ELSE <<md>>
<1>1. TablesOK /\ NewestIsLive /\ id \notin born /\ id \notin Live
  BY TypeParts DEF IInv, TablesOK, Insert
<1>2. row \in Row /\ log \in Seq(Contents) /\ row.md = md /\ row.startup = s
  BY SkillsAssumption DEF Row
<1>3. /\ skill' = With(skill, id, row) /\ revisions' = With(revisions, id, log)
      /\ born' = born \cup {id} /\ attached' = attached
      /\ unlogged' = IF w = "rowless" THEN unlogged \cup {id} ELSE unlogged
  BY DEF Insert
<1>4. /\ Live' = Live \cup {id}
      /\ IsPartial(skill, Ids, Row)'
      /\ skill'[id] = row
      /\ \A x \in Live : x # id => skill'[x] = skill[x]
  <2>1. /\ DOMAIN With(skill, id, row) = DOMAIN skill \cup {id}
        /\ With(skill, id, row)[id] = row
        /\ \A x \in DOMAIN skill : x # id => With(skill, id, row)[x] = skill[x]
    BY DEF With
  <2>2. IsPartial(With(skill, id, row), Ids, Row)
    BY <1>1, <1>2, WithType DEF TablesOK
  <2>3. QED
    BY <1>3, <2>1, <2>2 DEF Live
<1>5. /\ DOMAIN revisions = Live /\ DOMAIN revisions' = Live \cup {id}
      /\ revisions'[id] = log
      /\ \A x \in Live : x # id => revisions'[x] = revisions[x]
  <2>1. /\ DOMAIN With(revisions, id, log) = DOMAIN revisions \cup {id}
        /\ With(revisions, id, log)[id] = log
        /\ \A x \in DOMAIN revisions : x # id => With(revisions, id, log)[x] = revisions[x]
    BY DEF With
  <2>2. QED
    BY <1>1, <1>3, <2>1 DEF TablesOK
<1>6. revisions' \in [Live' -> Seq(Contents)]
  BY <1>1, <1>2, <1>3, <1>4, <1>5 DEF TablesOK, With
<1>7. attached \subseteq {p \in Agents \X Live' : StartupOf[p[1]] = skill'[p[2]].startup}
  BY <1>1, <1>4 DEF TablesOK
<1>8. TablesOK'
  BY <1>1, <1>3, <1>4, <1>6, <1>7 DEF TablesOK
<1>9. NewestIsLive'
  <2>1. SUFFICES ASSUME NEW x \in Live', x \notin unlogged'
                 PROVE  revisions'[x] # <<>> /\ Last(revisions'[x]) = skill'[x].md
    BY DEF NewestIsLive
  <2>2. CASE x = id
    <3>1. revisions'[x] = <<md>> /\ skill'[x].md = md
      BY <2>1, <2>2, <1>2, <1>3, <1>4, <1>5
    <3>2. QED
      BY <3>1 DEF Last
  <2>3. CASE x # id
    BY <2>1, <2>3, <1>1, <1>3, <1>4, <1>5 DEF NewestIsLive
  <2>4. QED
    BY <2>2, <2>3
<1>10. ASSUME NEW f \in FrameSet, f.id = id, f.kind \in {"row", "edit"}, f.agents = {}
       PROVE  Told(f)
  <2>1. \A x \in Live' \cap born : x \in Live /\ IsPrefix(revisions[x], revisions'[x])
    BY <1>1, <1>4, <1>5, PrefixFacts DEF TablesOK
  <2>2. \A a \in Agents : <<a, id>> \notin attached
    BY <1>1 DEF TablesOK
  <2>3. ASSUME NEW x \in Live', NEW a \in Agents, Decides(f, x, a)
        PROVE  Says(f, a) <=> <<a, x>> \in attached'
    BY <2>2, <2>3, <1>3, <1>10 DEF Decides, Says
  <2>4. QED
    BY <1>1, <1>3, <1>4, <1>10, <2>1, <2>3 DEF Told, TablesOK
<1>11. CASE w = "agent"
  <2>1. DEFINE f == Frame("row", id, {})
  <2>2. f \in FrameSet /\ f.kind = "row" /\ f.id = id /\ f.agents = {}
    BY FrameType DEF Kinds
  <2>3. QED
    BY <2>2, <1>8, <1>9, <1>10, <1>11 DEF Insert, Tells
<1>12. CASE w # "agent"
  <2>1. DEFINE f == Frame("edit", id, {})
  <2>2. f \in FrameSet /\ f.kind = "edit" /\ f.id = id /\ f.agents = {}
    BY FrameType DEF Kinds
  <2>3. QED
    BY <2>2, <1>8, <1>9, <1>10, <1>12 DEF Insert, Tells
<1>13. QED
  BY <1>11, <1>12

LEMMA AttachmentTells ==
  ASSUME IInv, NEW id \in Live, NEW b \in Agents, Attach(b, id) \/ Detach(b, id)
  PROVE  \E f : Tells(f)
<1>1. TablesOK /\ NewestIsLive /\ id \in Ids /\ id \in born
  BY TypeParts DEF IInv, TablesOK, IsPartial, Live
<1>2. /\ UNCHANGED <<skill, revisions, born, unlogged>>
      /\ StartupOf[b] = skill[id].startup
      /\ attached' = attached \cup {<<b, id>>} \/ attached' = attached \ {<<b, id>>}
  BY DEF Attach, Detach
<1>3. Live' = Live /\ TablesOK' /\ NewestIsLive'
  BY <1>1, <1>2 DEF TablesOK, NewestIsLive, Live
<1>4. \A x \in Live : IsPrefix(revisions[x], revisions'[x])
  BY <1>1, <1>2, PrefixFacts DEF TablesOK
<1>5. CASE Attach(b, id)
  <2>1. DEFINE f == Frame("attach", id, {b})
  <2>2. f \in FrameSet /\ f.kind = "attach" /\ f.id = id /\ f.agents = {b}
    BY <1>1, FrameType DEF Kinds
  <2>3. attached' = attached \cup {<<b, id>>} /\ Broadcast(f)
    BY <1>5 DEF Attach
  <2>4. \A x \in Live, a \in Agents :
          IF Decides(f, x, a) THEN Says(f, a) <=> <<a, x>> \in attached'
          ELSE <<a, x>> \in attached' <=> <<a, x>> \in attached
    BY <2>2, <2>3 DEF Decides, Says
  <2>5. Told(f)
    BY <1>1, <1>2, <1>3, <1>4, <2>2, <2>4 DEF Told, TablesOK
  <2>6. QED
    BY <1>3, <2>3, <2>5 DEF Tells
<1>6. CASE Detach(b, id)
  <2>1. DEFINE f == Frame("detach", id, {b})
  <2>2. f \in FrameSet /\ f.kind = "detach" /\ f.id = id /\ f.agents = {b}
    BY <1>1, FrameType DEF Kinds
  <2>3. attached' = attached \ {<<b, id>>} /\ Broadcast(f)
    BY <1>6 DEF Detach
  <2>4. \A x \in Live, a \in Agents :
          IF Decides(f, x, a) THEN Says(f, a) <=> <<a, x>> \in attached'
          ELSE <<a, x>> \in attached' <=> <<a, x>> \in attached
    BY <2>2, <2>3 DEF Decides, Says
  <2>5. Told(f)
    BY <1>1, <1>2, <1>3, <1>4, <2>2, <2>4 DEF Told, TablesOK
  <2>6. QED
    BY <1>3, <2>3, <2>5 DEF Tells
<1>7. QED
  BY <1>5, <1>6

LEMMA DeleteTells ==
  ASSUME IInv, NEW id \in Live, Delete(id)
  PROVE  \E f : Tells(f)
<1>1. TablesOK /\ NewestIsLive /\ id \in Ids /\ id \in born /\ DOMAIN revisions = Live
  BY TypeParts DEF IInv, TablesOK, IsPartial, Live
<1>2. /\ skill' = Without(skill, id) /\ revisions' = Without(revisions, id)
      /\ attached' = {p \in attached : p[2] # id}
      /\ unlogged' = unlogged \ {id} /\ born' = born
      /\ Broadcast(Frame("delete", id, {}))
  BY DEF Delete
<1>3. /\ Live' = Live \ {id} /\ IsPartial(skill, Ids, Row)'
      /\ \A x \in Live' : skill'[x] = skill[x] /\ revisions'[x] = revisions[x]
      /\ DOMAIN revisions' = Live'
  <2>1. /\ DOMAIN Without(skill, id) = DOMAIN skill \ {id}
        /\ \A x \in DOMAIN skill : x # id => Without(skill, id)[x] = skill[x]
    BY WithoutFacts
  <2>2. /\ DOMAIN Without(revisions, id) = DOMAIN revisions \ {id}
        /\ \A x \in DOMAIN revisions : x # id => Without(revisions, id)[x] = revisions[x]
    BY WithoutFacts
  <2>3. IsPartial(Without(skill, id), Ids, Row)
    BY <1>1, WithoutType DEF TablesOK
  <2>4. QED
    BY <1>1, <1>2, <2>1, <2>2, <2>3 DEF Live
<1>4. revisions' \in [Live' -> Seq(Contents)]
  BY <1>1, <1>2, <1>3 DEF TablesOK, Without, Restrict
<1>5. TablesOK' /\ NewestIsLive'
  <2>1. /\ attached' \subseteq {p \in Agents \X Live' : StartupOf[p[1]] = skill'[p[2]].startup}
        /\ unlogged' \subseteq Live' /\ Live' \subseteq born'
    BY <1>1, <1>2, <1>3 DEF TablesOK
  <2>2. TablesOK'
    BY <1>1, <1>2, <1>3, <1>4, <2>1 DEF TablesOK
  <2>3. NewestIsLive'
    BY <1>1, <1>2, <1>3 DEF NewestIsLive
  <2>4. QED
    BY <2>2, <2>3
<1>6. DEFINE f == Frame("delete", id, {})
<1>7. f \in FrameSet /\ f.kind = "delete" /\ f.id = id
  BY <1>1, FrameType DEF Kinds
<1>8. \A x \in Live' : x \in Live /\ IsPrefix(revisions[x], revisions'[x])
  BY <1>1, <1>3, PrefixFacts DEF TablesOK
<1>9. \A x \in Live', a \in Agents :
        ~Decides(f, x, a) /\ (<<a, x>> \in attached' <=> <<a, x>> \in attached)
  BY <1>2, <1>3, <1>7 DEF Decides
<1>10. Told(f)
  BY <1>1, <1>2, <1>3, <1>7, <1>8, <1>9 DEF Told
<1>11. QED
  BY <1>2, <1>5, <1>10 DEF Tells

LEMMA CommandTells ==
  ASSUME IInv, Command
  PROVE  \E f : Tells(f)
  BY UpdateTells, RevertTells, OtherTells, InsertTells, AttachmentTells, DeleteTells
     DEF Command

-----------------------------------------------------------------------------
(* Whatever tells the consoles all that it did keeps the invariant.            *)

Lost(c) == ~console[c].on /\ frames[c] = <<>>

LEMMA Broadcasts ==
  ASSUME ConsolesOK, NEW f \in FrameSet, Broadcast(f)
  PROVE  /\ ConsolesOK' /\ UNCHANGED <<shown, cache>>
         /\ \A c \in Consoles :
              /\ console'[c].ids \subseteq console[c].ids
              /\ \/ Lost(c)'
                 \/ console[c].on /\ console'[c] = console[c]
                    /\ frames'[c] = Append(frames[c], f)
<1> DEFINE lags == {c \in Consoles : console[c].on /\ Len(frames[c]) = MaxBacklog}
<1>1. /\ console' = [c \in Consoles |-> IF c \in lags THEN Off ELSE console[c]]
      /\ frames' = [c \in Consoles |->
                      IF console[c].on /\ c \notin lags THEN Append(frames[c], f) ELSE <<>>]
      /\ UNCHANGED <<shown, cache>>
  BY DEF Broadcast, browser
<1>2. \A c \in Consoles : frames[c] \in Seq(FrameSet) /\ Append(frames[c], f) \in Seq(FrameSet)
  BY AppendFacts DEF ConsolesOK
<1>3. Off \in [on : BOOLEAN, startups : SUBSET Startups, ids : SUBSET Ids]
      /\ ~Off.on /\ Off.ids = {}
  BY DEF Off
<1>4. <<>> \in Seq(FrameSet)
  OBVIOUS
<1> HIDE DEF lags
<1>5. ConsolesOK'
  BY <1>1, <1>2, <1>3, <1>4 DEF ConsolesOK, IsPartial
<1>6. QED
  BY <1>1, <1>3, <1>5 DEF Lost

LEMMA ToldKnown ==
  ASSUME IInv, NEW f, Tells(f)
  PROVE  KnownAreBorn'
<1>1. /\ ConsolesOK /\ f \in FrameSet /\ Broadcast(f)
      /\ born \subseteq born' /\ f.id \in born'
  BY TypeParts DEF IInv, Tells, Told
<1>2. SUFFICES ASSUME NEW c \in Consoles
               PROVE  /\ DOMAIN shown'[c] \cup DOMAIN cache'[c] \cup console'[c].ids \subseteq born'
                      /\ \A i \in DOMAIN frames'[c] : frames'[c][i].id \in born'
                      /\ ~console'[c].on => frames'[c] = <<>>
  BY DEF KnownAreBorn
<1>3. /\ DOMAIN shown[c] \cup DOMAIN cache[c] \cup console[c].ids \subseteq born
      /\ \A i \in DOMAIN frames[c] : frames[c][i].id \in born
  BY DEF IInv, KnownAreBorn
<1>4. /\ UNCHANGED <<shown, cache>> /\ console'[c].ids \subseteq console[c].ids
      /\ \/ Lost(c)'
         \/ console[c].on /\ console'[c] = console[c] /\ frames'[c] = Append(frames[c], f)
  BY <1>1, Broadcasts
<1>5. CASE Lost(c)'
  <2>1. ~console'[c].on /\ frames'[c] = <<>>
    BY <1>5 DEF Lost
  <2>2. DOMAIN <<>> = {}
    OBVIOUS
  <2>3. QED
    BY <1>1, <1>3, <1>4, <2>1, <2>2
<1>6. CASE console[c].on /\ console'[c] = console[c] /\ frames'[c] = Append(frames[c], f)
  <2>1. frames[c] \in Seq(FrameSet)
    BY <1>1 DEF ConsolesOK
  <2>2. /\ DOMAIN frames[c] = 1..Len(frames[c]) /\ Len(frames[c]) \in Nat
        /\ DOMAIN frames'[c] = 1..(Len(frames[c]) + 1)
        /\ frames'[c][Len(frames[c]) + 1] = f
        /\ \A i \in DOMAIN frames[c] : frames'[c][i] = frames[c][i]
    BY <1>1, <1>6, <2>1, AppendFacts
  <2>3. \A i \in DOMAIN frames'[c] : frames'[c][i].id \in born'
    BY <1>1, <1>3, <2>2
  <2>4. QED
    BY <1>1, <1>3, <1>4, <1>6, <2>3
<1>7. QED
  BY <1>4, <1>5, <1>6

LEMMA ToldCache ==
  ASSUME IInv, NEW f, Tells(f)
  PROVE  CacheIsHistory'
<1>1. /\ ConsolesOK /\ TablesOK /\ TablesOK' /\ UNCHANGED cache
      /\ \A id \in Live' \cap born : id \in Live /\ IsPrefix(revisions[id], revisions'[id])
  BY TypeParts, Broadcasts DEF IInv, Tells, Told
<1>2. SUFFICES ASSUME NEW c \in Consoles, NEW id \in DOMAIN cache[c] \cap Live'
               PROVE  IsPrefix(cache[c][id], revisions'[id])
  BY <1>1 DEF CacheIsHistory
<1>3. id \in born
  BY DEF IInv, KnownAreBorn
<1>4. id \in Live /\ IsPrefix(revisions[id], revisions'[id]) /\ IsPrefix(cache[c][id], revisions[id])
  BY <1>1, <1>3 DEF IInv, CacheIsHistory
<1>5. /\ cache[c][id] \in Seq(Contents) /\ revisions[id] \in Seq(Contents)
      /\ revisions'[id] \in Seq(Contents)
  BY <1>1, <1>4 DEF ConsolesOK, TablesOK, IsPartial
<1>6. QED
  BY <1>4, <1>5, PrefixFacts

LEMMA ToldLastWord ==
  ASSUME IInv, NEW f, Tells(f)
  PROVE  LastWordIsTrue'
<1>1. /\ ConsolesOK /\ TablesOK /\ f \in FrameSet /\ Broadcast(f) /\ Live' \subseteq born'
      /\ \A id \in Live' \cap born : id \in Live
      /\ \A id \in Live', a \in Agents :
           IF Decides(f, id, a) THEN Says(f, a) <=> <<a, id>> \in attached'
           ELSE id \in Live => (<<a, id>> \in attached' <=> <<a, id>> \in attached)
  BY TypeParts DEF IInv, Tells, Told, TablesOK
<1>2. SUFFICES ASSUME NEW c \in Consoles, NEW id \in Live', NEW a \in Agents, console'[c].on
               PROVE  /\ \A i \in DOMAIN frames'[c] :
                           /\ Decides(frames'[c][i], id, a)
                           /\ \A j \in DOMAIN frames'[c] : j > i => ~Decides(frames'[c][j], id, a)
                           => (Says(frames'[c][i], a) <=> <<a, id>> \in attached')
                      /\ /\ id \in DOMAIN shown'[c]
                         /\ \A j \in DOMAIN frames'[c] : ~Decides(frames'[c][j], id, a)
                         => (a \in shown'[c][id] <=> <<a, id>> \in attached')
  BY DEF LastWordIsTrue
<1>3. /\ UNCHANGED shown /\ console[c].on
      /\ frames'[c] = Append(frames[c], f)
  BY <1>1, <1>2, Broadcasts DEF Lost
<1>4. frames[c] \in Seq(FrameSet)
  BY <1>1 DEF ConsolesOK
<1>5. /\ DOMAIN frames[c] = 1..Len(frames[c]) /\ Len(frames[c]) \in Nat
      /\ DOMAIN frames'[c] = 1..(Len(frames[c]) + 1)
      /\ frames'[c][Len(frames[c]) + 1] = f
      /\ \A i \in DOMAIN frames[c] : frames'[c][i] = frames[c][i]
  BY <1>1, <1>3, <1>4, AppendFacts
<1>6. CASE Decides(f, id, a)
  <2>1. ASSUME NEW i \in DOMAIN frames'[c],
               \A j \in DOMAIN frames'[c] : j > i => ~Decides(frames'[c][j], id, a)
        PROVE  i = Len(frames[c]) + 1
    BY <1>5, <1>6, <2>1
  <2>2. QED
    BY <1>1, <1>5, <1>6, <2>1
<1>7. CASE ~Decides(f, id, a)
  <2>1. CASE id \in born
    <3>1. id \in Live /\ (<<a, id>> \in attached' <=> <<a, id>> \in attached)
      BY <1>1, <1>7, <2>1
    <3>2. /\ \A i \in DOMAIN frames[c] :
               /\ Decides(frames[c][i], id, a)
               /\ \A j \in DOMAIN frames[c] : j > i => ~Decides(frames[c][j], id, a)
               => (Says(frames[c][i], a) <=> <<a, id>> \in attached)
          /\ /\ id \in DOMAIN shown[c]
             /\ \A j \in DOMAIN frames[c] : ~Decides(frames[c][j], id, a)
             => (a \in shown[c][id] <=> <<a, id>> \in attached)
      BY <1>3, <3>1 DEF IInv, LastWordIsTrue
    <3>3. \A i \in DOMAIN frames'[c] : Decides(frames'[c][i], id, a) => i \in DOMAIN frames[c]
      BY <1>5, <1>7
    <3>4. DOMAIN frames[c] \subseteq DOMAIN frames'[c]
      BY <1>5
    <3>5. QED
      BY <1>3, <1>5, <3>1, <3>2, <3>3, <3>4
  <2>2. CASE id \notin born
    <3>1. id \notin DOMAIN shown[c] /\ \A i \in DOMAIN frames[c] : frames[c][i].id # id
      BY <2>2 DEF IInv, KnownAreBorn
    <3>2. \A i \in DOMAIN frames'[c] : ~Decides(frames'[c][i], id, a)
      BY <1>5, <1>7, <3>1 DEF Decides
    <3>3. QED
      BY <1>3, <3>1, <3>2
  <2>3. QED
    BY <2>1, <2>2
<1>8. QED
  BY <1>6, <1>7

LEMMA ToldDeletes ==
  ASSUME IInv, NEW f, Tells(f)
  PROVE  DeletesComing'
<1>1. /\ ConsolesOK /\ TablesOK /\ f \in FrameSet /\ Broadcast(f)
      /\ f.id \in born' /\ Live' \cap born \subseteq Live
      /\ \A id \in Live \ Live' : f.kind = "delete" /\ f.id = id
      /\ f.kind = "delete" => f.id \notin Live'
      /\ f.kind = "row" => f.id \in Live'
  BY TypeParts DEF IInv, Tells, Told
<1>2. SUFFICES ASSUME NEW c \in Consoles, console'[c].on
               PROVE  /\ \A id \in ToShow(c)' \ Live' : \E i \in DOMAIN frames'[c] : Gone(c, id, i)'
                      /\ \A i \in DOMAIN frames'[c] :
                           frames'[c][i].kind = "delete" => frames'[c][i].id \notin Live'
  BY DEF DeletesComing
<1>3. /\ UNCHANGED shown /\ console[c].on /\ console'[c] = console[c]
      /\ frames'[c] = Append(frames[c], f)
  BY <1>1, <1>2, Broadcasts DEF Lost
<1>4. frames[c] \in Seq(FrameSet)
  BY <1>1 DEF ConsolesOK
<1>5. /\ DOMAIN frames[c] = 1..Len(frames[c]) /\ Len(frames[c]) \in Nat
      /\ DOMAIN frames'[c] = 1..(Len(frames[c]) + 1)
      /\ frames'[c][Len(frames[c]) + 1] = f
      /\ \A i \in DOMAIN frames[c] : frames'[c][i] = frames[c][i]
  BY <1>1, <1>3, <1>4, AppendFacts
<1>6. /\ \A id \in ToShow(c) \ Live : \E i \in DOMAIN frames[c] : Gone(c, id, i)
      /\ \A i \in DOMAIN frames[c] : frames[c][i].kind = "delete" => frames[c][i].id \notin Live
      /\ \A i \in DOMAIN frames[c] : frames[c][i].id \in born
  BY <1>3 DEF IInv, DeletesComing, KnownAreBorn
<1>7. ASSUME NEW id \in ToShow(c)' \ Live'
      PROVE  \E i \in DOMAIN frames'[c] : Gone(c, id, i)'
  <2>1. id \in ToShow(c)
    BY <1>1, <1>3, <1>5, <1>7 DEF ToShow
  <2>2. CASE id \in Live
    <3>1. f.kind = "delete" /\ f.id = id
      BY <1>1, <1>7, <2>2
    <3>2. PICK n \in Nat : n = Len(frames[c]) + 1
      BY <1>5
    <3>3. n \in DOMAIN frames'[c] /\ Gone(c, id, n)'
      BY <1>5, <3>1, <3>2 DEF Gone
    <3>4. QED
      BY <3>3
  <2>3. CASE id \notin Live
    <3>1. PICK i \in DOMAIN frames[c] : Gone(c, id, i)
      BY <1>6, <2>1, <2>3
    <3>2. ~(f.kind = "row" /\ f.id = id)
      BY <1>1, <1>7
    <3>3. Gone(c, id, i)'
      BY <1>5, <3>1, <3>2 DEF Gone
    <3>4. QED
      BY <1>5, <3>3
  <2>4. QED
    BY <2>2, <2>3
<1>8. ASSUME NEW i \in DOMAIN frames'[c], frames'[c][i].kind = "delete"
      PROVE  frames'[c][i].id \notin Live'
  BY <1>1, <1>5, <1>6, <1>8
<1>9. QED
  BY <1>7, <1>8

LEMMA CommandInv ==
  ASSUME IInv, Command
  PROVE  IInv'
<1>1. PICK f : Tells(f)
  BY CommandTells
<1>2. TablesOK' /\ NewestIsLive' /\ f \in FrameSet /\ Broadcast(f) /\ ConsolesOK
  BY <1>1, TypeParts DEF IInv, Tells, Told
<1>3. ConsolesOK'
  BY <1>2, Broadcasts
<1>4. TypeOK'
  BY <1>2, <1>3, TypeParts, PTL
<1>5. KnownAreBorn' /\ CacheIsHistory' /\ LastWordIsTrue' /\ DeletesComing'
  BY <1>1, ToldKnown, ToldCache, ToldLastWord, ToldDeletes
<1>6. QED
  BY <1>2, <1>4, <1>5 DEF IInv

-----------------------------------------------------------------------------
(* A console's own steps touch what is the console's own.                      *)

(* The parts of the invariant that are about console c.                        *)
Sound(c) ==
  /\ DOMAIN shown[c] \cup DOMAIN cache[c] \cup console[c].ids \subseteq born
  /\ \A i \in DOMAIN frames[c] : frames[c][i].id \in born
  /\ ~console[c].on => frames[c] = <<>>
  /\ \A id \in DOMAIN cache[c] \cap Live : IsPrefix(cache[c][id], revisions[id])
  /\ console[c].on =>
       /\ \A id \in Live, a \in Agents :
            /\ \A i \in DOMAIN frames[c] :
                 /\ Decides(frames[c][i], id, a)
                 /\ \A j \in DOMAIN frames[c] : j > i => ~Decides(frames[c][j], id, a)
                 => (Says(frames[c][i], a) <=> <<a, id>> \in attached)
            /\ /\ id \in DOMAIN shown[c]
               /\ \A j \in DOMAIN frames[c] : ~Decides(frames[c][j], id, a)
               => (a \in shown[c][id] <=> <<a, id>> \in attached)
       /\ \A id \in ToShow(c) \ Live : \E i \in DOMAIN frames[c] : Gone(c, id, i)
       /\ \A i \in DOMAIN frames[c] : frames[c][i].kind = "delete" => frames[c][i].id \notin Live

AllSound == \A c \in Consoles : Sound(c)

LEMMA SoundParts == IInv <=> TablesOK /\ ConsolesOK /\ NewestIsLive /\ AllSound
<1>1. ASSUME IInv PROVE \A c \in Consoles : Sound(c)
  BY <1>1 DEF IInv, CacheIsHistory, KnownAreBorn, LastWordIsTrue, DeletesComing, Sound
<1>2. ASSUME \A c \in Consoles : Sound(c)
      PROVE  CacheIsHistory /\ KnownAreBorn /\ LastWordIsTrue /\ DeletesComing
  <2>1. CacheIsHistory /\ KnownAreBorn
    BY <1>2 DEF CacheIsHistory, KnownAreBorn, Sound
  <2>2. LastWordIsTrue
    BY <1>2 DEF LastWordIsTrue, Sound
  <2>3. DeletesComing
    BY <1>2 DEF DeletesComing, Sound
  <2>4. QED
    BY <2>1, <2>2, <2>3
<1>3. QED
  BY <1>1, <1>2, TypeParts DEF IInv, AllSound

LEMMA OneConsole ==
  ASSUME IInv, UNCHANGED tables, ConsolesOK', NEW c \in Consoles, Sound(c)',
         \A d \in Consoles \ {c} : /\ console'[d] = console[d] /\ frames'[d] = frames[d]
                                   /\ shown'[d] = shown[d] /\ cache'[d] = cache[d]
  PROVE  IInv'
<1>1. /\ TablesOK /\ NewestIsLive /\ \A d \in Consoles : Sound(d)
      /\ UNCHANGED <<skill, revisions, attached, born, unlogged>>
  BY SoundParts DEF tables, AllSound
<1>2. TablesOK' /\ NewestIsLive'
  BY <1>1 DEF TablesOK, NewestIsLive, Live
<1>3. ASSUME NEW d \in Consoles \ {c} PROVE Sound(d)'
  <2>1. Sound(d) /\ /\ console'[d] = console[d] /\ frames'[d] = frames[d]
                    /\ shown'[d] = shown[d] /\ cache'[d] = cache[d]
    BY <1>1
  <2>2. ToShow(d)' = ToShow(d) /\ Live' = Live /\ \A id, i : Gone(d, id, i)' <=> Gone(d, id, i)
    BY <1>1, <2>1 DEF ToShow, Live, Gone
  <2>3. QED
    BY <1>1, <2>1, <2>2 DEF Sound
<1>4. AllSound'
  BY <1>3 DEF AllSound
<1>5. QED
  BY <1>2, <1>4, SoundParts, PTL

LEMMA ConnectInv ==
  ASSUME IInv, NEW c \in Consoles, Connect(c)
  PROVE  IInv'
<1>1. TablesOK /\ ConsolesOK /\ Sound(c)
  BY SoundParts DEF AllSound
<1>2. PICK kept \in {cache[c], None} :
        /\ ~console[c].on
        /\ console' = [console EXCEPT ![c] =
             [on |-> TRUE, startups |-> {skill[id].startup : id \in Live}, ids |-> {}]]
        /\ shown' = [shown EXCEPT ![c] = None]
        /\ cache' = [cache EXCEPT ![c] = kept]
        /\ UNCHANGED <<tables, frames>>
  BY DEF Connect
<1>3. {skill[id].startup : id \in Live} \subseteq Startups
  BY <1>1 DEF TablesOK, IsPartial, Live, Row
<1>4. /\ DOMAIN None = {} /\ \A S, T : IsPartial(None, S, T)
  BY DEF None, IsPartial
<1>5. ConsolesOK'
  <2>1. console' \in [Consoles -> [on : BOOLEAN, startups : SUBSET Startups, ids : SUBSET Ids]]
    BY <1>1, <1>2, <1>3 DEF ConsolesOK
  <2>2. IsPartial(kept, Ids, Seq(Contents)) /\ IsPartial(None, Ids, SUBSET Agents)
    BY <1>1, <1>4 DEF ConsolesOK
  <2>3. QED
    BY <1>1, <1>2, <2>1, <2>2 DEF ConsolesOK
<1>6. /\ console'[c].on /\ console'[c].ids = {} /\ frames'[c] = <<>> /\ DOMAIN shown'[c] = {}
      /\ cache'[c] = cache[c] \/ DOMAIN cache'[c] = {}
      /\ UNCHANGED <<skill, revisions, attached, born>>
  BY <1>1, <1>2, <1>4 DEF ConsolesOK, Sound, tables
<1>7. DOMAIN frames'[c] = {} /\ ToShow(c)' = {} /\ Live' = Live
  BY <1>6 DEF ToShow, Live
<1>8. Sound(c)'
  BY <1>1, <1>6, <1>7 DEF Sound
<1>9. \A d \in Consoles \ {c} : /\ console'[d] = console[d] /\ frames'[d] = frames[d]
                                /\ shown'[d] = shown[d] /\ cache'[d] = cache[d]
  BY <1>1, <1>2 DEF ConsolesOK
<1>10. QED
  BY <1>2, <1>5, <1>8, <1>9, OneConsole

LEMMA DisconnectInv ==
  ASSUME IInv, NEW c \in Consoles, Disconnect(c)
  PROVE  IInv'
<1>1. TablesOK /\ ConsolesOK /\ Sound(c)
  BY SoundParts DEF AllSound
<1>2. /\ console' = [console EXCEPT ![c] = Off]
      /\ frames' = [frames EXCEPT ![c] = <<>>]
      /\ UNCHANGED <<tables, shown, cache>>
  BY DEF Disconnect, browser
<1>3. Off \in [on : BOOLEAN, startups : SUBSET Startups, ids : SUBSET Ids]
      /\ ~Off.on /\ Off.ids = {}
  BY DEF Off
<1>4. ConsolesOK'
  BY <1>1, <1>2, <1>3 DEF ConsolesOK, IsPartial
<1>5. /\ ~console'[c].on /\ console'[c].ids = {} /\ frames'[c] = <<>> /\ Live' = Live
      /\ UNCHANGED <<revisions, attached, born, shown, cache>>
  BY <1>1, <1>2, <1>3 DEF ConsolesOK, tables, Live
<1>6. DOMAIN frames'[c] = {}
  BY <1>5
<1>7. Sound(c)'
  BY <1>1, <1>5, <1>6 DEF Sound
<1>8. \A d \in Consoles \ {c} : /\ console'[d] = console[d] /\ frames'[d] = frames[d]
                                /\ shown'[d] = shown[d] /\ cache'[d] = cache[d]
  BY <1>1, <1>2 DEF ConsolesOK
<1>9. QED
  BY <1>2, <1>4, <1>7, <1>8, OneConsole

LEMMA HydrateRowsInv ==
  ASSUME IInv, NEW c \in Consoles, NEW s \in Startups, HydrateRows(c, s)
  PROVE  IInv'
<1>1. TablesOK /\ ConsolesOK /\ Sound(c)
  BY SoundParts DEF AllSound
<1> DEFINE rows == {id \in Live : skill[id].startup = s}
           k == [console[c] EXCEPT !.startups = @ \ {s}, !.ids = rows]
<1>2. /\ console' = [console EXCEPT ![c] = k]
      /\ UNCHANGED <<tables, frames, shown, cache>>
  BY DEF HydrateRows, browser
<1>3. /\ k \in [on : BOOLEAN, startups : SUBSET Startups, ids : SUBSET Ids]
      /\ k.on = console[c].on /\ k.ids = rows
      /\ rows \subseteq Live /\ Live \subseteq born
  BY <1>1 DEF ConsolesOK, TablesOK, IsPartial, Live
<1> HIDE DEF rows, k
<1>4. ConsolesOK'
  BY <1>1, <1>2, <1>3 DEF ConsolesOK, IsPartial
<1>5. /\ console'[c].on = console[c].on /\ console'[c].ids \subseteq Live
      /\ UNCHANGED <<skill, revisions, attached, born, frames, shown, cache>> /\ Live' = Live
  BY <1>1, <1>2, <1>3 DEF ConsolesOK, tables, Live
<1>6. /\ ToShow(c)' \ Live \subseteq ToShow(c) \ Live
      /\ \A id, i : Gone(c, id, i)' <=> Gone(c, id, i)
  BY <1>5 DEF ToShow, Gone
<1>7. Sound(c)'
  BY <1>1, <1>3, <1>5, <1>6 DEF Sound
<1>8. \A d \in Consoles \ {c} : /\ console'[d] = console[d] /\ frames'[d] = frames[d]
                                /\ shown'[d] = shown[d] /\ cache'[d] = cache[d]
  BY <1>1, <1>2 DEF ConsolesOK
<1>9. QED
  BY <1>2, <1>4, <1>7, <1>8, OneConsole

LEMMA HydrateAttachmentsInv ==
  ASSUME IInv, NEW c \in Consoles, NEW id \in Ids, HydrateAttachments(c, id)
  PROVE  IInv'
<1>1. TablesOK /\ ConsolesOK /\ Sound(c)
  BY SoundParts DEF AllSound
<1> DEFINE k == [console[c] EXCEPT !.ids = @ \ {id}]
<1>2. /\ console' = [console EXCEPT ![c] = k]
      /\ shown' = [shown EXCEPT ![c] = With(shown[c], id, AttachedTo(id))]
      /\ id \in console[c].ids
      /\ UNCHANGED <<tables, frames, cache>>
  BY DEF HydrateAttachments
<1>3. /\ k \in [on : BOOLEAN, startups : SUBSET Startups, ids : SUBSET Ids]
      /\ k.on = console[c].on /\ k.ids = console[c].ids \ {id}
  BY <1>1 DEF ConsolesOK
<1> HIDE DEF k
<1>4. AttachedTo(id) \in SUBSET Agents /\ IsPartial(shown[c], Ids, SUBSET Agents)
  BY <1>1 DEF AttachedTo, ConsolesOK
<1>5. IsPartial(With(shown[c], id, AttachedTo(id)), Ids, SUBSET Agents)
  BY <1>4, WithType
<1>6. ConsolesOK'
  BY <1>1, <1>2, <1>3, <1>5 DEF ConsolesOK
<1>7. /\ console'[c].on = console[c].on /\ console'[c].ids = console[c].ids \ {id}
      /\ DOMAIN shown'[c] = DOMAIN shown[c] \cup {id}
      /\ shown'[c][id] = AttachedTo(id)
      /\ \A x \in DOMAIN shown[c] : x # id => shown'[c][x] = shown[c][x]
      /\ UNCHANGED <<skill, revisions, attached, born, frames, cache>> /\ Live' = Live
  BY <1>1, <1>2, <1>3 DEF ConsolesOK, tables, Live, With
<1>8. /\ ToShow(c)' = ToShow(c)
      /\ \A x, i : Gone(c, x, i)' <=> Gone(c, x, i)
  BY <1>2, <1>7 DEF ToShow, Gone
<1>9. Sound(c)'
  <2>1. ASSUME NEW x \in Live, NEW a \in Agents, x \in DOMAIN shown'[c],
               console[c].on, \A j \in DOMAIN frames[c] : ~Decides(frames[c][j], x, a)
        PROVE  a \in shown'[c][x] <=> <<a, x>> \in attached
    <3>1. CASE x = id
      BY <1>7, <2>1, <3>1 DEF AttachedTo
    <3>2. CASE x # id
      BY <1>1, <1>7, <2>1, <3>2 DEF Sound
    <3>3. QED
      BY <3>1, <3>2
  <2>2. DOMAIN shown'[c] \cup DOMAIN cache'[c] \cup console'[c].ids \subseteq born
    BY <1>1, <1>2, <1>7 DEF Sound
  <2>3. QED
    BY <1>1, <1>7, <1>8, <2>1, <2>2 DEF Sound
<1>10. \A d \in Consoles \ {c} : /\ console'[d] = console[d] /\ frames'[d] = frames[d]
                                 /\ shown'[d] = shown[d] /\ cache'[d] = cache[d]
  BY <1>1, <1>2 DEF ConsolesOK
<1>11. QED
  BY <1>2, <1>6, <1>9, <1>10, OneConsole

LEMMA AskHistoryInv ==
  ASSUME IInv, NEW c \in Consoles, NEW id \in Live, AskHistory(c, id)
  PROVE  IInv'
<1>1. TablesOK /\ ConsolesOK /\ Sound(c) /\ id \in Ids /\ id \in born
  BY SoundParts DEF AllSound, TablesOK, IsPartial, Live
<1>2. /\ cache' = [cache EXCEPT ![c] = With(cache[c], id, revisions[id])]
      /\ UNCHANGED <<tables, console, frames, shown>>
  BY DEF AskHistory
<1>3. revisions[id] \in Seq(Contents) /\ IsPartial(cache[c], Ids, Seq(Contents))
  BY <1>1 DEF TablesOK, ConsolesOK
<1>4. IsPartial(With(cache[c], id, revisions[id]), Ids, Seq(Contents))
  BY <1>1, <1>3, WithType
<1>5. ConsolesOK'
  BY <1>1, <1>2, <1>4 DEF ConsolesOK
<1>6. /\ DOMAIN cache'[c] = DOMAIN cache[c] \cup {id}
      /\ cache'[c][id] = revisions[id]
      /\ \A x \in DOMAIN cache[c] : x # id => cache'[c][x] = cache[c][x]
      /\ UNCHANGED <<skill, revisions, attached, born, console, frames, shown>> /\ Live' = Live
  BY <1>1, <1>2 DEF ConsolesOK, tables, Live, With
<1>7. /\ ToShow(c)' = ToShow(c)
      /\ \A x, i : Gone(c, x, i)' <=> Gone(c, x, i)
  BY <1>6 DEF ToShow, Gone
<1>8. \A x \in DOMAIN cache'[c] \cap Live : IsPrefix(cache'[c][x], revisions[x])
  BY <1>1, <1>3, <1>6, PrefixFacts DEF Sound
<1>9. Sound(c)'
  BY <1>1, <1>6, <1>7, <1>8 DEF Sound
<1>10. \A d \in Consoles \ {c} : /\ console'[d] = console[d] /\ frames'[d] = frames[d]
                                 /\ shown'[d] = shown[d] /\ cache'[d] = cache[d]
  BY <1>1, <1>2 DEF ConsolesOK
<1>11. QED
  BY <1>2, <1>5, <1>9, <1>10, OneConsole

LEMMA TakeFrameInv ==
  ASSUME IInv, NEW c \in Consoles, TakeFrame(c)
  PROVE  IInv'
<1> DEFINE q == frames[c]
           f == Head(frames[c])
<1>1. TablesOK /\ ConsolesOK /\ Sound(c)
  BY SoundParts DEF AllSound
<1>2. /\ console[c].on /\ console[c].ids = {} /\ q # <<>>
      /\ frames' = [frames EXCEPT ![c] = Tail(q)]
      /\ UNCHANGED <<tables, console>>
  BY DEF TakeFrame, Listening
<1>3. q \in Seq(FrameSet)
  BY <1>1 DEF ConsolesOK
<1>4. /\ f = q[1] /\ f \in FrameSet /\ Tail(q) \in Seq(FrameSet)
      /\ Len(q) \in Nat \ {0} /\ DOMAIN q = 1..Len(q)
      /\ DOMAIN Tail(q) = 1..(Len(q) - 1)
      /\ \A i \in 1..(Len(q) - 1) : Tail(q)[i] = q[i + 1]
  BY <1>2, <1>3, TailFacts
<1> DEFINE knows == f.id \in DOMAIN shown[c]
           show == Applied(f, shown[c])
           keep == IF f.kind \in {"row", "edit", "delete"} THEN Without(cache[c], f.id) ELSE cache[c]
<1>5. shown' = [shown EXCEPT ![c] = show] /\ cache' = [cache EXCEPT ![c] = keep]
  <2>1. shown' = [shown EXCEPT ![c] = show]
    BY DEF TakeFrame, show
  <2>2. cache' = [cache EXCEPT ![c] = keep]
    BY DEF TakeFrame
  <2>3. QED
    BY <2>1, <2>2
<1>6. /\ f.kind \in Kinds /\ f.id \in Ids /\ f.agents \in SUBSET Agents
      /\ IsPartial(shown[c], Ids, SUBSET Agents) /\ IsPartial(cache[c], Ids, Seq(Contents))
  BY <1>1, <1>4 DEF FrameSet, ConsolesOK
<1> HIDE DEF q, f, show, keep
<1>7. /\ IsPartial(show, Ids, SUBSET Agents)
      /\ DOMAIN show \subseteq DOMAIN shown[c] \cup {f.id}
      /\ f.kind # "row" => DOMAIN show \subseteq DOMAIN shown[c]
      /\ f.kind = "delete" => f.id \notin DOMAIN show
      /\ f.kind = "row" => show[f.id] = f.agents
      /\ f.kind = "attach" /\ knows => show[f.id] = shown[c][f.id] \cup f.agents
      /\ f.kind = "detach" /\ knows => show[f.id] = shown[c][f.id] \ f.agents
      /\ f.kind \notin {"row", "attach", "detach"} /\ f.id \in DOMAIN show =>
           show[f.id] = shown[c][f.id]
      /\ \A x \in DOMAIN show : x # f.id => x \in DOMAIN shown[c] /\ show[x] = shown[c][x]
  <2>1. CASE f.kind = "row"
    <3>1. show = With(shown[c], f.id, f.agents)
      BY <2>1 DEF show, Applied
    <3>2. IsPartial(With(shown[c], f.id, f.agents), Ids, SUBSET Agents)
      BY <1>6, WithType
    <3>3. /\ DOMAIN show = DOMAIN shown[c] \cup {f.id} /\ show[f.id] = f.agents
          /\ \A x \in DOMAIN shown[c] : x # f.id => show[x] = shown[c][x]
      BY <3>1 DEF With
    <3>4. QED
      BY <2>1, <3>1, <3>2, <3>3
  <2>2. CASE f.kind = "delete"
    <3>1. show = Without(shown[c], f.id)
      BY <2>2 DEF show, Applied
    <3>2. IsPartial(Without(shown[c], f.id), Ids, SUBSET Agents)
      BY <1>6, WithoutType
    <3>3. /\ DOMAIN show = DOMAIN shown[c] \ {f.id}
          /\ \A x \in DOMAIN shown[c] : x # f.id => show[x] = shown[c][x]
      BY <3>1 DEF Without, Restrict
    <3>4. QED
      BY <2>2, <3>1, <3>2, <3>3
  <2>3. CASE f.kind = "attach" /\ knows
    <3>1. show = [shown[c] EXCEPT ![f.id] = shown[c][f.id] \cup f.agents]
      BY <2>3 DEF show, Applied
    <3>2. QED
      BY <2>3, <3>1, <1>6 DEF IsPartial
  <2>4. CASE f.kind = "detach" /\ knows
    <3>1. show = [shown[c] EXCEPT ![f.id] = shown[c][f.id] \ f.agents]
      BY <2>4 DEF show, Applied
    <3>2. QED
      BY <2>4, <3>1, <1>6 DEF IsPartial
  <2>5. CASE f.kind \notin {"row", "delete"} /\ ~(f.kind \in {"attach", "detach"} /\ knows)
    <3>1. show = shown[c]
      BY <2>5 DEF show, Applied
    <3>2. QED
      BY <2>5, <3>1, <1>6
  <2>6. QED
    BY <2>1, <2>2, <2>3, <2>4, <2>5
<1>8. /\ IsPartial(keep, Ids, Seq(Contents)) /\ DOMAIN keep \subseteq DOMAIN cache[c]
      /\ \A x \in DOMAIN keep : keep[x] = cache[c][x]
  <2>1. CASE f.kind \in {"row", "edit", "delete"}
    <3>1. keep = Without(cache[c], f.id)
      BY <2>1 DEF keep
    <3>2. IsPartial(Without(cache[c], f.id), Ids, Seq(Contents))
      BY <1>6, WithoutType
    <3>3. /\ DOMAIN keep = DOMAIN cache[c] \ {f.id}
          /\ \A x \in DOMAIN cache[c] : x # f.id => keep[x] = cache[c][x]
      BY <3>1 DEF Without, Restrict
    <3>4. QED
      BY <3>1, <3>2, <3>3
  <2>2. CASE f.kind \notin {"row", "edit", "delete"}
    BY <2>2, <1>6 DEF keep
  <2>3. QED
    BY <2>1, <2>2
<1>9. ConsolesOK'
  BY <1>1, <1>2, <1>4, <1>5, <1>7, <1>8 DEF ConsolesOK
<1>10. /\ frames'[c] = Tail(q) /\ shown'[c] = show /\ cache'[c] = keep
       /\ UNCHANGED <<skill, revisions, attached, born, console>> /\ Live' = Live
  BY <1>1, <1>2, <1>5 DEF ConsolesOK, tables, Live
<1>11. q = frames[c]
  BY DEF q
<1>12. /\ \A i \in DOMAIN Tail(q) : i + 1 \in DOMAIN q /\ Tail(q)[i] = q[i + 1]
       /\ \A i \in DOMAIN q : i # 1 => i - 1 \in DOMAIN Tail(q) /\ Tail(q)[i - 1] = q[i]
       /\ 1 \in DOMAIN q
  BY <1>4
<1>13. ASSUME NEW id \in Live, NEW a \in Agents
       PROVE  /\ \A i \in DOMAIN Tail(q) :
                   /\ Decides(Tail(q)[i], id, a)
                   /\ \A j \in DOMAIN Tail(q) : j > i => ~Decides(Tail(q)[j], id, a)
                   => (Says(Tail(q)[i], a) <=> <<a, id>> \in attached)
              /\ /\ id \in DOMAIN show
                 /\ \A j \in DOMAIN Tail(q) : ~Decides(Tail(q)[j], id, a)
                 => (a \in show[id] <=> <<a, id>> \in attached)
  <2>1. /\ \A i \in DOMAIN q :
             /\ Decides(q[i], id, a)
             /\ \A j \in DOMAIN q : j > i => ~Decides(q[j], id, a)
             => (Says(q[i], a) <=> <<a, id>> \in attached)
        /\ /\ id \in DOMAIN shown[c]
           /\ \A j \in DOMAIN q : ~Decides(q[j], id, a)
           => (a \in shown[c][id] <=> <<a, id>> \in attached)
    BY <1>1, <1>2, <1>11 DEF Sound
  <2>2. ASSUME NEW i \in DOMAIN Tail(q), Decides(Tail(q)[i], id, a),
               \A j \in DOMAIN Tail(q) : j > i => ~Decides(Tail(q)[j], id, a)
        PROVE  Says(Tail(q)[i], a) <=> <<a, id>> \in attached
    <3>1. ASSUME NEW j \in DOMAIN q, j > i + 1 PROVE ~Decides(q[j], id, a)
      <4>1. j # 1 /\ j - 1 > i
        BY <1>4, <3>1
      <4>2. j - 1 \in DOMAIN Tail(q) /\ Tail(q)[j - 1] = q[j]
        BY <1>12, <4>1
      <4>3. QED
        BY <2>2, <4>1, <4>2
    <3>2. QED
      BY <1>12, <2>1, <2>2, <3>1
  <2>3. ASSUME id \in DOMAIN show, \A j \in DOMAIN Tail(q) : ~Decides(Tail(q)[j], id, a)
        PROVE  a \in show[id] <=> <<a, id>> \in attached
    <3>1. ASSUME NEW j \in DOMAIN q, j > 1 PROVE ~Decides(q[j], id, a)
      <4>1. j - 1 \in DOMAIN Tail(q) /\ Tail(q)[j - 1] = q[j]
        BY <1>4, <1>12, <3>1
      <4>2. QED
        BY <2>3, <4>1
    <3>2. CASE Decides(f, id, a)
      <4>1. Says(f, a) <=> <<a, id>> \in attached
        BY <1>4, <1>12, <2>1, <3>1, <3>2
      <4>2. f.id = id /\ (f.kind = "row" \/ (f.kind \in {"attach", "detach"} /\ a \in f.agents))
        BY <3>2 DEF Decides
      <4>3. a \in show[id] <=> Says(f, a)
        BY <1>7, <2>3, <4>2 DEF Says
      <4>4. QED
        BY <4>1, <4>3
    <3>3. CASE ~Decides(f, id, a)
      <4>1. \A j \in DOMAIN q : ~Decides(q[j], id, a)
        BY <1>4, <3>1, <3>3
      <4>2. id \in DOMAIN shown[c] /\ (a \in show[id] <=> a \in shown[c][id])
        BY <1>7, <2>3, <3>3 DEF Decides
      <4>3. QED
        BY <2>1, <4>1, <4>2
    <3>4. QED
      BY <3>2, <3>3
  <2>4. QED
    BY <2>2, <2>3
<1>14. ASSUME NEW id \in ToShow(c)' \ Live
       PROVE  \E i \in DOMAIN frames'[c] : Gone(c, id, i)'
  <2>1. \/ id \in DOMAIN show
        \/ \E j \in DOMAIN Tail(q) : Tail(q)[j].kind = "row" /\ Tail(q)[j].id = id
    BY <1>2, <1>10, <1>14 DEF ToShow
  <2>2. id \in ToShow(c)
    <3>1. CASE id \in DOMAIN show
      <4>1. id \in DOMAIN shown[c] \/ (q[1].kind = "row" /\ q[1].id = id)
        BY <1>4, <1>7, <3>1
      <4>2. QED
        BY <1>11, <1>12, <4>1 DEF ToShow
    <3>2. CASE \E j \in DOMAIN Tail(q) : Tail(q)[j].kind = "row" /\ Tail(q)[j].id = id
      BY <1>11, <1>12, <3>2 DEF ToShow
    <3>3. QED
      BY <2>1, <3>1, <3>2
  <2>3. PICK i \in DOMAIN q : Gone(c, id, i)
    BY <1>1, <1>2, <1>11, <1>14, <2>2 DEF Sound
  <2>4. /\ q[i].kind = "delete" /\ q[i].id = id
        /\ \A j \in DOMAIN q : j > i => ~(q[j].kind = "row" /\ q[j].id = id)
    BY <1>11, <2>3 DEF Gone
  <2>5. i # 1
    <3>1. SUFFICES ASSUME i = 1 PROVE FALSE
      OBVIOUS
    <3>2. id \notin DOMAIN show
      BY <1>4, <1>7, <2>4, <3>1
    <3>3. \A j \in DOMAIN Tail(q) : ~(Tail(q)[j].kind = "row" /\ Tail(q)[j].id = id)
      BY <1>4, <1>12, <2>4, <3>1
    <3>4. QED
      BY <2>1, <3>2, <3>3
  <2>6. PICK k \in DOMAIN Tail(q) : i = k + 1
    <3>1. i - 1 \in DOMAIN Tail(q)
      BY <1>12, <2>5
    <3>2. QED
      BY <1>4, <3>1
  <2>7. \A j \in DOMAIN Tail(q) : j > k => ~(Tail(q)[j].kind = "row" /\ Tail(q)[j].id = id)
    BY <1>4, <1>12, <2>4, <2>6
  <2>8. Gone(c, id, k)'
    BY <1>10, <1>12, <2>4, <2>6, <2>7 DEF Gone
  <2>9. QED
    BY <1>10, <2>6, <2>8
<1>15. /\ DOMAIN show \cup DOMAIN keep \subseteq born
       /\ \A i \in DOMAIN Tail(q) : Tail(q)[i].id \in born
       /\ \A id \in DOMAIN keep \cap Live : IsPrefix(keep[id], revisions[id])
       /\ \A i \in DOMAIN Tail(q) : Tail(q)[i].kind = "delete" => Tail(q)[i].id \notin Live
  BY <1>1, <1>2, <1>4, <1>7, <1>8, <1>11, <1>12 DEF Sound
<1>16. Sound(c)'
  BY <1>2, <1>10, <1>13, <1>14, <1>15 DEF Sound
<1>17. \A d \in Consoles \ {c} : /\ console'[d] = console[d] /\ frames'[d] = frames[d]
                                 /\ shown'[d] = shown[d] /\ cache'[d] = cache[d]
  BY <1>1, <1>2, <1>5 DEF ConsolesOK
<1>18. QED
  BY <1>2, <1>9, <1>16, <1>17, OneConsole

-----------------------------------------------------------------------------
(* The invariant, and the theorems.                                            *)

LEMMA Initially == Init => IInv
<1> SUFFICES ASSUME Init PROVE IInv
  OBVIOUS
<1>1. /\ skill = None /\ revisions = None /\ attached = {} /\ born = {} /\ unlogged = {}
      /\ console = [c \in Consoles |-> Off] /\ frames = [c \in Consoles |-> <<>>]
      /\ shown = [c \in Consoles |-> None] /\ cache = [c \in Consoles |-> None]
  BY DEF Init
<1>2. DOMAIN None = {} /\ \A S, T : IsPartial(None, S, T) /\ None \in [{} -> T]
  BY DEF None, IsPartial
<1>3. /\ Off \in [on : BOOLEAN, startups : SUBSET Startups, ids : SUBSET Ids]
      /\ ~Off.on /\ Off.ids = {}
  BY DEF Off
<1>4. Live = {} /\ TablesOK /\ NewestIsLive
  BY <1>1, <1>2 DEF Live, TablesOK, NewestIsLive
<1>5. ConsolesOK
  BY <1>1, <1>2, <1>3 DEF ConsolesOK
<1>6. ASSUME NEW c \in Consoles PROVE Sound(c)
  <2>1. /\ frames[c] = <<>> /\ DOMAIN frames[c] = {} /\ DOMAIN shown[c] = {} /\ DOMAIN cache[c] = {}
        /\ console[c].ids = {} /\ ~console[c].on
    BY <1>1, <1>2, <1>3
  <2>2. QED
    BY <1>4, <2>1 DEF Sound
<1>7. QED
  BY <1>4, <1>5, <1>6, SoundParts DEF AllSound

LEMMA StepInv == IInv /\ [Next]_vars => IInv'
<1> SUFFICES ASSUME IInv, [Next]_vars PROVE IInv'
  OBVIOUS
<1>1. CASE Command
  BY <1>1, CommandInv
<1>2. CASE \E c \in Consoles : Console(c)
  BY <1>2, ConnectInv, TakeFrameInv, DisconnectInv, HydrateRowsInv, HydrateAttachmentsInv,
     AskHistoryInv DEF Console
<1>3. CASE UNCHANGED vars
  <2>1. UNCHANGED <<skill, revisions, attached, born, unlogged, console, frames, shown, cache>>
    BY <1>3 DEF vars, tables, browser
  <2>2. TablesOK' /\ ConsolesOK' /\ NewestIsLive'
    BY <2>1, SoundParts DEF TablesOK, ConsolesOK, NewestIsLive, Live
  <2>3. ASSUME NEW d \in Consoles PROVE Sound(d)'
    <3>1. Sound(d)
      BY SoundParts DEF AllSound
    <3>2. ToShow(d)' = ToShow(d) /\ Live' = Live /\ \A id, i : Gone(d, id, i)' <=> Gone(d, id, i)
      BY <2>1 DEF ToShow, Live, Gone
    <3>3. QED
      BY <2>1, <3>1, <3>2 DEF Sound
  <2>4. AllSound'
    BY <2>3 DEF AllSound
  <2>5. QED
    BY <2>2, <2>4, SoundParts, PTL
<1>4. QED
  BY <1>1, <1>2, <1>3 DEF Next

LEMMA Invariance == Spec => []IInv
  BY Initially, StepInv, PTL DEF Spec

(* What the tables, the queues and the browsers hold is what the code's types  *)
(* and foreign keys say; an attachment is within a startup.                    *)
THEOREM SkillTypes == Spec => []TypeOK
<1>1. IInv => TypeOK
  BY DEF IInv
<1>2. QED
  BY <1>1, Invariance, PTL

(* skills.rs: upsert_with_author and revert_to_revision append what they write *)
(* to the history, unless the author has no row in operators.                  *)
THEOREM HistoryEndsLive == Spec => []NewestIsLive
<1>1. IInv => NewestIsLive
  BY DEF IInv
<1>2. QED
  BY <1>1, Invariance, PTL

(* A snapshot read piecemeal beside the loop, and frames since the console     *)
(* subscribed, give what the tables say once all frames are taken.             *)
THEOREM BrowsersFollow == Spec => []ShowsAttachments
<1>1. ASSUME IInv PROVE ShowsAttachments
  <2>1. SUFFICES ASSUME NEW c \in Consoles, Listening(c), frames[c] = <<>>, NEW id \in DOMAIN shown[c]
                 PROVE  id \in Live /\ shown[c][id] = AttachedTo(id)
    BY DEF ShowsAttachments
  <2>2. ConsolesOK /\ Sound(c) /\ console[c].on
    BY <1>1, <2>1, SoundParts DEF Listening, AllSound
  <2>3. DOMAIN frames[c] = {}
    BY <2>1
  <2>4. id \in Live
    BY <2>2, <2>3 DEF Sound, ToShow
  <2>5. \A a \in Agents : a \in shown[c][id] <=> <<a, id>> \in attached
    BY <2>2, <2>3, <2>4 DEF Sound
  <2>6. shown[c][id] \subseteq Agents
    BY <2>2 DEF ConsolesOK, IsPartial
  <2>7. QED
    BY <2>4, <2>5, <2>6 DEF AttachedTo
<1>2. QED
  BY <1>1, Invariance, PTL

(* A history that a browser kept is a prefix of the real one, so that a revert *)
(* restores what was shown under that number.                                  *)
THEOREM HistoriesKept == Spec => []CacheIsHistory
<1>1. IInv => CacheIsHistory
  BY DEF IInv
<1>2. QED
  BY <1>1, Invariance, PTL

=============================================================================
