---------------------------- MODULE PresenceProofs ----------------------------
(***************************************************************************)
(* Types, and the two invariants of Presence, for any number of consoles   *)
(* and operators and any capacity of the broadcast channel.                *)
(***************************************************************************)
EXTENDS Presence, SequenceTheorems, TLAPS

(* A console's place and what it is still to show.                             *)
Clean(s) == \A i \in 1..Len(backlog[s]) : ~backlog[s][i].lag
Coming(s) == IF backlog[s] = <<>> THEN shown[s] ELSE backlog[s][Len(backlog[s])].list

(* SameList before the frames are taken: the consoles that did not lag are     *)
(* heading for the same list.                                                  *)
SameComing ==
  \A s, t \in Sessions :
    session[s].at = "on" /\ session[t].at = "on" /\ Clean(s) /\ Clean(t) =>
      Coming(s) = Coming(t)

IInv == TypeOK /\ NoGhosts /\ SameComing

-----------------------------------------------------------------------------
(* Sequences.                                                                  *)

LEMMA AppendFacts ==
  ASSUME NEW S, NEW q \in Seq(S), NEW e \in S
  PROVE  /\ Append(q, e) \in Seq(S)
         /\ Append(q, e) # <<>>
         /\ Append(q, e)[Len(Append(q, e))] = e
<1>1. /\ Append(q, e) \in Seq(S)
      /\ Append(q, e) # <<>>
      /\ Len(Append(q, e)) = Len(q) + 1
  BY AppendProperties
<1>2. Append(q, e)[Len(q) + 1] = e
  BY AppendProperties
<1>3. QED
  BY <1>1, <1>2, Zenon

LEMMA TailFacts ==
  ASSUME NEW S, NEW q \in Seq(S), q # <<>>
  PROVE  /\ Head(q) \in S /\ Head(q) = q[1]
         /\ Tail(q) \in Seq(S)
         /\ Len(q) \in Nat \ {0}
         /\ Len(Tail(q)) = Len(q) - 1
         /\ \A i \in 1..(Len(q) - 1) : Tail(q)[i] = q[i + 1]
         /\ Tail(q) = <<>> <=> Len(q) = 1
<1>1. Len(q) \in Nat /\ (Len(q) = 0 <=> q = <<>>)
  BY EmptySeq
<1>2. /\ Head(q) \in S
      /\ Tail(q) \in Seq(S)
      /\ Len(Tail(q)) = Len(q) - 1
      /\ \A i \in 1..Len(Tail(q)) : Tail(q)[i] = q[i + 1]
  BY HeadTailProperties
<1>3. Tail(q) = <<>> <=> Len(Tail(q)) = 0
  BY <1>2, EmptySeq
<1>4. Head(q) = q[1]
  OBVIOUS
<1>5. QED
  BY <1>1, <1>2, <1>3, <1>4

-----------------------------------------------------------------------------
(* Types.                                                                      *)

LEMMA ConstantTypes ==
  /\ Off \in [at : {"off"}, op : {"nobody"}]
  /\ Leaving \in [at : {"leaving"}, op : {"nobody"}]
  /\ Blank \in Lists
  /\ Nothing \in [at : {"nothing", "read", "send"}, list : Lists]
  /\ ToRead \in [at : {"nothing", "read", "send"}, list : Lists]
  /\ Lagged \in [lag : BOOLEAN, list : Lists]
BY DEF Off, Leaving, Blank, Lists, Nothing, ToRead, Lagged

\* What a task's last list leaves of its place.
LEMMA SentTypes ==
  ASSUME NEW c \in [at : {"joining", "on"}, op : Operators] \cup {Off, Leaving}
  PROVE  /\ Sent(c) \in [at : {"joining", "on"}, op : Operators] \cup {Off, Leaving}
         /\ Sent(c).at = "on" => c.at \in {"joining", "on"}
         /\ c.at \in {"joining", "on"} => Sent(c).at = "on" /\ Sent(c).op = c.op
<1>1. CASE c \in [at : {"joining", "on"}, op : Operators]
  BY <1>1 DEF Sent
<1>2. CASE c \in {Off, Leaving}
  BY <1>2 DEF Sent, Off, Leaving
<1>3. QED
  BY <1>1, <1>2

LEMMA TypeInit == Init => TypeOK
BY ConstantTypes DEF Init, TypeOK

LEMMA TypeSend ==
  ASSUME TypeOK, NEW t \in Tasks, Send(t)
  PROVE  TypeOK'
<1> DEFINE Frame == [lag : BOOLEAN, list : Lists]
           new(s) == IF ~AtConsole(s) THEN <<>>
                     ELSE IF Len(backlog[s]) < MaxBacklog
                          THEN Append(backlog[s], [lag |-> FALSE, list |-> sending[t].list])
                          ELSE <<Lagged>>
<1>1. sending[t].list \in Lists
  BY DEF TypeOK
<1>2. ASSUME NEW s \in Sessions PROVE new(s) \in Seq(Frame)
  <2>1. backlog[s] \in Seq(Frame) /\ [lag |-> FALSE, list |-> sending[t].list] \in Frame
    BY <1>1 DEF TypeOK
  <2>2. <<Lagged>> \in Seq(Frame)
    BY ConstantTypes
  <2>3. Append(backlog[s], [lag |-> FALSE, list |-> sending[t].list]) \in Seq(Frame)
    BY <2>1, AppendFacts
  <2>4. <<>> \in Seq(Frame)
    OBVIOUS
  <2>5. QED
    BY <2>2, <2>3, <2>4
<1>3. backlog' = [s \in Sessions |-> new(s)]
  BY DEF Send
<1>4. backlog' \in [Sessions -> Seq(Frame)]
  BY <1>2, <1>3
<1>5. session' \in [Sessions -> [at : {"joining", "on"}, op : Operators] \cup {Off, Leaving}]
  BY SentTypes DEF TypeOK, Send
<1>6. sending' \in [Tasks -> [at : {"nothing", "read", "send"}, list : Lists]]
  BY ConstantTypes DEF TypeOK, Send
<1>7. QED
  BY <1>4, <1>5, <1>6 DEF TypeOK, Send

LEMMA TypeConsole ==
  ASSUME TypeOK, NEW s \in Sessions,
         \/ \E o \in Operators : Join(s, o)
         \/ \E f \in Focuses : Heartbeat(s, f)
         \/ Disconnect(s) \/ TakeFrame(s)
  PROVE  TypeOK'
<1>1. ASSUME NEW o \in Operators, Join(s, o) PROVE TypeOK'
  <2>1. registry' \in Lists
    <3>1. Nowhere \in Focuses \cup {"absent"}
      BY DEF Focuses
    <3>2. QED
      BY <1>1, <3>1 DEF TypeOK, Join, Put, Lists
  <2>2. session' \in [Sessions -> [at : {"joining", "on"}, op : Operators] \cup {Off, Leaving}]
    BY <1>1 DEF TypeOK, Join
  <2>3. sending' \in [Tasks -> [at : {"nothing", "read", "send"}, list : Lists]]
    BY <1>1, ConstantTypes DEF TypeOK, Join, Tasks
  <2>4. backlog' \in [Sessions -> Seq([lag : BOOLEAN, list : Lists])]
    <3>1. <<>> \in Seq([lag : BOOLEAN, list : Lists])
      OBVIOUS
    <3>2. QED
      BY <1>1, <3>1 DEF TypeOK, Join
  <2>5. shown' \in [Sessions -> Lists]
    BY <1>1, ConstantTypes DEF TypeOK, Join
  <2>6. QED
    BY <2>1, <2>2, <2>3, <2>4, <2>5 DEF TypeOK
<1>2. ASSUME NEW f \in Focuses, Heartbeat(s, f) PROVE TypeOK'
  <2>1. session[s].op \in Operators
    BY <1>2 DEF TypeOK, Heartbeat, Listening, Off, Leaving
  <2>2. registry' \in Lists
    BY <1>2, <2>1 DEF TypeOK, Heartbeat, Put, Lists
  <2>3. sending' \in [Tasks -> [at : {"nothing", "read", "send"}, list : Lists]]
    BY <1>2, ConstantTypes DEF TypeOK, Heartbeat, Tasks
  <2>4. QED
    BY <1>2, <2>2, <2>3 DEF TypeOK, Heartbeat
<1>3. ASSUME Leave(s), Listening(s) PROVE TypeOK'
  <2>1. registry' \in Lists
    BY <1>3 DEF TypeOK, Leave, Lists
  <2>2. session' \in [Sessions -> [at : {"joining", "on"}, op : Operators] \cup {Off, Leaving}]
    BY <1>3 DEF TypeOK, Leave
  <2>3. sending' \in [Tasks -> [at : {"nothing", "read", "send"}, list : Lists]]
    BY <1>3, ConstantTypes DEF TypeOK, Leave, Tasks
  <2>4. backlog' \in [Sessions -> Seq([lag : BOOLEAN, list : Lists])]
    <3>1. <<>> \in Seq([lag : BOOLEAN, list : Lists])
      OBVIOUS
    <3>2. QED
      BY <1>3, <3>1 DEF TypeOK, Leave
  <2>5. shown' \in [Sessions -> Lists]
    BY <1>3, ConstantTypes DEF TypeOK, Leave
  <2>6. QED
    BY <2>1, <2>2, <2>3, <2>4, <2>5 DEF TypeOK
<1>4. CASE Disconnect(s)
  BY <1>3, <1>4 DEF Disconnect
<1>5. CASE TakeFrame(s)
  <2>1. CASE Head(backlog[s]).lag
    BY <1>3, <1>5, <2>1 DEF TakeFrame
  <2>2. CASE ~Head(backlog[s]).lag
    <3>1. backlog[s] \in Seq([lag : BOOLEAN, list : Lists]) /\ backlog[s] # <<>>
      BY <1>5 DEF TypeOK, TakeFrame
    <3>2. /\ Head(backlog[s]) \in [lag : BOOLEAN, list : Lists]
          /\ Tail(backlog[s]) \in Seq([lag : BOOLEAN, list : Lists])
      BY <3>1, TailFacts
    <3>3. backlog' \in [Sessions -> Seq([lag : BOOLEAN, list : Lists])]
      BY <1>5, <2>2, <3>2 DEF TypeOK, TakeFrame
    <3>4. shown' \in [Sessions -> Lists]
      BY <1>5, <2>2, <3>2 DEF TypeOK, TakeFrame
    <3>5. QED
      BY <1>5, <2>2, <3>3, <3>4 DEF TypeOK, TakeFrame
  <2>3. QED
    BY <2>1, <2>2
<1>6. QED
  BY <1>1, <1>2, <1>4, <1>5

LEMMA TypeStep == TypeOK /\ [Next]_vars => TypeOK'
<1> SUFFICES ASSUME TypeOK, [Next]_vars PROVE TypeOK'
  OBVIOUS
<1>1. ASSUME NEW t \in Tasks, ReadRegistry(t) PROVE TypeOK'
  BY <1>1 DEF TypeOK, ReadRegistry
<1>2. ASSUME NEW t \in Tasks, Send(t) PROVE TypeOK'
  BY <1>2, TypeSend
<1>3. CASE Collect
  <2>1. registry' \in Lists
    BY <1>3 DEF TypeOK, Collect, Lists
  <2>2. sending' \in [Tasks -> [at : {"nothing", "read", "send"}, list : Lists]]
    BY <1>3, ConstantTypes DEF TypeOK, Collect, Tasks
  <2>3. QED
    BY <1>3, <2>1, <2>2 DEF TypeOK, Collect
<1>4. CASE UNCHANGED vars
  BY <1>4 DEF TypeOK, vars
<1>5. QED
  BY <1>1, <1>2, <1>3, <1>4, TypeConsole DEF Next

-----------------------------------------------------------------------------
(* An operator in the registry has a console open.                             *)

LEMMA GhostStep == TypeOK /\ NoGhosts /\ [Next]_vars => NoGhosts'
<1> SUFFICES ASSUME TypeOK, NoGhosts, [Next]_vars,
                    NEW o \in Operators, registry'[o] # "absent"
             PROVE  \E s \in Sessions : session'[s].at \in {"joining", "on"} /\ session'[s].op = o
  BY DEF NoGhosts, Present, AtConsole
<1>0. ASSUME registry[o] # "absent"
      PROVE  \E s \in Sessions : session[s].at \in {"joining", "on"} /\ session[s].op = o
  BY <1>0 DEF NoGhosts, Present, AtConsole
<1>1. CASE registry' = registry /\ session' = session
  BY <1>0, <1>1
<1>2. ASSUME NEW t \in Tasks, Send(t)
      PROVE  \E s \in Sessions : session'[s].at \in {"joining", "on"} /\ session'[s].op = o
  <2>1. PICK s \in Sessions : session[s].at \in {"joining", "on"} /\ session[s].op = o
    BY <1>0, <1>2 DEF Send
  <2>2. QED
    BY <1>2, <2>1, SentTypes DEF TypeOK, Send
<1>3. ASSUME NEW s \in Sessions, NEW p \in Operators, Join(s, p)
      PROVE  \E u \in Sessions : session'[u].at \in {"joining", "on"} /\ session'[u].op = o
  <2>1. session'[s].at \in {"joining", "on"} /\ session'[s].op = p
    BY <1>3 DEF TypeOK, Join
  <2>2. ASSUME o # p
        PROVE  \E u \in Sessions : session'[u].at \in {"joining", "on"} /\ session'[u].op = o
    <3>1. registry[o] # "absent"
      BY <1>3, <2>2 DEF TypeOK, Lists, Join, Put
    <3>2. PICK u \in Sessions : session[u].at \in {"joining", "on"} /\ session[u].op = o
      BY <1>0, <3>1
    <3>3. u # s
      BY <1>3, <3>2 DEF Join
    <3>4. session'[u] = session[u]
      BY <1>3, <3>3 DEF TypeOK, Join
    <3>5. QED
      BY <3>2, <3>4
  <2>3. QED
    BY <2>1, <2>2
<1>4. ASSUME NEW s \in Sessions, NEW f \in Focuses, Heartbeat(s, f)
      PROVE  \E u \in Sessions : session'[u].at \in {"joining", "on"} /\ session'[u].op = o
  <2>1. session' = session /\ session[s].at = "on"
    BY <1>4 DEF Heartbeat, Listening
  <2>2. CASE o = session[s].op
    BY <2>1, <2>2
  <2>3. CASE o # session[s].op
    BY <1>0, <1>4, <2>1, <2>3 DEF TypeOK, Lists, Heartbeat, Put
  <2>4. QED
    BY <2>2, <2>3
<1>5. ASSUME NEW s \in Sessions, Leave(s)
      PROVE  \E u \in Sessions : session'[u].at \in {"joining", "on"} /\ session'[u].op = o
  <2>1. o # session[s].op /\ registry[o] # "absent"
    BY <1>5 DEF TypeOK, Lists, Leave
  <2>2. PICK u \in Sessions : session[u].at \in {"joining", "on"} /\ session[u].op = o
    BY <1>0, <2>1
  <2>3. u # s
    BY <2>1, <2>2
  <2>4. session'[u] = session[u]
    <3>1. session' \in {[session EXCEPT ![s] = Leaving], [session EXCEPT ![s] = Off]}
      BY <1>5 DEF Leave
    <3>2. QED
      BY <2>3, <3>1 DEF TypeOK
  <2>5. QED
    BY <2>2, <2>4
<1>6. CASE Collect
  BY <1>0, <1>6 DEF TypeOK, Lists, Collect
<1>7. QED
  BY <1>1, <1>2, <1>3, <1>4, <1>5, <1>6
     DEF Next, vars, ReadRegistry, Disconnect, TakeFrame

-----------------------------------------------------------------------------
(* Whoever did not lag is heading for the list the others are heading for.     *)

\* A step that brings no console here, and changes no console's destination.
LEMMA SameDestinations ==
  ASSUME SameComing,
         \A s \in Sessions : (session[s].at = "on" /\ Clean(s))'
           => session[s].at = "on" /\ Clean(s) /\ Coming(s)' = Coming(s)
  PROVE  SameComing'
BY DEF SameComing

\* A broadcast sends everyone, the sender who joins by it included, to one list.
LEMMA SendComing ==
  ASSUME TypeOK, NEW t \in Tasks, Send(t)
  PROVE  SameComing'
<1>1. ASSUME NEW s \in Sessions, (session[s].at = "on")', Clean(s)'
      PROVE  Coming(s)' = sending[t].list
  <2>1. AtConsole(s)
    BY <1>1, SentTypes DEF TypeOK, Send, AtConsole
  <2>2. backlog[s] \in Seq([lag : BOOLEAN, list : Lists])
    BY DEF TypeOK
  <2>3. CASE Len(backlog[s]) < MaxBacklog
    <3>1. backlog'[s] = Append(backlog[s], [lag |-> FALSE, list |-> sending[t].list])
      BY <2>1, <2>3 DEF Send
    <3>2. /\ backlog'[s] # <<>>
          /\ backlog'[s][Len(backlog'[s])] = [lag |-> FALSE, list |-> sending[t].list]
      <4>1. [lag |-> FALSE, list |-> sending[t].list] \in [lag : BOOLEAN, list : Lists]
        BY DEF TypeOK
      <4>2. QED
        BY <2>2, <3>1, <4>1, AppendFacts
    <3>3. QED
      BY <3>2 DEF Coming
  <2>4. CASE ~(Len(backlog[s]) < MaxBacklog)
    <3>1. backlog'[s] = <<Lagged>>
      BY <2>1, <2>4 DEF Send
    <3>2. 1 \in 1..Len(backlog'[s]) /\ backlog'[s][1].lag
      BY <3>1 DEF Lagged
    <3>3. QED
      BY <1>1, <3>2 DEF Clean
  <2>5. QED
    BY <2>3, <2>4
<1>2. QED
  BY <1>1 DEF SameComing

\* A console that takes a frame comes nearer to where it was heading.
LEMMA TakeComing ==
  ASSUME TypeOK, NEW s \in Sessions, session[s].at = "on",
         backlog[s] # <<>>, ~Head(backlog[s]).lag,
         shown' = [shown EXCEPT ![s] = Head(backlog[s]).list],
         backlog' = [backlog EXCEPT ![s] = Tail(@)],
         Clean(s)'
  PROVE  Clean(s) /\ Coming(s)' = Coming(s)
<1> DEFINE b == backlog[s]
<1>1. b \in Seq([lag : BOOLEAN, list : Lists]) /\ b # <<>>
  BY DEF TypeOK
<1>2. backlog'[s] = Tail(b) /\ shown'[s] = Head(b).list
  BY DEF TypeOK
<1>3. ~Head(b).lag
  OBVIOUS
<1>4. PICK n \in Nat : Len(b) = n + 1
  <2>1. Len(b) \in Nat \ {0}
    BY <1>1, TailFacts
  <2>2. Len(b) - 1 \in Nat /\ Len(b) = (Len(b) - 1) + 1
    BY <2>1
  <2>3. QED
    BY <2>2
<1>5. /\ Head(b) = b[1]
      /\ Len(Tail(b)) = n
      /\ \A i \in 1..n : Tail(b)[i] = b[i + 1]
      /\ Tail(b) = <<>> <=> n = 0
  <2>1. (n + 1) - 1 = n /\ (n + 1 = 1 <=> n = 0)
    OBVIOUS
  <2>2. /\ Head(b) = b[1]
        /\ Len(Tail(b)) = (n + 1) - 1
        /\ \A i \in 1..((n + 1) - 1) : Tail(b)[i] = b[i + 1]
        /\ Tail(b) = <<>> <=> n + 1 = 1
    BY <1>1, <1>4, TailFacts
  <2>3. QED
    BY <2>1, <2>2
<1>6. \A i \in 1..n : ~Tail(b)[i].lag
  BY <1>2, <1>5 DEF Clean
<1>7. Clean(s) <=> \A i \in 1..(n + 1) : ~b[i].lag
  BY <1>4 DEF Clean
<1>8. Coming(s) = b[n + 1].list
  BY <1>1, <1>4 DEF Coming
<1>9. Coming(s)' = IF n = 0 THEN Head(b).list ELSE Tail(b)[n].list
  BY <1>2, <1>5 DEF Coming
<1> HIDE DEF b
<1>10. ASSUME NEW i \in 1..(n + 1) PROVE ~b[i].lag
  <2>1. CASE i = 1
    BY <1>3, <1>5, <2>1
  <2>2. CASE i # 1
    <3>1. i - 1 \in 1..n /\ (i - 1) + 1 = i
      BY <2>2
    <3>2. Tail(b)[i - 1] = b[i]
      BY <1>5, <3>1
    <3>3. QED
      BY <1>6, <3>1, <3>2
  <2>3. QED
    BY <2>1, <2>2
<1>11. Coming(s)' = Coming(s)
  <2>1. CASE n = 0
    BY <1>5, <1>8, <1>9, <2>1
  <2>2. CASE n # 0
    <3>1. n \in 1..n
      BY <2>2
    <3>2. QED
      BY <1>5, <1>8, <1>9, <2>2, <3>1
  <2>3. QED
    BY <2>1, <2>2
<1>12. QED
  BY <1>7, <1>10, <1>11

LEMMA ComingStep == TypeOK /\ SameComing /\ [Next]_vars => SameComing'
<1> SUFFICES ASSUME TypeOK, SameComing, [Next]_vars PROVE SameComing'
  OBVIOUS
<1>1. CASE UNCHANGED <<session, backlog, shown>>
  BY <1>1, SameDestinations DEF Clean, Coming
<1>2. ASSUME NEW s \in Sessions, session'[s].at # "on",
             \A u \in Sessions \ {s} : /\ session'[u] = session[u]
                                       /\ backlog'[u] = backlog[u]
                                       /\ shown'[u] = shown[u]
      PROVE  SameComing'
  <2>1. ASSUME NEW u \in Sessions, (session[u].at = "on" /\ Clean(u))'
        PROVE  session[u].at = "on" /\ Clean(u) /\ Coming(u)' = Coming(u)
    <3>1. /\ u # s /\ session'[u] = session[u]
          /\ backlog'[u] = backlog[u] /\ shown'[u] = shown[u]
      BY <1>2, <2>1
    <3>2. QED
      BY <2>1, <3>1 DEF Clean, Coming
  <2>2. QED
    BY <2>1, SameDestinations
<1>3. ASSUME NEW s \in Sessions, NEW o \in Operators, Join(s, o) PROVE SameComing'
  BY <1>2, <1>3 DEF TypeOK, Join
<1>4. ASSUME NEW s \in Sessions, Leave(s) PROVE SameComing'
  <2>1. session' \in {[session EXCEPT ![s] = Leaving], [session EXCEPT ![s] = Off]}
    BY <1>4 DEF Leave
  <2>2. session'[s].at # "on"
    BY <2>1 DEF TypeOK, Off, Leaving
  <2>3. \A u \in Sessions \ {s} : session'[u] = session[u]
    BY <2>1 DEF TypeOK
  <2>4. \A u \in Sessions \ {s} : backlog'[u] = backlog[u] /\ shown'[u] = shown[u]
    BY <1>4 DEF TypeOK, Leave
  <2>5. QED
    BY <1>2, <2>2, <2>3, <2>4
<1>5. ASSUME NEW s \in Sessions, TakeFrame(s) PROVE SameComing'
  <2>1. CASE Head(backlog[s]).lag
    BY <1>4, <1>5, <2>1 DEF TakeFrame
  <2>2. CASE ~Head(backlog[s]).lag
    <3>1. ASSUME NEW u \in Sessions, (session[u].at = "on" /\ Clean(u))'
          PROVE  session[u].at = "on" /\ Clean(u) /\ Coming(u)' = Coming(u)
      <4>1. CASE u = s
        BY <1>5, <2>2, <3>1, <4>1, TakeComing DEF TakeFrame, Listening
      <4>2. CASE u # s
        <5>1. session'[u] = session[u] /\ backlog'[u] = backlog[u] /\ shown'[u] = shown[u]
          BY <1>5, <2>2, <4>2 DEF TypeOK, TakeFrame
        <5>2. QED
          BY <3>1, <5>1 DEF Clean, Coming
      <4>3. QED
        BY <4>1, <4>2
    <3>2. QED
      BY <3>1, SameDestinations
  <2>3. QED
    BY <2>1, <2>2
<1>6. ASSUME NEW t \in Tasks, Send(t) PROVE SameComing'
  BY <1>6, SendComing
<1>7. QED
  BY <1>1, <1>3, <1>4, <1>5, <1>6
     DEF Next, vars, ReadRegistry, Heartbeat, Disconnect, Collect

-----------------------------------------------------------------------------
(* The theorems.                                                               *)

LEMMA InvInit == Init => IInv
<1>1. Init => NoGhosts
  BY DEF Init, NoGhosts, Present, Blank
<1>2. Init => SameComing
  BY DEF Init, SameComing, Off
<1>3. QED
  BY <1>1, <1>2, TypeInit DEF IInv

LEMMA InvStep == IInv /\ [Next]_vars => IInv'
BY TypeStep, GhostStep, ComingStep DEF IInv

LEMMA Invariance == Spec => []IInv
BY InvInit, InvStep, PTL DEF Spec

\* The registry, every list read of it and every list shown are lists of operators
\* with a focus, through every interleaving of consoles and GC.
THEOREM PresenceTypes == Spec => []TypeOK
<1>1. IInv => TypeOK
  BY DEF IInv
<1>2. QED
  BY <1>1, Invariance, PTL

\* An operator in the registry has a console open (presence.rs drops him when one
\* of his consoles closes): nobody is shown as present by an entry left behind.
THEOREM NobodyLeftBehind == Spec => []NoGhosts
<1>1. IInv => NoGhosts
  BY DEF IInv
<1>2. QED
  BY <1>1, Invariance, PTL

\* Consoles that have taken all their frames show the same list, for any capacity
\* of the channel: a console that lagged is closed before it could show another.
THEOREM ConsolesAgree == Spec => []SameList
<1>1. IInv => SameList
  BY DEF IInv, SameComing, SameList, Settled, Clean, Coming
<1>2. QED
  BY <1>1, Invariance, PTL
=============================================================================
