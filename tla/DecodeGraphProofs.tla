--------------------------- MODULE DecodeGraphProofs ---------------------------
(***************************************************************************)
(* The builder of decode graphs and freeze() do not abort, every graph is  *)
(* well-formed after every call, and run_serial executes each task once,   *)
(* in an order its edges allow: for any batch size, list of layers, tiles, *)
(* heads, experts and options.                                             *)
(*                                                                         *)
(* The argument has three parts.                                           *)
(* - Graphs: an edge keeps the countdowns and makes no cycle if it leads   *)
(*   to a task that nothing waits for yet.  dep_edge always finds room: a  *)
(*   producer keeps its last slot for a relay tree, a trunk keeps one for  *)
(*   the next trunk.  So a call (AddOp, AddDot, AddTerminal) that waits    *)
(*   for earlier calls adds a task without consumers, takes this property  *)
(*   from the tasks it waits for and from no other (Called).  What waits   *)
(*   for nothing outside it, a cut, can be continued over the call with    *)
(*   the new tasks or without them (Sides).                                *)
(* - Script: each call of build_graph_m waits only for what an earlier     *)
(*   call has named, no name is given twice, and all names but those the   *)
(*   terminal waits for are waited for before it (Piece, BodyEnds).  So    *)
(*   after the terminal it is the only task without consumers (Built,      *)
(*   Finished).                                                            *)
(* - Loop: a countdown is the number of entries of consumer arrays that    *)
(*   were not gone through (Counting); as there is no cycle, the loop ends *)
(*   when all tasks have been popped.                                      *)
(***************************************************************************)
EXTENDS DecodeGraph, FiniteSetTheorems, SequenceTheorems, WellFoundedInduction,
        TLAPS

(* A set of numbers has a least one.                                       *)
LEMMA LeastNumber ==
  ASSUME NEW T, T \subseteq Nat, T # {}
  PROVE  \E x \in T : \A y \in T : x <= y
<1>1. PICK x \in T : \A y \in T : ~(<<y, x>> \in OpToRel(<, Nat))
  BY NatLessThanWellFounded, WFMin, Zenon
<1>2. \A y \in T : ~(y < x)
  BY <1>1 DEF OpToRel
<1> QED
  BY <1>2

(* Induction, for a set of numbers.                                        *)
LEMMA Induction ==
  ASSUME NEW T, 0 \in T, \A n \in Nat : n \in T => n + 1 \in T
  PROVE  \A n \in Nat : n \in T
<1> SUFFICES ASSUME Nat \ T # {}  PROVE FALSE
  OBVIOUS
<1>1. PICK x \in Nat \ T : \A y \in Nat \ T : x <= y
  BY LeastNumber
<1>2. x - 1 \in Nat /\ x - 1 \notin Nat \ T
  BY <1>1
<1> QED
  BY <1>1, <1>2

--------------------------------------------------------------------------------
(* Graphs under construction.                                              *)

LEMMA EmptySequence == DOMAIN <<>> = {} /\ Len(<<>>) = 0 /\ \A S : <<>> \in Seq(S)
<1>1. \A s : s \in Seq({}) => DOMAIN s = 1 .. Len(s)
  OBVIOUS
<1>2. <<>> \in Seq({}) /\ Len(<<>>) = 0
  OBVIOUS
<1>3. DOMAIN <<>> = 1 .. 0
  BY <1>1, <1>2
<1>4. 1 .. 0 = {}
  OBVIOUS
<1> QED
  BY <1>2, <1>3, <1>4

IsSequence(s) == \E S : s \in Seq(S)

(* The parts of a graph fit together.                                      *)
Shape(g) ==
  /\ DOMAIN g = {"tasks", "consumers", "depInit", "ports", "died"}
  /\ IsSequence(g.tasks)
  /\ g.consumers \in Seq(Seq(Nat)) /\ Len(g.consumers) = Len(g.tasks)
  /\ g.depInit \in Seq(Nat) /\ Len(g.depInit) = Len(g.tasks)
  /\ \A t \in TaskIds(g) : /\ g.consumers[t] \in Seq(TaskIds(g))
                           /\ Len(g.consumers[t]) <= MaxConsumers

Counts(g) ==
  \A c \in TaskIds(g) : g.depInit[c] = Cardinality(EntriesNaming(g, c))

Leads(g, p, c) == \E k \in DOMAIN g.consumers[p] : g.consumers[p][k] = c

(* Every set of tasks has one that waits for none of the others.           *)
Acyclic(g) ==
  \A S \in SUBSET TaskIds(g) :
    S # {} => \E t \in S : \A p \in S : ~Leads(g, p, t)

IsSink(g, t) == g.consumers[t] = <<>>

Base(g) == Shape(g) /\ Counts(g) /\ Acyclic(g)

LEMMA ShapeFacts ==
  ASSUME NEW g, Shape(g)
  PROVE  /\ Len(g.tasks) \in Nat
         /\ \A t \in TaskIds(g) : /\ t \in Nat /\ t >= 1 /\ t <= Len(g.tasks)
                                  /\ Len(g.consumers[t]) \in Nat
                                  /\ DOMAIN g.consumers[t] = 1 .. Len(g.consumers[t])
                                  /\ DOMAIN g.consumers[t] \subseteq 1 .. MaxConsumers
                                  /\ \A k \in DOMAIN g.consumers[t] :
                                       g.consumers[t][k] \in TaskIds(g)
<1>1. Len(g.tasks) \in Nat
  <2>1. PICK S : g.tasks \in Seq(S)
    BY DEF Shape, IsSequence
  <2> QED BY <2>1
<1>2. ASSUME NEW t \in TaskIds(g)
      PROVE  /\ t \in Nat /\ t >= 1 /\ t <= Len(g.tasks)
             /\ Len(g.consumers[t]) \in Nat
             /\ DOMAIN g.consumers[t] = 1 .. Len(g.consumers[t])
             /\ DOMAIN g.consumers[t] \subseteq 1 .. MaxConsumers
             /\ \A k \in DOMAIN g.consumers[t] : g.consumers[t][k] \in TaskIds(g)
  <2>1. t \in Nat /\ t >= 1 /\ t <= Len(g.tasks)
    BY <1>1 DEF TaskIds
  <2> DEFINE s == g.consumers[t]
  <2>2. s \in Seq(TaskIds(g)) /\ Len(s) <= MaxConsumers
    BY DEF Shape
  <2> HIDE DEF s
  <2>3. Len(s) \in Nat /\ DOMAIN s = 1 .. Len(s) /\ \A k \in DOMAIN s : s[k] \in TaskIds(g)
    BY <2>2
  <2>4. DOMAIN s \subseteq 1 .. MaxConsumers
    BY <2>2, <2>3 DEF MaxConsumers
  <2> QED BY <2>1, <2>3, <2>4 DEF s
<1> QED
  BY <1>1, <1>2

(* What AddTask does to each part: n is the new task.                      *)
TaskAdded(g, h, n, task) ==
  /\ DOMAIN h = DOMAIN g
  /\ h.tasks = Append(g.tasks, task) /\ Len(h.tasks) = n
  /\ NewestTask(h) = n /\ TaskIds(h) = TaskIds(g) \cup {n}
  /\ n \in Nat /\ n \notin TaskIds(g)
  /\ \A t \in TaskIds(g) : h.tasks[t] = g.tasks[t]
  /\ h.tasks[n] = task
  /\ h.consumers = Append(g.consumers, <<>>)
  /\ \A t \in TaskIds(g) : h.consumers[t] = g.consumers[t]
  /\ h.consumers[n] = <<>>
  /\ h.depInit = Append(g.depInit, 0)
  /\ \A t \in TaskIds(g) : h.depInit[t] = g.depInit[t]
  /\ h.depInit[n] = 0
  /\ h.ports = g.ports /\ h.died = g.died
  /\ IsSequence(h.tasks)

LEMMA AddTaskParts ==
  ASSUME NEW g, Shape(g), NEW task, NEW h, h = AddTask(g, task),
         NEW n, n = Len(g.tasks) + 1
  PROVE  TaskAdded(g, h, n, task)
<1>1. /\ DOMAIN h = DOMAIN g
      /\ h.tasks = Append(g.tasks, task)
      /\ h.consumers = Append(g.consumers, <<>>)
      /\ h.depInit = Append(g.depInit, 0)
      /\ h.ports = g.ports /\ h.died = g.died
  BY DEF AddTask, Shape
<1>2. PICK S : g.tasks \in Seq(S)
  BY DEF Shape, IsSequence
<1>3. /\ Len(h.tasks) = n /\ n \in Nat /\ h.tasks[n] = task
      /\ \A t \in 1 .. Len(g.tasks) : h.tasks[t] = g.tasks[t]
      /\ h.tasks \in Seq(S \cup {task})
  BY <1>1, <1>2
<1>4. /\ h.consumers[n] = <<>>
      /\ \A t \in 1 .. Len(g.tasks) : h.consumers[t] = g.consumers[t]
  BY <1>1 DEF Shape
<1>5. /\ h.depInit[n] = 0
      /\ \A t \in 1 .. Len(g.tasks) : h.depInit[t] = g.depInit[t]
  BY <1>1 DEF Shape
<1>6. TaskIds(h) = TaskIds(g) \cup {n} /\ n \notin TaskIds(g) /\ NewestTask(h) = n
  <2>1. Len(g.tasks) \in Nat
    BY <1>2
  <2> QED BY <1>3, <2>1 DEF TaskIds, NewestTask
<1> QED
  BY <1>1, <1>3, <1>4, <1>5, <1>6 DEF TaskIds, IsSequence, TaskAdded

(* A new task is isolated.                                                 *)
LEMMA AddTaskKeepsBase ==
  ASSUME NEW g, Base(g), NEW task, NEW h, h = AddTask(g, task)
  PROVE  Base(h)
<1>0. PICK n : n = Len(g.tasks) + 1
  OBVIOUS
<1>1. /\ DOMAIN h = {"tasks", "consumers", "depInit", "ports", "died"}
      /\ Len(h.tasks) = n /\ TaskIds(h) = TaskIds(g) \cup {n}
      /\ n \in Nat /\ n \notin TaskIds(g)
      /\ h.consumers = Append(g.consumers, <<>>)
      /\ \A t \in TaskIds(g) : h.consumers[t] = g.consumers[t]
      /\ h.consumers[n] = <<>>
      /\ h.depInit = Append(g.depInit, 0)
      /\ \A t \in TaskIds(g) : h.depInit[t] = g.depInit[t]
      /\ h.depInit[n] = 0
      /\ IsSequence(h.tasks)
  <2>1. Shape(g) /\ DOMAIN g = {"tasks", "consumers", "depInit", "ports", "died"}
    BY DEF Base, Shape
  <2> QED BY <1>0, <2>1, AddTaskParts DEF TaskAdded
<1>2. Shape(g) /\ \A t \in TaskIds(g) : /\ g.consumers[t] \in Seq(TaskIds(g))
                                        /\ Len(g.consumers[t]) <= MaxConsumers
  BY DEF Base, Shape
<1>3. Shape(h)
  <2>1. h.consumers \in Seq(Seq(Nat)) /\ Len(h.consumers) = n
    BY <1>0, <1>1, <1>2 DEF Shape
  <2>2. h.depInit \in Seq(Nat) /\ Len(h.depInit) = n
    BY <1>0, <1>1, <1>2 DEF Shape
  <2>3. ASSUME NEW t \in TaskIds(h)
        PROVE  h.consumers[t] \in Seq(TaskIds(h)) /\ Len(h.consumers[t]) <= MaxConsumers
    <3>1. CASE t \in TaskIds(g)
      <4>1. h.consumers[t] = g.consumers[t] /\ TaskIds(g) \subseteq TaskIds(h)
        BY <1>1, <3>1
      <4> QED BY <1>2, <3>1, <4>1
    <3>2. CASE t = n
      <4>1. h.consumers[t] = <<>>
        BY <1>1, <3>2
      <4>2. <<>> \in Seq(TaskIds(h)) /\ Len(<<>>) = 0
        OBVIOUS
      <4> QED BY <4>1, <4>2 DEF MaxConsumers
    <3> QED BY <1>1, <3>1, <3>2
  <2> QED BY <1>1, <2>1, <2>2, <2>3 DEF Shape
<1>4. \A p \in TaskIds(h), c \in TaskIds(h) : Leads(h, p, c) <=> /\ p \in TaskIds(g)
                                                               /\ c \in TaskIds(g)
                                                               /\ Leads(g, p, c)
  <2> SUFFICES ASSUME NEW p \in TaskIds(h), NEW c \in TaskIds(h)
               PROVE  Leads(h, p, c) <=> /\ p \in TaskIds(g) /\ c \in TaskIds(g)
                                         /\ Leads(g, p, c)
    OBVIOUS
  <2>1. CASE p = n
    <3>1. h.consumers[p] = <<>> /\ DOMAIN <<>> = {}
      BY <1>1, <2>1, EmptySequence
    <3> QED BY <1>1, <2>1, <3>1 DEF Leads
  <2>2. CASE p \in TaskIds(g)
    <3>1. Leads(h, p, c) <=> Leads(g, p, c)
      BY <1>1, <2>2 DEF Leads
    <3>2. Leads(g, p, c) => c \in TaskIds(g)
      BY <1>2, <2>2, ShapeFacts DEF Leads
    <3> QED BY <2>2, <3>1, <3>2
  <2> QED BY <1>1, <2>1, <2>2
<1>5. Counts(h)
  <2> SUFFICES ASSUME NEW c \in TaskIds(h)
               PROVE  h.depInit[c] = Cardinality(EntriesNaming(h, c))
    BY DEF Counts
  <2>1. CASE c = n
    <3>1. \A p \in TaskIds(h) : \A k \in DOMAIN h.consumers[p] : h.consumers[p][k] # c
      <4>1. \A p \in TaskIds(h) : ~Leads(h, p, c)
        BY <1>1, <1>4, <2>1
      <4> QED BY <4>1 DEF Leads
    <3>2. EntriesNaming(h, c) = {}
      BY <3>1 DEF EntriesNaming
    <3> QED BY <1>1, <2>1, <3>2, FS_EmptySet
  <2>2. CASE c \in TaskIds(g)
    <3>1. EntriesNaming(h, c) = EntriesNaming(g, c)
      <4>1. \A p \in TaskIds(h) : \A k \in 1 .. MaxConsumers :
              (k \in DOMAIN h.consumers[p] /\ h.consumers[p][k] = c)
                <=> /\ p \in TaskIds(g)
                    /\ k \in DOMAIN g.consumers[p] /\ g.consumers[p][k] = c
        <5>1. h.consumers[n] = <<>> /\ DOMAIN <<>> = {}
          BY <1>1, EmptySequence
        <5> QED BY <1>1, <5>1
      <4>2. EntriesNaming(h, c) \subseteq EntriesNaming(g, c)
        BY <4>1 DEF EntriesNaming
      <4>3. EntriesNaming(g, c) \subseteq EntriesNaming(h, c)
        BY <1>1, <4>1 DEF EntriesNaming
      <4> QED BY <4>2, <4>3
    <3> QED BY <1>1, <2>2, <3>1 DEF Base, Counts
  <2> QED BY <1>1, <2>1, <2>2
<1>6. Acyclic(h)
  <2> SUFFICES ASSUME NEW S \in SUBSET TaskIds(h), S # {}
               PROVE  \E t \in S : \A p \in S : ~Leads(h, p, t)
    BY DEF Acyclic
  <2>1. CASE n \in S
    <3>1. \A p \in S : ~Leads(h, p, n)
      BY <1>1, <1>4
    <3> QED BY <2>1, <3>1
  <2>2. CASE n \notin S
    <3>1. S \in SUBSET TaskIds(g)
      BY <1>1, <2>2
    <3>2. PICK t \in S : \A p \in S : ~Leads(g, p, t)
      BY <3>1 DEF Base, Acyclic
    <3> QED BY <1>4, <3>2
  <2> QED BY <2>1, <2>2
<1> QED
  BY <1>3, <1>5, <1>6 DEF Base

(* What a legal AddEdge does to each part.                                 *)
EdgeAdded(g, h, p, c) ==
  /\ DOMAIN h = DOMAIN g
  /\ h.tasks = g.tasks /\ TaskIds(h) = TaskIds(g)
  /\ h.ports = g.ports /\ h.died = g.died
  /\ p \in TaskIds(g) /\ c \in TaskIds(g) /\ p # c
  /\ h.consumers \in Seq(Seq(Nat)) /\ Len(h.consumers) = Len(g.tasks)
  /\ h.consumers[p] = Append(g.consumers[p], c)
  /\ Len(h.consumers[p]) = Len(g.consumers[p]) + 1
  /\ Len(h.consumers[p]) <= MaxConsumers
  /\ \A t \in TaskIds(g) : t # p => h.consumers[t] = g.consumers[t]
  /\ h.depInit \in Seq(Nat) /\ Len(h.depInit) = Len(g.tasks)
  /\ h.depInit[c] = g.depInit[c] + 1
  /\ \A t \in TaskIds(g) : t # c => h.depInit[t] = g.depInit[t]

LEMMA AddEdgeParts ==
  ASSUME NEW g, Shape(g), NEW p, NEW c, EdgeIsLegal(g, p, c),
         NEW h, h = AddEdge(g, p, c)
  PROVE  EdgeAdded(g, h, p, c)
<1>1. /\ p \in TaskIds(g) /\ c \in TaskIds(g) /\ p # c
      /\ Len(g.consumers[p]) < MaxConsumers
  BY DEF EdgeIsLegal
<1>2. /\ DOMAIN h = DOMAIN g
      /\ h.tasks = g.tasks
      /\ h.consumers = [g.consumers EXCEPT ![p] = Append(g.consumers[p], c)]
      /\ h.depInit = [g.depInit EXCEPT ![c] = g.depInit[c] + 1]
      /\ h.ports = g.ports /\ h.died = g.died
  BY DEF AddEdge, Shape
<1>3. /\ DOMAIN g.consumers = TaskIds(g) /\ DOMAIN g.depInit = TaskIds(g)
      /\ c \in Nat
  <2>1. c \in Nat
    BY <1>1, ShapeFacts
  <2> QED BY <2>1 DEF Shape, TaskIds
<1>4. g.consumers[p] \in Seq(TaskIds(g)) /\ g.consumers[p] \in Seq(Nat)
  BY <1>1, <1>3 DEF Shape
<1>5. /\ h.consumers[p] = Append(g.consumers[p], c)
      /\ \A t \in TaskIds(g) : t # p => h.consumers[t] = g.consumers[t]
      /\ h.depInit[c] = g.depInit[c] + 1
      /\ \A t \in TaskIds(g) : t # c => h.depInit[t] = g.depInit[t]
  BY <1>1, <1>2, <1>3
<1>6. /\ Len(h.consumers[p]) = Len(g.consumers[p]) + 1
      /\ Len(h.consumers[p]) <= MaxConsumers
      /\ Append(g.consumers[p], c) \in Seq(Nat)
  <2> DEFINE s == g.consumers[p]
  <2>1. s \in Seq(Nat) /\ Len(s) < MaxConsumers
    BY <1>1, <1>4
  <2> HIDE DEF s
  <2>2. Len(Append(s, c)) = Len(s) + 1 /\ Append(s, c) \in Seq(Nat) /\ Len(s) \in Nat
    BY <1>3, <2>1
  <2> QED BY <1>5, <2>1, <2>2 DEF s, MaxConsumers
<1>7. h.consumers \in Seq(Seq(Nat)) /\ Len(h.consumers) = Len(g.tasks)
  BY <1>2, <1>6 DEF Shape
<1>8. h.depInit \in Seq(Nat) /\ Len(h.depInit) = Len(g.tasks)
  <2>1. g.depInit[c] + 1 \in Nat
    BY <1>1, <1>3 DEF Shape
  <2>2. g.depInit \in Seq(Nat) /\ Len(g.depInit) = Len(g.tasks) /\ c \in 1 .. Len(g.depInit)
    BY <1>1 DEF Shape, TaskIds
  <2> QED BY <1>2, <2>1, <2>2, ExceptSeq
<1> QED
  BY <1>1, <1>2, <1>5, <1>6, <1>7, <1>8 DEF TaskIds, EdgeAdded

LEMMA AddEdgeLeads ==
  ASSUME NEW g, Shape(g), NEW p, NEW c, EdgeIsLegal(g, p, c),
         NEW h, h = AddEdge(g, p, c),
         NEW x \in TaskIds(g), NEW y \in TaskIds(g)
  PROVE  Leads(h, x, y) <=> (Leads(g, x, y) \/ (x = p /\ y = c))
<1>1. /\ p \in TaskIds(g)
      /\ h.consumers[p] = Append(g.consumers[p], c)
      /\ \A t \in TaskIds(g) : t # p => h.consumers[t] = g.consumers[t]
  BY AddEdgeParts DEF EdgeAdded
<1>2. CASE x # p
  BY <1>1, <1>2 DEF Leads
<1>3. CASE x = p
  <2> DEFINE s == g.consumers[p]
             u == Append(s, c)
  <2>1. s \in Seq(TaskIds(g))
    BY <1>1 DEF Shape
  <2> HIDE DEF s
  <2>2. /\ DOMAIN s = 1 .. Len(s) /\ DOMAIN u = 1 .. Len(s) + 1 /\ Len(s) \in Nat
        /\ \A k \in 1 .. Len(s) : u[k] = s[k]
        /\ u[Len(s) + 1] = c
    BY <2>1
  <2>3. Leads(h, x, y) <=> \E k \in DOMAIN u : u[k] = y
    BY <1>1, <1>3 DEF Leads, s
  <2>4. Leads(g, x, y) <=> \E k \in DOMAIN s : s[k] = y
    BY <1>3 DEF Leads, s
  <2> HIDE DEF u
  <2>5. (\E k \in DOMAIN u : u[k] = y) <=> ((\E k \in DOMAIN s : s[k] = y) \/ y = c)
    <3>1. \A k \in DOMAIN s : k \in DOMAIN u /\ u[k] = s[k]
      BY <2>2
    <3>2. \A k \in DOMAIN u : k \in DOMAIN s \/ k = Len(s) + 1
      BY <2>2
    <3>3. Len(s) + 1 \in DOMAIN u
      BY <2>2
    <3> QED BY <2>2, <3>1, <3>2, <3>3
  <2> QED BY <1>3, <2>3, <2>4, <2>5
<1> QED
  BY <1>2, <1>3

(* An edge to a task without consumers closes no cycle.                    *)
LEMMA AddEdgeKeepsBase ==
  ASSUME NEW g, Base(g), NEW p, NEW c, EdgeIsLegal(g, p, c), IsSink(g, c),
         NEW h, h = AddEdge(g, p, c)
  PROVE  Base(h)
<1>0. Shape(g) /\ DOMAIN g = {"tasks", "consumers", "depInit", "ports", "died"}
      /\ IsSequence(g.tasks)
  BY DEF Base, Shape
<1>1. /\ DOMAIN h = DOMAIN g
      /\ h.tasks = g.tasks /\ TaskIds(h) = TaskIds(g)
      /\ p \in TaskIds(g) /\ c \in TaskIds(g) /\ p # c
      /\ h.consumers \in Seq(Seq(Nat)) /\ Len(h.consumers) = Len(g.tasks)
      /\ h.consumers[p] = Append(g.consumers[p], c)
      /\ Len(h.consumers[p]) = Len(g.consumers[p]) + 1
      /\ Len(h.consumers[p]) <= MaxConsumers
      /\ \A t \in TaskIds(g) : t # p => h.consumers[t] = g.consumers[t]
      /\ h.depInit \in Seq(Nat) /\ Len(h.depInit) = Len(g.tasks)
      /\ h.depInit[c] = g.depInit[c] + 1
      /\ \A t \in TaskIds(g) : t # c => h.depInit[t] = g.depInit[t]
  <2>1. EdgeAdded(g, h, p, c)
    BY <1>0, AddEdgeParts
  <2> QED BY <2>1 DEF EdgeAdded
<1>2. \A t \in TaskIds(g) : /\ g.consumers[t] \in Seq(TaskIds(g))
                             /\ Len(g.consumers[t]) <= MaxConsumers
  BY <1>0 DEF Shape
<1>3. Shape(h)
  <2>1. ASSUME NEW t \in TaskIds(h)
        PROVE  h.consumers[t] \in Seq(TaskIds(h)) /\ Len(h.consumers[t]) <= MaxConsumers
    <3>1. CASE t = p
      <4>1. Append(g.consumers[p], c) \in Seq(TaskIds(g))
        BY <1>1, <1>2
      <4> QED BY <1>1, <3>1, <4>1
    <3>2. CASE t # p
      BY <1>1, <1>2, <3>2
    <3> QED BY <3>1, <3>2
  <2> QED BY <1>0, <1>1, <2>1 DEF Shape
<1>4. \A x \in TaskIds(g), y \in TaskIds(g) :
        Leads(h, x, y) <=> (Leads(g, x, y) \/ (x = p /\ y = c))
  BY <1>0, AddEdgeLeads
<1>5. Counts(h)
  <2> SUFFICES ASSUME NEW y \in TaskIds(g)
               PROVE  h.depInit[y] = Cardinality(EntriesNaming(h, y))
    BY <1>1 DEF Counts
  <2> DEFINE s == g.consumers[p]
             u == Append(s, c)
             e == <<p, Len(s) + 1>>
             A == EntriesNaming(g, y)
             B == EntriesNaming(h, y)
  <2>1. /\ s \in Seq(TaskIds(g)) /\ Len(s) \in Nat /\ Len(s) < MaxConsumers
        /\ DOMAIN s = 1 .. Len(s) /\ DOMAIN u = 1 .. Len(s) + 1
        /\ \A k \in 1 .. Len(s) : u[k] = s[k]
        /\ u[Len(s) + 1] = c
        /\ h.consumers[p] = u
    <3> DEFINE v == s
    <3>1. v \in Seq(TaskIds(g)) /\ Len(v) < MaxConsumers
      BY <1>1, <1>2 DEF EdgeIsLegal
    <3>2. u = Append(v, c) /\ v = s
      OBVIOUS
    <3> HIDE DEF v, s, u
    <3> QED BY <1>1, <3>1, <3>2 DEF s
  <2>2. g.depInit[y] = Cardinality(A) /\ IsFiniteSet(A)
    <3>1. IsFiniteSet(TaskIds(g)) /\ IsFiniteSet(1 .. MaxConsumers)
      <4>1. Len(g.tasks) \in Int /\ 1 \in Int /\ MaxConsumers \in Int
        BY <1>0, ShapeFacts DEF MaxConsumers
      <4> QED BY <4>1, FS_Interval DEF TaskIds
    <3>2. IsFiniteSet(TaskIds(g) \X (1 .. MaxConsumers))
      BY <3>1, FS_Product
    <3>3. A \subseteq TaskIds(g) \X (1 .. MaxConsumers)
      BY DEF EntriesNaming
    <3> QED BY <3>2, <3>3, FS_Subset DEF Base, Counts
  <2>3. ASSUME NEW f \in TaskIds(g) \X (1 .. MaxConsumers)
        PROVE  f \in B <=> (f \in A \/ (f = e /\ y = c))
    <3>1. f \in A <=> f[2] \in DOMAIN g.consumers[f[1]] /\ g.consumers[f[1]][f[2]] = y
      BY DEF EntriesNaming
    <3>2. f \in B <=> f[2] \in DOMAIN h.consumers[f[1]] /\ h.consumers[f[1]][f[2]] = y
      BY <1>1 DEF EntriesNaming
    <3>3. CASE f[1] # p
      <4>1. h.consumers[f[1]] = g.consumers[f[1]] /\ f # e
        BY <1>1, <3>3
      <4> HIDE DEF A, B, e
      <4> QED BY <3>1, <3>2, <4>1
    <3>4. CASE f[1] = p
      <4>1. f \in A <=> f[2] \in DOMAIN s /\ s[f[2]] = y
        BY <3>1, <3>4
      <4>2. f \in B <=> f[2] \in DOMAIN u /\ u[f[2]] = y
        BY <2>1, <3>2, <3>4
      <4>3. f = e <=> f[2] = Len(s) + 1
        BY <3>4
      <4>4. f[2] \in Nat
        OBVIOUS
      <4> HIDE DEF A, B, e, s, u
      <4> QED BY <2>1, <4>1, <4>2, <4>3, <4>4
    <3> QED BY <3>3, <3>4
  <2>4. e \in TaskIds(g) \X (1 .. MaxConsumers) /\ e \notin A
    <3>1. Len(s) + 1 \in 1 .. MaxConsumers /\ Len(s) + 1 \notin DOMAIN s
      <4> HIDE DEF s
      <4> QED BY <2>1 DEF MaxConsumers
    <3> QED BY <1>1, <3>1 DEF EntriesNaming
  <2>5. A \subseteq TaskIds(g) \X (1 .. MaxConsumers) /\ B \subseteq TaskIds(g) \X (1 .. MaxConsumers)
    BY <1>1 DEF EntriesNaming
  <2>6. B = IF y = c THEN A \cup {e} ELSE A
    <3> HIDE DEF A, B, e
    <3> QED BY <2>3, <2>4, <2>5
  <2>7. Cardinality(A \cup {e}) = Cardinality(A) + 1
    <3> HIDE DEF A, e
    <3> QED BY <2>2, <2>4, FS_AddElement
  <2> HIDE DEF A, B, e
  <2> QED BY <1>1, <2>2, <2>6, <2>7 DEF B
<1>6. Acyclic(h)
  <2> SUFFICES ASSUME NEW S \in SUBSET TaskIds(g), S # {}
               PROVE  \E t \in S : \A x \in S : ~Leads(h, x, t)
    BY <1>1 DEF Acyclic
  <2>1. \A y \in TaskIds(g) : ~Leads(g, c, y)
    BY EmptySequence DEF IsSink, Leads
  <2>2. CASE S \ {c} # {}
    <3>1. PICK t \in S \ {c} : \A x \in S \ {c} : ~Leads(g, x, t)
      BY <2>2 DEF Base, Acyclic
    <3>2. \A x \in S : ~Leads(g, x, t)
      BY <2>1, <3>1
    <3> QED BY <1>4, <3>1, <3>2
  <2>3. CASE S = {c}
    BY <1>1, <1>4, <2>1, <2>3
  <2> QED BY <2>2, <2>3
<1> QED
  BY <1>3, <1>5, <1>6 DEF Base

(* A new signal s behind p.                                                *)
SignalAdded(g, h, p, s) ==
  /\ NewestTask(h) = s /\ TaskIds(h) = TaskIds(g) \cup {s}
  /\ s \in Nat /\ s \notin TaskIds(g) /\ s = Len(g.tasks) + 1
  /\ \A t \in TaskIds(g) : h.tasks[t] = g.tasks[t]
  /\ h.tasks[s] = Signal
  /\ h.ports = g.ports /\ h.died = g.died
  /\ Len(h.consumers[p]) = Len(g.consumers[p]) + 1
  /\ \A t \in TaskIds(g) : t # p => h.consumers[t] = g.consumers[t]
  /\ h.consumers[s] = <<>>
  /\ \A x \in TaskIds(h), y \in TaskIds(h) :
       Leads(h, x, y) <=> \/ x \in TaskIds(g) /\ y \in TaskIds(g) /\ Leads(g, x, y)
                          \/ x = p /\ y = s

LEMMA SignalAfterParts ==
  ASSUME NEW g, Base(g), NEW p \in TaskIds(g), Len(g.consumers[p]) < MaxConsumers,
         NEW h, h = SignalAfter(g, p)
  PROVE  Base(h) /\ SignalAdded(g, h, p, NewestTask(h))
<1> DEFINE k == RawSignal(g)
<1>0. PICK s : s = Len(g.tasks) + 1
  OBVIOUS
<1>1. Shape(g) /\ k = AddTask(g, Signal)
  BY DEF Base, RawSignal
<1>2. TaskAdded(g, k, s, Signal)
  BY <1>0, <1>1, AddTaskParts
<1>3. Base(k)
  BY <1>1, AddTaskKeepsBase
<1> HIDE DEF k
<1>4. h = AddEdge(k, p, s) /\ Shape(k)
  BY <1>0, <1>3 DEF SignalAfter, k, Base, NewestTask
<1>5. EdgeIsLegal(k, p, s) /\ IsSink(k, s)
  BY <1>2 DEF TaskAdded, EdgeIsLegal, IsSink
<1>6. Base(h)
  BY <1>3, <1>4, <1>5, AddEdgeKeepsBase
<1>7. EdgeAdded(k, h, p, s)
  BY <1>4, <1>5, AddEdgeParts
<1>8. \A x \in TaskIds(h), y \in TaskIds(h) :
        Leads(h, x, y) <=> \/ x \in TaskIds(g) /\ y \in TaskIds(g) /\ Leads(g, x, y)
                           \/ x = p /\ y = s
  <2> SUFFICES ASSUME NEW x \in TaskIds(h), NEW y \in TaskIds(h)
               PROVE  Leads(h, x, y) <=> \/ x \in TaskIds(g) /\ y \in TaskIds(g) /\ Leads(g, x, y)
                                         \/ x = p /\ y = s
    OBVIOUS
  <2>1. x \in TaskIds(k) /\ y \in TaskIds(k)
    BY <1>7 DEF EdgeAdded
  <2>2. Leads(h, x, y) <=> (Leads(k, x, y) \/ (x = p /\ y = s))
    BY <1>4, <1>5, <2>1, AddEdgeLeads
  <2>3. Leads(k, x, y) <=> x \in TaskIds(g) /\ y \in TaskIds(g) /\ Leads(g, x, y)
    <3>1. CASE x = s
      BY <1>2, <3>1, EmptySequence DEF Leads, TaskAdded
    <3>2. CASE x \in TaskIds(g)
      <4>1. Leads(k, x, y) <=> Leads(g, x, y)
        BY <1>2, <3>2 DEF Leads, TaskAdded
      <4>2. Leads(g, x, y) => y \in TaskIds(g)
        BY <1>1, <3>2, ShapeFacts DEF Leads
      <4> QED BY <3>2, <4>1, <4>2
    <3> QED BY <1>2, <2>1, <3>1, <3>2 DEF TaskAdded
  <2> QED BY <2>2, <2>3
<1>9. NewestTask(h) = s /\ s \in Nat /\ p # s
  BY <1>2, <1>7 DEF EdgeAdded, TaskAdded, NewestTask
<1> QED
  BY <1>0, <1>2, <1>6, <1>7, <1>8, <1>9 DEF SignalAdded, EdgeAdded, TaskAdded

--------------------------------------------------------------------------------
(* Relay trees.                                                            *)

Relays(g) == { g.ports[p].trunk : p \in DOMAIN g.ports }
               \cup { g.ports[p].leaf : p \in DOMAIN g.ports }

(* y comes after x.                                                        *)
Reaches(g, x, y) ==
  \A S \in SUBSET TaskIds(g) :
    x \in S /\ (\A a \in S, b \in TaskIds(g) : Leads(g, a, b) => b \in S) => y \in S

(* The tree of p: p is full, and the tree knows how full its open trunk    *)
(* and leaf are, which keep a slot for the next of their kind.             *)
PortOK(g, p) ==
  LET port == g.ports[p]
  IN  /\ p \in TaskIds(g) \ Relays(g)
      /\ Len(g.consumers[p]) = MaxConsumers
      /\ DOMAIN port = {"trunk", "trunkUsed", "leaf", "leafUsed"}
      /\ port.trunk \in TaskIds(g) /\ port.leaf \in TaskIds(g)
      /\ port.trunk # port.leaf
      /\ port.trunkUsed = Len(g.consumers[port.trunk])
      /\ port.leafUsed = Len(g.consumers[port.leaf])
      /\ port.trunkUsed < MaxConsumers
      /\ Reaches(g, p, port.trunk) /\ Reaches(g, p, port.leaf)

PortsOK(g) ==
  /\ g.ports = [p \in DOMAIN g.ports |-> g.ports[p]]
  /\ \A p \in DOMAIN g.ports : PortOK(g, p)
  /\ \A p, r \in DOMAIN g.ports : p # r =>
       {g.ports[p].trunk, g.ports[p].leaf} \cap {g.ports[r].trunk, g.ports[r].leaf} = {}

(* What has an edge to it by way of x comes after all that x comes after.  *)
LEMMA ReachesOn ==
  ASSUME NEW g, NEW x, NEW y, NEW z, Reaches(g, x, y), y \in TaskIds(g),
         z \in TaskIds(g), Leads(g, y, z)
  PROVE  Reaches(g, x, z)
  BY DEF Reaches

(* Edges are never taken away.                                             *)
LEMMA ReachesKept ==
  ASSUME NEW g, NEW h, NEW x, NEW y, Reaches(g, x, y), x \in TaskIds(g),
         TaskIds(g) \subseteq TaskIds(h),
         \A a, b \in TaskIds(g) : Leads(g, a, b) => Leads(h, a, b)
  PROVE  Reaches(h, x, y)
<1> SUFFICES ASSUME NEW S \in SUBSET TaskIds(h), x \in S,
                    \A a \in S, b \in TaskIds(h) : Leads(h, a, b) => b \in S
             PROVE  y \in S
  BY DEF Reaches
<1> DEFINE R == S \cap TaskIds(g)
<1>1. R \in SUBSET TaskIds(g) /\ x \in R
  OBVIOUS
<1>2. \A a \in R, b \in TaskIds(g) : Leads(g, a, b) => b \in R
  OBVIOUS
<1> HIDE DEF R
<1>3. y \in R
  BY <1>1, <1>2 DEF Reaches
<1> QED
  BY <1>3 DEF R

(* Everything but the ports is the same.                                   *)
SameTasks(g, h) ==
  /\ DOMAIN h = DOMAIN g /\ h.tasks = g.tasks /\ h.consumers = g.consumers
  /\ h.depInit = g.depInit /\ h.died = g.died

LEMMA SameTasksSameBase ==
  ASSUME NEW g, NEW h, Base(g), SameTasks(g, h)
  PROVE  /\ Base(h)
         /\ TaskIds(h) = TaskIds(g) /\ NewestTask(h) = NewestTask(g)
         /\ \A x, y : Leads(h, x, y) <=> Leads(g, x, y)
<1>1. /\ TaskIds(h) = TaskIds(g) /\ NewestTask(h) = NewestTask(g)
      /\ \A x, y : Leads(h, x, y) <=> Leads(g, x, y)
      /\ \A c : EntriesNaming(h, c) = EntriesNaming(g, c)
  BY DEF SameTasks, TaskIds, NewestTask, Leads, EntriesNaming
<1>2. Shape(h)
  BY <1>1 DEF Base, Shape, SameTasks
<1>3. Counts(h)
  BY <1>1 DEF Base, Counts, SameTasks
<1>4. Acyclic(h)
  BY <1>1 DEF Base, Acyclic
<1> QED
  BY <1>1, <1>2, <1>3, <1>4 DEF Base

Good(g) == Base(g) /\ PortsOK(g) /\ g.died = FALSE

(* A producer that dep_edge can serve.                                     *)
Legal(g, q) ==
  /\ q \in TaskIds(g) \ Relays(g)
  /\ q \in DOMAIN g.ports \/ Len(g.consumers[q]) < MaxConsumers

(* The graph grows by relays of p only.                                    *)
Grows(g, h, p) ==
  /\ Len(g.tasks) <= Len(h.tasks)
  /\ TaskIds(g) \subseteq TaskIds(h)
  /\ \A t \in TaskIds(g) : h.tasks[t] = g.tasks[t]
  /\ \A t \in TaskIds(h) \ TaskIds(g) : h.tasks[t] = Signal
  /\ \A x, y \in TaskIds(g) : Leads(g, x, y) => Leads(h, x, y)
  /\ \A t \in TaskIds(g) \ Relays(g) : t # p => h.consumers[t] = g.consumers[t]
  /\ Relays(h) \cap TaskIds(g) \subseteq Relays(g)
  /\ DOMAIN g.ports \subseteq DOMAIN h.ports
  /\ DOMAIN h.ports \subseteq DOMAIN g.ports \cup {p}

LEMMA GrowsOn ==
  ASSUME NEW g, NEW k, NEW h, NEW p, Shape(g), Shape(k), Shape(h),
         Grows(g, k, p), Grows(k, h, p)
  PROVE  Grows(g, h, p)
<1>1. /\ Len(g.tasks) <= Len(h.tasks)
      /\ TaskIds(g) \subseteq TaskIds(h) /\ TaskIds(g) \subseteq TaskIds(k)
  <2>1. Len(g.tasks) \in Nat /\ Len(k.tasks) \in Nat /\ Len(h.tasks) \in Nat
    BY ShapeFacts
  <2>2. Len(g.tasks) <= Len(k.tasks) /\ Len(k.tasks) <= Len(h.tasks)
    BY DEF Grows
  <2> QED BY <2>1, <2>2 DEF Grows
<1>2. /\ \A t \in TaskIds(g) : h.tasks[t] = g.tasks[t]
      /\ \A t \in TaskIds(h) \ TaskIds(g) : h.tasks[t] = Signal
  BY <1>1 DEF Grows
<1>3. \A x, y \in TaskIds(g) : Leads(g, x, y) => Leads(h, x, y)
  BY <1>1 DEF Grows
<1>4. \A t \in TaskIds(g) \ Relays(g) : t # p => h.consumers[t] = g.consumers[t]
  <2> SUFFICES ASSUME NEW t \in TaskIds(g) \ Relays(g), t # p
               PROVE  h.consumers[t] = g.consumers[t]
    OBVIOUS
  <2>1. t \in TaskIds(k) \ Relays(k) /\ k.consumers[t] = g.consumers[t]
    BY <1>1 DEF Grows
  <2> QED BY <2>1 DEF Grows
<1>5. Relays(h) \cap TaskIds(g) \subseteq Relays(g)
  BY <1>1 DEF Grows
<1>6. /\ DOMAIN g.ports \subseteq DOMAIN h.ports
      /\ DOMAIN h.ports \subseteq DOMAIN g.ports \cup {p}
  BY DEF Grows
<1> QED
  BY <1>1, <1>2, <1>3, <1>4, <1>5, <1>6 DEF Grows

(* The tree of another producer is left alone.                             *)
LEMMA PortKept ==
  ASSUME NEW g, NEW h, NEW r \in DOMAIN g.ports, PortOK(g, r),
         h.ports[r] = g.ports[r], TaskIds(g) \subseteq TaskIds(h),
         h.consumers[r] = g.consumers[r],
         h.consumers[g.ports[r].trunk] = g.consumers[g.ports[r].trunk],
         h.consumers[g.ports[r].leaf] = g.consumers[g.ports[r].leaf],
         r \notin Relays(h),
         \A x, y \in TaskIds(g) : Leads(g, x, y) => Leads(h, x, y)
  PROVE  PortOK(h, r)
<1>1. /\ r \in TaskIds(g)
      /\ Reaches(g, r, g.ports[r].trunk) /\ Reaches(g, r, g.ports[r].leaf)
  BY DEF PortOK
<1>2. Reaches(h, r, g.ports[r].trunk) /\ Reaches(h, r, g.ports[r].leaf)
  BY <1>1, ReachesKept
<1> QED
  BY <1>2 DEF PortOK

LEMMA ReachesSelf ==
  ASSUME NEW g, NEW x
  PROVE  Reaches(g, x, x)
  BY DEF Reaches

--------------------------------------------------------------------------------
(* Cuts: what can run without the rest.                                    *)

(* Nothing in E waits for what is not.                                     *)
Closed(g, E) ==
  /\ E \subseteq TaskIds(g)
  /\ \A a, b \in TaskIds(g) : Leads(g, a, b) /\ b \in E => a \in E

(* A producer in E has the open relays of its tree there.                  *)
Cut(g, E) ==
  /\ Closed(g, E)
  /\ \A p \in DOMAIN g.ports : p \in E => g.ports[p].trunk \in E /\ g.ports[p].leaf \in E

(* Of what h has more than g, some belongs to E.                           *)
Widens(g, h, E) == \E F : Cut(h, F) /\ F \cap TaskIds(g) = E

Carries(g, h) == \A E : Cut(g, E) => Widens(g, h, E)

LEMMA CarriesNot ==
  ASSUME NEW g
  PROVE  Carries(g, g)
<1> SUFFICES ASSUME NEW E, Cut(g, E)  PROVE Widens(g, g, E)
  BY DEF Carries
<1>1. E \cap TaskIds(g) = E
  BY DEF Cut, Closed
<1> QED
  BY <1>1 DEF Widens

(* An edge from p to c is in no cut's way if p is there when c is.         *)
CarriesTo(g, h, p, c) == \A E : Cut(g, E) /\ (c \in E => p \in E) => Widens(g, h, E)

LEMMA CarriesOn ==
  ASSUME NEW g, NEW k, NEW h, TaskIds(g) \subseteq TaskIds(k), Carries(g, k)
  PROVE  /\ Carries(k, h) => Carries(g, h)
         /\ \A p, c \in TaskIds(g) : CarriesTo(k, h, p, c) => CarriesTo(g, h, p, c)
<1>1. ASSUME NEW E, NEW F, Cut(k, F), F \cap TaskIds(g) = E, Widens(k, h, F)
      PROVE  Widens(g, h, E)
  <2>1. PICK H : Cut(h, H) /\ H \cap TaskIds(k) = F
    BY <1>1 DEF Widens
  <2>2. H \cap TaskIds(g) = E
    BY <1>1, <2>1
  <2> QED BY <2>1, <2>2 DEF Widens
<1>2. ASSUME NEW E, Cut(g, E)
      PROVE  \E F : Cut(k, F) /\ F \cap TaskIds(g) = E
  BY <1>2 DEF Carries, Widens
<1>3. ASSUME Carries(k, h)  PROVE Carries(g, h)
  BY <1>1, <1>2, <1>3 DEF Carries
<1>4. ASSUME NEW p \in TaskIds(g), NEW c \in TaskIds(g), CarriesTo(k, h, p, c)
      PROVE  CarriesTo(g, h, p, c)
  <2> SUFFICES ASSUME NEW E, Cut(g, E), c \in E => p \in E  PROVE Widens(g, h, E)
    BY DEF CarriesTo
  <2>1. PICK F : Cut(k, F) /\ F \cap TaskIds(g) = E
    BY <1>2
  <2>2. c \in F => p \in F
    BY <2>1
  <2>3. Widens(k, h, F)
    BY <1>4, <2>1, <2>2 DEF CarriesTo
  <2> QED BY <1>1, <2>1, <2>3
<1> QED
  BY <1>3, <1>4

(* A signal after a can be on either side, but with a only.                *)
LEMMA SignalClosed ==
  ASSUME NEW g, NEW l, NEW a \in TaskIds(g), NEW s, SignalAdded(g, l, a, s),
         NEW E, Closed(g, E),
         NEW F, E \subseteq F, F \subseteq E \cup {s}, s \in F => a \in E
  PROVE  Closed(l, F) /\ F \cap TaskIds(g) = E
<1>1. /\ TaskIds(l) = TaskIds(g) \cup {s} /\ s \notin TaskIds(g)
      /\ \A x \in TaskIds(l), y \in TaskIds(l) :
           Leads(l, x, y) <=> \/ x \in TaskIds(g) /\ y \in TaskIds(g) /\ Leads(g, x, y)
                              \/ x = a /\ y = s
  BY DEF SignalAdded
<1>2. E \subseteq TaskIds(g)
  BY DEF Closed
<1>3. ASSUME NEW x \in TaskIds(l), NEW y \in TaskIds(l), Leads(l, x, y), y \in F
      PROVE  x \in F
  <2>1. CASE x \in TaskIds(g) /\ y \in TaskIds(g) /\ Leads(g, x, y)
    BY <1>1, <1>3, <2>1 DEF Closed
  <2>2. CASE x = a /\ y = s
    BY <1>1, <1>2, <1>3, <2>2
  <2> QED BY <1>1, <1>3, <2>1, <2>2
<1> QED
  BY <1>1, <1>2, <1>3 DEF Closed

(* Relays are on the side of their producer.                               *)
Along(p, E, S) == IF p \in E THEN S ELSE {}

LEMMA SameClosed ==
  ASSUME NEW g, NEW h, Base(g), SameTasks(g, h), NEW E, Closed(g, E)
  PROVE  Closed(h, E)
  BY SameTasksSameBase DEF Closed

--------------------------------------------------------------------------------
(* The relay tree of a producer.                                           *)

(* The tree of p is planted.                                               *)
Opened(g, h, p) ==
  /\ Good(h) /\ Grows(g, h, p) /\ Carries(g, h)
  /\ p \in DOMAIN h.ports /\ h.ports[p].leafUsed = 0
  /\ h.ports[p].leaf \notin TaskIds(g)
  /\ \A t \in TaskIds(h) : IsSink(h, t) =>
       t = h.ports[p].leaf \/ (t \in TaskIds(g) /\ IsSink(g, t) /\ t # p)

LEMMA OpenPortParts ==
  ASSUME NEW g, Good(g), NEW p \in TaskIds(g) \ Relays(g),
         p \notin DOMAIN g.ports, Len(g.consumers[p]) = MaxConsumers - 1,
         NEW h, h = OpenPort(g, p)
  PROVE  Opened(g, h, p)
<1> DEFINE w == SignalAfter(g, p)
           s == NewestTask(w)
           l == SignalAfter(w, s)
           u == NewestTask(l)
           port == [trunk |-> s, trunkUsed |-> 1, leaf |-> u, leafUsed |-> 0]
<1>1. h = [l EXCEPT !.ports =
             [x \in DOMAIN l.ports \cup {p} |-> IF x = p THEN port ELSE l.ports[x]]]
  BY DEF OpenPort
<1>2. Base(w) /\ SignalAdded(g, w, p, s)
  <2>1. Len(g.consumers[p]) < MaxConsumers
    BY DEF MaxConsumers
  <2> QED BY <2>1, SignalAfterParts DEF Good
<1> HIDE DEF w
<1>3. Base(l) /\ SignalAdded(w, l, s, u)
  <2>1. s \in TaskIds(w) /\ Len(w.consumers[s]) = 0
    BY <1>2, EmptySequence DEF SignalAdded
  <2>2. Len(w.consumers[s]) < MaxConsumers
    BY <2>1 DEF MaxConsumers
  <2> QED BY <1>2, <2>1, <2>2, SignalAfterParts
<1> HIDE DEF s, l, u
<1>4. l.ports = g.ports /\ l.died = FALSE
  BY <1>2, <1>3 DEF SignalAdded, Good
<1>5. DOMAIN l = {"tasks", "consumers", "depInit", "ports", "died"}
  BY <1>3 DEF Base, Shape
<1>6. /\ SameTasks(l, h)
      /\ h.ports = [x \in DOMAIN g.ports \cup {p} |-> IF x = p THEN port ELSE g.ports[x]]
  <2> HIDE DEF port
  <2> QED BY <1>1, <1>4, <1>5 DEF SameTasks
<1>7. /\ Base(h) /\ h.died = FALSE /\ TaskIds(h) = TaskIds(l)
      /\ \A x, y : Leads(h, x, y) <=> Leads(l, x, y)
      /\ h.tasks = l.tasks /\ h.consumers = l.consumers
  BY <1>3, <1>4, <1>6, SameTasksSameBase DEF SameTasks
<1>8. /\ TaskIds(h) = TaskIds(g) \cup {s, u}
      /\ s \notin TaskIds(g) /\ u \notin TaskIds(g) /\ s # u
      /\ Len(h.tasks) = Len(g.tasks) + 2
  <2>1. /\ NewestTask(w) = Len(g.tasks) + 1 /\ NewestTask(l) = Len(w.tasks) + 1
        /\ TaskIds(w) = TaskIds(g) \cup {s} /\ TaskIds(l) = TaskIds(w) \cup {u}
        /\ s \notin TaskIds(g) /\ u \notin TaskIds(w)
    BY <1>2, <1>3 DEF SignalAdded
  <2>2. Len(g.tasks) \in Nat
    BY ShapeFacts DEF Good, Base
  <2> QED BY <1>7, <2>1, <2>2 DEF NewestTask
<1>9. /\ \A t \in TaskIds(g) : h.tasks[t] = g.tasks[t]
      /\ h.tasks[s] = Signal /\ h.tasks[u] = Signal
  BY <1>2, <1>3, <1>7 DEF SignalAdded
<1>10. /\ \A t \in TaskIds(g) : t # p => h.consumers[t] = g.consumers[t]
       /\ Len(h.consumers[p]) = MaxConsumers
       /\ Len(h.consumers[s]) = 1 /\ Len(h.consumers[u]) = 0
  <2>1. /\ \A t \in TaskIds(w) : t # s => h.consumers[t] = w.consumers[t]
        /\ Len(h.consumers[s]) = Len(w.consumers[s]) + 1
        /\ h.consumers[u] = <<>>
    BY <1>3, <1>7 DEF SignalAdded
  <2>2. /\ TaskIds(w) = TaskIds(g) \cup {s} /\ s \notin TaskIds(g)
        /\ \A t \in TaskIds(g) : t # p => w.consumers[t] = g.consumers[t]
        /\ Len(w.consumers[p]) = Len(g.consumers[p]) + 1
        /\ w.consumers[s] = <<>>
    BY <1>2 DEF SignalAdded
  <2>3. Len(h.consumers[p]) = MaxConsumers
    BY <2>1, <2>2 DEF MaxConsumers
  <2>4. Len(h.consumers[s]) = 1 /\ Len(h.consumers[u]) = 0
    BY <2>1, <2>2, EmptySequence
  <2> QED BY <2>1, <2>2, <2>3, <2>4
<1>11. /\ \A x, y \in TaskIds(g) : Leads(g, x, y) => Leads(h, x, y)
       /\ Leads(h, p, s) /\ Leads(h, s, u)
  <2>1. \A x, y \in TaskIds(g) : Leads(g, x, y) => Leads(w, x, y) /\ x \in TaskIds(w) /\ y \in TaskIds(w)
    BY <1>2 DEF SignalAdded
  <2>2. Leads(w, p, s) /\ p \in TaskIds(w) /\ s \in TaskIds(w)
    BY <1>2 DEF SignalAdded
  <2>3. \A x, y \in TaskIds(w) : Leads(w, x, y) => Leads(l, x, y)
    BY <1>3 DEF SignalAdded
  <2>4. Leads(l, s, u)
    BY <1>3, <2>2 DEF SignalAdded
  <2> QED BY <1>7, <2>1, <2>2, <2>3, <2>4
<1>12. Relays(h) = Relays(g) \cup {s, u}
  <2>1. /\ DOMAIN h.ports = DOMAIN g.ports \cup {p}
        /\ \A x \in DOMAIN g.ports : h.ports[x] = g.ports[x]
        /\ h.ports[p].trunk = s /\ h.ports[p].leaf = u
    BY <1>6
  <2> QED BY <2>1 DEF Relays
<1>13. Relays(g) \subseteq TaskIds(g)
  BY DEF Relays, Good, PortsOK, PortOK
<1>14. PortOK(h, p)
  <2>1. h.ports[p] = port
    BY <1>6
  <2>2. Reaches(h, p, s) /\ Reaches(h, p, u)
    BY <1>8, <1>11, ReachesSelf, ReachesOn
  <2>3. p \in TaskIds(h) \ Relays(h)
    BY <1>8, <1>12
  <2>4. s \in TaskIds(h) /\ u \in TaskIds(h) /\ s # u
    BY <1>8
  <2> QED BY <1>10, <2>1, <2>2, <2>3, <2>4 DEF PortOK, MaxConsumers
<1>15. ASSUME NEW r \in DOMAIN g.ports  PROVE PortOK(h, r)
  <2>1. PortOK(g, r) /\ h.ports[r] = g.ports[r]
    BY <1>6 DEF Good, PortsOK
  <2>2. /\ r \in TaskIds(g) \ Relays(g)
        /\ g.ports[r].trunk \in Relays(g) /\ g.ports[r].leaf \in Relays(g)
        /\ r # p /\ r \notin Relays(h)
    BY <1>8, <1>12, <2>1 DEF PortOK, Relays
  <2>3. /\ h.consumers[r] = g.consumers[r]
        /\ h.consumers[g.ports[r].trunk] = g.consumers[g.ports[r].trunk]
        /\ h.consumers[g.ports[r].leaf] = g.consumers[g.ports[r].leaf]
    BY <1>10, <1>13, <2>2
  <2> QED BY <1>8, <1>11, <2>1, <2>2, <2>3, PortKept
<1>16. PortsOK(h)
  <2>1. DOMAIN h.ports = DOMAIN g.ports \cup {p} /\ h.ports = [x \in DOMAIN h.ports |-> h.ports[x]]
    BY <1>6
  <2>2. ASSUME NEW q \in DOMAIN h.ports, NEW r \in DOMAIN h.ports, q # r
        PROVE  {h.ports[q].trunk, h.ports[q].leaf} \cap {h.ports[r].trunk, h.ports[r].leaf} = {}
    <3>1. \A x \in DOMAIN g.ports : /\ h.ports[x] = g.ports[x]
                                    /\ {g.ports[x].trunk, g.ports[x].leaf} \subseteq TaskIds(g)
      BY <1>6, <1>13 DEF Relays
    <3>2. h.ports[p].trunk = s /\ h.ports[p].leaf = u
      BY <1>6
    <3>3. CASE q \in DOMAIN g.ports /\ r \in DOMAIN g.ports
      <4>1. {g.ports[q].trunk, g.ports[q].leaf} \cap {g.ports[r].trunk, g.ports[r].leaf} = {}
        BY <2>2, <3>3 DEF Good, PortsOK
      <4> QED BY <3>1, <3>3, <4>1
    <3>4. CASE q = p
      <4>1. r \in DOMAIN g.ports
        BY <2>1, <2>2, <3>4
      <4> QED BY <1>8, <3>1, <3>2, <3>4, <4>1
    <3>5. CASE r = p
      <4>1. q \in DOMAIN g.ports
        BY <2>1, <2>2, <3>5
      <4> QED BY <1>8, <3>1, <3>2, <3>5, <4>1
    <3> QED BY <2>1, <3>3, <3>4, <3>5
  <2>3. \A q \in DOMAIN h.ports : PortOK(h, q)
    BY <1>14, <1>15, <2>1
  <2> QED BY <2>1, <2>2, <2>3 DEF PortsOK
<1>17. Grows(g, h, p)
  <2>1. Len(g.tasks) <= Len(h.tasks)
    <3>1. Len(g.tasks) \in Nat
      BY ShapeFacts DEF Good, Base
    <3> QED BY <1>8, <3>1
  <2>2. Relays(h) \cap TaskIds(g) \subseteq Relays(g)
    BY <1>8, <1>12
  <2>3. DOMAIN h.ports = DOMAIN g.ports \cup {p}
    BY <1>6
  <2> QED BY <1>8, <1>9, <1>10, <1>11, <2>1, <2>2, <2>3 DEF Grows
<1>18. ASSUME NEW t \in TaskIds(h), IsSink(h, t)
       PROVE  t = u \/ (t \in TaskIds(g) /\ IsSink(g, t) /\ t # p)
  <2>1. Len(h.consumers[t]) = 0
    BY <1>18, EmptySequence DEF IsSink
  <2>2. t # p
    <3>1. MaxConsumers # 0
      BY DEF MaxConsumers
    <3> QED BY <1>10, <2>1, <3>1
  <2>3. t # s
    BY <1>10, <2>1
  <2> QED BY <1>8, <1>10, <1>18, <2>2, <2>3 DEF IsSink
<1>19. h.ports[p].leaf = u /\ h.ports[p].leafUsed = 0 /\ p \in DOMAIN h.ports
  BY <1>6
<1>20. ASSUME NEW E, Cut(g, E)  PROVE Widens(g, h, E)
  <2>1. PICK F : F = E \cup Along(p, E, {s})
    OBVIOUS
  <2>2. PICK H : H = F \cup Along(p, E, {u})
    OBVIOUS
  <2>3. Closed(w, F) /\ F \cap TaskIds(g) = E
    <3>1. /\ E \subseteq F /\ F \subseteq E \cup {s} /\ (s \in F => p \in E)
          /\ Closed(g, E)
      BY <1>2, <1>20, <2>1 DEF Cut, Closed, Along, SignalAdded
    <3>2. p \in TaskIds(g) /\ SignalAdded(g, w, p, s)
      BY <1>2
    <3> QED BY ONLY <3>1, <3>2, SignalClosed
  <2>4. Closed(l, H) /\ H \cap TaskIds(w) = F
    <3>1. s \in TaskIds(w) /\ u \notin TaskIds(w) /\ F \subseteq TaskIds(w)
      BY <1>2, <1>3, <2>3 DEF SignalAdded, Closed
    <3>2. F \subseteq H /\ H \subseteq F \cup {u} /\ (u \in H => s \in F)
      BY <2>1, <2>2, <3>1 DEF Along
    <3>3. SignalAdded(w, l, s, u) /\ Closed(w, F)
      BY <1>3, <2>3
    <3> QED BY ONLY <3>1, <3>2, <3>3, SignalClosed
  <2>5. Closed(h, H)
    BY <1>3, <1>6, <2>4, SameClosed
  <2>6. H \cap TaskIds(g) = E
    BY <1>2, <2>3, <2>4 DEF SignalAdded
  <2>7. ASSUME NEW x \in DOMAIN h.ports, x \in H
        PROVE  h.ports[x].trunk \in H /\ h.ports[x].leaf \in H
    <3>1. CASE x = p
      <4>1. p \in E /\ h.ports[p].trunk = s /\ h.ports[p].leaf = u
        BY <1>6, <2>6, <2>7, <3>1
      <4> QED BY <2>1, <2>2, <3>1, <4>1 DEF Along
    <3>2. CASE x # p
      <4>1. x \in DOMAIN g.ports /\ h.ports[x] = g.ports[x]
        BY <1>6, <2>7, <3>2
      <4>2. x \in TaskIds(g)
        BY <4>1 DEF Good, PortsOK, PortOK
      <4>3. x \in E
        BY <2>6, <2>7, <4>2
      <4> QED BY <1>20, <2>1, <2>2, <4>1, <4>3 DEF Cut
    <3> QED BY <3>1, <3>2
  <2> QED BY <2>5, <2>6, <2>7 DEF Cut, Widens
<1>21. Carries(g, h)
  BY <1>20 DEF Carries
<1> QED
  BY <1>7, <1>8, <1>16, <1>17, <1>18, <1>19, <1>21 DEF Opened, Good

(* A relay s is added behind the trunk a of p, and becomes its trunk or    *)
(* its leaf.                                                               *)
RelayGrown(g, h, p, a, s) ==
  /\ Good(h) /\ Grows(g, h, p) /\ Carries(g, h)
  /\ p \in DOMAIN h.ports
  /\ s \notin TaskIds(g) /\ h.consumers[s] = <<>>
  /\ \A t \in TaskIds(h) : IsSink(h, t) =>
       t = s \/ (t \in TaskIds(g) /\ IsSink(g, t) /\ t # a /\ t # p)

LEMMA RelayAdded ==
  ASSUME NEW g, Good(g), NEW p \in DOMAIN g.ports,
         NEW a, a = g.ports[p].trunk,
         NEW l, l = SignalAfter(g, a), NEW s, s = NewestTask(l),
         NEW port, DOMAIN port = {"trunk", "trunkUsed", "leaf", "leafUsed"},
         port.trunk \in {a, g.ports[p].leaf, s}, port.leaf \in {a, g.ports[p].leaf, s},
         port.trunk # port.leaf,
         port.trunkUsed = Len(l.consumers[port.trunk]), port.trunkUsed < MaxConsumers,
         port.leafUsed = Len(l.consumers[port.leaf]),
         NEW h, SameTasks(l, h), h.ports = [g.ports EXCEPT ![p] = port]
  PROVE  RelayGrown(g, h, p, a, s)
<1> DEFINE f == g.ports[p].leaf
<1>1. /\ PortOK(g, p) /\ Base(g) /\ Shape(g) /\ g.died = FALSE
      /\ p \in TaskIds(g) \ Relays(g) /\ Len(g.consumers[p]) = MaxConsumers
      /\ a \in TaskIds(g) /\ f \in TaskIds(g) /\ a # f
      /\ Len(g.consumers[a]) < MaxConsumers
      /\ Reaches(g, p, a) /\ Reaches(g, p, f)
  BY DEF Good, PortsOK, PortOK, Base
<1>2. a \in Relays(g) /\ f \in Relays(g) /\ Relays(g) \subseteq TaskIds(g)
  BY DEF Relays, Good, PortsOK, PortOK
<1> HIDE DEF f
<1>3. Base(l) /\ SignalAdded(g, l, a, s)
  BY <1>1, SignalAfterParts
<1>4. /\ Base(h) /\ h.died = FALSE /\ TaskIds(h) = TaskIds(l)
      /\ \A x, y : Leads(h, x, y) <=> Leads(l, x, y)
      /\ h.tasks = l.tasks /\ h.consumers = l.consumers
  BY <1>1, <1>3, SameTasksSameBase DEF SameTasks, SignalAdded
<1>5. /\ TaskIds(h) = TaskIds(g) \cup {s} /\ s \notin TaskIds(g)
      /\ \A t \in TaskIds(g) : h.tasks[t] = g.tasks[t]
      /\ h.tasks[s] = Signal
      /\ \A t \in TaskIds(g) : t # a => h.consumers[t] = g.consumers[t]
      /\ Len(h.consumers[a]) = Len(g.consumers[a]) + 1
      /\ h.consumers[s] = <<>>
      /\ p # a /\ p # s
  <2>1. p # a /\ p # s
    BY <1>1, <1>2, <1>3 DEF SignalAdded
  <2>2. /\ TaskIds(l) = TaskIds(g) \cup {s} /\ s \notin TaskIds(g)
        /\ \A t \in TaskIds(g) : l.tasks[t] = g.tasks[t]
        /\ l.tasks[s] = Signal
        /\ \A t \in TaskIds(g) : t # a => l.consumers[t] = g.consumers[t]
        /\ Len(l.consumers[a]) = Len(g.consumers[a]) + 1
        /\ l.consumers[s] = <<>>
    BY <1>3 DEF SignalAdded
  <2> QED BY <1>4, <2>1, <2>2
<1>6. Len(g.tasks) <= Len(h.tasks)
  <2>1. s = Len(g.tasks) + 1 /\ Len(l.tasks) = s
    BY <1>3 DEF SignalAdded, NewestTask
  <2>2. Len(g.tasks) \in Nat
    BY <1>1, ShapeFacts
  <2> QED BY <1>4, <2>1, <2>2
<1>7. /\ \A x, y \in TaskIds(g) : Leads(g, x, y) => Leads(h, x, y)
      /\ Leads(h, a, s)
  BY <1>1, <1>3, <1>4 DEF SignalAdded
<1>8. /\ DOMAIN h.ports = DOMAIN g.ports
      /\ h.ports = [x \in DOMAIN h.ports |-> h.ports[x]]
      /\ h.ports[p] = port
      /\ \A x \in DOMAIN g.ports : x # p => h.ports[x] = g.ports[x]
  <2>1. g.ports = [x \in DOMAIN g.ports |-> g.ports[x]]
    BY DEF Good, PortsOK
  <2> QED BY <2>1
<1>9. Relays(h) \subseteq Relays(g) \cup {s}
  <2>1. ASSUME NEW x \in DOMAIN h.ports
        PROVE  h.ports[x].trunk \in Relays(g) \cup {s} /\ h.ports[x].leaf \in Relays(g) \cup {s}
    <3>1. CASE x = p
      BY <1>2, <1>8, <3>1 DEF f
    <3>2. CASE x # p
      BY <1>8, <3>2 DEF Relays
    <3> QED BY <3>1, <3>2
  <2> QED BY <2>1 DEF Relays
<1>10. PortOK(h, p)
  <2>1. Reaches(h, p, a) /\ Reaches(h, p, f) /\ Reaches(h, p, s)
    <3>1. TaskIds(g) \subseteq TaskIds(h) /\ a \in TaskIds(h) /\ s \in TaskIds(h)
      BY <1>1, <1>5
    <3>2. Reaches(h, p, a) /\ Reaches(h, p, f)
      BY <1>1, <1>7, <3>1, ReachesKept
    <3> QED BY <1>7, <3>1, <3>2, ReachesOn
  <2>2. Reaches(h, p, port.trunk) /\ Reaches(h, p, port.leaf)
    BY <2>1 DEF f
  <2>3. p \in TaskIds(h) \ Relays(h)
    BY <1>1, <1>5, <1>9
  <2>4. port.trunk \in TaskIds(h) /\ port.leaf \in TaskIds(h)
    BY <1>1, <1>5 DEF f
  <2>5. Len(h.consumers[p]) = MaxConsumers
    BY <1>1, <1>5
  <2> QED BY <1>4, <1>8, <2>2, <2>3, <2>4, <2>5 DEF PortOK
<1>11. ASSUME NEW r \in DOMAIN g.ports, r # p  PROVE PortOK(h, r)
  <2>1. PortOK(g, r) /\ h.ports[r] = g.ports[r]
    BY <1>8, <1>11 DEF Good, PortsOK
  <2>2. /\ r \in TaskIds(g) \ Relays(g)
        /\ g.ports[r].trunk \in TaskIds(g) /\ g.ports[r].leaf \in TaskIds(g)
        /\ r # a /\ r \notin Relays(h)
    BY <1>2, <1>5, <1>9, <2>1 DEF PortOK
  <2>3. g.ports[r].trunk # a /\ g.ports[r].leaf # a
    BY <1>11 DEF Good, PortsOK
  <2> QED BY <1>5, <1>7, <2>1, <2>2, <2>3, PortKept
<1>12. PortsOK(h)
  <2>1. \A q \in DOMAIN h.ports : PortOK(h, q)
    BY <1>8, <1>10, <1>11
  <2>2. ASSUME NEW q \in DOMAIN h.ports, NEW r \in DOMAIN h.ports, q # r
        PROVE  {h.ports[q].trunk, h.ports[q].leaf} \cap {h.ports[r].trunk, h.ports[r].leaf} = {}
    <3>1. \A x \in DOMAIN g.ports : x # p =>
            /\ {g.ports[x].trunk, g.ports[x].leaf} \subseteq TaskIds(g)
            /\ {g.ports[x].trunk, g.ports[x].leaf} \cap {a, f} = {}
      BY DEF Good, PortsOK, PortOK, f
    <3>2. {h.ports[p].trunk, h.ports[p].leaf} \subseteq {a, f, s}
      BY <1>8 DEF f
    <3>3. \A x \in DOMAIN g.ports : x # p =>
            {h.ports[x].trunk, h.ports[x].leaf} \cap {a, f, s} = {}
      BY <1>5, <1>8, <3>1
    <3>4. CASE q = p
      BY <1>8, <2>2, <3>2, <3>3, <3>4
    <3>5. CASE r = p
      BY <1>8, <2>2, <3>2, <3>3, <3>5
    <3>6. CASE q # p /\ r # p
      <4>1. {g.ports[q].trunk, g.ports[q].leaf} \cap {g.ports[r].trunk, g.ports[r].leaf} = {}
        BY <1>8, <2>2 DEF Good, PortsOK
      <4> QED BY <1>8, <3>6, <4>1
    <3> QED BY <3>4, <3>5, <3>6
  <2> QED BY <1>8, <2>1, <2>2 DEF PortsOK
<1>13. Grows(g, h, p)
  <2>1. \A t \in TaskIds(h) \ TaskIds(g) : h.tasks[t] = Signal
    BY <1>5
  <2>2. \A t \in TaskIds(g) \ Relays(g) : t # p => h.consumers[t] = g.consumers[t]
    BY <1>2, <1>5
  <2>3. Relays(h) \cap TaskIds(g) \subseteq Relays(g)
    BY <1>5, <1>9
  <2> QED BY <1>5, <1>6, <1>7, <1>8, <2>1, <2>2, <2>3 DEF Grows
<1>14. ASSUME NEW t \in TaskIds(h), IsSink(h, t), t # s
       PROVE  t \in TaskIds(g) /\ IsSink(g, t) /\ t # a /\ t # p
  <2>1. Len(h.consumers[t]) = 0 /\ t \in TaskIds(g)
    BY <1>5, <1>14, EmptySequence DEF IsSink
  <2>2. t # a
    <3>1. Len(g.consumers[a]) \in Nat
      BY <1>1, ShapeFacts
    <3>2. Len(h.consumers[a]) # 0
      BY <1>5, <3>1
    <3> QED BY <2>1, <3>2
  <2>3. t # p
    <3>1. Len(h.consumers[p]) = MaxConsumers
      BY <1>1, <1>5
    <3>2. MaxConsumers # 0
      BY DEF MaxConsumers
    <3> QED BY <2>1, <3>1, <3>2
  <2> QED BY <1>5, <1>14, <2>1, <2>2, <2>3 DEF IsSink
<1>15. ASSUME NEW E, Cut(g, E)  PROVE Widens(g, h, E)
  <2>1. PICK F : F = E \cup Along(p, E, {s})
    OBVIOUS
  <2>2. p \in E => a \in E /\ g.ports[p].leaf \in E
    BY <1>15 DEF Cut
  <2>3. Closed(l, F) /\ F \cap TaskIds(g) = E
    <3>1. /\ E \subseteq F /\ F \subseteq E \cup {s} /\ (s \in F => a \in E)
          /\ Closed(g, E)
      BY <1>3, <1>15, <2>1, <2>2 DEF Cut, Closed, Along, SignalAdded
    <3>2. a \in TaskIds(g) /\ SignalAdded(g, l, a, s)
      BY <1>1, <1>3
    <3> QED BY ONLY <3>1, <3>2, SignalClosed
  <2>4. Closed(h, F)
    BY <1>3, <2>3, SameClosed
  <2>5. ASSUME NEW x \in DOMAIN h.ports, x \in F
        PROVE  h.ports[x].trunk \in F /\ h.ports[x].leaf \in F
    <3>1. x \in TaskIds(g)
      BY <1>8 DEF Good, PortsOK, PortOK
    <3>2. x \in E
      BY <2>3, <2>5, <3>1
    <3>3. CASE x = p
      <4>1. {a, g.ports[p].leaf, s} \subseteq F
        BY <2>1, <2>2, <3>2, <3>3 DEF Along
      <4> QED BY <1>8, <3>3, <4>1
    <3>4. CASE x # p
      BY <1>8, <1>15, <2>1, <3>2, <3>4 DEF Cut
    <3> QED BY <3>3, <3>4
  <2> QED BY <2>3, <2>4, <2>5 DEF Cut, Widens
<1>16. Carries(g, h)
  BY <1>15 DEF Carries
<1> QED
  BY <1>4, <1>5, <1>8, <1>12, <1>13, <1>14, <1>16 DEF RelayGrown, Good

(* A full trunk is followed by an empty one.                               *)
LEMMA ChainTrunkParts ==
  ASSUME NEW g, Good(g), NEW p \in DOMAIN g.ports, NEW h, h = ChainTrunk(g, p)
  PROVE  /\ RelayGrown(g, h, p, g.ports[p].trunk, h.ports[p].trunk)
         /\ h.ports[p].trunkUsed = 0
<1> DEFINE a == g.ports[p].trunk
           l == SignalAfter(g, a)
           s == NewestTask(l)
           port == [g.ports[p] EXCEPT !.trunk = s, !.trunkUsed = 0]
<1>1. /\ Base(g) /\ a \in TaskIds(g) /\ Len(g.consumers[a]) < MaxConsumers
      /\ g.ports[p].leaf \in TaskIds(g) /\ a # g.ports[p].leaf
      /\ DOMAIN g.ports[p] = {"trunk", "trunkUsed", "leaf", "leafUsed"}
      /\ g.ports[p].leafUsed = Len(g.consumers[g.ports[p].leaf])
  BY DEF Good, PortsOK, PortOK
<1>2. h = [l EXCEPT !.ports[p].trunk = s, !.ports[p].trunkUsed = 0]
  BY DEF ChainTrunk
<1> HIDE DEF l
<1>3. Base(l) /\ SignalAdded(g, l, a, s)
  <2> HIDE DEF a, s
  <2>1. l = SignalAfter(g, a) /\ s = NewestTask(l)
    BY DEF l, s
  <2> QED BY <1>1, <2>1, SignalAfterParts
<1>4. l.ports = g.ports /\ DOMAIN l = {"tasks", "consumers", "depInit", "ports", "died"}
  BY <1>3 DEF SignalAdded, Base, Shape
<1>5. SameTasks(l, h)
  BY <1>2, <1>4 DEF SameTasks
<1>6. h.ports = [g.ports EXCEPT ![p] = port]
  <2> HIDE DEF a, s
  <2> DEFINE F == [g.ports EXCEPT ![p] = [g.ports[p] EXCEPT !.trunk = s]]
  <2>1. h.ports = [F EXCEPT ![p] = [F[p] EXCEPT !.trunkUsed = 0]]
    BY <1>2, <1>4
  <2>2. /\ DOMAIN F = DOMAIN g.ports /\ F[p] = [g.ports[p] EXCEPT !.trunk = s]
        /\ \A x \in DOMAIN F : x # p => F[x] = g.ports[x]
    OBVIOUS
  <2>3. [F[p] EXCEPT !.trunkUsed = 0] = port
    BY <1>1, <2>2
  <2> HIDE DEF F, port
  <2> QED BY <2>1, <2>2, <2>3
<1>7. /\ DOMAIN port = {"trunk", "trunkUsed", "leaf", "leafUsed"}
      /\ port.trunk = s /\ port.trunkUsed = 0
      /\ port.leaf = g.ports[p].leaf /\ port.leafUsed = g.ports[p].leafUsed
  <2> HIDE DEF s
  <2> QED BY <1>1
<1>8. h.ports[p] = port
  BY <1>6
<1> HIDE DEF a, s, port
<1>9. /\ l.consumers[s] = <<>> /\ s \notin TaskIds(g)
      /\ l.consumers[g.ports[p].leaf] = g.consumers[g.ports[p].leaf]
  BY <1>1, <1>3 DEF SignalAdded
<1>10. RelayGrown(g, h, p, a, s)
  <2>1. a = g.ports[p].trunk /\ l = SignalAfter(g, a) /\ s = NewestTask(l)
    BY DEF a, l, s
  <2>2. /\ port.trunkUsed = Len(l.consumers[port.trunk]) /\ port.trunkUsed < MaxConsumers
        /\ port.leafUsed = Len(l.consumers[port.leaf])
        /\ port.trunk # port.leaf
    BY <1>1, <1>7, <1>9, EmptySequence DEF MaxConsumers
  <2>3. port.trunk \in {a, g.ports[p].leaf, s} /\ port.leaf \in {a, g.ports[p].leaf, s}
    BY <1>7
  <2> QED BY <1>5, <1>6, <1>7, <2>1, <2>2, <2>3, RelayAdded
<1> QED
  BY <1>7, <1>8, <1>10 DEF a

(* A trunk with a free slot.                                               *)
Roomed(g, r, p) ==
  /\ Good(r) /\ Grows(g, r, p) /\ Carries(g, r)
  /\ p \in DOMAIN r.ports /\ ~TrunkIsFull(r.ports[p])
  /\ \A t \in TaskIds(r) : IsSink(r, t) =>
       t = r.ports[p].trunk \/ (t \in TaskIds(g) /\ IsSink(g, t) /\ t # p)

LEMMA GrowsNot ==
  ASSUME NEW g, Shape(g), NEW p
  PROVE  Grows(g, g, p)
<1>1. Len(g.tasks) \in Nat
  BY ShapeFacts
<1> QED
  BY <1>1 DEF Grows

LEMMA RoomParts ==
  ASSUME NEW g, Good(g), NEW p \in DOMAIN g.ports,
         NEW r, r = IF TrunkIsFull(g.ports[p]) THEN ChainTrunk(g, p) ELSE g
  PROVE  Roomed(g, r, p)
<1>1. CASE TrunkIsFull(g.ports[p])
  <2>1. RelayGrown(g, r, p, g.ports[p].trunk, r.ports[p].trunk) /\ r.ports[p].trunkUsed = 0
    BY <1>1, ChainTrunkParts
  <2>2. ~TrunkIsFull(r.ports[p])
    BY <2>1 DEF TrunkIsFull, MaxConsumers
  <2> QED BY <2>1, <2>2 DEF RelayGrown, Roomed
<1>2. CASE ~TrunkIsFull(g.ports[p])
  <2>1. r = g /\ Shape(g)
    BY <1>2 DEF Good, Base
  <2>2. ASSUME NEW t \in TaskIds(g), IsSink(g, t)
        PROVE  t # p
    <3>1. Len(g.consumers[p]) = MaxConsumers /\ Len(g.consumers[t]) = 0
      BY <2>2, EmptySequence DEF Good, PortsOK, PortOK, IsSink
    <3>2. MaxConsumers # 0
      BY DEF MaxConsumers
    <3> QED BY <3>1, <3>2
  <2>3. Grows(g, g, p)
    BY <2>1, GrowsNot
  <2> QED BY <1>2, <2>1, <2>2, <2>3, CarriesNot DEF Roomed
<1> QED
  BY <1>1, <1>2

(* A full leaf is followed by an empty one.                                *)
LEMMA NewLeafParts ==
  ASSUME NEW g, Good(g), NEW p \in DOMAIN g.ports, NEW h, h = NewLeaf(g, p)
  PROVE  Opened(g, h, p)
<1> DEFINE r == IF TrunkIsFull(g.ports[p]) THEN ChainTrunk(g, p) ELSE g
           a == r.ports[p].trunk
           l == SignalAfter(r, a)
           s == NewestTask(l)
           port == [r.ports[p] EXCEPT !.leaf = s, !.leafUsed = 0, !.trunkUsed = @ + 1]
<1>1. Roomed(g, r, p)
  <2> HIDE DEF r
  <2>1. r = IF TrunkIsFull(g.ports[p]) THEN ChainTrunk(g, p) ELSE g
    BY DEF r
  <2> QED BY <2>1, RoomParts
<1>2. h = [l EXCEPT !.ports[p].leaf = s, !.ports[p].leafUsed = 0,
                    !.ports[p].trunkUsed = @ + 1]
  BY DEF NewLeaf
<1> HIDE DEF r
<1>3. /\ Good(r) /\ p \in DOMAIN r.ports /\ PortOK(r, p)
      /\ Base(r) /\ a \in TaskIds(r)
      /\ r.ports[p].trunkUsed = Len(r.consumers[a])
      /\ DOMAIN r.ports[p] = {"trunk", "trunkUsed", "leaf", "leafUsed"}
  BY <1>1 DEF Roomed, Good, PortsOK, PortOK
<1>4. Len(r.consumers[a]) \in Nat /\ Len(r.consumers[a]) < MaxConsumers - 1
  <2>1. Len(r.consumers[a]) \in Nat
    BY <1>3, ShapeFacts DEF Base
  <2> QED BY <1>1, <1>3, <2>1 DEF Roomed, TrunkIsFull, MaxConsumers
<1> HIDE DEF l
<1>5. Base(l) /\ SignalAdded(r, l, a, s)
  <2> HIDE DEF a, s
  <2>1. l = SignalAfter(r, a) /\ s = NewestTask(l)
    BY DEF l, s
  <2>2. Len(r.consumers[a]) < MaxConsumers
    BY <1>4 DEF MaxConsumers
  <2> QED BY <1>3, <2>1, <2>2, SignalAfterParts
<1>6. l.ports = r.ports /\ DOMAIN l = {"tasks", "consumers", "depInit", "ports", "died"}
  BY <1>5 DEF SignalAdded, Base, Shape
<1>7. SameTasks(l, h)
  BY <1>2, <1>6 DEF SameTasks
<1>8. h.ports = [r.ports EXCEPT ![p] = port]
  <2> HIDE DEF a, s
  <2> DEFINE F == [r.ports EXCEPT ![p] = [r.ports[p] EXCEPT !.leaf = s]]
             G == [F EXCEPT ![p] = [F[p] EXCEPT !.leafUsed = 0]]
  <2>1. h.ports = [G EXCEPT ![p] = [G[p] EXCEPT !.trunkUsed = @ + 1]]
    BY <1>2, <1>6
  <2>2. /\ DOMAIN F = DOMAIN r.ports /\ F[p] = [r.ports[p] EXCEPT !.leaf = s]
        /\ \A x \in DOMAIN F : x # p => F[x] = r.ports[x]
    BY <1>3
  <2> HIDE DEF F
  <2>3. /\ DOMAIN G = DOMAIN F /\ G[p] = [F[p] EXCEPT !.leafUsed = 0]
        /\ \A x \in DOMAIN F : x # p => G[x] = F[x]
    BY <1>3, <2>2
  <2> HIDE DEF G
  <2>4. [G[p] EXCEPT !.trunkUsed = @ + 1] = port
    BY <1>3, <2>2, <2>3
  <2> HIDE DEF port
  <2> QED BY <2>1, <2>2, <2>3, <2>4
<1>9. /\ DOMAIN port = {"trunk", "trunkUsed", "leaf", "leafUsed"}
      /\ port.trunk = a /\ port.trunkUsed = r.ports[p].trunkUsed + 1
      /\ port.leaf = s /\ port.leafUsed = 0
  <2> HIDE DEF s
  <2> QED BY <1>3
<1>10. h.ports[p] = port
  BY <1>3, <1>8
<1> HIDE DEF a, s, port
<1>11. /\ l.consumers[s] = <<>> /\ s \notin TaskIds(r) /\ s # a
       /\ Len(l.consumers[a]) = Len(r.consumers[a]) + 1
  BY <1>3, <1>5 DEF SignalAdded
<1>12. RelayGrown(r, h, p, a, s)
  <2>1. a = r.ports[p].trunk /\ l = SignalAfter(r, a) /\ s = NewestTask(l)
    BY DEF a, l, s
  <2>2. /\ port.trunkUsed = Len(l.consumers[port.trunk]) /\ port.trunkUsed < MaxConsumers
        /\ port.trunk # port.leaf
    BY <1>3, <1>4, <1>9, <1>11 DEF MaxConsumers
  <2>3. port.leafUsed = Len(l.consumers[port.leaf])
    BY <1>9, <1>11, EmptySequence
  <2>4. port.trunk \in {a, r.ports[p].leaf, s} /\ port.leaf \in {a, r.ports[p].leaf, s}
    BY <1>9
  <2> QED BY <1>3, <1>7, <1>8, <1>9, <2>1, <2>2, <2>3, <2>4, RelayAdded
<1>13. Good(h) /\ Grows(g, h, p) /\ p \in DOMAIN h.ports
  <2>1. Shape(g) /\ Shape(r) /\ Shape(h) /\ Grows(g, r, p) /\ Grows(r, h, p)
    BY <1>1, <1>12 DEF Roomed, RelayGrown, Good, Base
  <2> QED BY <1>12, <2>1, GrowsOn DEF RelayGrown
<1>14. TaskIds(g) \subseteq TaskIds(r)
  BY <1>1 DEF Roomed, Grows
<1>15. \A t \in TaskIds(h) : IsSink(h, t) =>
         t = s \/ (t \in TaskIds(g) /\ IsSink(g, t) /\ t # p)
  BY <1>1, <1>12 DEF RelayGrown, Roomed, a
<1>16. Carries(g, h)
  BY <1>1, <1>12, <1>14, CarriesOn DEF Roomed, RelayGrown
<1> QED
  BY <1>9, <1>10, <1>11, <1>13, <1>14, <1>15, <1>16 DEF Opened

(* c waits for p, and only the relays of p are new.                        *)
Wired(g, h, p, c) ==
  /\ Good(h) /\ Grows(g, h, p) /\ CarriesTo(g, h, p, c)
  /\ Legal(h, p) /\ Reaches(h, p, c)
  /\ \A t \in TaskIds(h) : IsSink(h, t) =>
       t \in TaskIds(g) /\ IsSink(g, t) /\ t # p

(* An edge from the producer itself.                                       *)
LEMMA DirectEdge ==
  ASSUME NEW g, Good(g), NEW p, Legal(g, p), HasRoom(g, p),
         NEW c \in TaskIds(g), IsSink(g, c), c # p,
         NEW h, h = AddEdge(g, p, c)
  PROVE  Wired(g, h, p, c)
<1>1. /\ Base(g) /\ Shape(g) /\ g.died = FALSE /\ p \in TaskIds(g) \ Relays(g)
      /\ Len(g.consumers[p]) < MaxConsumers - 1 /\ Len(g.consumers[p]) \in Nat
  <2>1. Base(g) /\ Shape(g) /\ g.died = FALSE /\ p \in TaskIds(g) \ Relays(g)
    BY DEF Good, Base, Legal
  <2> QED BY <2>1, ShapeFacts DEF HasRoom
<1>2. EdgeIsLegal(g, p, c)
  BY <1>1 DEF EdgeIsLegal, MaxConsumers
<1>3. Base(h)
  BY <1>1, <1>2, AddEdgeKeepsBase
<1>4. EdgeAdded(g, h, p, c)
  BY <1>1, <1>2, AddEdgeParts
<1>5. \A x, y \in TaskIds(g) : Leads(h, x, y) <=> (Leads(g, x, y) \/ (x = p /\ y = c))
  BY <1>1, <1>2, AddEdgeLeads
<1>6. /\ TaskIds(h) = TaskIds(g) /\ h.tasks = g.tasks /\ h.ports = g.ports /\ h.died = FALSE
      /\ \A t \in TaskIds(g) : t # p => h.consumers[t] = g.consumers[t]
      /\ Len(h.consumers[p]) = Len(g.consumers[p]) + 1
      /\ Relays(h) = Relays(g)
  <2>1. h.ports = g.ports
    BY <1>4 DEF EdgeAdded
  <2> QED BY <1>1, <1>4, <2>1 DEF EdgeAdded, Relays
<1>7. p \notin DOMAIN g.ports
  <2>1. p \in DOMAIN g.ports => Len(g.consumers[p]) = MaxConsumers
    BY DEF Good, PortsOK, PortOK
  <2>2. ~(MaxConsumers < MaxConsumers - 1)
    BY DEF MaxConsumers
  <2> QED BY <1>1, <2>1, <2>2
<1>8. ASSUME NEW r \in DOMAIN g.ports  PROVE PortOK(h, r)
  <2>1. /\ PortOK(g, r) /\ r # p /\ h.ports[r] = g.ports[r]
        /\ r \in TaskIds(g) \ Relays(g)
        /\ g.ports[r].trunk \in TaskIds(g) /\ g.ports[r].leaf \in TaskIds(g)
    BY <1>6, <1>7 DEF Good, PortsOK, PortOK
  <2>2. g.ports[r].trunk # p /\ g.ports[r].leaf # p
    BY <1>1 DEF Relays
  <2> QED BY <1>5, <1>6, <2>1, <2>2, PortKept
<1>9. PortsOK(h)
  BY <1>6, <1>8 DEF Good, PortsOK
<1>10. Grows(g, h, p)
  <2>1. Len(g.tasks) <= Len(h.tasks)
    <3>1. Len(g.tasks) \in Nat
      BY <1>1, ShapeFacts
    <3> QED BY <1>6, <3>1
  <2> QED BY <1>5, <1>6, <2>1 DEF Grows
<1>11. Reaches(h, p, c)
  <2>1. Leads(h, p, c) /\ p \in TaskIds(h) /\ c \in TaskIds(h)
    BY <1>1, <1>5, <1>6
  <2> QED BY <2>1, ReachesSelf, ReachesOn
<1>12. ASSUME NEW t \in TaskIds(h), IsSink(h, t)
       PROVE  t \in TaskIds(g) /\ IsSink(g, t) /\ t # p
  <2>1. Len(h.consumers[t]) = 0
    BY <1>12, EmptySequence DEF IsSink
  <2>2. t # p
    BY <1>1, <1>6, <2>1
  <2> QED BY <1>6, <1>12, <2>2 DEF IsSink
<1>13. Legal(h, p)
  <2>1. Len(h.consumers[p]) < MaxConsumers
    BY <1>1, <1>6 DEF MaxConsumers
  <2> QED BY <1>1, <1>6, <2>1 DEF Legal
<1>14. ASSUME NEW E, Cut(g, E), c \in E => p \in E  PROVE Widens(g, h, E)
  <2>1. Closed(h, E) /\ E \cap TaskIds(g) = E
    BY <1>5, <1>6, <1>14 DEF Cut, Closed
  <2> QED BY <1>6, <1>14, <2>1 DEF Cut, Widens
<1>15. CarriesTo(g, h, p, c)
  BY <1>14 DEF CarriesTo
<1> QED
  BY <1>3, <1>6, <1>9, <1>10, <1>11, <1>12, <1>13, <1>15 DEF Wired, Good

(* An edge from the open leaf of p.                                        *)
LeafWired(g, h, p, c, f) ==
  /\ Good(h) /\ Grows(g, h, p) /\ CarriesTo(g, h, p, c)
  /\ Legal(h, p) /\ Reaches(h, p, c)
  /\ \A t \in TaskIds(h) : IsSink(h, t) =>
       t \in TaskIds(g) /\ IsSink(g, t) /\ t # f /\ t # p

LEMMA LeafEdge ==
  ASSUME NEW g, Good(g), NEW p \in DOMAIN g.ports, g.ports[p].leafUsed < MaxConsumers,
         NEW c \in TaskIds(g) \ Relays(g), IsSink(g, c), c # p,
         NEW f, f = g.ports[p].leaf,
         NEW l, l = AddEdge(g, f, c),
         NEW port, DOMAIN port = {"trunk", "trunkUsed", "leaf", "leafUsed"},
         port.trunk = g.ports[p].trunk, port.trunkUsed = g.ports[p].trunkUsed,
         port.leaf = f, port.leafUsed = g.ports[p].leafUsed + 1,
         NEW h, SameTasks(l, h), h.ports = [g.ports EXCEPT ![p] = port]
  PROVE  LeafWired(g, h, p, c, f)
<1> DEFINE a == g.ports[p].trunk
<1>1. /\ PortOK(g, p) /\ Base(g) /\ Shape(g) /\ g.died = FALSE
      /\ p \in TaskIds(g) \ Relays(g) /\ Len(g.consumers[p]) = MaxConsumers
      /\ a \in TaskIds(g) /\ f \in TaskIds(g) /\ a # f
      /\ g.ports[p].leafUsed = Len(g.consumers[f])
      /\ g.ports[p].trunkUsed = Len(g.consumers[a]) /\ Len(g.consumers[a]) < MaxConsumers
      /\ Reaches(g, p, a) /\ Reaches(g, p, f)
      /\ DOMAIN g.ports[p] = {"trunk", "trunkUsed", "leaf", "leafUsed"}
  BY DEF Good, PortsOK, PortOK, Base
<1>2. f \in Relays(g) /\ a \in Relays(g) /\ f # c /\ f # p
  BY <1>1 DEF Relays
<1>3. EdgeIsLegal(g, f, c)
  BY <1>1, <1>2 DEF EdgeIsLegal
<1>4. Base(l) /\ EdgeAdded(g, l, f, c)
  BY <1>1, <1>3, AddEdgeKeepsBase, AddEdgeParts
<1>5. \A x, y \in TaskIds(g) : Leads(l, x, y) <=> (Leads(g, x, y) \/ (x = f /\ y = c))
  BY <1>1, <1>3, AddEdgeLeads
<1>8. port.trunk = a
  OBVIOUS
<1> HIDE DEF a
<1>9. /\ Base(h) /\ h.died = FALSE /\ TaskIds(h) = TaskIds(g)
      /\ h.tasks = g.tasks
      /\ \A t \in TaskIds(g) : t # f => h.consumers[t] = g.consumers[t]
      /\ Len(h.consumers[f]) = Len(g.consumers[f]) + 1
      /\ \A x, y \in TaskIds(g) : Leads(h, x, y) <=> (Leads(g, x, y) \/ (x = f /\ y = c))
  <2>1. /\ Base(h) /\ TaskIds(h) = TaskIds(l) /\ \A x, y : Leads(h, x, y) <=> Leads(l, x, y)
    BY <1>4, SameTasksSameBase
  <2>2. h.tasks = l.tasks /\ h.consumers = l.consumers /\ h.died = l.died
    BY DEF SameTasks
  <2>3. /\ l.tasks = g.tasks /\ TaskIds(l) = TaskIds(g) /\ l.died = g.died
        /\ Len(l.consumers[f]) = Len(g.consumers[f]) + 1
        /\ \A t \in TaskIds(g) : t # f => l.consumers[t] = g.consumers[t]
    BY <1>4 DEF EdgeAdded
  <2> QED BY <1>1, <1>5, <2>1, <2>2, <2>3
<1>10. /\ DOMAIN h.ports = DOMAIN g.ports
       /\ h.ports = [x \in DOMAIN h.ports |-> h.ports[x]]
       /\ h.ports[p] = port
       /\ \A x \in DOMAIN g.ports : x # p => h.ports[x] = g.ports[x]
       /\ \A x \in DOMAIN g.ports : /\ h.ports[x].trunk = g.ports[x].trunk
                                    /\ h.ports[x].leaf = g.ports[x].leaf
  <2>1. g.ports = [x \in DOMAIN g.ports |-> g.ports[x]]
    BY DEF Good, PortsOK
  <2>2. /\ DOMAIN h.ports = DOMAIN g.ports
        /\ h.ports = [x \in DOMAIN h.ports |-> h.ports[x]]
        /\ h.ports[p] = port
        /\ \A x \in DOMAIN g.ports : x # p => h.ports[x] = g.ports[x]
    BY <2>1
  <2> QED BY <2>2
<1>11. Relays(h) = Relays(g)
  BY <1>10 DEF Relays
<1>12. PortOK(h, p)
  <2>1. Reaches(h, p, a) /\ Reaches(h, p, f)
    BY <1>1, <1>9, ReachesKept
  <2>2. p \in TaskIds(h) \ Relays(h) /\ a \in TaskIds(h) /\ f \in TaskIds(h)
    BY <1>1, <1>9, <1>11
  <2>3. h.consumers[p] = g.consumers[p] /\ h.consumers[a] = g.consumers[a]
    BY <1>1, <1>2, <1>9
  <2> QED BY <1>1, <1>8, <1>9, <1>10, <2>1, <2>2, <2>3 DEF PortOK
<1>13. ASSUME NEW r \in DOMAIN g.ports, r # p  PROVE PortOK(h, r)
  <2>1. PortOK(g, r) /\ h.ports[r] = g.ports[r]
    BY <1>10, <1>13 DEF Good, PortsOK
  <2>2. /\ r \in TaskIds(g) \ Relays(g)
        /\ g.ports[r].trunk \in TaskIds(g) /\ g.ports[r].leaf \in TaskIds(g)
    BY <2>1 DEF PortOK
  <2>3. {g.ports[r].trunk, g.ports[r].leaf} \cap {g.ports[p].trunk, g.ports[p].leaf} = {}
    BY <1>13 DEF Good, PortsOK
  <2>4. g.ports[r].trunk # f /\ g.ports[r].leaf # f /\ r # f
    BY <1>2, <2>2, <2>3
  <2> QED BY <1>9, <1>11, <2>1, <2>2, <2>4, PortKept
<1>14. PortsOK(h)
  <2>1. \A q \in DOMAIN h.ports : PortOK(h, q)
    BY <1>10, <1>12, <1>13
  <2>2. ASSUME NEW q \in DOMAIN h.ports, NEW r \in DOMAIN h.ports, q # r
        PROVE  {h.ports[q].trunk, h.ports[q].leaf} \cap {h.ports[r].trunk, h.ports[r].leaf} = {}
    <3>1. {g.ports[q].trunk, g.ports[q].leaf} \cap {g.ports[r].trunk, g.ports[r].leaf} = {}
      BY <1>10, <2>2 DEF Good, PortsOK
    <3> QED BY <1>10, <3>1
  <2> QED BY <1>10, <2>1, <2>2 DEF PortsOK
<1>15. Grows(g, h, p)
  <2>1. Len(g.tasks) <= Len(h.tasks)
    <3>1. Len(g.tasks) \in Nat
      BY <1>1, ShapeFacts
    <3> QED BY <1>9, <3>1
  <2>2. \A t \in TaskIds(g) \ Relays(g) : t # p => h.consumers[t] = g.consumers[t]
    BY <1>2, <1>9
  <2> QED BY <1>9, <1>10, <1>11, <2>1, <2>2 DEF Grows
<1>16. Reaches(h, p, c)
  <2>1. Reaches(h, p, f) /\ Leads(h, f, c) /\ f \in TaskIds(h) /\ c \in TaskIds(h)
    BY <1>1, <1>9, ReachesKept
  <2> QED BY <2>1, ReachesOn
<1>17. ASSUME NEW t \in TaskIds(h), IsSink(h, t)
       PROVE  t \in TaskIds(g) /\ IsSink(g, t) /\ t # f /\ t # p
  <2>1. Len(h.consumers[t]) = 0
    BY <1>17, EmptySequence DEF IsSink
  <2>2. t # f
    <3>1. Len(g.consumers[f]) \in Nat
      BY <1>1, ShapeFacts
    <3>2. Len(h.consumers[f]) = Len(g.consumers[f]) + 1
      BY <1>9
    <3>3. Len(h.consumers[f]) # 0
      BY <3>1, <3>2
    <3> QED BY <2>1, <3>3
  <2>3. t # p
    <3>1. Len(h.consumers[p]) = MaxConsumers
      BY <1>1, <1>2, <1>9
    <3>2. MaxConsumers # 0
      BY DEF MaxConsumers
    <3> QED BY <2>1, <3>1, <3>2
  <2> QED BY <1>9, <1>17, <2>2, <2>3 DEF IsSink
<1>18. Legal(h, p)
  BY <1>1, <1>9, <1>10, <1>11 DEF Legal
<1>19. ASSUME NEW E, Cut(g, E), c \in E => p \in E  PROVE Widens(g, h, E)
  <2>1. p \in E => f \in E
    BY <1>19 DEF Cut
  <2>2. Closed(h, E) /\ E \cap TaskIds(g) = E
    BY <1>9, <1>19, <2>1 DEF Cut, Closed
  <2>3. \A x \in DOMAIN h.ports : x \in E => h.ports[x].trunk \in E /\ h.ports[x].leaf \in E
    BY <1>10, <1>19 DEF Cut
  <2> QED BY <2>2, <2>3 DEF Cut, Widens
<1>20. CarriesTo(g, h, p, c)
  BY <1>19 DEF CarriesTo
<1> QED
  BY <1>9, <1>14, <1>15, <1>16, <1>17, <1>18, <1>20 DEF LeafWired, Good

(* dep_edge never aborts when the producer is none of its relays.          *)
LEMMA DepEdgeParts ==
  ASSUME NEW g, Good(g), NEW p, Legal(g, p),
         NEW c \in TaskIds(g) \ Relays(g), IsSink(g, c), c # p,
         NEW h, h = DepEdge(g, p, c)
  PROVE  Wired(g, h, p, c)
<1>1. CASE HasRoom(g, p)
  <2>1. h = AddEdge(g, p, c)
    BY <1>1 DEF DepEdge
  <2> QED BY <1>1, <2>1, DirectEdge
<1>2. CASE ~HasRoom(g, p)
  <2> DEFINE ported == IF p \in DOMAIN g.ports THEN g ELSE OpenPort(g, p)
             leafed == IF ported.ports[p].leafUsed >= MaxConsumers
                         THEN NewLeaf(ported, p) ELSE ported
             f == leafed.ports[p].leaf
  <2>1. h = [AddEdge(leafed, f, c) EXCEPT !.ports[p].leafUsed = @ + 1]
    BY <1>2 DEF DepEdge
  <2>2. \/ Opened(g, leafed, p)
        \/ leafed = g /\ p \in DOMAIN g.ports /\ g.ports[p].leafUsed < MaxConsumers
    <3>1. CASE p \notin DOMAIN g.ports
      <4>1. p \in TaskIds(g) \ Relays(g) /\ Len(g.consumers[p]) \in Nat
        <5>1. p \in TaskIds(g) \ Relays(g) /\ Shape(g)
          BY DEF Legal, Good, Base
        <5> QED BY <5>1, ShapeFacts
      <4>2. Len(g.consumers[p]) = MaxConsumers - 1
        <5>1. Len(g.consumers[p]) < MaxConsumers
          BY <3>1 DEF Legal
        <5>2. ~(Len(g.consumers[p]) < MaxConsumers - 1)
          BY <1>2 DEF HasRoom
        <5>3. \A n \in Nat : n < MaxConsumers /\ ~(n < MaxConsumers - 1) => n = MaxConsumers - 1
          BY DEF MaxConsumers
        <5> QED BY <4>1, <5>1, <5>2, <5>3
      <4>3. ported = OpenPort(g, p)
        BY <3>1
      <4> HIDE DEF ported
      <4>4. Opened(g, ported, p)
        BY <3>1, <4>1, <4>2, <4>3, OpenPortParts
      <4>5. leafed = ported
        BY <4>4 DEF Opened, MaxConsumers
      <4> QED BY <4>4, <4>5
    <3>2. CASE p \in DOMAIN g.ports
      <4>1. ported = g
        BY <3>2
      <4> HIDE DEF ported
      <4>2. CASE g.ports[p].leafUsed >= MaxConsumers
        <5>1. leafed = NewLeaf(g, p)
          BY <4>1, <4>2
        <5> HIDE DEF leafed
        <5> QED BY <3>2, <5>1, NewLeafParts
      <4>3. CASE ~(g.ports[p].leafUsed >= MaxConsumers)
        <5>1. leafed = g
          BY <4>1, <4>3
        <5>2. Len(g.consumers[g.ports[p].leaf]) \in Nat
          BY <3>2, ShapeFacts DEF Good, Base, PortsOK, PortOK
        <5>3. g.ports[p].leafUsed = Len(g.consumers[g.ports[p].leaf])
          BY <3>2 DEF Good, PortsOK, PortOK
        <5> HIDE DEF leafed
        <5>4. g.ports[p].leafUsed < MaxConsumers
          BY <4>3, <5>2, <5>3 DEF MaxConsumers
        <5> QED BY <3>2, <5>1, <5>4
      <4> QED BY <4>2, <4>3
    <3> QED BY <3>1, <3>2
  <2> HIDE DEF leafed
  <2>3. /\ Good(leafed) /\ Grows(g, leafed, p) /\ p \in DOMAIN leafed.ports
        /\ leafed.ports[p].leafUsed < MaxConsumers
    <3>1. Grows(g, g, p)
      BY GrowsNot DEF Good, Base
    <3> QED BY <2>2, <3>1 DEF Opened, MaxConsumers
  <2>8. Carries(g, leafed)
    BY <2>2, CarriesNot DEF Opened
  <2>4. c \in TaskIds(leafed) \ Relays(leafed) /\ IsSink(leafed, c)
    BY <2>3 DEF Grows, IsSink
  <2>5. LeafWired(leafed, h, p, c, f)
    <3> DEFINE l == AddEdge(leafed, f, c)
               port == [leafed.ports[p] EXCEPT !.leafUsed = @ + 1]
    <3>1. f = leafed.ports[p].leaf
      OBVIOUS
    <3> HIDE DEF f
    <3>2. /\ Base(leafed) /\ Shape(leafed) /\ f \in TaskIds(leafed) \cap Relays(leafed)
          /\ Len(leafed.consumers[f]) < MaxConsumers
          /\ DOMAIN leafed.ports[p] = {"trunk", "trunkUsed", "leaf", "leafUsed"}
      BY <2>3, <3>1 DEF Good, Base, PortsOK, PortOK, Relays
    <3>3. EdgeIsLegal(leafed, f, c)
      BY <2>4, <3>2 DEF EdgeIsLegal
    <3>4. Base(l) /\ EdgeAdded(leafed, l, f, c)
      BY <2>4, <3>2, <3>3, AddEdgeKeepsBase, AddEdgeParts
    <3>5. h = [l EXCEPT !.ports[p].leafUsed = @ + 1]
      BY <2>1
    <3>6. l = AddEdge(leafed, f, c)
      OBVIOUS
    <3> HIDE DEF l
    <3>7. DOMAIN l = {"tasks", "consumers", "depInit", "ports", "died"} /\ l.ports = leafed.ports
      BY <3>4 DEF Base, Shape, EdgeAdded
    <3>8. SameTasks(l, h)
      BY <3>5, <3>7 DEF SameTasks
    <3>9. h.ports = [leafed.ports EXCEPT ![p] = port]
      BY <3>5, <3>7
    <3>10. /\ DOMAIN port = {"trunk", "trunkUsed", "leaf", "leafUsed"}
           /\ port.trunk = leafed.ports[p].trunk /\ port.trunkUsed = leafed.ports[p].trunkUsed
           /\ port.leaf = f /\ port.leafUsed = leafed.ports[p].leafUsed + 1
      BY <3>1, <3>2
    <3> HIDE DEF port
    <3> QED BY <2>3, <2>4, <3>1, <3>6, <3>8, <3>9, <3>10, LeafEdge
  <2>6. Grows(g, h, p)
    <3>1. Shape(g) /\ Shape(leafed) /\ Shape(h) /\ Grows(leafed, h, p)
      BY <2>3, <2>5 DEF LeafWired, Good, Base
    <3> QED BY <2>3, <3>1, GrowsOn
  <2>7. \A t \in TaskIds(h) : IsSink(h, t) => t \in TaskIds(g) /\ IsSink(g, t) /\ t # p
    BY <2>2, <2>5 DEF LeafWired, Opened
  <2>9. CarriesTo(g, h, p, c)
    <3>1. CarriesTo(leafed, h, p, c) /\ TaskIds(g) \subseteq TaskIds(leafed)
      BY <2>3, <2>5 DEF LeafWired, Grows
    <3>2. p \in TaskIds(g) /\ c \in TaskIds(g)
      BY DEF Legal
    <3> QED BY <2>8, <3>1, <3>2, CarriesOn
  <2> QED BY <2>5, <2>6, <2>7, <2>9 DEF LeafWired, Wired
<1> QED
  BY <1>1, <1>2

(* Producers stay legal, and what waits stays a sink.                      *)
LEMMA WiredKeeps ==
  ASSUME NEW g, Good(g), NEW p, NEW c, NEW h, Wired(g, h, p, c)
  PROVE  /\ \A q : Legal(g, q) => Legal(h, q)
         /\ \A t \in TaskIds(g) \ Relays(g) : t # p =>
              /\ t \in TaskIds(h) \ Relays(h)
              /\ h.consumers[t] = g.consumers[t]
<1>1. \A t \in TaskIds(g) \ Relays(g) : t # p =>
        /\ t \in TaskIds(h) \ Relays(h)
        /\ h.consumers[t] = g.consumers[t]
  BY DEF Wired, Grows
<1>2. ASSUME NEW q, Legal(g, q), q # p  PROVE Legal(h, q)
  BY <1>1, <1>2 DEF Legal, Wired, Grows
<1>3. Legal(h, p)
  BY DEF Wired
<1> QED
  BY <1>1, <1>2, <1>3

--------------------------------------------------------------------------------
(* A new task and the producers it waits for.                              *)

(* Any of the new tasks N can be left out of a cut, or be in it if it has   *)
(* the producers P.                                                        *)
Splits(g, h, P, N) ==
  \A E, A : Cut(g, E) /\ A \subseteq N /\ (A # {} => P \subseteq E) =>
    \E F : Cut(h, F) /\ F \cap (TaskIds(g) \cup N) = E \cup A

(* c is new and waits for the set P; what else is new are relays.          *)
WaitsFor(g, h, task, c, P) ==
  /\ Good(h)
  /\ Len(g.tasks) <= Len(h.tasks) /\ TaskIds(g) \subseteq TaskIds(h)
  /\ c \notin TaskIds(g) /\ c \in TaskIds(h) \ Relays(h)
  /\ h.consumers[c] = <<>> /\ h.tasks[c] = task
  /\ \A t \in TaskIds(g) : h.tasks[t] = g.tasks[t]
  /\ \A t \in TaskIds(h) \ TaskIds(g) : t # c => h.tasks[t] = Signal
  /\ \A x, y \in TaskIds(g) : Leads(g, x, y) => Leads(h, x, y)
  /\ \A q : Legal(g, q) => Legal(h, q)
  /\ \A t \in TaskIds(g) \ Relays(g) :
       t \notin P => t \notin Relays(h) /\ h.consumers[t] = g.consumers[t]
  /\ P \subseteq TaskIds(g) /\ \A p \in P : Reaches(h, p, c)
  /\ \A t \in TaskIds(h) : IsSink(h, t) =>
       t = c \/ (t \in TaskIds(g) /\ IsSink(g, t) /\ t \notin P)
  /\ Splits(g, h, P, {c})

LEMMA AddTaskWaits ==
  ASSUME NEW g, Good(g), NEW task, NEW h, h = AddTask(g, task),
         NEW c, c = NewestTask(g) + 1
  PROVE  WaitsFor(g, h, task, c, {})
<1>1. Base(g) /\ Shape(g) /\ g.died = FALSE /\ c = Len(g.tasks) + 1
  BY DEF Good, Base, NewestTask
<1>2. Base(h) /\ TaskAdded(g, h, c, task)
  BY <1>1, AddTaskKeepsBase, AddTaskParts
<1>3. /\ TaskIds(h) = TaskIds(g) \cup {c} /\ c \notin TaskIds(g)
      /\ \A t \in TaskIds(g) : h.tasks[t] = g.tasks[t]
      /\ h.tasks[c] = task
      /\ \A t \in TaskIds(g) : h.consumers[t] = g.consumers[t]
      /\ h.consumers[c] = <<>>
      /\ h.ports = g.ports /\ h.died = FALSE
  BY <1>1, <1>2 DEF TaskAdded
<1>4. Relays(h) = Relays(g) /\ Relays(g) \subseteq TaskIds(g)
  BY <1>3 DEF Relays, Good, PortsOK, PortOK
<1>5. \A x, y \in TaskIds(g) : Leads(g, x, y) => Leads(h, x, y)
  BY <1>3 DEF Leads
<1>6. ASSUME NEW r \in DOMAIN g.ports  PROVE PortOK(h, r)
  <2>1. PortOK(g, r) /\ h.ports[r] = g.ports[r]
    BY <1>3 DEF Good, PortsOK
  <2>2. /\ r \in TaskIds(g) \ Relays(h)
        /\ g.ports[r].trunk \in TaskIds(g) /\ g.ports[r].leaf \in TaskIds(g)
    BY <1>4, <2>1 DEF PortOK
  <2> QED BY <1>3, <1>5, <2>1, <2>2, PortKept
<1>7. Good(h)
  <2>1. PortsOK(h)
    BY <1>3, <1>6 DEF Good, PortsOK
  <2> QED BY <1>2, <1>3, <2>1 DEF Good
<1>8. Len(g.tasks) <= Len(h.tasks)
  <2>1. Len(g.tasks) \in Nat /\ Len(h.tasks) = Len(g.tasks) + 1
    BY <1>1, <1>2, ShapeFacts DEF TaskAdded
  <2> QED BY <2>1
<1>9. ASSUME NEW q, Legal(g, q)  PROVE Legal(h, q)
  BY <1>3, <1>4, <1>9 DEF Legal
<1>10. ASSUME NEW t \in TaskIds(h), IsSink(h, t)
       PROVE  t = c \/ (t \in TaskIds(g) /\ IsSink(g, t))
  BY <1>3, <1>10 DEF IsSink
<1>11. ASSUME NEW E, NEW A, Cut(g, E), A \subseteq {c}
       PROVE  Cut(h, E \cup A) /\ (E \cup A) \cap (TaskIds(g) \cup {c}) = E \cup A
  <2>1. E \subseteq TaskIds(g) /\ E \cup A \subseteq TaskIds(h)
    BY <1>3, <1>11 DEF Cut, Closed
  <2>2. ASSUME NEW x \in TaskIds(h), NEW y \in TaskIds(h), Leads(h, x, y)
        PROVE  x \in TaskIds(g) /\ y \in TaskIds(g) /\ Leads(g, x, y)
    <3>1. x # c
      BY <1>3, <2>2, EmptySequence DEF Leads
    <3>2. x \in TaskIds(g) /\ Leads(g, x, y)
      BY <1>3, <2>2, <3>1 DEF Leads
    <3> QED BY <1>1, <3>2, ShapeFacts DEF Leads
  <2>3. Closed(h, E \cup A)
    <3>1. ASSUME NEW x \in TaskIds(h), NEW y \in TaskIds(h), Leads(h, x, y), y \in E \cup A
          PROVE  x \in E
      <4>1. x \in TaskIds(g) /\ y \in TaskIds(g) /\ Leads(g, x, y)
        BY <2>2, <3>1
      <4>2. y \in E
        BY <1>3, <1>11, <3>1, <4>1
      <4> QED BY <1>11, <4>1, <4>2 DEF Cut, Closed
    <3> QED BY <2>1, <3>1 DEF Closed
  <2>4. \A r \in DOMAIN h.ports : r \in E \cup A =>
          h.ports[r].trunk \in E /\ h.ports[r].leaf \in E
    <3>1. \A r \in DOMAIN g.ports : r \in TaskIds(g)
      BY DEF Good, PortsOK, PortOK
    <3> QED BY <1>3, <1>11, <3>1 DEF Cut
  <2> QED BY <1>3, <2>1, <2>3, <2>4 DEF Cut
<1>12. Splits(g, h, {}, {c})
  BY <1>11 DEF Splits
<1> QED
  BY <1>3, <1>4, <1>5, <1>7, <1>8, <1>9, <1>10, <1>12 DEF WaitsFor

LEMMA DepEdgeWaits ==
  ASSUME NEW g, Shape(g), NEW k, NEW task, NEW c, NEW P, WaitsFor(g, k, task, c, P),
         NEW p, Legal(g, p), NEW h, h = DepEdge(k, p, c)
  PROVE  WaitsFor(g, h, task, c, P \cup {p})
<1>1. /\ Good(k) /\ Shape(k) /\ Legal(k, p) /\ p # c /\ p \in TaskIds(g)
      /\ c \in TaskIds(k) \ Relays(k) /\ IsSink(k, c)
  BY DEF WaitsFor, Legal, IsSink, Good, Base
<1>2. Wired(k, h, p, c)
  BY <1>1, DepEdgeParts
<1>3. /\ \A q : Legal(k, q) => Legal(h, q)
      /\ \A t \in TaskIds(k) \ Relays(k) : t # p =>
           /\ t \in TaskIds(h) \ Relays(h)
           /\ h.consumers[t] = k.consumers[t]
  BY <1>1, <1>2, WiredKeeps
<1>4. /\ Good(h) /\ Shape(h) /\ Len(k.tasks) <= Len(h.tasks)
      /\ TaskIds(k) \subseteq TaskIds(h)
      /\ \A t \in TaskIds(k) : h.tasks[t] = k.tasks[t]
      /\ \A t \in TaskIds(h) \ TaskIds(k) : h.tasks[t] = Signal
      /\ \A x, y \in TaskIds(k) : Leads(k, x, y) => Leads(h, x, y)
      /\ Reaches(h, p, c)
      /\ \A t \in TaskIds(h) : IsSink(h, t) => t \in TaskIds(k) /\ IsSink(k, t) /\ t # p
  BY <1>2 DEF Wired, Grows, Good, Base
<1>5. /\ TaskIds(g) \subseteq TaskIds(k) /\ c \notin TaskIds(g)
      /\ k.consumers[c] = <<>> /\ k.tasks[c] = task
      /\ Len(g.tasks) <= Len(k.tasks)
  BY DEF WaitsFor
<1>6. Len(g.tasks) <= Len(h.tasks)
  <2>1. Len(g.tasks) \in Nat /\ Len(k.tasks) \in Nat /\ Len(h.tasks) \in Nat
    BY <1>1, <1>4, ShapeFacts
  <2> QED BY <1>4, <1>5, <2>1
<1>7. c \in TaskIds(h) \ Relays(h) /\ h.consumers[c] = <<>> /\ h.tasks[c] = task
  BY <1>1, <1>3, <1>4, <1>5
<1>8. /\ \A t \in TaskIds(g) : h.tasks[t] = g.tasks[t]
      /\ \A t \in TaskIds(h) \ TaskIds(g) : t # c => h.tasks[t] = Signal
      /\ \A x, y \in TaskIds(g) : Leads(g, x, y) => Leads(h, x, y)
      /\ \A q : Legal(g, q) => Legal(h, q)
  BY <1>3, <1>4 DEF WaitsFor
<1>9. ASSUME NEW t \in TaskIds(g) \ Relays(g), t \notin P \cup {p}
      PROVE  t \notin Relays(h) /\ h.consumers[t] = g.consumers[t]
  <2>1. t \in TaskIds(k) \ Relays(k) /\ k.consumers[t] = g.consumers[t]
    BY <1>5, <1>9 DEF WaitsFor
  <2> QED BY <1>3, <1>9, <2>1
<1>10. ASSUME NEW r \in P \cup {p}  PROVE Reaches(h, r, c)
  <2>1. CASE r = p
    BY <1>4, <2>1
  <2>2. CASE r # p
    <3>1. Reaches(k, r, c)
      BY <2>2 DEF WaitsFor
    <3>2. r \in TaskIds(k)
      BY <1>5, <2>2 DEF WaitsFor
    <3> QED BY <1>4, <3>1, <3>2, ReachesKept
  <2> QED BY <2>1, <2>2
<1>11. ASSUME NEW t \in TaskIds(h), IsSink(h, t)
       PROVE  t = c \/ (t \in TaskIds(g) /\ IsSink(g, t) /\ t \notin P \cup {p})
  BY <1>4, <1>11 DEF WaitsFor
<1>12. P \cup {p} \subseteq TaskIds(g)
  BY <1>1 DEF WaitsFor
<1>13. ASSUME NEW E, NEW A, Cut(g, E), A \subseteq {c},
              A # {} => P \cup {p} \subseteq E
       PROVE  \E F : Cut(h, F) /\ F \cap (TaskIds(g) \cup {c}) = E \cup A
  <2>1. A # {} => P \subseteq E
    BY <1>13
  <2>2. Splits(g, k, P, {c})
    BY DEF WaitsFor
  <2>3. PICK H : Cut(k, H) /\ H \cap (TaskIds(g) \cup {c}) = E \cup A
    BY <1>13, <2>1, <2>2 DEF Splits
  <2>4. E \subseteq TaskIds(g)
    BY <1>13 DEF Cut, Closed
  <2>5. c \in H => p \in H
    BY <1>1, <1>5, <1>13, <2>3, <2>4
  <2>6. PICK F : Cut(h, F) /\ F \cap TaskIds(k) = H
    BY <1>2, <2>3, <2>5 DEF Wired, CarriesTo, Widens
  <2>7. F \cap (TaskIds(g) \cup {c}) = E \cup A
    BY <1>1, <1>5, <2>3, <2>6
  <2> QED BY <2>6, <2>7
<1>14. Splits(g, h, P \cup {p}, {c})
  BY <1>13 DEF Splits
<1> QED
  BY <1>4, <1>5, <1>6, <1>7, <1>8, <1>9, <1>10, <1>11, <1>12, <1>14 DEF WaitsFor

--------------------------------------------------------------------------------
(* Folds.                                                                  *)

LEMMA MaxIsMember ==
  ASSUME NEW n \in Nat, NEW s \in SUBSET (1 .. n), s # {}
  PROVE  Max(s) \in s /\ \A y \in s : Max(s) >= y
<1> DEFINE T == { n - x : x \in s }
<1>1. T \subseteq Nat /\ T # {}
  <2>1. \A x \in s : x \in Nat /\ x <= n
    OBVIOUS
  <2>2. \A x \in s : n - x \in Nat
    BY <2>1
  <2> QED BY <2>2
<1>2. PICK z \in T : \A y \in T : z <= y
  BY <1>1, LeastNumber
<1>3. PICK x \in s : z = n - x
  BY <1>2
<1>4. \A y \in s : n - y \in T
  OBVIOUS
<1> HIDE DEF T
<1>5. \A y \in s : x >= y
  BY <1>2, <1>3, <1>4
<1> QED
  BY <1>3, <1>5 DEF Max

LEMMA MaxOfInterval ==
  ASSUME NEW n \in Nat, n # 0
  PROVE  Max(1 .. n) = n /\ (1 .. n) \ {n} = 1 .. (n - 1)
<1>1. n \in 1 .. n /\ 1 .. n # {}
  OBVIOUS
<1>2. Max(1 .. n) \in 1 .. n /\ Max(1 .. n) >= n
  BY <1>1, MaxIsMember
<1>3. Max(1 .. n) = n
  BY <1>2
<1>4. (1 .. n) \ {n} = 1 .. (n - 1)
  OBVIOUS
<1> QED
  BY <1>3, <1>4

LEMMA WithoutMax ==
  ASSUME NEW n \in Nat, NEW s \in SUBSET (1 .. n + 1), s # {}
  PROVE  s \ {Max(s)} \in SUBSET (1 .. n)
<1>1. n + 1 \in Nat
  OBVIOUS
<1>2. Max(s) \in s /\ \A y \in s : Max(s) >= y
  BY <1>1, MaxIsMember
<1>3. ASSUME NEW y \in s, y # Max(s)  PROVE y \in 1 .. n
  <2>1. Max(s) \in 1 .. n + 1 /\ y \in 1 .. n + 1 /\ Max(s) >= y
    BY <1>2
  <2> QED BY <1>3, <2>1
<1> QED
  BY <1>3

(* The folds of the model: the terminal's edges are made by Graph::edge,   *)
(* those of another task by dep_edge; freeze() lists the roots and counts  *)
(* down the consumers of a task.                                           *)
FoldStep(by, acc, x, c) ==
  IF by = "edge" THEN AddEdge(acc, x, c)
  ELSE IF by = "dep_edge" THEN DepEdge(acc, x, c)
  ELSE IF by = "root" THEN IF c[x] = 0 THEN Append(acc, x) ELSE acc
  ELSE CountDown(acc, x)

(* What their recursion says of the graphs in between.                     *)
AfterStep(by, ps, c, base, n, it) ==
  [s \in SUBSET (1 .. n) |->
     IF s = {} THEN base ELSE FoldStep(by, it[s \ {Max(s)}], ps[Max(s)], c)]

LEMMA AfterExists ==
  ASSUME NEW by, NEW ps, NEW c, NEW base
  PROVE  \A n \in Nat : \E it : it = AfterStep(by, ps, c, base, n, it)
<1> DEFINE T == { n \in Nat : \E it : it = AfterStep(by, ps, c, base, n, it) }
<1>1. 0 \in T
  <2> DEFINE it == [s \in SUBSET (1 .. 0) |-> base]
  <2>1. \A s \in SUBSET (1 .. 0) : s = {}
    OBVIOUS
  <2>2. it = AfterStep(by, ps, c, base, 0, it)
    BY <2>1 DEF AfterStep
  <2> HIDE DEF it
  <2> QED BY <2>2
<1>2. ASSUME NEW n \in Nat, n \in T  PROVE n + 1 \in T
  <2>1. PICK it : it = AfterStep(by, ps, c, base, n, it)
    BY <1>2
  <2> DEFINE jt == AfterStep(by, ps, c, base, n + 1, it)
  <2>2. \A s \in SUBSET (1 .. n) :
          it[s] = IF s = {} THEN base ELSE FoldStep(by, it[s \ {Max(s)}], ps[Max(s)], c)
    BY <2>1 DEF AfterStep
  <2>3. \A s \in SUBSET (1 .. n + 1) :
          jt[s] = IF s = {} THEN base ELSE FoldStep(by, it[s \ {Max(s)}], ps[Max(s)], c)
    BY DEF AfterStep
  <2>4. SUBSET (1 .. n) \subseteq SUBSET (1 .. n + 1)
    OBVIOUS
  <2>5. jt = [s \in SUBSET (1 .. n + 1) |-> jt[s]]
    BY DEF AfterStep
  <2> HIDE DEF jt
  <2>6. \A s \in SUBSET (1 .. n) : jt[s] = it[s]
    BY <2>2, <2>3, <2>4
  <2>7. \A s \in SUBSET (1 .. n + 1) : s # {} => s \ {Max(s)} \in SUBSET (1 .. n)
    BY WithoutMax
  <2>8. jt = AfterStep(by, ps, c, base, n + 1, jt)
    <3>1. \A s \in SUBSET (1 .. n + 1) :
            jt[s] = IF s = {} THEN base ELSE FoldStep(by, jt[s \ {Max(s)}], ps[Max(s)], c)
      BY <2>3, <2>6, <2>7
    <3> QED BY <2>5, <3>1 DEF AfterStep
  <2> QED BY <2>8
<1> HIDE DEF T
<1>3. \A n \in Nat : n \in T
  BY <1>1, <1>2, Induction
<1> QED
  BY <1>3 DEF T

AfterFold(by, ps, c, base, n) == (CHOOSE x : x = AfterStep(by, ps, c, base, n, x))[1 .. n]

(* The graphs in between.                                                  *)
Waiting(by, run, base, ps, c, n) ==
  /\ run[0] = base
  /\ \A k \in 1 .. n : run[k] = FoldStep(by, run[k - 1], ps[k], c)

LEMMA AfterRuns ==
  ASSUME NEW by, NEW ps, NEW c, NEW base, NEW n \in Nat
  PROVE  \E run : Waiting(by, run, base, ps, c, n) /\ run[n] = AfterFold(by, ps, c, base, n)
<1> DEFINE it == CHOOSE x : x = AfterStep(by, ps, c, base, n, x)
<1>1. it = AfterStep(by, ps, c, base, n, it)
  BY AfterExists
<1> HIDE DEF it
<1>2. \A s \in SUBSET (1 .. n) :
        it[s] = IF s = {} THEN base ELSE FoldStep(by, it[s \ {Max(s)}], ps[Max(s)], c)
  BY <1>1 DEF AfterStep
<1> DEFINE run == [k \in 0 .. n |-> it[1 .. k]]
<1>3. run[0] = base
  <2>1. run[0] = it[1 .. 0] /\ 1 .. 0 = {}
    OBVIOUS
  <2> QED BY <1>2, <2>1
<1>4. ASSUME NEW k \in 1 .. n  PROVE run[k] = FoldStep(by, run[k - 1], ps[k], c)
  <2>1. run[k] = it[1 .. k] /\ run[k - 1] = it[1 .. (k - 1)]
    OBVIOUS
  <2>2. k \in Nat /\ k # 0 /\ 1 .. k # {} /\ 1 .. k \in SUBSET (1 .. n)
    OBVIOUS
  <2>3. Max(1 .. k) = k /\ (1 .. k) \ {k} = 1 .. (k - 1)
    BY <2>2, MaxOfInterval
  <2> HIDE DEF run
  <2>4. it[1 .. k] = FoldStep(by, it[(1 .. k) \ {Max(1 .. k)}], ps[Max(1 .. k)], c)
    BY <1>2, <2>2
  <2> QED BY <2>1, <2>3, <2>4
<1>5. run[n] = it[1 .. n]
  OBVIOUS
<1> HIDE DEF run
<1> QED
  BY <1>3, <1>4, <1>5 DEF Waiting, AfterFold, it

LEMMA AddTaskAfterIsChosen ==
  ASSUME NEW g, NEW task, NEW ps, NEW n, DOMAIN ps = 1 .. n,
         NEW c, c = NewestTask(g) + 1
  PROVE  AddTaskAfter(g, task, ps) = AfterFold("dep_edge", ps, c, AddTask(g, task), n)
  BY DEF AddTaskAfter, FoldLeft, MapThenFoldSet, AfterStep, AfterFold,
         FoldStep

(* A new task waits for each of its producers.                             *)
LEMMA AddTaskAfterWaits ==
  ASSUME NEW g, Good(g), NEW task, NEW n \in Nat, NEW ps, DOMAIN ps = 1 .. n,
         \A i \in 1 .. n : Legal(g, ps[i]),
         NEW c, c = NewestTask(g) + 1, NEW R, R = { ps[i] : i \in 1 .. n },
         NEW h, h = AddTaskAfter(g, task, ps)
  PROVE  WaitsFor(g, h, task, c, R)
<1> DEFINE base == AddTask(g, task)
<1>1. WaitsFor(g, base, task, c, {})
  BY AddTaskWaits
<1>2. PICK run : Waiting("dep_edge", run, base, ps, c, n) /\ run[n] = h
  BY AfterRuns, AddTaskAfterIsChosen
<1> HIDE DEF base
<1> DEFINE P(k) == { ps[i] : i \in 1 .. k }
           T == { k \in Nat : k <= n => WaitsFor(g, run[k], task, c, P(k)) }
<1>3. 0 \in T
  <2>1. P(0) = {} /\ run[0] = base
    BY <1>2 DEF Waiting
  <2> HIDE DEF P
  <2> QED BY <1>1, <2>1
<1>4. ASSUME NEW k \in Nat, k \in T  PROVE k + 1 \in T
  <2> SUFFICES ASSUME k + 1 <= n  PROVE WaitsFor(g, run[k + 1], task, c, P(k + 1))
    OBVIOUS
  <2>1. k <= n /\ k + 1 \in 1 .. n /\ (k + 1) - 1 = k
    OBVIOUS
  <2>2. WaitsFor(g, run[k], task, c, P(k))
    BY <1>4, <2>1
  <2>3. run[k + 1] = DepEdge(run[k], ps[k + 1], c)
    BY <1>2, <2>1 DEF Waiting, FoldStep
  <2>4. P(k + 1) = P(k) \cup {ps[k + 1]}
    <3>1. 1 .. (k + 1) = (1 .. k) \cup {k + 1}
      OBVIOUS
    <3> QED BY <3>1
  <2>5. Shape(g) /\ Legal(g, ps[k + 1])
    BY <2>1 DEF Good, Base
  <2> HIDE DEF P, T
  <2> QED BY <2>2, <2>3, <2>4, <2>5, DepEdgeWaits
<1> HIDE DEF T, P
<1>5. n \in T
  BY <1>3, <1>4, Induction
<1>6. WaitsFor(g, run[n], task, c, P(n))
  BY <1>5 DEF T
<1> QED
  BY <1>2, <1>6 DEF P

--------------------------------------------------------------------------------
(* Calls.                                                                  *)

(* What a call with the producers P leaves alone.                          *)
Extends(g, h, P) ==
  /\ Good(h)
  /\ Len(g.tasks) <= Len(h.tasks) /\ TaskIds(g) \subseteq TaskIds(h)
  /\ \A t \in TaskIds(g) : h.tasks[t] = g.tasks[t]
  /\ \A x, y \in TaskIds(g) : Leads(g, x, y) => Leads(h, x, y)
  /\ \A q : Legal(g, q) => Legal(h, q)
  /\ \A t \in TaskIds(g) \ Relays(g) :
       t \notin P => t \notin Relays(h) /\ h.consumers[t] = g.consumers[t]

LEMMA ExtendsOn ==
  ASSUME NEW g, NEW k, NEW h, NEW P, NEW Q, NEW R, Shape(g),
         Extends(g, k, P), Extends(k, h, Q),
         R \cap TaskIds(g) = (P \cup Q) \cap TaskIds(g)
  PROVE  Extends(g, h, R)
<1>1. /\ Len(g.tasks) <= Len(h.tasks)
      /\ TaskIds(g) \subseteq TaskIds(k) /\ TaskIds(k) \subseteq TaskIds(h)
  <2>1. Shape(k) /\ Shape(h) /\ Len(g.tasks) <= Len(k.tasks) /\ Len(k.tasks) <= Len(h.tasks)
    BY DEF Extends, Good, Base
  <2>2. Len(g.tasks) \in Nat /\ Len(k.tasks) \in Nat /\ Len(h.tasks) \in Nat
    BY <2>1, ShapeFacts
  <2> QED BY <2>1, <2>2 DEF Extends
<1>2. ASSUME NEW t \in TaskIds(g) \ Relays(g), t \notin R
      PROVE  t \notin Relays(h) /\ h.consumers[t] = g.consumers[t]
  <2>1. t \notin P /\ t \notin Q
    BY <1>2
  <2>2. t \in TaskIds(k) \ Relays(k) /\ k.consumers[t] = g.consumers[t]
    BY <1>1, <2>1 DEF Extends
  <2> QED BY <2>1, <2>2 DEF Extends
<1> QED
  BY <1>1, <1>2 DEF Extends

LEMMA WaitsForExtends ==
  ASSUME NEW g, NEW h, NEW task, NEW c, NEW P, WaitsFor(g, h, task, c, P)
  PROVE  Extends(g, h, P) /\ Legal(h, c)
<1>1. Extends(g, h, P)
  BY DEF WaitsFor, Extends
<1>2. Len(h.consumers[c]) < MaxConsumers
  BY EmptySequence DEF WaitsFor, MaxConsumers
<1> QED
  BY <1>1, <1>2 DEF WaitsFor, Legal

(* sig and what computes of the new tasks.                                 *)
Work(g, h, sig) == {sig} \cup { t \in TaskIds(h) \ TaskIds(g) : h.tasks[t] # Signal }

(* All of it can be left out of a cut, or be in it if it has P.            *)
Sides(g, h, sig, P) ==
  \A E : Cut(g, E) =>
    /\ \E F : Cut(h, F) /\ F \cap TaskIds(g) = E /\ Work(g, h, sig) \cap F = {}
    /\ P \subseteq E =>
         \E F : Cut(h, F) /\ F \cap TaskIds(g) = E /\ Work(g, h, sig) \subseteq F

LEMMA SplitsSides ==
  ASSUME NEW g, NEW h, NEW sig, sig \notin TaskIds(g), NEW P, NEW N, Splits(g, h, P, N),
         N \cap TaskIds(g) = {}, N # {}, Work(g, h, sig) \subseteq N
  PROVE  Sides(g, h, sig, P)
<1> SUFFICES ASSUME NEW E, Cut(g, E)
             PROVE  /\ \E F : /\ Cut(h, F) /\ F \cap TaskIds(g) = E
                             /\ Work(g, h, sig) \cap F = {}
                    /\ P \subseteq E =>
                         \E F : /\ Cut(h, F) /\ F \cap TaskIds(g) = E
                               /\ Work(g, h, sig) \subseteq F
  BY DEF Sides
<1>1. E \subseteq TaskIds(g)
  BY DEF Cut, Closed
<1>2. \E F : /\ Cut(h, F) /\ F \cap TaskIds(g) = E
             /\ Work(g, h, sig) \cap F = {}
  <2>1. {} \subseteq N
    OBVIOUS
  <2>2. PICK F : Cut(h, F) /\ F \cap (TaskIds(g) \cup N) = E \cup {}
    BY <2>1 DEF Splits
  <2>3. F \cap TaskIds(g) = E /\ Work(g, h, sig) \cap F = {}
    BY <1>1, <2>2
  <2> QED BY <2>2, <2>3
<1>3. ASSUME P \subseteq E
      PROVE  \E F : /\ Cut(h, F) /\ F \cap TaskIds(g) = E
                   /\ Work(g, h, sig) \subseteq F
  <2>1. N \subseteq N
    OBVIOUS
  <2>2. PICK F : Cut(h, F) /\ F \cap (TaskIds(g) \cup N) = E \cup N
    BY <1>3, <2>1 DEF Splits
  <2>3. F \cap TaskIds(g) = E /\ Work(g, h, sig) \subseteq F
    BY <1>1, <2>2
  <2> QED BY <2>2, <2>3
<1> QED
  BY <1>2, <1>3

(* sig stands for a call with the producers P: it comes after them, and    *)
(* nothing but it is left without a consumer.                              *)
Called(g, h, sig, P) ==
  /\ Extends(g, h, P) /\ P \subseteq TaskIds(g)
  /\ sig \in TaskIds(h) \ TaskIds(g) /\ Legal(h, sig) /\ IsSink(h, sig)
  /\ \A p \in P : Reaches(h, p, sig)
  /\ \A t \in TaskIds(h) : IsSink(h, t) =>
       t = sig \/ (t \in TaskIds(g) /\ IsSink(g, t) /\ t \notin P)
  /\ Sides(g, h, sig, P)

(* A call that is one task.                                                *)
LEMMA WaitsForCalled ==
  ASSUME NEW g, NEW h, NEW task, NEW sig, NEW P, WaitsFor(g, h, task, sig, P)
  PROVE  Called(g, h, sig, P)
<1>1. Extends(g, h, P) /\ Legal(h, sig)
  BY WaitsForExtends
<1>2. Work(g, h, sig) \subseteq {sig}
  BY DEF WaitsFor, Work
<1>3. sig \notin TaskIds(g) /\ Splits(g, h, P, {sig}) /\ {sig} \cap TaskIds(g) = {} /\ {sig} # {}
  BY DEF WaitsFor
<1>4. Sides(g, h, sig, P)
  BY <1>2, <1>3, SplitsSides
<1> QED
  BY <1>1, <1>4 DEF WaitsFor, Called, IsSink

LEMMA AddOpCalled ==
  ASSUME NEW g, Good(g), NEW task, NEW n \in Nat, NEW ps, DOMAIN ps = 1 .. n,
         \A i \in 1 .. n : Legal(g, ps[i]), NEW P, P = { ps[i] : i \in 1 .. n },
         NEW op, op = AddOp(g, task, ps)
  PROVE  Called(g, op.graph, op.sig, P)
<1>1. op.graph = AddTaskAfter(g, task, ps) /\ op.sig = NewestTask(g) + 1
  BY DEF AddOp
<1>2. WaitsFor(g, op.graph, task, op.sig, P)
  BY <1>1, AddTaskAfterWaits
<1> QED
  BY <1>2, WaitsForCalled

(* Tiles.                                                                  *)

TileStep(task, ps, acc, i) ==
  [graph |-> AddTile(acc.graph, task, ps, i),
   ids   |-> Append(acc.ids, NewestTask(acc.graph) + 1)]
NoTiles(g) == [graph |-> g, ids |-> <<>>]

TilesStep(g, task, ps, n, it) ==
  [s \in SUBSET (1 .. n) |->
     IF s = {} THEN NoTiles(g) ELSE TileStep(task, ps, it[s \ {Max(s)}], Max(s))]

LEMMA TilesExist ==
  ASSUME NEW g, NEW task, NEW ps
  PROVE  \A n \in Nat : \E it : it = TilesStep(g, task, ps, n, it)
<1> DEFINE T == { n \in Nat : \E it : it = TilesStep(g, task, ps, n, it) }
<1>1. 0 \in T
  <2> DEFINE it == [s \in SUBSET (1 .. 0) |-> NoTiles(g)]
  <2>1. \A s \in SUBSET (1 .. 0) : s = {}
    OBVIOUS
  <2>2. it = TilesStep(g, task, ps, 0, it)
    BY <2>1 DEF TilesStep
  <2> HIDE DEF it
  <2> QED BY <2>2
<1>2. ASSUME NEW n \in Nat, n \in T  PROVE n + 1 \in T
  <2>1. PICK it : it = TilesStep(g, task, ps, n, it)
    BY <1>2
  <2> DEFINE jt == TilesStep(g, task, ps, n + 1, it)
  <2>2. \A s \in SUBSET (1 .. n) :
          it[s] = IF s = {} THEN NoTiles(g) ELSE TileStep(task, ps, it[s \ {Max(s)}], Max(s))
    BY <2>1 DEF TilesStep
  <2>3. \A s \in SUBSET (1 .. n + 1) :
          jt[s] = IF s = {} THEN NoTiles(g) ELSE TileStep(task, ps, it[s \ {Max(s)}], Max(s))
    BY DEF TilesStep
  <2>4. SUBSET (1 .. n) \subseteq SUBSET (1 .. n + 1)
    OBVIOUS
  <2>5. jt = [s \in SUBSET (1 .. n + 1) |-> jt[s]]
    BY DEF TilesStep
  <2> HIDE DEF jt
  <2>6. \A s \in SUBSET (1 .. n) : jt[s] = it[s]
    BY <2>2, <2>3, <2>4
  <2>7. \A s \in SUBSET (1 .. n + 1) : s # {} => s \ {Max(s)} \in SUBSET (1 .. n)
    BY WithoutMax
  <2>8. jt = TilesStep(g, task, ps, n + 1, jt)
    <3>1. \A s \in SUBSET (1 .. n + 1) :
            jt[s] = IF s = {} THEN NoTiles(g) ELSE TileStep(task, ps, jt[s \ {Max(s)}], Max(s))
      BY <2>3, <2>6, <2>7
    <3> QED BY <2>5, <3>1 DEF TilesStep
  <2> QED BY <2>8
<1> HIDE DEF T
<1>3. \A n \in Nat : n \in T
  BY <1>1, <1>2, Induction
<1> QED
  BY <1>3 DEF T

TilesFold(g, task, ps, n) == (CHOOSE x : x = TilesStep(g, task, ps, n, x))[1 .. n]

Tiling(run, g, task, ps, n) ==
  /\ run[0] = NoTiles(g)
  /\ \A k \in 1 .. n : run[k] = TileStep(task, ps, run[k - 1], k)

LEMMA TilesRun ==
  ASSUME NEW g, NEW task, NEW ps, NEW n \in Nat
  PROVE  \E run : Tiling(run, g, task, ps, n) /\ run[n] = TilesFold(g, task, ps, n)
<1> DEFINE it == CHOOSE x : x = TilesStep(g, task, ps, n, x)
<1>1. it = TilesStep(g, task, ps, n, it)
  BY TilesExist
<1> HIDE DEF it
<1>2. \A s \in SUBSET (1 .. n) :
        it[s] = IF s = {} THEN NoTiles(g) ELSE TileStep(task, ps, it[s \ {Max(s)}], Max(s))
  BY <1>1 DEF TilesStep
<1> DEFINE run == [k \in 0 .. n |-> it[1 .. k]]
<1>3. run[0] = NoTiles(g)
  <2>1. run[0] = it[1 .. 0] /\ 1 .. 0 = {}
    OBVIOUS
  <2> QED BY <1>2, <2>1
<1>4. ASSUME NEW k \in 1 .. n  PROVE run[k] = TileStep(task, ps, run[k - 1], k)
  <2>1. run[k] = it[1 .. k] /\ run[k - 1] = it[1 .. (k - 1)]
    OBVIOUS
  <2>2. k \in Nat /\ k # 0 /\ 1 .. k # {} /\ 1 .. k \in SUBSET (1 .. n)
    OBVIOUS
  <2>3. Max(1 .. k) = k /\ (1 .. k) \ {k} = 1 .. (k - 1)
    BY <2>2, MaxOfInterval
  <2> HIDE DEF run
  <2>4. it[1 .. k] = TileStep(task, ps, it[(1 .. k) \ {Max(1 .. k)}], Max(1 .. k))
    BY <1>2, <2>2
  <2> QED BY <2>1, <2>3, <2>4
<1>5. run[n] = it[1 .. n]
  OBVIOUS
<1> HIDE DEF run
<1> QED
  BY <1>3, <1>4, <1>5 DEF Tiling, TilesFold, it

LEMMA AddTilesIsChosen ==
  ASSUME NEW g, NEW task, NEW ps, NEW n \in Nat
  PROVE  AddTiles(g, task, n, ps) = TilesFold(g, task, ps, n)
<1> DEFINE is == [i \in 1 .. n |-> i]
           FStep(it) ==
             [s \in SUBSET (1 .. n) |->
                IF s = {} THEN NoTiles(g) ELSE TileStep(task, ps, it[s \ {Max(s)}], is[Max(s)])]
<1>1. AddTiles(g, task, n, ps) = (CHOOSE x : x = FStep(x))[1 .. n]
  <2>1. DOMAIN is = 1 .. n
    OBVIOUS
  <2> QED BY <2>1 DEF AddTiles, FoldLeft, MapThenFoldSet, TileStep, NoTiles
<1>2. \A s \in SUBSET (1 .. n) : s # {} => is[Max(s)] = Max(s)
  BY MaxIsMember
<1>3. \A x : FStep(x) = TilesStep(g, task, ps, n, x)
  BY <1>2 DEF TilesStep
<1> QED
  BY <1>1, <1>3 DEF TilesFold

Tile(task, i) == [task EXCEPT !.part = i]

(* h has k tiles of the task, and nothing else that computes.              *)
Tiled(g, h, ids, task, P, k) ==
  /\ Extends(g, h, P)
  /\ ids \in Seq(Nat) /\ Len(ids) = k
  /\ \A i \in 1 .. k : /\ ids[i] \in TaskIds(h) \ TaskIds(g)
                       /\ Legal(h, ids[i]) /\ IsSink(h, ids[i])
                       /\ \A p \in P : Reaches(h, p, ids[i])
                       /\ h.tasks[ids[i]] = Tile(task, i)
  /\ \A t \in TaskIds(h) \ TaskIds(g) :
       h.tasks[t] # Signal => \E i \in 1 .. k : t = ids[i]
  /\ \A t \in TaskIds(h) : IsSink(h, t) =>
       (\E i \in 1 .. k : t = ids[i])
         \/ (t \in TaskIds(g) /\ IsSink(g, t) /\ (k # 0 => t \notin P))
  /\ Splits(g, h, P, { ids[i] : i \in 1 .. k })

LEMMA NoTilesTiled ==
  ASSUME NEW g, Good(g), NEW task, NEW P
  PROVE  Tiled(g, g, <<>>, task, P, 0)
<1>1. Len(g.tasks) \in Nat
  BY ShapeFacts DEF Good, Base
<1>2. Extends(g, g, P)
  BY <1>1 DEF Extends
<1>3. <<>> \in Seq(Nat) /\ Len(<<>>) = 0 /\ 1 .. 0 = {}
  BY EmptySequence
<1>4. Splits(g, g, P, { <<>>[i] : i \in 1 .. 0 })
  <2>1. PICK N : N = { <<>>[i] : i \in 1 .. 0 }
    OBVIOUS
  <2>2. N = {}
    BY <1>3, <2>1
  <2>3. \A E : Cut(g, E) => E \subseteq TaskIds(g)
    BY DEF Cut, Closed
  <2>4. Splits(g, g, P, {})
    BY <2>3 DEF Splits
  <2> QED BY <2>1, <2>2, <2>4
<1> QED
  BY <1>2, <1>3, <1>4 DEF Tiled

LEMMA TileTiled ==
  ASSUME NEW g, Shape(g), NEW h, NEW ids, NEW P, NEW k \in Nat,
         P \subseteq TaskIds(g) \ Relays(g), NEW task, Tiled(g, h, ids, task, P, k),
         NEW f, NEW tile, tile = Tile(task, k + 1),
         NEW c, WaitsFor(h, f, tile, c, P)
  PROVE  Tiled(g, f, Append(ids, c), task, P, k + 1)
<1> DEFINE new == Append(ids, c)
<1>1. Shape(h) /\ Shape(f)
  BY DEF Tiled, Extends, WaitsFor, Good, Base
<1>2. Extends(h, f, P) /\ Legal(f, c)
  BY WaitsForExtends
<1>3. Extends(g, f, P)
  BY <1>2, ExtendsOn DEF Tiled
<1>4. c \in Nat /\ c \in TaskIds(f) \ TaskIds(g) /\ IsSink(f, c)
  <2>1. c \in TaskIds(f) /\ c \notin TaskIds(h) /\ IsSink(f, c)
    BY DEF WaitsFor, IsSink
  <2>2. TaskIds(g) \subseteq TaskIds(h)
    BY DEF Tiled, Extends
  <2> QED BY <1>1, <2>1, <2>2, ShapeFacts
<1>5. /\ new \in Seq(Nat) /\ Len(new) = k + 1
      /\ \A i \in 1 .. k : new[i] = ids[i]
      /\ new[k + 1] = c
  BY <1>4 DEF Tiled
<1> HIDE DEF new
<1>6. 1 .. (k + 1) = (1 .. k) \cup {k + 1}
  OBVIOUS
<1>7. ASSUME NEW i \in 1 .. (k + 1)
      PROVE  /\ new[i] \in TaskIds(f) \ TaskIds(g)
             /\ Legal(f, new[i]) /\ IsSink(f, new[i])
             /\ \A p \in P : Reaches(f, p, new[i])
             /\ f.tasks[new[i]] = Tile(task, i)
  <2>1. CASE i = k + 1
    <3>1. new[i] = c
      BY <1>5, <2>1
    <3>2. (\A p \in P : Reaches(f, p, c)) /\ f.tasks[c] = tile
      BY DEF WaitsFor
    <3> QED BY <1>2, <1>4, <2>1, <3>1, <3>2
  <2>2. CASE i \in 1 .. k
    <3>1. /\ new[i] = ids[i] /\ ids[i] \in TaskIds(h) \ TaskIds(g)
          /\ Legal(h, ids[i]) /\ IsSink(h, ids[i])
          /\ \A p \in P : Reaches(h, p, ids[i])
          /\ h.tasks[ids[i]] = Tile(task, i)
      BY <1>5, <2>2 DEF Tiled
    <3>2. /\ Legal(f, ids[i]) /\ ids[i] \in TaskIds(f)
          /\ f.tasks[ids[i]] = Tile(task, i)
      BY <1>2, <3>1 DEF Extends
    <3>3. ids[i] \in TaskIds(h) \ Relays(h) /\ ids[i] \notin P
      BY <3>1 DEF Legal
    <3>4. IsSink(f, ids[i])
      BY <1>2, <3>1, <3>3 DEF Extends, IsSink
    <3>5. \A p \in P : Reaches(f, p, ids[i])
      <4>1. /\ P \subseteq TaskIds(h) /\ TaskIds(h) \subseteq TaskIds(f)
            /\ \A a, b \in TaskIds(h) : Leads(h, a, b) => Leads(f, a, b)
        BY <1>2 DEF Extends, Tiled
      <4> QED BY <3>1, <4>1, ReachesKept
    <3> QED BY <3>1, <3>2, <3>4, <3>5
  <2> QED BY <1>6, <2>1, <2>2
<1>8. ASSUME NEW t \in TaskIds(f), IsSink(f, t)
      PROVE  (\E i \in 1 .. (k + 1) : t = new[i])
               \/ (t \in TaskIds(g) /\ IsSink(g, t) /\ t \notin P)
  <2>1. t = c \/ (t \in TaskIds(h) /\ IsSink(h, t) /\ t \notin P)
    BY <1>8 DEF WaitsFor
  <2>2. CASE t = c
    <3>1. k + 1 \in 1 .. (k + 1)
      BY <1>6
    <3> QED BY <1>5, <2>2, <3>1
  <2>3. CASE t # c
    <3>1. (\E i \in 1 .. k : t = ids[i]) \/ (t \in TaskIds(g) /\ IsSink(g, t))
      BY <2>1, <2>3 DEF Tiled
    <3> QED BY <1>5, <1>6, <2>1, <2>3, <3>1
  <2> QED BY <2>2, <2>3
<1>9. ASSUME NEW t \in TaskIds(f) \ TaskIds(g), f.tasks[t] # Signal
      PROVE  \E i \in 1 .. (k + 1) : t = new[i]
  <2>1. CASE t = c
    <3>1. k + 1 \in 1 .. (k + 1)
      BY <1>6
    <3> QED BY <1>5, <2>1, <3>1
  <2>2. CASE t # c
    <3>1. t \in TaskIds(h) /\ h.tasks[t] # Signal
      BY <1>9, <2>2 DEF WaitsFor
    <3>2. \E i \in 1 .. k : t = ids[i]
      BY <3>1 DEF Tiled
    <3> QED BY <1>5, <1>6, <3>2
  <2> QED BY <2>1, <2>2
<1>10. PICK N : N = { ids[i] : i \in 1 .. k }
  OBVIOUS
<1>11. { new[i] : i \in 1 .. (k + 1) } = N \cup {c}
  BY <1>5, <1>6, <1>10
<1>12. Splits(g, f, P, N \cup {c})
  <2>1. /\ N \subseteq TaskIds(h) \ TaskIds(g) /\ Splits(g, h, P, N)
        /\ TaskIds(g) \subseteq TaskIds(h)
    BY <1>10 DEF Tiled, Extends
  <2>2. c \notin TaskIds(h) /\ Splits(h, f, P, {c}) /\ P \subseteq TaskIds(g)
    BY DEF WaitsFor
  <2> SUFFICES ASSUME NEW E, NEW A, Cut(g, E), A \subseteq N \cup {c},
                      A # {} => P \subseteq E
               PROVE  \E F : Cut(f, F) /\ F \cap (TaskIds(g) \cup (N \cup {c})) = E \cup A
    BY DEF Splits
  <2>3. A \cap N \subseteq N /\ (A \cap N # {} => P \subseteq E)
    OBVIOUS
  <2>4. PICK H : Cut(h, H) /\ H \cap (TaskIds(g) \cup N) = E \cup (A \cap N)
    BY <2>1, <2>3 DEF Splits
  <2>5. E \subseteq TaskIds(g) /\ H \subseteq TaskIds(h)
    BY <2>4 DEF Cut, Closed
  <2>6. A \cap {c} \subseteq {c} /\ (A \cap {c} # {} => P \subseteq H)
    BY <2>2, <2>4
  <2>7. PICK F : Cut(f, F) /\ F \cap (TaskIds(h) \cup {c}) = H \cup (A \cap {c})
    BY <2>2, <2>4, <2>6 DEF Splits
  <2>8. F \cap (TaskIds(g) \cup (N \cup {c})) = E \cup A
    BY <2>1, <2>2, <2>4, <2>5, <2>7
  <2> QED BY <2>7, <2>8
<1>13. Splits(g, f, P, { new[i] : i \in 1 .. (k + 1) })
  BY <1>11, <1>12
<1> QED
  BY <1>3, <1>5, <1>7, <1>8, <1>9, <1>13 DEF Tiled, new

LEMMA AddTilesTiled ==
  ASSUME NEW g, Good(g), NEW task, NEW m \in Nat, NEW ps, DOMAIN ps = 1 .. m,
         \A i \in 1 .. m : Legal(g, ps[i]), NEW P, P = { ps[i] : i \in 1 .. m },
         NEW n \in Nat,
         NEW tiled, tiled = AddTiles(g, task, n, ps)
  PROVE  Tiled(g, tiled.graph, tiled.ids, task, P, n)
<1>1. PICK run : Tiling(run, g, task, ps, n) /\ run[n] = tiled
  BY TilesRun, AddTilesIsChosen
<1>2. P \subseteq TaskIds(g) \ Relays(g) /\ Shape(g)
  BY DEF Legal, Good, Base
<1> DEFINE T == { k \in Nat : k <= n => Tiled(g, run[k].graph, run[k].ids, task, P, k) }
<1>3. 0 \in T
  <2>1. run[0].graph = g /\ run[0].ids = <<>>
    BY <1>1 DEF Tiling, NoTiles
  <2> QED BY <2>1, NoTilesTiled
<1>4. ASSUME NEW k \in Nat, k \in T  PROVE k + 1 \in T
  <2> SUFFICES ASSUME k + 1 <= n
               PROVE  Tiled(g, run[k + 1].graph, run[k + 1].ids, task, P, k + 1)
    OBVIOUS
  <2>1. k <= n /\ k + 1 \in 1 .. n /\ (k + 1) - 1 = k
    OBVIOUS
  <2>2. Tiled(g, run[k].graph, run[k].ids, task, P, k)
    BY <1>4, <2>1
  <2> DEFINE h == run[k].graph
             c == NewestTask(h) + 1
             tile == Tile(task, k + 1)
  <2>3. run[k + 1].graph = AddTaskAfter(h, tile, ps) /\ run[k + 1].ids = Append(run[k].ids, c)
    <3>1. run[k + 1] = TileStep(task, ps, run[k], k + 1)
      BY <1>1, <2>1 DEF Tiling
    <3> QED BY <3>1 DEF TileStep, AddTile, Tile
  <2> HIDE DEF h, tile
  <2>4. Good(h) /\ \A i \in 1 .. m : Legal(h, ps[i])
    BY <2>2 DEF Tiled, Extends, h
  <2>5. WaitsFor(h, run[k + 1].graph, tile, c, P)
    <3>1. c = NewestTask(h) + 1
      OBVIOUS
    <3> HIDE DEF c
    <3> QED BY <2>3, <2>4, <3>1, AddTaskAfterWaits
  <2>6. Tiled(g, h, run[k].ids, task, P, k) /\ tile = Tile(task, k + 1)
    BY <2>2 DEF h, tile
  <2> HIDE DEF T, c
  <2> QED BY <1>2, <2>3, <2>5, <2>6, TileTiled
<1> HIDE DEF T
<1>5. n \in T
  BY <1>3, <1>4, Induction
<1>6. Tiled(g, run[n].graph, run[n].ids, task, P, n)
  BY <1>5 DEF T
<1> QED
  BY <1>1, <1>6

(* A call that waits for the tasks I, the only ones between that compute.  *)
LEMMA SplitsThenSides ==
  ASSUME NEW g, NEW k, NEW h, NEW c, NEW P, NEW I, TaskIds(g) \subseteq TaskIds(k),
         I \cap TaskIds(g) = {}, I \subseteq TaskIds(k),
         Splits(g, k, P, I), Sides(k, h, c, I), Work(g, h, c) \subseteq I \cup Work(k, h, c)
  PROVE  Sides(g, h, c, P)
<1> SUFFICES ASSUME NEW E, Cut(g, E)
             PROVE  /\ \E F : /\ Cut(h, F) /\ F \cap TaskIds(g) = E
                             /\ Work(g, h, c) \cap F = {}
                    /\ P \subseteq E =>
                         \E F : /\ Cut(h, F) /\ F \cap TaskIds(g) = E
                               /\ Work(g, h, c) \subseteq F
  BY DEF Sides
<1>1. E \subseteq TaskIds(g)
  BY DEF Cut, Closed
<1>2. \E F : /\ Cut(h, F) /\ F \cap TaskIds(g) = E
             /\ Work(g, h, c) \cap F = {}
  <2>1. {} \subseteq I
    OBVIOUS
  <2>2. PICK H : Cut(k, H) /\ H \cap (TaskIds(g) \cup I) = E \cup {}
    BY <2>1 DEF Splits
  <2>3. PICK F : Cut(h, F) /\ F \cap TaskIds(k) = H /\ Work(k, h, c) \cap F = {}
    BY <2>2 DEF Sides
  <2>4. F \cap TaskIds(g) = E /\ Work(g, h, c) \cap F = {}
    BY <1>1, <2>2, <2>3
  <2> QED BY <2>3, <2>4
<1>3. ASSUME P \subseteq E
      PROVE  \E F : /\ Cut(h, F) /\ F \cap TaskIds(g) = E
                   /\ Work(g, h, c) \subseteq F
  <2>1. I \subseteq I
    OBVIOUS
  <2>2. PICK H : Cut(k, H) /\ H \cap (TaskIds(g) \cup I) = E \cup I
    BY <1>3, <2>1 DEF Splits
  <2>3. I \subseteq H
    BY <2>2
  <2>4. PICK F : Cut(h, F) /\ F \cap TaskIds(k) = H /\ Work(k, h, c) \subseteq F
    BY <2>2, <2>3 DEF Sides
  <2>5. F \cap TaskIds(g) = E /\ Work(g, h, c) \subseteq F
    BY <1>1, <2>2, <2>3, <2>4
  <2> QED BY <2>4, <2>5
<1> QED
  BY <1>2, <1>3

LEMMA AddDotCalled ==
  ASSUME NEW g, Good(g), NEW task, NEW m \in Nat, NEW ps, DOMAIN ps = 1 .. m,
         \A i \in 1 .. m : Legal(g, ps[i]), NEW P, P = { ps[i] : i \in 1 .. m },
         NEW n \in Nat \ {0},
         NEW dot, dot = AddDot(g, task, n, ps)
  PROVE  Called(g, dot.graph, dot.sig, P)
<1> DEFINE tiled == AddTiles(g, task, n, ps)
           k == tiled.graph
           ids == tiled.ids
<1>1. dot = IF n = 1 THEN [graph |-> k, sig |-> ids[1]] ELSE AddOp(k, Signal, ids)
  BY DEF AddDot
<1>2. Tiled(g, k, ids, task, P, n)
  <2>1. tiled = AddTiles(g, task, n, ps) /\ n \in Nat
    OBVIOUS
  <2> HIDE DEF tiled
  <2> QED BY <2>1, AddTilesTiled
<1>3. P \subseteq TaskIds(g) /\ Shape(g)
  BY DEF Legal, Good, Base
<1> HIDE DEF tiled
<1>4. CASE n = 1
  <2>1. dot.graph = k /\ dot.sig = ids[1] /\ 1 \in 1 .. n /\ n # 0
    BY <1>1, <1>4
  <2>2. \A i \in 1 .. n : i = 1
    BY <1>4
  <2>3. Called(g, k, ids[1], P)
    <3>1. PICK N : N = { ids[i] : i \in 1 .. n }
      OBVIOUS
    <3>2. N = {ids[1]} /\ ids[1] \in TaskIds(k) \ TaskIds(g) /\ Splits(g, k, P, N)
      <4>1. Splits(g, k, P, N) /\ \A i \in 1 .. n : ids[i] \in TaskIds(k) \ TaskIds(g)
        BY <1>2, <3>1 DEF Tiled
      <4> HIDE DEF ids, k
      <4>2. N = {ids[1]}
        BY <2>1, <2>2, <3>1
      <4> QED BY <2>1, <4>1, <4>2
    <3>3. Work(g, k, ids[1]) \subseteq N
      BY <1>2, <2>2, <3>2 DEF Tiled, Work
    <3>4. Sides(g, k, ids[1], P)
      <4>1. ids[1] \notin TaskIds(g) /\ N \cap TaskIds(g) = {} /\ N # {}
        BY <3>2
      <4> HIDE DEF ids, k
      <4> QED BY <3>2, <3>3, <4>1, SplitsSides
    <3> QED BY <1>2, <1>3, <2>1, <2>2, <3>4 DEF Tiled, Called
  <2> QED BY <2>1, <2>3
<1>5. CASE n # 1
  <2> DEFINE I == { ids[i] : i \in 1 .. n }
             op == AddOp(k, Signal, ids)
             h == op.graph
             c == op.sig
  <2>1. dot = op
    BY <1>1, <1>5
  <2>2. Called(k, h, c, I)
    <3>1. DOMAIN ids = 1 .. n /\ Good(k) /\ \A i \in 1 .. n : Legal(k, ids[i])
      <4>1. Extends(g, k, P) /\ ids \in Seq(Nat) /\ Len(ids) = n
            /\ \A i \in 1 .. n : Legal(k, ids[i])
        BY <1>2 DEF Tiled
      <4>2. Good(k)
        BY <4>1 DEF Extends
      <4> HIDE DEF k, ids
      <4> QED BY <4>1, <4>2
    <3>2. op = AddOp(k, Signal, ids) /\ I = { ids[i] : i \in 1 .. n } /\ n \in Nat
      OBVIOUS
    <3> HIDE DEF op, I, k, ids
    <3> QED BY <3>1, <3>2, AddOpCalled
  <2>3. I \cap TaskIds(g) = {}
    BY <1>2 DEF Tiled
  <2>4. \A t \in TaskIds(k) : IsSink(k, t) =>
          t \in I \/ (t \in TaskIds(g) /\ IsSink(g, t) /\ t \notin P)
    BY <1>2 DEF Tiled
  <2>5. PICK i \in TaskIds(k) : i \in I /\ \A p \in P : Reaches(k, p, i)
    <3>1. 1 \in 1 .. n
      OBVIOUS
    <3>2. ids[1] \in TaskIds(k) /\ \A p \in P : Reaches(k, p, ids[1])
      BY <1>2, <3>1 DEF Tiled
    <3>3. ids[1] \in I
      BY <3>1
    <3> HIDE DEF I, ids, k
    <3> QED BY <3>2, <3>3
  <2> HIDE DEF I, h, c
  <2>6. Extends(g, k, P) /\ Extends(k, h, I) /\ TaskIds(g) \subseteq TaskIds(k)
    BY <1>2, <2>2 DEF Tiled, Called, Extends
  <2>7. Extends(g, h, P)
    BY <1>3, <2>3, <2>6, ExtendsOn
  <2>8. ASSUME NEW p \in P  PROVE Reaches(h, p, c)
    <3>1. Reaches(k, p, i) /\ p \in TaskIds(k)
      BY <1>3, <2>5, <2>6
    <3>2. Reaches(h, p, i) /\ Reaches(h, i, c)
      <4>1. /\ TaskIds(k) \subseteq TaskIds(h)
            /\ \A a, b \in TaskIds(k) : Leads(k, a, b) => Leads(h, a, b)
        BY <2>6 DEF Extends
      <4>2. Reaches(h, p, i)
        BY <3>1, <4>1, ReachesKept
      <4> QED BY <2>2, <2>5, <4>2 DEF Called
    <3> QED BY <3>2 DEF Reaches
  <2>9. Sides(g, h, c, P)
    <3>1. Splits(g, k, P, I) /\ Sides(k, h, c, I) /\ I \subseteq TaskIds(k)
      BY <1>2, <2>2 DEF Tiled, Called, I
    <3>2. Work(g, h, c) \subseteq I \cup Work(k, h, c)
      <4>1. \A t \in TaskIds(k) \ TaskIds(g) : k.tasks[t] # Signal => t \in I
        BY <1>2 DEF Tiled, I
      <4>2. \A t \in TaskIds(k) : h.tasks[t] = k.tasks[t]
        BY <2>6 DEF Extends
      <4> HIDE DEF k, ids
      <4> QED BY <4>1, <4>2 DEF Work
    <3> HIDE DEF k, ids
    <3> QED BY <2>3, <2>6, <3>1, <3>2, SplitsThenSides
  <2>10. Called(g, h, c, P)
    BY <1>3, <2>2, <2>4, <2>6, <2>7, <2>8, <2>9 DEF Called
  <2> QED BY <2>1, <2>10 DEF h, c
<1> QED
  BY <1>4, <1>5

(* The terminal's producers have no consumer yet and are listed once.      *)
LEMMA AddTerminalIsChosen ==
  ASSUME NEW g, NEW ps, NEW n, DOMAIN ps = 1 .. n, NEW c, c = NewestTask(g) + 1
  PROVE  /\ AddTerminal(g, ps).graph = AfterFold("edge", ps, c, AddTask(g, Signal), n)
         /\ AddTerminal(g, ps).sig = c
<1>1. AddTerminal(g, ps).graph
        = FoldLeft(LAMBDA acc, p : AddEdge(acc, p, c), RawSignal(g), ps)
  BY DEF AddTerminal
<1>2. AddTerminal(g, ps).sig = c
  BY DEF AddTerminal
<1>3. FoldLeft(LAMBDA acc, p : AddEdge(acc, p, c), RawSignal(g), ps)
        = AfterFold("edge", ps, c, AddTask(g, Signal), n)
  BY DEF FoldLeft, MapThenFoldSet, AfterStep, AfterFold, FoldStep, RawSignal
<1> QED
  BY <1>1, <1>2, <1>3

(* What the terminal's producers have to be.                               *)
FreeSinks(g, ids, m) ==
  /\ m \in Nat /\ DOMAIN ids = 1 .. m
  /\ \A i \in 1 .. m : Legal(g, ids[i]) /\ IsSink(g, ids[i])
  /\ \A i, j \in 1 .. m : ids[i] = ids[j] => i = j

(* A call that adds nothing but signals.                                   *)
Closes(g, h, sig, P) ==
  Called(g, h, sig, P) /\ \A t \in TaskIds(h) \ TaskIds(g) : h.tasks[t] = Signal

LEMMA AddTerminalCalled ==
  ASSUME NEW g, Good(g), NEW n, NEW ps, FreeSinks(g, ps, n),
         NEW P, P = { ps[i] : i \in 1 .. n },
         NEW op, op = AddTerminal(g, ps)
  PROVE  Closes(g, op.graph, op.sig, P)
<1> DEFINE base == AddTask(g, Signal)
           c == NewestTask(g) + 1
<1>0. /\ n \in Nat /\ DOMAIN ps = 1 .. n
      /\ \A i \in 1 .. n : Legal(g, ps[i]) /\ IsSink(g, ps[i])
      /\ \A i, j \in 1 .. n : ps[i] = ps[j] => i = j
  BY DEF FreeSinks
<1> USE <1>0
<1>1. WaitsFor(g, base, Signal, c, {})
  BY AddTaskWaits
<1>2. op.sig = c /\ op.graph = AfterFold("edge", ps, c, base, n)
  <2>1. c = NewestTask(g) + 1 /\ base = AddTask(g, Signal)
    OBVIOUS
  <2> HIDE DEF c, base
  <2> QED BY <2>1, AddTerminalIsChosen
<1>3. PICK run : Waiting("edge", run, base, ps, c, n) /\ run[n] = op.graph
  BY <1>2, AfterRuns
<1> HIDE DEF base, c
<1> DEFINE R(k) == { ps[i] : i \in 1 .. k }
           T == { k \in Nat : k <= n => WaitsFor(g, run[k], Signal, c, R(k)) }
<1>4. 0 \in T
  <2>1. R(0) = {} /\ run[0] = base
    BY <1>3 DEF Waiting
  <2> HIDE DEF R
  <2> QED BY <1>1, <2>1
<1> HIDE DEF R
<1>5. ASSUME NEW k \in Nat, k \in T  PROVE k + 1 \in T
  <2> SUFFICES ASSUME k + 1 <= n  PROVE WaitsFor(g, run[k + 1], Signal, c, R(k + 1))
    OBVIOUS
  <2>1. k <= n /\ k + 1 \in 1 .. n /\ (k + 1) - 1 = k
    OBVIOUS
  <2>2. WaitsFor(g, run[k], Signal, c, R(k))
    BY <1>5, <2>1
  <2>3. run[k + 1] = AddEdge(run[k], ps[k + 1], c)
    BY <1>3, <2>1 DEF Waiting, FoldStep
  <2>4. ps[k + 1] \notin R(k)
    <3>1. \A i \in 1 .. k : i \in 1 .. n /\ i # k + 1
      BY <2>1
    <3> QED BY <2>1, <3>1 DEF R
  <2>5. R(k + 1) = R(k) \cup {ps[k + 1]}
    <3>1. 1 .. (k + 1) = (1 .. k) \cup {k + 1}
      OBVIOUS
    <3> QED BY <3>1 DEF R
  <2> HIDE DEF T
  <2>6. Shape(g) /\ Legal(g, ps[k + 1]) /\ IsSink(g, ps[k + 1])
    BY <2>1 DEF Good, Base
  <2>7. HasRoom(run[k], ps[k + 1])
    <3>1. run[k].consumers[ps[k + 1]] = <<>>
      BY <2>2, <2>4, <2>6 DEF WaitsFor, Legal, IsSink
    <3> QED BY <3>1, EmptySequence DEF HasRoom, MaxConsumers
  <2>8. run[k + 1] = DepEdge(run[k], ps[k + 1], c)
    BY <2>3, <2>7 DEF DepEdge
  <2> QED BY <2>2, <2>5, <2>6, <2>8, DepEdgeWaits
<1> HIDE DEF T
<1>6. n \in T
  BY <1>4, <1>5, Induction
<1>7. WaitsFor(g, run[n], Signal, c, R(n)) /\ R(n) = P
  <2>1. WaitsFor(g, run[n], Signal, c, R(n))
    BY <1>6 DEF T
  <2>2. R(n) = P
    BY DEF R
  <2> QED BY <2>1, <2>2
<1>8. WaitsFor(g, op.graph, Signal, op.sig, P)
  BY <1>2, <1>3, <1>7
<1>10. Called(g, op.graph, op.sig, P)
  BY <1>8, WaitsForCalled
<1>11. \A t \in TaskIds(op.graph) \ TaskIds(g) : op.graph.tasks[t] = Signal
  BY <1>8 DEF WaitsFor
<1> QED
  BY <1>10, <1>11 DEF Closes

--------------------------------------------------------------------------------
(* Pieces of the script.                                                   *)

Used(it) == { it.deps[k] : k \in DOMAIN it.deps }

IsCall(it) ==
  /\ it.kind \in {"op", "dot", "signal"} /\ it.names # {}
  /\ \E n \in Nat : DOMAIN it.deps = 1 .. n
  /\ \A x \in it.names : x[1] \in {"Fq8", "head"} => it.names = {x}

NamesOf(S) == UNION { S[i].names : i \in 1 .. Len(S) }
UsesOf(S) == UNION { Used(S[i]) : i \in 1 .. Len(S) }

(* Calls that wait for D or for each other, an earlier one; no name is     *)
(* given twice.  N are the names, U those that are waited for.             *)
Piece(S, D, N, U) ==
  /\ IsSequence(S)
  /\ \A i \in 1 .. Len(S) :
       /\ IsCall(S[i])
       /\ \A x \in Used(S[i]) : x \in D \/ \E j \in 1 .. i - 1 : x \in S[j].names
       /\ \A j \in 1 .. Len(S) : i # j => S[i].names \cap S[j].names = {}
  /\ NamesOf(S) = N /\ UsesOf(S) = U

LEMMA SequenceFacts ==
  ASSUME NEW s, IsSequence(s)
  PROVE  Len(s) \in Nat /\ DOMAIN s = 1 .. Len(s)
<1>1. PICK S : s \in Seq(S)
  BY DEF IsSequence
<1> QED
  BY <1>1

LEMMA PieceMore ==
  ASSUME NEW S, NEW D, NEW N, NEW U, Piece(S, D, N, U), NEW E, D \subseteq E
  PROVE  Piece(S, E, N, U)
  BY DEF Piece

Cat(S, T) == S \o T

(* The parts of S \o T, each on its own.                                   *)
Joins(W, S, T, s, t) ==
  /\ s \in Nat /\ t \in Nat /\ IsSequence(W) /\ Len(W) = s + t
  /\ \A i \in 1 .. s : i \in 1 .. s + t /\ W[i] = S[i]
  /\ \A k \in 1 .. t : s + k \in 1 .. s + t /\ W[s + k] = T[k]
  /\ \A i \in 1 .. s + t : i \in 1 .. s \/ \E k \in 1 .. t : i = s + k

LEMMA ConcatJoins ==
  ASSUME NEW S, IsSequence(S), NEW T, IsSequence(T), NEW W, W = Cat(S, T),
         NEW s, s = Len(S), NEW t, t = Len(T)
  PROVE  Joins(W, S, T, s, t)
<1>1. s \in Nat /\ t \in Nat
  BY SequenceFacts
<1>2. /\ IsSequence(W) /\ Len(W) = s + t
      /\ \A i \in 1 .. s : W[i] = S[i]
      /\ \A i \in 1 .. t : W[s + i] = T[i]
  <2>1. PICK A : S \in Seq(A)
    BY DEF IsSequence
  <2>2. PICK B : T \in Seq(B)
    BY DEF IsSequence
  <2>3. S \in Seq(A \cup B) /\ T \in Seq(A \cup B)
    BY <2>1, <2>2, SeqMonotonic
  <2> USE DEF Cat
  <2>4. /\ W \in Seq(A \cup B) /\ Len(W) = s + t
        /\ \A i \in 1 .. s + t : W[i] = IF i <= s THEN S[i] ELSE T[i - s]
    BY <2>3, ConcatProperties
  <2>5. ASSUME NEW i \in 1 .. s  PROVE W[i] = S[i]
    BY <1>1, <2>4
  <2>6. ASSUME NEW i \in 1 .. t  PROVE W[s + i] = T[i]
    <3>1. s + i \in 1 .. s + t /\ ~(s + i <= s) /\ (s + i) - s = i
      BY <1>1
    <3> QED BY <2>4, <3>1
  <2> QED BY <2>4, <2>5, <2>6 DEF IsSequence
<1>3. ASSUME NEW i \in 1 .. s + t, i \notin 1 .. s
      PROVE  \E k \in 1 .. t : i = s + k
  <2>1. i - s \in 1 .. t /\ i = s + (i - s)
    BY <1>1, <1>3
  <2> QED BY <2>1
<1>4. (\A i \in 1 .. s : i \in 1 .. s + t) /\ (\A k \in 1 .. t : s + k \in 1 .. s + t)
  BY <1>1
<1> QED
  BY <1>1, <1>2, <1>3, <1>4 DEF Joins

LEMMA JoinedNames ==
  ASSUME NEW W, NEW S, NEW T, NEW s, NEW t, Joins(W, S, T, s, t),
         s = Len(S), t = Len(T)
  PROVE  NamesOf(W) = NamesOf(S) \cup NamesOf(T)
<1>1. NamesOf(W) \subseteq NamesOf(S) \cup NamesOf(T)
  <2> SUFFICES ASSUME NEW i \in 1 .. s + t
               PROVE  W[i].names \subseteq NamesOf(S) \cup NamesOf(T)
    <3>1. NamesOf(W) = UNION { W[i].names : i \in 1 .. s + t }
      BY DEF NamesOf, Joins
    <3> QED BY <3>1
  <2>1. CASE i \in 1 .. s
    <3>1. W[i] = S[i]
      BY <2>1 DEF Joins
    <3> QED BY <2>1, <3>1 DEF NamesOf
  <2>2. CASE i \notin 1 .. s
    <3>1. PICK k \in 1 .. t : W[i] = T[k]
      BY <2>2 DEF Joins
    <3> QED BY <3>1 DEF NamesOf
  <2> QED BY <2>1, <2>2
<1>2. NamesOf(S) \subseteq NamesOf(W)
  <2> SUFFICES ASSUME NEW i \in 1 .. s  PROVE S[i].names \subseteq NamesOf(W)
    BY DEF NamesOf
  <2>1. i \in 1 .. Len(W) /\ W[i] = S[i]
    BY DEF Joins
  <2> QED BY <2>1 DEF NamesOf
<1>3. NamesOf(T) \subseteq NamesOf(W)
  <2> SUFFICES ASSUME NEW k \in 1 .. t  PROVE T[k].names \subseteq NamesOf(W)
    BY DEF NamesOf
  <2>1. s + k \in 1 .. Len(W) /\ W[s + k] = T[k]
    BY DEF Joins
  <2> QED BY <2>1 DEF NamesOf
<1> QED
  BY <1>1, <1>2, <1>3

LEMMA JoinedUses ==
  ASSUME NEW W, NEW S, NEW T, NEW s, NEW t, Joins(W, S, T, s, t),
         s = Len(S), t = Len(T)
  PROVE  UsesOf(W) = UsesOf(S) \cup UsesOf(T)
<1>1. UsesOf(W) \subseteq UsesOf(S) \cup UsesOf(T)
  <2> SUFFICES ASSUME NEW i \in 1 .. s + t
               PROVE  Used(W[i]) \subseteq UsesOf(S) \cup UsesOf(T)
    <3>1. UsesOf(W) = UNION { Used(W[i]) : i \in 1 .. s + t }
      BY DEF UsesOf, Joins
    <3> QED BY <3>1
  <2>1. CASE i \in 1 .. s
    <3>1. W[i] = S[i]
      BY <2>1 DEF Joins
    <3> QED BY <2>1, <3>1 DEF UsesOf
  <2>2. CASE i \notin 1 .. s
    <3>1. PICK k \in 1 .. t : W[i] = T[k]
      BY <2>2 DEF Joins
    <3> QED BY <3>1 DEF UsesOf
  <2> QED BY <2>1, <2>2
<1>2. UsesOf(S) \subseteq UsesOf(W)
  <2> SUFFICES ASSUME NEW i \in 1 .. s  PROVE Used(S[i]) \subseteq UsesOf(W)
    BY DEF UsesOf
  <2>1. i \in 1 .. Len(W) /\ W[i] = S[i]
    BY DEF Joins
  <2> QED BY <2>1 DEF UsesOf
<1>3. UsesOf(T) \subseteq UsesOf(W)
  <2> SUFFICES ASSUME NEW k \in 1 .. t  PROVE Used(T[k]) \subseteq UsesOf(W)
    BY DEF UsesOf
  <2>1. s + k \in 1 .. Len(W) /\ W[s + k] = T[k]
    BY DEF Joins
  <2> QED BY <2>1 DEF UsesOf
<1> QED
  BY <1>1, <1>2, <1>3

LEMMA ConcatPiece ==
  ASSUME NEW S, NEW D, NEW N, NEW U, Piece(S, D, N, U),
         NEW T, NEW E, NEW M, NEW V, Piece(T, E, M, V),
         E \subseteq D \cup N,
         N \cap M = {}, NEW W, W = Cat(S, T)
  PROVE  Piece(W, D, N \cup M, U \cup V)
<1>0. PICK s, t : s = Len(S) /\ t = Len(T)
  OBVIOUS
<1>1. Joins(W, S, T, s, t)
  BY <1>0, ConcatJoins DEF Piece
<1>2. NamesOf(W) = N \cup M /\ UsesOf(W) = U \cup V
  <2>1. NamesOf(W) = NamesOf(S) \cup NamesOf(T)
    BY <1>0, <1>1, JoinedNames
  <2>2. UsesOf(W) = UsesOf(S) \cup UsesOf(T)
    BY <1>0, <1>1, JoinedUses
  <2> QED BY <2>1, <2>2 DEF Piece
<1>3. /\ \A i \in 1 .. s : S[i].names \subseteq N
      /\ \A k \in 1 .. t : T[k].names \subseteq M
  BY <1>0 DEF Piece, NamesOf
<1>4. s \in Nat /\ t \in Nat
  BY <1>1 DEF Joins
<1>8. ASSUME NEW i \in 1 .. s + t
      PROVE  /\ IsCall(W[i])
             /\ \A x \in Used(W[i]) : x \in D \/ \E j \in 1 .. i - 1 : x \in W[j].names
  <2>1. CASE i \in 1 .. s
    <3>1. /\ W[i] = S[i] /\ IsCall(S[i])
          /\ \A x \in Used(S[i]) : x \in D \/ \E j \in 1 .. i - 1 : x \in S[j].names
      BY <1>0, <1>1, <2>1 DEF Piece, Joins
    <3>2. \A j \in 1 .. i - 1 : j \in 1 .. s
      BY <1>4, <2>1
    <3>3. \A j \in 1 .. i - 1 : W[j] = S[j]
      BY <1>1, <3>2 DEF Joins
    <3> QED BY <3>1, <3>3
  <2>2. CASE i \notin 1 .. s
    <3>1. PICK k \in 1 .. t : i = s + k
      BY <1>1, <2>2 DEF Joins
    <3>2. W[i] = T[k]
      BY <1>1, <3>1 DEF Joins
    <3>3. /\ IsCall(T[k])
          /\ \A x \in Used(T[k]) : x \in E \/ \E j \in 1 .. k - 1 : x \in T[j].names
      BY <1>0 DEF Piece
    <3>4. ASSUME NEW x \in E  PROVE x \in D \/ \E j \in 1 .. i - 1 : x \in W[j].names
      <4>1. CASE x \in N
        <5>1. PICK j \in 1 .. s : x \in S[j].names
          BY <1>0, <4>1 DEF Piece, NamesOf
        <5>2. j \in 1 .. i - 1
          BY <1>4, <3>1
        <5>3. W[j] = S[j]
          BY <1>1 DEF Joins
        <5> QED BY <5>1, <5>2, <5>3
      <4> QED BY <3>4, <4>1
    <3>5. \A j \in 1 .. k - 1 : s + j \in 1 .. i - 1 /\ j \in 1 .. t
      BY <1>4, <3>1
    <3>6. \A j \in 1 .. k - 1 : W[s + j] = T[j]
      BY <1>1, <3>5 DEF Joins
    <3>7. \A x \in Used(T[k]) : x \in D \/ \E j \in 1 .. i - 1 : x \in W[j].names
      <4> SUFFICES ASSUME NEW x \in Used(T[k]), x \notin E
                   PROVE  \E j \in 1 .. i - 1 : x \in W[j].names
        BY <3>4
      <4>1. PICK j \in 1 .. k - 1 : x \in T[j].names
        BY <3>3
      <4>2. x \in W[s + j].names /\ s + j \in 1 .. i - 1
        BY <3>5, <3>6, <4>1
      <4> QED BY <4>2
    <3> QED BY <3>2, <3>3, <3>7
  <2> QED BY <2>1, <2>2
<1>9. ASSUME NEW i \in 1 .. s + t, NEW j \in 1 .. s + t, i # j
      PROVE  W[i].names \cap W[j].names = {}
  <2>1. \A a \in 1 .. s + t : \/ a \in 1 .. s /\ W[a] = S[a]
                              \/ \E k \in 1 .. t : a = s + k /\ W[a] = T[k]
    BY <1>1 DEF Joins
  <2>2. CASE i \in 1 .. s /\ j \in 1 .. s
    <3>1. W[i] = S[i] /\ W[j] = S[j]
      BY <1>1, <2>2 DEF Joins
    <3> QED BY <1>0, <1>9, <2>2, <3>1 DEF Piece
  <2>3. CASE i \notin 1 .. s /\ j \notin 1 .. s
    <3>1. PICK k \in 1 .. t : i = s + k /\ W[i] = T[k]
      BY <2>1, <2>3
    <3>2. PICK l \in 1 .. t : j = s + l /\ W[j] = T[l]
      BY <2>1, <2>3
    <3>3. k # l
      BY <1>9, <3>1, <3>2
    <3> QED BY <1>0, <3>1, <3>2, <3>3 DEF Piece
  <2>4. CASE i \in 1 .. s /\ j \notin 1 .. s
    <3>1. W[i].names \subseteq N
      BY <1>1, <1>3, <2>4 DEF Joins
    <3>2. W[j].names \subseteq M
      BY <1>3, <2>1, <2>4
    <3> QED BY <3>1, <3>2
  <2>5. CASE i \notin 1 .. s /\ j \in 1 .. s
    <3>1. W[j].names \subseteq N
      BY <1>1, <1>3, <2>5 DEF Joins
    <3>2. W[i].names \subseteq M
      BY <1>3, <2>1, <2>5
    <3> QED BY <3>1, <3>2
  <2> QED BY <2>2, <2>3, <2>4, <2>5
<1>10. IsSequence(W) /\ Len(W) = s + t
  BY <1>1 DEF Joins
<1>11. \A i \in 1 .. Len(W) :
         /\ IsCall(W[i])
         /\ \A x \in Used(W[i]) : x \in D \/ \E j \in 1 .. i - 1 : x \in W[j].names
         /\ \A j \in 1 .. Len(W) : i # j => W[i].names \cap W[j].names = {}
  BY <1>8, <1>9, <1>10
<1> QED
  BY <1>2, <1>10, <1>11 DEF Piece

LEMMA EmptyPiece ==
  ASSUME NEW D
  PROVE  Piece(<<>>, D, {}, {})
<1>1. IsSequence(<<>>) /\ Len(<<>>) = 0 /\ 1 .. 0 = {}
  BY EmptySequence DEF IsSequence
<1> QED
  BY <1>1 DEF Piece, NamesOf, UsesOf

LEMMA CallPiece ==
  ASSUME NEW names, names # {}, NEW kind \in {"op", "dot", "signal"},
         NEW n \in Nat, NEW ds, DOMAIN ds = 1 .. n,
         \A x \in names : x[1] \in {"Fq8", "head"} => names = {x},
         NEW U, U = { ds[k] : k \in 1 .. n },
         NEW reads, NEW writes, NEW pos,
         NEW S, S = Call(names, kind, ds, reads, writes, pos)
  PROVE  Piece(S, U, names, U)
<1>1. PICK it : it = [names |-> names, kind |-> kind, deps |-> ds,
                      reads |-> reads, writes |-> writes, pos |-> pos]
  OBVIOUS
<1>2. S = <<it>> /\ it.names = names /\ it.kind = kind /\ it.deps = ds
  BY <1>1 DEF Call
<1>3. Len(S) = 1 /\ S[1] = it /\ S \in Seq({it}) /\ 1 .. 1 = {1}
  BY <1>2
<1>4. IsCall(it) /\ Used(it) = U
  BY <1>2 DEF IsCall, Used
<1>5. NamesOf(S) = names /\ UsesOf(S) = U
  BY <1>2, <1>3, <1>4 DEF NamesOf, UsesOf
<1>6. IsSequence(S)
  BY <1>3 DEF IsSequence
<1> QED
  BY <1>2, <1>3, <1>4, <1>5, <1>6 DEF Piece
(* FlattenSeq.                                                             *)

LEMMA ListIsSequence ==
  ASSUME NEW n \in Nat, NEW F, F = [i \in 1 .. n |-> F[i]]
  PROVE  IsSequence(F) /\ Len(F) = n
<1> DEFINE A == { F[i] : i \in 1 .. n }
<1>1. F \in [1 .. n -> A]
  OBVIOUS
<1>2. F \in Seq(A) /\ Len(F) = n
  BY <1>1, SeqDef
<1> QED
  BY <1>2 DEF IsSequence

FlatStep(F, n, f) == [i \in 1 .. n |-> IF i = 1 THEN F[i] ELSE f[i - 1] \o F[i]]

LEMMA FlatExists ==
  ASSUME NEW F
  PROVE  \A n \in Nat : \E f : f = FlatStep(F, n, f)
<1> DEFINE T == { n \in Nat : \E f : f = FlatStep(F, n, f) }
<1>1. 0 \in T
  <2> DEFINE f == [i \in 1 .. 0 |-> F[i]]
  <2>1. 1 .. 0 = {}
    OBVIOUS
  <2>2. f = FlatStep(F, 0, f)
    BY <2>1 DEF FlatStep
  <2> HIDE DEF f
  <2> QED BY <2>2
<1>2. ASSUME NEW n \in Nat, n \in T  PROVE n + 1 \in T
  <2>1. PICK f : f = FlatStep(F, n, f)
    BY <1>2
  <2> DEFINE j == FlatStep(F, n + 1, f)
  <2>2. \A i \in 1 .. n : f[i] = IF i = 1 THEN F[i] ELSE f[i - 1] \o F[i]
    BY <2>1 DEF FlatStep
  <2>3. \A i \in 1 .. n + 1 : j[i] = IF i = 1 THEN F[i] ELSE f[i - 1] \o F[i]
    BY DEF FlatStep
  <2>4. j = [i \in 1 .. n + 1 |-> j[i]]
    BY DEF FlatStep
  <2> HIDE DEF j
  <2>5. \A i \in 1 .. n : i \in 1 .. n + 1
    OBVIOUS
  <2>6. \A i \in 1 .. n : j[i] = f[i]
    BY <2>2, <2>3, <2>5
  <2>7. \A i \in 1 .. n + 1 : i # 1 => i - 1 \in 1 .. n
    OBVIOUS
  <2>8. \A i \in 1 .. n + 1 : j[i] = IF i = 1 THEN F[i] ELSE j[i - 1] \o F[i]
    BY <2>3, <2>6, <2>7
  <2>9. j = FlatStep(F, n + 1, j)
    BY <2>4, <2>8 DEF FlatStep
  <2> QED BY <2>9
<1> HIDE DEF T
<1>3. \A n \in Nat : n \in T
  BY <1>1, <1>2, Induction
<1> QED
  BY <1>3 DEF T

Flattening(f, F, n) ==
  /\ f[1] = F[1]
  /\ \A i \in 1 .. n : i # 1 => f[i] = Cat(f[i - 1], F[i])

LEMMA FlattenRuns ==
  ASSUME NEW F, NEW n \in Nat, n # 0, Len(F) = n
  PROVE  \E f : Flattening(f, F, n) /\ f[n] = FlattenSeq(F)
<1> DEFINE f == CHOOSE x : x = FlatStep(F, n, x)
<1>1. f = FlatStep(F, n, f)
  BY FlatExists
<1>2. FlattenSeq(F) = f[n]
  BY DEF FlattenSeq, FlatStep
<1> HIDE DEF f
<1>3. \A i \in 1 .. n : f[i] = IF i = 1 THEN F[i] ELSE f[i - 1] \o F[i]
  BY <1>1 DEF FlatStep
<1>4. Flattening(f, F, n)
  <2>1. 1 \in 1 .. n
    OBVIOUS
  <2> QED BY <1>3, <2>1 DEF Flattening, Cat
<1> QED
  BY <1>2, <1>4

(* One piece after the other.                                              *)
Before(NS, k) == UNION { NS[i] : i \in 1 .. k }

LEMMA BeforeNext ==
  ASSUME NEW NS, NEW k \in Nat
  PROVE  Before(NS, k + 1) = Before(NS, k) \cup NS[k + 1]
<1>1. 1 .. (k + 1) = (1 .. k) \cup {k + 1}
  OBVIOUS
<1> QED
  BY <1>1 DEF Before

LEMMA FlattenPiece ==
  ASSUME NEW n \in Nat, NEW F, F = [i \in 1 .. n |-> F[i]],
         NEW D, NEW DS, NEW NS, NEW US,
         \A i \in 1 .. n : Piece(F[i], DS[i], NS[i], US[i]),
         \A i \in 1 .. n : DS[i] \subseteq D \cup Before(NS, i - 1),
         \A i, j \in 1 .. n : i # j => NS[i] \cap NS[j] = {},
         NEW W, W = FlattenSeq(F)
  PROVE  Piece(W, D, Before(NS, n), Before(US, n))
<1>1. IsSequence(F) /\ Len(F) = n
  BY ListIsSequence
<1>2. CASE n = 0
  <2>1. W = F /\ Len(W) = 0
    BY <1>1, <1>2 DEF FlattenSeq
  <2>2. 1 .. 0 = {} /\ Before(NS, n) = {} /\ Before(US, n) = {}
    BY <1>2 DEF Before
  <2> QED BY <1>1, <2>1, <2>2 DEF Piece, NamesOf, UsesOf
<1>3. CASE n # 0
  <2>1. PICK f : Flattening(f, F, n) /\ f[n] = W
    BY <1>1, <1>3, FlattenRuns
  <2> DEFINE T == { k \in Nat : k # 0 /\ k <= n =>
                                  Piece(f[k], D, Before(NS, k), Before(US, k)) }
  <2>2. 0 \in T
    OBVIOUS
  <2>3. ASSUME NEW k \in Nat, k \in T  PROVE k + 1 \in T
    <3> SUFFICES ASSUME k + 1 <= n
                 PROVE  Piece(f[k + 1], D, Before(NS, k + 1), Before(US, k + 1))
      OBVIOUS
    <3>1. k + 1 \in 1 .. n /\ (k + 1) - 1 = k /\ k <= n
      OBVIOUS
    <3>2. Before(NS, k + 1) = Before(NS, k) \cup NS[k + 1]
      BY BeforeNext
    <3>3. Before(US, k + 1) = Before(US, k) \cup US[k + 1]
      BY BeforeNext
    <3>4. Piece(F[k + 1], DS[k + 1], NS[k + 1], US[k + 1])
      BY <3>1
    <3>5. DS[k + 1] \subseteq D \cup Before(NS, k)
      BY <3>1
    <3>6. CASE k = 0
      <4>1. f[k + 1] = F[k + 1]
        BY <2>1, <3>6 DEF Flattening
      <4>2. 1 .. 0 = {} /\ Before(NS, k) = {} /\ Before(US, k) = {}
        BY <3>6 DEF Before
      <4>3. Piece(F[k + 1], D, NS[k + 1], US[k + 1])
        BY <3>4, <3>5, <4>2, PieceMore
      <4> QED BY <3>2, <3>3, <4>1, <4>2, <4>3
    <3>7. CASE k # 0
      <4>1. f[k + 1] = Cat(f[k], F[k + 1])
        BY <2>1, <3>1, <3>7 DEF Flattening
      <4>2. Piece(f[k], D, Before(NS, k), Before(US, k))
        BY <2>3, <3>1, <3>7
      <4>3. Before(NS, k) \cap NS[k + 1] = {}
        <5>1. \A i \in 1 .. k : i \in 1 .. n /\ i # k + 1
          BY <3>1
        <5>2. \A i \in 1 .. k : NS[i] \cap NS[k + 1] = {}
          BY <3>1, <5>1
        <5> QED BY <5>2 DEF Before
      <4> HIDE DEF T
      <4> QED BY <3>2, <3>3, <3>4, <3>5, <4>1, <4>2, <4>3, ConcatPiece
    <3> QED BY <3>6, <3>7
  <2> HIDE DEF T
  <2>4. n \in T
    BY <2>2, <2>3, Induction
  <2> QED BY <1>3, <2>1, <2>4 DEF T
<1> QED
  BY <1>2, <1>3

(* Names, by what they are called: every position has one of each kind,    *)
(* but for those of the heads and the experts, the signals that stand for  *)
(* several appends and those that stand for all positions.  "res", "last", *)
(* "prev" and "rd" are other words for names of these kinds: the residual  *)
(* stream, the appends up to a position and up to the one before, and what *)
(* an expert waits for.                                                    *)
Aliases == {"res", "last", "prev", "both", "rd"}
ForAll == {"rtAll", "head"}
ExpertKinds == {"ge", "ue", "se", "eq8", "downE"}

HeadNames(c, l, p) == { <<"attn", l, p, h>> : h \in 1 .. c.heads }
ExpertNames(c, l, p, t) == { <<t, l, p, s>> : s \in 1 .. Experts(c, p) }

NameAt(c, l, p, t) ==
  CASE t = "attn" -> HeadNames(c, l, p)
    [] t \in ExpertKinds -> ExpertNames(c, l, p, t)
    [] t = "cum" -> IF p = 1 THEN {} ELSE {<<t, l, p>>}
    [] t \in ForAll -> {<<t, l, 0>>}
    [] t = "res" -> IF l = 1 THEN {} ELSE {<<"out", l - 1, p>>}
    [] t = "last" -> {AppCum(l, p)}
    [] t = "prev" -> IF p = 1 THEN {} ELSE {AppCum(l, p - 1)}
    [] t = "both" -> IF p = 1 THEN {} ELSE {AppCum(l, p - 1), <<"app", l, p>>}
    [] t = "rd" -> {RouterDep(c, l, p)}
    [] OTHER -> {<<t, l, p>>}

At(c, l, p, T) == UNION { NameAt(c, l, p, t) : t \in T }
Names(c, l, T) == UNION { At(c, l, p, T) : p \in 1 .. c.m }

Plain(t) == t \notin Aliases \cup ForAll \cup ExpertKinds \cup {"attn", "cum"}

LEMMA PlainName ==
  ASSUME NEW c, NEW l, NEW p, NEW t, Plain(t)
  PROVE  NameAt(c, l, p, t) = {<<t, l, p>>}
BY DEF Plain, NameAt, Aliases, ForAll, ExpertKinds

LEMMA NameTells ==
  ASSUME NEW c, NEW l, NEW p, NEW t, t \notin Aliases, NEW x \in NameAt(c, l, p, t)
  PROVE  x[1] = t /\ x[2] = l /\ (t \notin ForAll => x[3] = p)
<1>1. \A y \in HeadNames(c, l, p) : y[1] = "attn" /\ y[2] = l /\ y[3] = p
  BY DEF HeadNames
<1>2. \A y \in ExpertNames(c, l, p, t) : y[1] = t /\ y[2] = l /\ y[3] = p
  BY DEF ExpertNames
<1> QED
  BY <1>1, <1>2 DEF NameAt, Aliases, ForAll, ExpertKinds

LEMMA AtOne ==
  ASSUME NEW c, NEW l, NEW p, NEW t
  PROVE  At(c, l, p, {t}) = NameAt(c, l, p, t)
BY DEF At

LEMMA AtHeads ==
  ASSUME NEW c, NEW l, NEW p
  PROVE  At(c, l, p, {"attn"}) = { <<"attn", l, p, h>> : h \in 1 .. c.heads }
<1>1. NameAt(c, l, p, "attn") = HeadNames(c, l, p)
  BY DEF NameAt, Aliases, ForAll, ExpertKinds
<1> QED
  BY <1>1, AtOne DEF HeadNames

LEMMA AtExperts ==
  ASSUME NEW c, NEW l, NEW p, NEW t \in ExpertKinds
  PROVE  At(c, l, p, {t}) = { <<t, l, p, s>> : s \in 1 .. Experts(c, p) }
<1>1. NameAt(c, l, p, t) = ExpertNames(c, l, p, t)
  BY DEF NameAt, Aliases, ForAll, ExpertKinds
<1> QED
  BY <1>1, AtOne DEF ExpertNames

LEMMA AtUnion ==
  ASSUME NEW c, NEW l, NEW p, NEW T, NEW R, NEW Q, Q = T \cup R
  PROVE  At(c, l, p, Q) = At(c, l, p, T) \cup At(c, l, p, R)
BY DEF At

LEMMA AtMore ==
  ASSUME NEW c, NEW l, NEW p, NEW T, NEW R, T \subseteq R
  PROVE  At(c, l, p, T) \subseteq At(c, l, p, R)
BY DEF At

LEMMA AtWithin ==
  ASSUME NEW c, NEW l, NEW p, NEW T, NEW R, NEW Q, T \subseteq R \cup Q
  PROVE  At(c, l, p, T) \subseteq At(c, l, p, R) \cup At(c, l, p, Q)
BY DEF At

LEMMA AtApart ==
  ASSUME NEW c, NEW l, NEW p, NEW T, NEW R, T \cap R = {}, (T \cup R) \cap Aliases = {}
  PROVE  At(c, l, p, T) \cap At(c, l, p, R) = {}
<1> SUFFICES ASSUME NEW x, x \in At(c, l, p, T), x \in At(c, l, p, R)  PROVE FALSE
  OBVIOUS
<1>1. PICK t \in T : x \in NameAt(c, l, p, t)
  BY DEF At
<1>2. PICK r \in R : x \in NameAt(c, l, p, r)
  BY DEF At
<1>3. t \notin Aliases /\ r \notin Aliases /\ t # r
  OBVIOUS
<1>4. x[1] = t
  BY <1>1, <1>3, NameTells
<1>5. x[1] = r
  BY <1>2, <1>3, NameTells
<1> QED
  BY <1>3, <1>4, <1>5

LEMMA NamesMore ==
  ASSUME NEW c, NEW l, NEW T, NEW R, T \subseteq R
  PROVE  Names(c, l, T) \subseteq Names(c, l, R)
BY AtMore DEF Names

LEMMA NamesWithin ==
  ASSUME NEW c, NEW l, NEW T, NEW R, NEW Q, T \subseteq R \cup Q
  PROVE  Names(c, l, T) \subseteq Names(c, l, R) \cup Names(c, l, Q)
BY AtWithin DEF Names

LEMMA NamesUnion ==
  ASSUME NEW c, NEW l, NEW T, NEW R, NEW Q, Q = T \cup R
  PROVE  Names(c, l, Q) = Names(c, l, T) \cup Names(c, l, R)
<1>2. Names(c, l, Q) \subseteq Names(c, l, T) \cup Names(c, l, R)
  BY NamesWithin
<1>3. Names(c, l, T) \subseteq Names(c, l, Q) /\ Names(c, l, R) \subseteq Names(c, l, Q)
  <2>1. T \subseteq Q /\ R \subseteq Q
    OBVIOUS
  <2> QED BY <2>1, NamesMore
<1> QED
  BY <1>2, <1>3

LEMMA NamesTell ==
  ASSUME NEW c, NEW l, NEW T, T \cap Aliases = {}, NEW x \in Names(c, l, T)
  PROVE  x[1] \in T /\ x[2] = l
<1>1. PICK p \in 1 .. c.m : x \in At(c, l, p, T)
  BY DEF Names
<1>2. PICK t \in T : x \in NameAt(c, l, p, t)
  BY <1>1 DEF At
<1>3. t \notin Aliases
  OBVIOUS
<1> QED
  BY <1>2, <1>3, NameTells

LEMMA NamesApart ==
  ASSUME NEW c, NEW l, NEW k, NEW T, NEW R, (T \cup R) \cap Aliases = {},
         T \cap R = {} \/ l # k
  PROVE  Names(c, l, T) \cap Names(c, k, R) = {}
<1> SUFFICES ASSUME NEW x, x \in Names(c, l, T), x \in Names(c, k, R)  PROVE FALSE
  OBVIOUS
<1>0. T \cap Aliases = {} /\ R \cap Aliases = {}
  OBVIOUS
<1>1. x[1] \in T /\ x[2] = l
  BY <1>0, NamesTell
<1>2. x[1] \in R /\ x[2] = k
  BY <1>0, NamesTell
<1> QED
  BY <1>1, <1>2

(* What is done for one position, and for all of them.                     *)
Step(c, l, p, S, TD, TN, TU) ==
  Piece(S, At(c, l, p, TD), At(c, l, p, TN), At(c, l, p, TU))
Stage(c, l, S, TD, TN, TU) ==
  Piece(S, Names(c, l, TD), Names(c, l, TN), Names(c, l, TU))

LEMMA StepThen ==
  ASSUME NEW c, NEW l, NEW p, NEW S, NEW TD, NEW TN, NEW TU, Step(c, l, p, S, TD, TN, TU),
         NEW R, NEW RD, NEW RN, NEW RU, Step(c, l, p, R, RD, RN, RU),
         RD \subseteq TD \cup TN, TN \cap RN = {}, (TN \cup RN) \cap Aliases = {},
         NEW W, W = Cat(S, R),
         NEW N, N = TN \cup RN, NEW U, U = TU \cup RU
  PROVE  Step(c, l, p, W, TD, N, U)
<1>1. At(c, l, p, RD) \subseteq At(c, l, p, TD) \cup At(c, l, p, TN)
  BY AtWithin
<1>2. At(c, l, p, TN) \cap At(c, l, p, RN) = {}
  BY AtApart
<1>3. Piece(W, At(c, l, p, TD), At(c, l, p, TN) \cup At(c, l, p, RN),
               At(c, l, p, TU) \cup At(c, l, p, RU))
  BY <1>1, <1>2, ConcatPiece DEF Step
<1>4. At(c, l, p, N) = At(c, l, p, TN) \cup At(c, l, p, RN)
  BY AtUnion
<1>5. At(c, l, p, U) = At(c, l, p, TU) \cup At(c, l, p, RU)
  BY AtUnion
<1> QED
  BY <1>3, <1>4, <1>5 DEF Step

LEMMA StageThen ==
  ASSUME NEW c, NEW l, NEW S, NEW TD, NEW TN, NEW TU, Stage(c, l, S, TD, TN, TU),
         NEW R, NEW RD, NEW RN, NEW RU, Stage(c, l, R, RD, RN, RU),
         RD \subseteq TD \cup TN, TN \cap RN = {}, (TN \cup RN) \cap Aliases = {},
         NEW W, W = Cat(S, R),
         NEW N, N = TN \cup RN, NEW U, U = TU \cup RU
  PROVE  Stage(c, l, W, TD, N, U)
<1>1. Names(c, l, RD) \subseteq Names(c, l, TD) \cup Names(c, l, TN)
  BY NamesWithin
<1>2. Names(c, l, TN) \cap Names(c, l, RN) = {}
  BY NamesApart
<1>3. Piece(W, Names(c, l, TD), Names(c, l, TN) \cup Names(c, l, RN),
               Names(c, l, TU) \cup Names(c, l, RU))
  BY <1>1, <1>2, ConcatPiece DEF Stage
<1>4. Names(c, l, N) = Names(c, l, TN) \cup Names(c, l, RN)
  BY NamesUnion
<1>5. Names(c, l, U) = Names(c, l, TU) \cup Names(c, l, RU)
  BY NamesUnion
<1> QED
  BY <1>3, <1>4, <1>5 DEF Stage

LEMMA StageMore ==
  ASSUME NEW c, NEW l, NEW S, NEW TD, NEW TN, NEW TU, Stage(c, l, S, TD, TN, TU),
         NEW R, TD \subseteq R
  PROVE  Stage(c, l, S, R, TN, TU)
BY NamesMore, PieceMore DEF Stage

LEMMA PositionAfterPosition ==
  ASSUME NEW c, c.m \in Nat, NEW l, NEW F, F = [p \in 1 .. c.m |-> F[p]],
         NEW TD, NEW TN, NEW TU, TN \cap (Aliases \cup ForAll) = {},
         \A p \in 1 .. c.m : Step(c, l, p, F[p], TD, TN, TU),
         NEW D, \A p \in 1 .. c.m : At(c, l, p, TD) \subseteq
                  D \cup UNION { At(c, l, q, TN) : q \in 1 .. p - 1 },
         NEW W, W = FlattenSeq(F)
  PROVE  Piece(W, D, Names(c, l, TN), Names(c, l, TU))
<1> DEFINE DS == [p \in 1 .. c.m |-> At(c, l, p, TD)]
           NS == [p \in 1 .. c.m |-> At(c, l, p, TN)]
           US == [p \in 1 .. c.m |-> At(c, l, p, TU)]
<1>1. \A p \in 1 .. c.m : Piece(F[p], DS[p], NS[p], US[p])
  BY DEF Step
<1>2. Before(NS, c.m) = Names(c, l, TN) /\ Before(US, c.m) = Names(c, l, TU)
  BY DEF Before, Names
<1>3. \A p \in 1 .. c.m : DS[p] \subseteq D \cup Before(NS, p - 1)
  <2> SUFFICES ASSUME NEW p \in 1 .. c.m  PROVE DS[p] \subseteq D \cup Before(NS, p - 1)
    OBVIOUS
  <2>1. \A q \in 1 .. p - 1 : q \in 1 .. c.m
    OBVIOUS
  <2>2. Before(NS, p - 1) = UNION { At(c, l, q, TN) : q \in 1 .. p - 1 }
    BY <2>1 DEF Before
  <2> QED BY <2>2
<1>4. ASSUME NEW p \in 1 .. c.m, NEW q \in 1 .. c.m, p # q
      PROVE  NS[p] \cap NS[q] = {}
  <2> SUFFICES ASSUME NEW x, x \in At(c, l, p, TN), x \in At(c, l, q, TN)  PROVE FALSE
    OBVIOUS
  <2>1. PICK t \in TN : x \in NameAt(c, l, p, t)
    BY DEF At
  <2>2. PICK r \in TN : x \in NameAt(c, l, q, r)
    BY DEF At
  <2>3. /\ t \notin Aliases /\ t \notin ForAll
        /\ r \notin Aliases /\ r \notin ForAll
    OBVIOUS
  <2>4. x[3] = p
    BY <2>1, <2>3, NameTells
  <2>5. x[3] = q
    BY <2>2, <2>3, NameTells
  <2> QED BY <1>4, <2>4, <2>5
<1> HIDE DEF DS, NS, US
<1>5. Piece(W, D, Before(NS, c.m), Before(US, c.m))
  BY <1>1, <1>3, <1>4, FlattenPiece
<1> QED
  BY <1>2, <1>5

LEMMA EachPosition ==
  ASSUME NEW c, c.m \in Nat, NEW l, NEW F, F = [p \in 1 .. c.m |-> F[p]],
         NEW TD, NEW TN, NEW TU, TN \cap (Aliases \cup ForAll) = {},
         \A p \in 1 .. c.m : Step(c, l, p, F[p], TD, TN, TU),
         NEW W, W = FlattenSeq(F)
  PROVE  Stage(c, l, W, TD, TN, TU)
<1> DEFINE D == Names(c, l, TD)
<1>1. \A p \in 1 .. c.m : At(c, l, p, TD) \subseteq D
  BY DEF Names
<1> HIDE DEF D
<1>2. Piece(W, D, Names(c, l, TN), Names(c, l, TU))
  BY <1>1, PositionAfterPosition
<1> QED
  BY <1>2 DEF Stage, D

--------------------------------------------------------------------------------
(* One call for a position.                                                *)

Waits(ds, U) ==
  (\E n \in Nat : DOMAIN ds = 1 .. n) /\ U = { ds[k] : k \in DOMAIN ds }

LEMMA WaitsList ==
  ASSUME NEW n \in Nat, NEW ds, DOMAIN ds = 1 .. n
  PROVE  Waits(ds, { ds[k] : k \in 1 .. n })
BY DEF Waits

LEMMA WaitsNone ==
  Waits(<<>>, {})
<1>1. DOMAIN <<>> = {} /\ 1 .. 0 = {} /\ 0 \in Nat
  BY EmptySequence
<1> QED
  BY <1>1 DEF Waits

LEMMA WaitsOne ==
  ASSUME NEW x
  PROVE  Waits(<<x>>, {x})
<1> DEFINE s == <<x>>
<1>1. DOMAIN s = 1 .. 1 /\ s[1] = x /\ 1 .. 1 = {1}
  OBVIOUS
<1> HIDE DEF s
<1>2. Waits(s, {x})
  BY <1>1 DEF Waits
<1> QED
  BY <1>2 DEF s

LEMMA WaitsTwo ==
  ASSUME NEW x, NEW y
  PROVE  Waits(<<x, y>>, {x, y})
<1> DEFINE s == <<x, y>>
<1>1. DOMAIN s = 1 .. 2 /\ s[1] = x /\ s[2] = y /\ 1 .. 2 = {1, 2}
  OBVIOUS
<1> HIDE DEF s
<1>2. Waits(s, {x, y})
  BY <1>1 DEF Waits
<1> QED
  BY <1>2 DEF s

LEMMA WaitsThree ==
  ASSUME NEW x, NEW y, NEW z
  PROVE  Waits(<<x, y, z>>, {x, y, z})
<1> DEFINE s == <<x, y, z>>
<1>1. DOMAIN s = 1 .. 3 /\ s[1] = x /\ s[2] = y /\ s[3] = z /\ 1 .. 3 = {1, 2, 3}
  OBVIOUS
<1> HIDE DEF s
<1>2. Waits(s, {x, y, z})
  BY <1>1 DEF Waits
<1> QED
  BY <1>2 DEF s

LEMMA WaitsJoined ==
  ASSUME NEW x, NEW y
  PROVE  Waits(<<x>> \o <<y>>, {x, y})
<1> DEFINE q == <<x>>
           r == <<y>>
           s == q \o r
<1>1. /\ q \in Seq({x, y}) /\ Len(q) = 1 /\ q[1] = x
      /\ r \in Seq({x, y}) /\ Len(r) = 1 /\ r[1] = y
  OBVIOUS
<1> HIDE DEF q, r
<1>2. /\ s \in Seq({x, y}) /\ Len(s) = Len(q) + Len(r)
      /\ \A i \in 1 .. Len(q) + Len(r) :
           s[i] = IF i <= Len(q) THEN q[i] ELSE r[i - Len(q)]
  BY <1>1, ConcatProperties
<1> HIDE DEF s
<1>3. s \in Seq({x, y}) /\ Len(s) = 2 /\ s[1] = x /\ s[2] = y
  BY <1>1, <1>2
<1>4. DOMAIN s = 1 .. 2 /\ 1 .. 2 = {1, 2}
  BY <1>3
<1>5. Waits(s, {x, y})
  BY <1>3, <1>4 DEF Waits
<1> QED
  BY <1>5 DEF s, q, r

LEMMA NamedCall ==
  ASSUME NEW name, NEW kind \in {"op", "dot", "signal"}, NEW ds, NEW U, Waits(ds, U),
         NEW reads, NEW writes, NEW pos,
         NEW S, S = Call({name}, kind, ds, reads, writes, pos)
  PROVE  Piece(S, U, {name}, U)
<1>1. PICK n \in Nat : DOMAIN ds = 1 .. n
  BY DEF Waits
<1>2. U = { ds[k] : k \in 1 .. n }
  BY <1>1 DEF Waits
<1> QED
  BY <1>1, <1>2, CallPiece

LEMMA OpPiece ==
  ASSUME NEW name, NEW ds, NEW U, Waits(ds, U), NEW reads, NEW writes,
         NEW S, S = Op(name, ds, reads, writes)
  PROVE  Piece(S, U, {name}, U)
BY NamedCall DEF Op

LEMMA DotPiece ==
  ASSUME NEW name, NEW ds, NEW U, Waits(ds, U), NEW reads, NEW writes,
         NEW S, S = Dot(name, ds, reads, writes)
  PROVE  Piece(S, U, {name}, U)
BY NamedCall DEF Dot

LEMMA FanInPiece ==
  ASSUME NEW name, NEW ds, NEW U, Waits(ds, U), NEW S, S = FanInOf(name, ds)
  PROVE  Piece(S, U, {name}, U)
BY NamedCall DEF FanInOf

LEMMA QuantizePiece ==
  ASSUME NEW name, NEW dep, NEW bufs, NEW S, S = Quantize(name, dep, bufs)
  PROVE  Piece(S, {dep}, {name}, {dep})
<1>1. Waits(<<dep>>, {dep})
  BY WaitsOne
<1> QED
  BY <1>1, OpPiece DEF Quantize

LEMMA OneStep ==
  ASSUME NEW c, NEW l, NEW p, NEW t, Plain(t), NEW TU, NEW TD, TU \subseteq TD,
         NEW S, Piece(S, At(c, l, p, TU), {<<t, l, p>>}, At(c, l, p, TU))
  PROVE  Step(c, l, p, S, TD, {t}, TU)
<1>1. At(c, l, p, {t}) = {<<t, l, p>>}
  BY AtOne, PlainName
<1>2. At(c, l, p, TU) \subseteq At(c, l, p, TD)
  BY AtMore
<1> QED
  BY <1>1, <1>2, PieceMore DEF Step

LEMMA OpStep ==
  ASSUME NEW c, NEW l, NEW p, NEW t, Plain(t), NEW TU, NEW TD, TU \subseteq TD,
         NEW ds, Waits(ds, At(c, l, p, TU)), NEW reads, NEW writes,
         NEW S, S = Op(<<t, l, p>>, ds, reads, writes)
  PROVE  Step(c, l, p, S, TD, {t}, TU)
BY OpPiece, OneStep

LEMMA DotStep ==
  ASSUME NEW c, NEW l, NEW p, NEW t, Plain(t), NEW TU, NEW TD, TU \subseteq TD,
         NEW ds, Waits(ds, At(c, l, p, TU)), NEW reads, NEW writes,
         NEW S, S = Dot(<<t, l, p>>, ds, reads, writes)
  PROVE  Step(c, l, p, S, TD, {t}, TU)
BY DotPiece, OneStep

LEMMA FanInStep ==
  ASSUME NEW c, NEW l, NEW p, NEW t, Plain(t), NEW TU, NEW TD, TU \subseteq TD,
         NEW ds, Waits(ds, At(c, l, p, TU)),
         NEW S, S = FanInOf(<<t, l, p>>, ds)
  PROVE  Step(c, l, p, S, TD, {t}, TU)
BY FanInPiece, OneStep

LEMMA AtPlain ==
  ASSUME NEW c, NEW l, NEW p, NEW d, Plain(d)
  PROVE  At(c, l, p, {d}) = {<<d, l, p>>}
BY AtOne, PlainName

LEMMA QuantizeStep ==
  ASSUME NEW c, NEW l, NEW p, NEW t, Plain(t), NEW d, Plain(d), NEW TD, d \in TD,
         NEW bufs, NEW S, S = Quantize(<<t, l, p>>, <<d, l, p>>, bufs)
  PROVE  Step(c, l, p, S, TD, {t}, {d})
<1>1. At(c, l, p, {d}) = {<<d, l, p>>}
  BY AtPlain
<1>2. Piece(S, {<<d, l, p>>}, {<<t, l, p>>}, {<<d, l, p>>})
  BY QuantizePiece
<1>3. Piece(S, At(c, l, p, {d}), {<<t, l, p>>}, At(c, l, p, {d}))
  BY <1>1, <1>2
<1>4. {d} \subseteq TD
  OBVIOUS
<1> QED
  BY <1>3, <1>4, OneStep

LEMMA WaitsPlain ==
  ASSUME NEW c, NEW l, NEW p, NEW d, Plain(d)
  PROVE  Waits(<< <<d, l, p>> >>, At(c, l, p, {d}))
BY AtPlain, WaitsOne

LEMMA WaitsPlainTwo ==
  ASSUME NEW c, NEW l, NEW p, NEW d, Plain(d), NEW e, Plain(e)
  PROVE  Waits(<< <<d, l, p>>, <<e, l, p>> >>, At(c, l, p, {d, e}))
<1>1. At(c, l, p, {d}) = {<<d, l, p>>} /\ At(c, l, p, {e}) = {<<e, l, p>>}
  BY AtPlain
<1>2. {d, e} = {d} \cup {e}
  OBVIOUS
<1>3. At(c, l, p, {d, e}) = {<<d, l, p>>} \cup {<<e, l, p>>}
  BY <1>1, <1>2, AtUnion
<1>4. At(c, l, p, {d, e}) = {<<d, l, p>>, <<e, l, p>>}
  BY <1>3
<1> QED
  BY <1>4, WaitsTwo

LEMMA WaitsPlainThree ==
  ASSUME NEW c, NEW l, NEW p, NEW d, Plain(d), NEW e, Plain(e), NEW f, Plain(f)
  PROVE  Waits(<< <<d, l, p>>, <<e, l, p>>, <<f, l, p>> >>, At(c, l, p, {d, e, f}))
<1>1. /\ At(c, l, p, {d}) = {<<d, l, p>>} /\ At(c, l, p, {e}) = {<<e, l, p>>}
      /\ At(c, l, p, {f}) = {<<f, l, p>>}
  BY AtPlain
<1>2. {d, e} = {d} \cup {e} /\ {d, e, f} = {d, e} \cup {f}
  OBVIOUS
<1>3. /\ At(c, l, p, {d, e}) = At(c, l, p, {d}) \cup At(c, l, p, {e})
      /\ At(c, l, p, {d, e, f}) = At(c, l, p, {d, e}) \cup At(c, l, p, {f})
  BY <1>2, AtUnion
<1>4. At(c, l, p, {d, e, f}) = {<<d, l, p>>, <<e, l, p>>, <<f, l, p>>}
  BY <1>1, <1>3
<1> QED
  BY <1>4, WaitsThree

(* Who wrote the residual stream.                                          *)
LEMMA AtRes ==
  ASSUME NEW c, NEW l, NEW p
  PROVE  At(c, l, p, {"res"}) = IF l = 1 THEN {} ELSE {<<"out", l - 1, p>>}
<1>1. NameAt(c, l, p, "res") = IF l = 1 THEN {} ELSE {<<"out", l - 1, p>>}
  BY DEF NameAt, ExpertKinds, ForAll
<1> QED
  BY <1>1, AtOne

LEMMA WaitsRes ==
  ASSUME NEW c, NEW l, NEW p
  PROVE  Waits(ResDep(l, p), At(c, l, p, {"res"}))
<1>1. CASE l = 1
  BY <1>1, AtRes, WaitsNone DEF ResDep
<1>2. CASE l # 1
  BY <1>2, AtRes, WaitsOne DEF ResDep
<1> QED
  BY <1>1, <1>2

LEMMA WaitsAndRes ==
  ASSUME NEW c, NEW l, NEW p, NEW d, Plain(d)
  PROVE  Waits(<< <<d, l, p>> >> \o ResDep(l, p), At(c, l, p, {d, "res"}))
<1>0. At(c, l, p, {"res"}) = IF l = 1 THEN {} ELSE {<<"out", l - 1, p>>}
  BY AtRes
<1>1. At(c, l, p, {d}) = {<<d, l, p>>}
  BY AtPlain
<1>2. {d, "res"} = {d} \cup {"res"}
  OBVIOUS
<1>3. At(c, l, p, {d, "res"}) = At(c, l, p, {d}) \cup At(c, l, p, {"res"})
  BY <1>2, AtUnion
<1>4. CASE l = 1
  <2>1. << <<d, l, p>> >> \o ResDep(l, p) = << <<d, l, p>> >>
    <3>1. ResDep(l, p) = <<>>
      BY <1>4 DEF ResDep
    <3>2. << <<d, l, p>> >> \in Seq({<<d, l, p>>})
      OBVIOUS
    <3> QED BY <3>1, <3>2, ConcatEmptySeq
  <2>2. At(c, l, p, {d, "res"}) = {<<d, l, p>>}
    BY <1>0, <1>1, <1>3, <1>4
  <2> QED BY <2>1, <2>2, WaitsOne
<1>5. CASE l # 1
  <2> DEFINE x == <<d, l, p>>
             y == <<"out", l - 1, p>>
  <2>1. ResDep(l, p) = <<y>>
    BY <1>5 DEF ResDep
  <2>2. At(c, l, p, {d, "res"}) = {x, y}
    BY <1>0, <1>1, <1>3, <1>5
  <2> HIDE DEF x, y
  <2>5. Waits(<<x>> \o <<y>>, At(c, l, p, {d, "res"}))
    BY <2>2, WaitsJoined
  <2> QED BY <2>1, <2>5 DEF x
<1> QED
  BY <1>4, <1>5

LEMMA PlainKinds ==
  \A t \in {"an", "aq", "q", "kva", "kn", "kq8", "kvb", "rq", "rk", "app", "heads", "cq8",
            "ao", "x2", "fn", "fq8", "gate", "up", "silu", "hq8", "down", "out", "rl",
            "rt", "downs", "fnorm", "Fq8", "headCol"} : Plain(t)
BY DEF Plain, Aliases, ForAll, ExpertKinds

LEMMA NamesPlain ==
  ASSUME NEW c, NEW l, NEW t, Plain(t)
  PROVE  Names(c, l, {t}) = { <<t, l, p>> : p \in 1 .. c.m }
<1>1. \A p \in 1 .. c.m : At(c, l, p, {t}) = {<<t, l, p>>}
  BY AtPlain
<1>2. Names(c, l, {t}) = UNION { {<<t, l, p>>} : p \in 1 .. c.m }
  BY <1>1 DEF Names
<1> QED
  BY <1>2

(* A dot of a weight that all positions share.                             *)
LEMMA StageDotStage ==
  ASSUME NEW c, c.m \in Nat, NEW l, NEW w, Plain(w), w # "Fq8", NEW dep, Plain(dep),
         NEW X, NEW Y, NEW S, S = StageDot(c, w, l, dep, X, Y)
  PROVE  Stage(c, l, S, {dep}, {w}, {dep})
<1>1. CASE Joined(c)
  <2> DEFINE names == { <<w, l, p>> : p \in 1 .. c.m }
             ds == [p \in 1 .. c.m |-> <<dep, l, p>>]
             U == { ds[k] : k \in 1 .. c.m }
  <2>1. PICK reads, writes : S = Call(names, "dot", ds, reads, writes, 0)
    BY <1>1 DEF StageDot
  <2>2. DOMAIN ds = 1 .. c.m
    OBVIOUS
  <2>3. \A x \in names : x[1] \in {"Fq8", "head"} => names = {x}
    <3>1. \A x \in names : x[1] = w
      OBVIOUS
    <3>2. w \notin {"Fq8", "head"}
      BY DEF Plain, ForAll
    <3> QED BY <3>1, <3>2
  <2>7. names # {}
    <3>1. 1 \in 1 .. c.m
      BY <1>1 DEF Joined
    <3> QED BY <3>1
  <2>4. names = Names(c, l, {w})
    BY NamesPlain
  <2>5. U = Names(c, l, {dep})
    <3>1. U = { <<dep, l, p>> : p \in 1 .. c.m }
      OBVIOUS
    <3> QED BY <3>1, NamesPlain
  <2>6. Piece(S, U, names, U)
    <3>1. U = { ds[k] : k \in 1 .. c.m }
      OBVIOUS
    <3> HIDE DEF names, ds, U
    <3> QED BY <2>1, <2>2, <2>3, <2>7, <3>1, CallPiece
  <2> QED BY <2>4, <2>5, <2>6 DEF Stage
<1>2. CASE ~Joined(c)
  <2> DEFINE F == [p \in 1 .. c.m |->
                     Dot(<<w, l, p>>, << <<dep, l, p>> >>, WithQ8(X[p]), Y[p])]
  <2>1. S = FlattenSeq(F)
    BY <1>2 DEF StageDot, ForEach
  <2>2. ASSUME NEW p \in 1 .. c.m  PROVE Step(c, l, p, F[p], {dep}, {w}, {dep})
    <3>1. F[p] = Dot(<<w, l, p>>, << <<dep, l, p>> >>, WithQ8(X[p]), Y[p])
      OBVIOUS
    <3>2. Waits(<< <<dep, l, p>> >>, At(c, l, p, {dep}))
      BY WaitsPlain
    <3> HIDE DEF F
    <3> QED BY <3>1, <3>2, DotStep
  <2>3. F = [p \in 1 .. c.m |-> F[p]]
    OBVIOUS
  <2>4. {w} \cap (Aliases \cup ForAll) = {}
    BY DEF Plain
  <2> HIDE DEF F
  <2> QED BY <2>1, <2>2, <2>3, <2>4, EachPosition
<1> QED
  BY <1>1, <1>2

--------------------------------------------------------------------------------
(* Attention.                                                              *)

LEMMA StageAStage ==
  ASSUME NEW c, c.m \in Nat, NEW l
  PROVE  Stage(c, l, StageA(c, l), {"res"}, {"an", "aq"}, {"res", "an"})
<1> DEFINE S(p) == Op(<<"an", l, p>>, ResDep(l, p), {Res(l, p)}, {<<"xn", l, p>>})
           R(p) == Quantize(<<"aq", l, p>>, <<"an", l, p>>, {<<"xn", l, p>>})
           F == [p \in 1 .. c.m |-> Cat(S(p), R(p))]
<1>1. StageA(c, l) = FlattenSeq(F)
  BY DEF StageA, ForEach, Cat
<1>2. ASSUME NEW p \in 1 .. c.m  PROVE Step(c, l, p, F[p], {"res"}, {"an", "aq"}, {"res", "an"})
  <2>1. Step(c, l, p, S(p), {"res"}, {"an"}, {"res"})
    BY WaitsRes, OpStep, PlainKinds
  <2>2. Step(c, l, p, R(p), {"an"}, {"aq"}, {"an"})
    BY QuantizeStep, PlainKinds
  <2>3. F[p] = Cat(S(p), R(p))
    OBVIOUS
  <2> HIDE DEF S, R, F
  <2> QED BY <2>1, <2>2, <2>3, StepThen DEF Aliases
<1>3. F = [p \in 1 .. c.m |-> F[p]] /\ {"an", "aq"} \cap (Aliases \cup ForAll) = {}
  BY DEF Aliases, ForAll
<1> HIDE DEF F
<1> QED
  BY <1>1, <1>2, <1>3, EachPosition

LEMMA StageBStage ==
  ASSUME NEW c, c.m \in Nat, NEW l
  PROVE  Stage(c, l, StageB(c, l), {"aq"}, {"q", "kva"}, {"aq"})
<1>1. PICK S, R : /\ Stage(c, l, S, {"aq"}, {"q"}, {"aq"})
                  /\ Stage(c, l, R, {"aq"}, {"kva"}, {"aq"})
                  /\ StageB(c, l) = Cat(S, R)
  BY StageDotStage, PlainKinds DEF StageB, Cat
<1> QED
  BY <1>1, StageThen DEF Aliases

LEMMA StageCStage ==
  ASSUME NEW c, c.m \in Nat, NEW l
  PROVE  Stage(c, l, StageC(c, l), {"kva"}, {"kn", "kq8"}, {"kva", "kn"})
<1> DEFINE S(p) == Op(<<"kn", l, p>>, << <<"kva", l, p>> >>,
                      {<<"kva", l, p>>}, {<<"ckv", l, p>>})
           R(p) == Quantize(<<"kq8", l, p>>, <<"kn", l, p>>, {<<"ckv", l, p>>})
           F == [p \in 1 .. c.m |-> Cat(S(p), R(p))]
<1>1. StageC(c, l) = FlattenSeq(F)
  BY DEF StageC, ForEach, Cat
<1>2. ASSUME NEW p \in 1 .. c.m
      PROVE  Step(c, l, p, F[p], {"kva"}, {"kn", "kq8"}, {"kva", "kn"})
  <2>1. Step(c, l, p, S(p), {"kva"}, {"kn"}, {"kva"})
    BY WaitsPlain, OpStep, PlainKinds
  <2>2. Step(c, l, p, R(p), {"kn"}, {"kq8"}, {"kn"})
    BY QuantizeStep, PlainKinds
  <2>3. F[p] = Cat(S(p), R(p))
    OBVIOUS
  <2> HIDE DEF S, R, F
  <2> QED BY <2>1, <2>2, <2>3, StepThen DEF Aliases
<1>3. F = [p \in 1 .. c.m |-> F[p]] /\ {"kn", "kq8"} \cap (Aliases \cup ForAll) = {}
  BY DEF Aliases, ForAll
<1> HIDE DEF F
<1> QED
  BY <1>1, <1>2, <1>3, EachPosition

LEMMA StageDStage ==
  ASSUME NEW c, c.m \in Nat, NEW l
  PROVE  Stage(c, l, StageD(c, l), {"kq8"}, {"kvb"}, {"kq8"})
BY StageDotStage, PlainKinds DEF StageD

LEMMA StageFStage ==
  ASSUME NEW c, c.m \in Nat, NEW l
  PROVE  Stage(c, l, StageF(c, l), {"cq8"}, {"ao"}, {"cq8"})
BY StageDotStage, PlainKinds DEF StageF

(* The rotations and the append of a position.                             *)
RotateAndAppend(l, p) ==
  Cat(Cat(Op(<<"rq", l, p>>, << <<"q", l, p>> >>, {<<"qb", l, p>>}, {<<"qb", l, p>>}),
          Op(<<"rk", l, p>>, << <<"kva", l, p>> >>, {<<"kpe", l, p>>}, {<<"kpe", l, p>>})),
      Op(<<"app", l, p>>, << <<"kvb", l, p>>, <<"rk", l, p>> >>,
         {<<"kvb", l, p>>, <<"kpe", l, p>>}, {<<"kv", l, p>>}))

LEMMA RotateAndAppendStep ==
  ASSUME NEW c, NEW l, NEW p
  PROVE  Step(c, l, p, RotateAndAppend(l, p), {"q", "kva", "kvb", "prev"},
              {"rq", "rk", "app"}, {"q", "kva", "kvb", "rk"})
<1>1. PICK S1 : S1 = Op(<<"rq", l, p>>, << <<"q", l, p>> >>,
                        {<<"qb", l, p>>}, {<<"qb", l, p>>})
  OBVIOUS
<1>2. PICK S2 : S2 = Op(<<"rk", l, p>>, << <<"kva", l, p>> >>,
                        {<<"kpe", l, p>>}, {<<"kpe", l, p>>})
  OBVIOUS
<1>3. PICK S3 : S3 = Op(<<"app", l, p>>, << <<"kvb", l, p>>, <<"rk", l, p>> >>,
                        {<<"kvb", l, p>>, <<"kpe", l, p>>}, {<<"kv", l, p>>})
  OBVIOUS
<1> DEFINE TD == {"q", "kva", "kvb", "prev"}
<1>4. Step(c, l, p, S1, TD, {"rq"}, {"q"})
  BY <1>1, WaitsPlain, OpStep, PlainKinds
<1>5. Step(c, l, p, S2, {"kva"}, {"rk"}, {"kva"})
  BY <1>2, WaitsPlain, OpStep, PlainKinds
<1>6. Step(c, l, p, S3, {"kvb", "rk"}, {"app"}, {"kvb", "rk"})
  BY <1>3, WaitsPlainTwo, OpStep, PlainKinds
<1>7. PICK S4 : S4 = Cat(S1, S2)
  OBVIOUS
<1>8. Step(c, l, p, S4, TD, {"rq", "rk"}, {"q", "kva"})
  BY <1>4, <1>5, <1>7, StepThen DEF Aliases
<1>9. PICK S5 : S5 = Cat(S4, S3)
  OBVIOUS
<1>10. Step(c, l, p, S5, TD, {"rq", "rk", "app"}, {"q", "kva", "kvb", "rk"})
  BY <1>6, <1>8, <1>9, StepThen DEF Aliases
<1> QED
  BY <1>1, <1>2, <1>3, <1>7, <1>9, <1>10 DEF RotateAndAppend

(* The signal that stands for the appends of the positions up to p.        *)
CumCall(l, p) ==
  IF p = 1 THEN <<>> ELSE FanInOf(<<"cum", l, p>>, CumDeps(l, p))

LEMMA CumStep ==
  ASSUME NEW c, NEW l, NEW p
  PROVE  Step(c, l, p, CumCall(l, p), {"prev", "app"}, {"cum"}, {"both"})
<1>1. /\ NameAt(c, l, p, "prev") = IF p = 1 THEN {} ELSE {AppCum(l, p - 1)}
      /\ NameAt(c, l, p, "app") = {<<"app", l, p>>}
      /\ NameAt(c, l, p, "cum") = IF p = 1 THEN {} ELSE {<<"cum", l, p>>}
      /\ NameAt(c, l, p, "both") = IF p = 1 THEN {}
                                   ELSE {AppCum(l, p - 1), <<"app", l, p>>}
  BY DEF NameAt, ExpertKinds, ForAll
<1>2. /\ At(c, l, p, {"cum"}) = NameAt(c, l, p, "cum")
      /\ At(c, l, p, {"both"}) = NameAt(c, l, p, "both")
  BY AtOne
<1>3. At(c, l, p, {"both"}) \subseteq At(c, l, p, {"prev", "app"})
  <2>1. At(c, l, p, {"prev", "app"}) = NameAt(c, l, p, "prev") \cup NameAt(c, l, p, "app")
    BY DEF At
  <2> QED BY <1>1, <1>2, <2>1
<1>4. Piece(CumCall(l, p), At(c, l, p, {"both"}), At(c, l, p, {"cum"}), At(c, l, p, {"both"}))
  <2>1. CASE p = 1
    <3>1. CumCall(l, p) = <<>> /\ At(c, l, p, {"both"}) = {} /\ At(c, l, p, {"cum"}) = {}
      BY <1>1, <1>2, <2>1 DEF CumCall
    <3> QED BY <3>1, EmptyPiece
  <2>2. CASE p # 1
    <3>1. /\ CumCall(l, p) = FanInOf(<<"cum", l, p>>, <<AppCum(l, p - 1), <<"app", l, p>> >>)
          /\ At(c, l, p, {"both"}) = {AppCum(l, p - 1), <<"app", l, p>>}
          /\ At(c, l, p, {"cum"}) = {<<"cum", l, p>>}
      BY <1>1, <1>2, <2>2 DEF CumCall, CumDeps
    <3> QED BY <3>1, WaitsTwo, FanInPiece
  <2> QED BY <2>1, <2>2
<1> QED
  BY <1>3, <1>4, PieceMore DEF Step

(* Attention of one position: one task per head.                           *)
HeadsOf(c, l, p) ==
  ForEach(c.heads, LAMBDA h :
       Op(<<"attn", l, p, h>>, << <<"rq", l, p>>, AppCum(l, p) >>,
          {<<"qb", l, p>>} \cup KvRows(l, p), {<<"ctx", l, p, h>>}))

(* The appends a position waits for, by either name.                       *)
LEMMA LastIsAppend ==
  ASSUME NEW c, NEW l, NEW p
  PROVE  /\ At(c, l, p, {"last"}) = {AppCum(l, p)}
         /\ At(c, l, p, {"last"}) \subseteq At(c, l, p, {"app", "cum"})
         /\ At(c, l, p, {"both", "last"}) = At(c, l, p, {"prev", "app", "cum"})
<1>1. /\ NameAt(c, l, p, "prev") = IF p = 1 THEN {} ELSE {AppCum(l, p - 1)}
      /\ NameAt(c, l, p, "app") = {<<"app", l, p>>}
      /\ NameAt(c, l, p, "cum") = IF p = 1 THEN {} ELSE {<<"cum", l, p>>}
      /\ NameAt(c, l, p, "both") = IF p = 1 THEN {}
                                   ELSE {AppCum(l, p - 1), <<"app", l, p>>}
      /\ NameAt(c, l, p, "last") = {AppCum(l, p)}
  BY DEF NameAt, ExpertKinds, ForAll
<1>2. /\ At(c, l, p, {"last"}) = NameAt(c, l, p, "last")
      /\ At(c, l, p, {"app", "cum"}) = NameAt(c, l, p, "app") \cup NameAt(c, l, p, "cum")
      /\ At(c, l, p, {"both", "last"}) = NameAt(c, l, p, "both") \cup NameAt(c, l, p, "last")
      /\ At(c, l, p, {"prev", "app", "cum"})
           = NameAt(c, l, p, "prev") \cup NameAt(c, l, p, "app") \cup NameAt(c, l, p, "cum")
  BY DEF At
<1>3. AppCum(l, p) = IF p = 1 THEN <<"app", l, p>> ELSE <<"cum", l, p>>
  BY DEF AppCum
<1> QED
  BY <1>1, <1>2, <1>3

LEMMA HeadsStep ==
  ASSUME NEW c, c.heads \in Nat \ {0}, NEW l, NEW p
  PROVE  Step(c, l, p, HeadsOf(c, l, p), {"rq", "app", "cum"}, {"attn"}, {"rq", "last"})
<1> DEFINE n == c.heads
           D == At(c, l, p, {"rq", "last"})
           F == [h \in 1 .. n |->
                   Op(<<"attn", l, p, h>>, << <<"rq", l, p>>, AppCum(l, p) >>,
                      {<<"qb", l, p>>} \cup KvRows(l, p), {<<"ctx", l, p, h>>})]
           NS == [h \in 1 .. n |-> {<<"attn", l, p, h>>}]
           US == [h \in 1 .. n |-> D]
<1>1. HeadsOf(c, l, p) = FlattenSeq(F)
  BY DEF HeadsOf, ForEach
<1>2. D = {<<"rq", l, p>>, AppCum(l, p)}
  <2>1. At(c, l, p, {"rq"}) = {<<"rq", l, p>>} /\ At(c, l, p, {"last"}) = {AppCum(l, p)}
    BY AtPlain, PlainKinds, LastIsAppend
  <2>2. {"rq", "last"} = {"rq"} \cup {"last"}
    OBVIOUS
  <2>3. D = At(c, l, p, {"rq"}) \cup At(c, l, p, {"last"})
    BY <2>2, AtUnion
  <2> QED BY <2>1, <2>3
<1>3. Waits(<< <<"rq", l, p>>, AppCum(l, p) >>, D)
  BY <1>2, WaitsTwo
<1> HIDE DEF D
<1>4. ASSUME NEW h \in 1 .. n  PROVE Piece(F[h], US[h], NS[h], US[h])
  BY <1>3, OpPiece
<1>5. \A h \in 1 .. n : US[h] \subseteq D \cup Before(NS, h - 1)
  OBVIOUS
<1>6. \A h, i \in 1 .. n : h # i => NS[h] \cap NS[i] = {}
  OBVIOUS
<1>7. Before(NS, n) = At(c, l, p, {"attn"}) /\ Before(US, n) = D
  <2>2. At(c, l, p, {"attn"}) = { <<"attn", l, p, h>> : h \in 1 .. n }
    BY AtHeads
  <2>3. Before(NS, n) = UNION { {<<"attn", l, p, h>>} : h \in 1 .. n }
    BY DEF Before
  <2>4. 1 \in 1 .. n
    OBVIOUS
  <2>5. Before(US, n) = D
    BY <2>4 DEF Before
  <2> QED BY <2>2, <2>3, <2>5
<1>8. F = [h \in 1 .. n |-> F[h]] /\ n \in Nat
  OBVIOUS
<1> HIDE DEF F, NS, US, n
<1>9. Piece(HeadsOf(c, l, p), D, At(c, l, p, {"attn"}), D)
  BY <1>1, <1>4, <1>5, <1>6, <1>7, <1>8, FlattenPiece
<1>10. D \subseteq At(c, l, p, {"rq", "app", "cum"})
  <2>1. At(c, l, p, {"rq"}) \subseteq At(c, l, p, {"rq", "app", "cum"})
    BY AtMore
  <2>2. At(c, l, p, {"app", "cum"}) \subseteq At(c, l, p, {"rq", "app", "cum"})
    BY AtMore
  <2>3. At(c, l, p, {"last"}) \subseteq At(c, l, p, {"app", "cum"})
    BY LastIsAppend
  <2>4. {"rq", "last"} = {"rq"} \cup {"last"}
    OBVIOUS
  <2>5. D = At(c, l, p, {"rq"}) \cup At(c, l, p, {"last"})
    BY <2>4, AtUnion DEF D
  <2> QED BY <2>1, <2>2, <2>3, <2>5
<1> QED
  BY <1>9, <1>10, PieceMore DEF Step, D

(* The signal that stands for the heads of a position.                     *)
JoinOf(c, l, p) ==
  FanInOf(<<"heads", l, p>>, [h \in 1 .. c.heads |-> <<"attn", l, p, h>>])

LEMMA JoinStep ==
  ASSUME NEW c, c.heads \in Nat, NEW l, NEW p
  PROVE  Step(c, l, p, JoinOf(c, l, p), {"attn"}, {"heads"}, {"attn"})
<1> DEFINE ds == [h \in 1 .. c.heads |-> <<"attn", l, p, h>>]
<1>1. Waits(ds, At(c, l, p, {"attn"}))
  <2>1. At(c, l, p, {"attn"}) = { <<"attn", l, p, h>> : h \in 1 .. c.heads }
    BY AtHeads
  <2>2. At(c, l, p, {"attn"}) = { ds[h] : h \in 1 .. c.heads }
    BY <2>1
  <2>3. DOMAIN ds = 1 .. c.heads
    OBVIOUS
  <2> HIDE DEF ds
  <2> QED BY <2>2, <2>3, WaitsList
<1>2. JoinOf(c, l, p) = FanInOf(<<"heads", l, p>>, ds)
  BY DEF JoinOf
<1> HIDE DEF ds
<1> QED
  BY <1>1, <1>2, FanInStep, PlainKinds

AttentionOf(c, l, p) ==
  Cat(Cat(Cat(Cat(RotateAndAppend(l, p), CumCall(l, p)), HeadsOf(c, l, p)),
          JoinOf(c, l, p)),
      Quantize(<<"cq8", l, p>>, <<"heads", l, p>>, Contexts(c, l, p)))

AttentionNames == {"rq", "rk", "app", "cum", "attn", "heads", "cq8"}

LEMMA AttentionStep ==
  ASSUME NEW c, c.heads \in Nat \ {0}, NEW l, NEW p
  PROVE  Step(c, l, p, AttentionOf(c, l, p), {"q", "kva", "kvb", "prev"}, AttentionNames,
              {"q", "kva", "kvb", "rk", "both", "rq", "last", "attn", "heads"})
<1> DEFINE TD == {"q", "kva", "kvb", "prev"}
<1>1. PICK S1 : S1 = RotateAndAppend(l, p)
  OBVIOUS
<1>2. PICK S2 : S2 = CumCall(l, p)
  OBVIOUS
<1>3. PICK S3 : S3 = HeadsOf(c, l, p)
  OBVIOUS
<1>4. PICK S4 : S4 = JoinOf(c, l, p)
  OBVIOUS
<1>0. PICK S5 : S5 = Quantize(<<"cq8", l, p>>, <<"heads", l, p>>, Contexts(c, l, p))
  OBVIOUS
<1>5. Step(c, l, p, S1, TD, {"rq", "rk", "app"}, {"q", "kva", "kvb", "rk"})
  BY <1>1, RotateAndAppendStep
<1>6. Step(c, l, p, S2, {"prev", "app"}, {"cum"}, {"both"})
  BY <1>2, CumStep
<1>7. Step(c, l, p, S3, {"rq", "app", "cum"}, {"attn"}, {"rq", "last"})
  BY <1>3, HeadsStep
<1>8. /\ Step(c, l, p, S4, {"attn"}, {"heads"}, {"attn"})
      /\ Step(c, l, p, S5, {"heads"}, {"cq8"}, {"heads"})
  BY <1>0, <1>4, JoinStep, QuantizeStep, PlainKinds
<1>9. PICK R2 : R2 = Cat(S1, S2)
  OBVIOUS
<1>10. Step(c, l, p, R2, TD, {"rq", "rk", "app", "cum"}, {"q", "kva", "kvb", "rk", "both"})
  BY <1>5, <1>6, <1>9, StepThen DEF Aliases
<1>11. PICK R3 : R3 = Cat(R2, S3)
  OBVIOUS
<1>12. Step(c, l, p, R3, TD, {"rq", "rk", "app", "cum", "attn"},
            {"q", "kva", "kvb", "rk", "both", "rq", "last"})
  BY <1>7, <1>10, <1>11, StepThen DEF Aliases
<1>13. PICK R4 : R4 = Cat(R3, S4)
  OBVIOUS
<1>14. Step(c, l, p, R4, TD, {"rq", "rk", "app", "cum", "attn", "heads"},
            {"q", "kva", "kvb", "rk", "both", "rq", "last", "attn"})
  BY <1>8, <1>12, <1>13, StepThen DEF Aliases
<1>15. PICK R5 : R5 = Cat(R4, S5)
  OBVIOUS
<1>16. Step(c, l, p, R5, TD, AttentionNames,
            {"q", "kva", "kvb", "rk", "both", "rq", "last", "attn", "heads"})
  BY <1>8, <1>14, <1>15, StepThen DEF Aliases, AttentionNames
<1>17. R5 = AttentionOf(c, l, p)
  BY <1>0, <1>1, <1>2, <1>3, <1>4, <1>9, <1>11, <1>13, <1>15 DEF AttentionOf
<1> QED
  BY <1>16, <1>17

LEMMA StageEStage ==
  ASSUME NEW c, c.m \in Nat, c.heads \in Nat \ {0}, NEW l
  PROVE  Stage(c, l, StageE(c, l), {"q", "kva", "kvb"}, AttentionNames,
               {"q", "kva", "kvb", "rk", "rq", "app", "cum", "attn", "heads"})
<1> DEFINE F == [p \in 1 .. c.m |-> AttentionOf(c, l, p)]
           TD == {"q", "kva", "kvb", "prev"}
           TU == {"q", "kva", "kvb", "rk", "both", "rq", "last", "attn", "heads"}
           D == Names(c, l, {"q", "kva", "kvb"})
           V == {"q", "kva", "kvb", "rk", "rq", "attn", "heads"}
<1>1. StageE(c, l) = FlattenSeq(F)
  BY DEF StageE, AttentionOf, RotateAndAppend, CumCall, HeadsOf, JoinOf, ForEach, Cat
<1>2. F = [p \in 1 .. c.m |-> F[p]]
  OBVIOUS
<1>3. \A p \in 1 .. c.m : Step(c, l, p, F[p], TD, AttentionNames, TU)
  BY AttentionStep
<1>4. AttentionNames \cap (Aliases \cup ForAll) = {}
  BY DEF AttentionNames, Aliases, ForAll
<1> HIDE DEF F
<1>5. ASSUME NEW p \in 1 .. c.m
      PROVE  At(c, l, p, {"prev"}) \subseteq
               UNION { At(c, l, q, {"app", "cum"}) : q \in 1 .. p - 1 }
  <2>1. At(c, l, p, {"prev"}) = IF p = 1 THEN {} ELSE {AppCum(l, p - 1)}
    <3>1. NameAt(c, l, p, "prev") = IF p = 1 THEN {} ELSE {AppCum(l, p - 1)}
      BY DEF NameAt, ExpertKinds, ForAll
    <3> QED BY <3>1, AtOne
  <2>2. CASE p = 1
    BY <2>1, <2>2
  <2>3. CASE p # 1
    <3>1. PICK q \in 1 .. p - 1 : q = p - 1
      BY <2>3
    <3>2. AppCum(l, q) \in At(c, l, q, {"app", "cum"})
      BY LastIsAppend
    <3> QED BY <2>1, <2>3, <3>1, <3>2
  <2> QED BY <2>2, <2>3
<1>6. ASSUME NEW p \in 1 .. c.m
      PROVE  At(c, l, p, TD) \subseteq
               D \cup UNION { At(c, l, q, AttentionNames) : q \in 1 .. p - 1 }
  <2>1. TD = {"q", "kva", "kvb"} \cup {"prev"}
    OBVIOUS
  <2>2. At(c, l, p, TD) = At(c, l, p, {"q", "kva", "kvb"}) \cup At(c, l, p, {"prev"})
    BY <2>1, AtUnion
  <2>3. At(c, l, p, {"q", "kva", "kvb"}) \subseteq D
    BY DEF Names
  <2>4. {"app", "cum"} \subseteq AttentionNames
    BY DEF AttentionNames
  <2>5. \A q \in 1 .. p - 1 : At(c, l, q, {"app", "cum"}) \subseteq At(c, l, q, AttentionNames)
    BY <2>4, AtMore
  <2> HIDE DEF D, TD
  <2> QED BY <1>5, <2>2, <2>3, <2>5
<1>7. Piece(StageE(c, l), D, Names(c, l, AttentionNames), Names(c, l, TU))
  <2> HIDE DEF D, TD, TU
  <2> QED BY <1>1, <1>2, <1>3, <1>4, <1>6, PositionAfterPosition
<1>8. Names(c, l, {"both", "last"}) = Names(c, l, {"app", "cum"})
  <2>1. \A p \in 1 .. c.m : At(c, l, p, {"both", "last"}) = At(c, l, p, {"prev", "app", "cum"})
    BY LastIsAppend
  <2>2. \A p : At(c, l, p, {"prev", "app", "cum"})
                 = At(c, l, p, {"prev"}) \cup At(c, l, p, {"app", "cum"})
    <3>1. {"prev", "app", "cum"} = {"prev"} \cup {"app", "cum"}
      OBVIOUS
    <3> QED BY <3>1, AtUnion
  <2>3. \A p \in 1 .. c.m : At(c, l, p, {"prev"}) \subseteq Names(c, l, {"app", "cum"})
    <3> SUFFICES ASSUME NEW p \in 1 .. c.m, NEW x \in At(c, l, p, {"prev"})
                 PROVE  x \in Names(c, l, {"app", "cum"})
      OBVIOUS
    <3>1. PICK q \in 1 .. p - 1 : x \in At(c, l, q, {"app", "cum"})
      BY <1>5
    <3>2. q \in 1 .. c.m
      OBVIOUS
    <3> QED BY <3>1, <3>2 DEF Names
  <2>4. \A p \in 1 .. c.m : At(c, l, p, {"app", "cum"}) \subseteq Names(c, l, {"app", "cum"})
    BY DEF Names
  <2>5. Names(c, l, {"both", "last"}) \subseteq Names(c, l, {"app", "cum"})
    <3> SUFFICES ASSUME NEW p \in 1 .. c.m
                 PROVE  At(c, l, p, {"both", "last"}) \subseteq Names(c, l, {"app", "cum"})
      BY DEF Names
    <3> QED BY <2>1, <2>2, <2>3, <2>4
  <2>6. Names(c, l, {"app", "cum"}) \subseteq Names(c, l, {"both", "last"})
    <3> SUFFICES ASSUME NEW p \in 1 .. c.m
                 PROVE  At(c, l, p, {"app", "cum"}) \subseteq Names(c, l, {"both", "last"})
      BY DEF Names
    <3>1. At(c, l, p, {"both", "last"}) \subseteq Names(c, l, {"both", "last"})
      BY DEF Names
    <3> QED BY <2>1, <2>2, <3>1
  <2> QED BY <2>5, <2>6
<1>9. Names(c, l, TU) = Names(c, l, V \cup {"app", "cum"})
  <2>1. TU = V \cup {"both", "last"}
    OBVIOUS
  <2>2. Names(c, l, TU) = Names(c, l, V) \cup Names(c, l, {"both", "last"})
    BY <2>1, NamesUnion
  <2>3. Names(c, l, V \cup {"app", "cum"}) = Names(c, l, V) \cup Names(c, l, {"app", "cum"})
    BY NamesUnion
  <2> QED BY <1>8, <2>2, <2>3
<1>10. V \cup {"app", "cum"} = {"q", "kva", "kvb", "rk", "rq", "app", "cum", "attn", "heads"}
  OBVIOUS
<1> QED
  BY <1>7, <1>9, <1>10 DEF Stage

--------------------------------------------------------------------------------
(* Feed-forward.                                                           *)

LEMMA StageGStage ==
  ASSUME NEW c, c.m \in Nat, NEW l
  PROVE  Stage(c, l, StageG(c, l), {"ao", "res"}, {"x2", "fn", "fq8"},
               {"ao", "res", "x2", "fn"})
<1> DEFINE S1(p) == Op(<<"x2", l, p>>, << <<"ao", l, p>> >> \o ResDep(l, p),
                       {Res(l, p), <<"ao", l, p>>}, {<<"x2", l, p>>})
           S2(p) == Op(<<"fn", l, p>>, << <<"x2", l, p>> >>,
                       {<<"x2", l, p>>}, {<<"xf", l, p>>})
           S3(p) == Quantize(<<"fq8", l, p>>, <<"fn", l, p>>, {<<"xf", l, p>>})
           F == [p \in 1 .. c.m |-> Cat(Cat(S1(p), S2(p)), S3(p))]
<1>1. StageG(c, l) = FlattenSeq(F)
  BY DEF StageG, ForEach, Cat
<1>2. ASSUME NEW p \in 1 .. c.m
      PROVE  Step(c, l, p, F[p], {"ao", "res"}, {"x2", "fn", "fq8"}, {"ao", "res", "x2", "fn"})
  <2>1. Step(c, l, p, S1(p), {"ao", "res"}, {"x2"}, {"ao", "res"})
    BY WaitsAndRes, OpStep, PlainKinds
  <2>2. Step(c, l, p, S2(p), {"x2"}, {"fn"}, {"x2"})
    BY WaitsPlain, OpStep, PlainKinds
  <2>3. Step(c, l, p, S3(p), {"fn"}, {"fq8"}, {"fn"})
    BY QuantizeStep, PlainKinds
  <2>4. F[p] = Cat(Cat(S1(p), S2(p)), S3(p))
    OBVIOUS
  <2> HIDE DEF S1, S2, S3, F
  <2>5. PICK R : R = Cat(S1(p), S2(p))
    OBVIOUS
  <2>6. Step(c, l, p, R, {"ao", "res"}, {"x2", "fn"}, {"ao", "res", "x2"})
    BY <2>1, <2>2, <2>5, StepThen DEF Aliases
  <2> QED BY <2>3, <2>4, <2>5, <2>6, StepThen DEF Aliases
<1>3. F = [p \in 1 .. c.m |-> F[p]] /\ {"x2", "fn", "fq8"} \cap (Aliases \cup ForAll) = {}
  BY DEF Aliases, ForAll
<1> HIDE DEF F
<1> QED
  BY <1>1, <1>2, <1>3, EachPosition

LEMMA SharedFfnStage ==
  ASSUME NEW c, c.m \in Nat, NEW l
  PROVE  Stage(c, l, SharedFfn(c, l), {"fq8"}, {"gate", "up", "silu", "hq8", "down"},
               {"fq8", "gate", "up", "silu", "hq8"})
<1> DEFINE S(p) == Op(<<"silu", l, p>>, << <<"gate", l, p>>, <<"up", l, p>> >>,
                      {<<"g", l, p>>, <<"u", l, p>>}, {<<"h", l, p>>})
           R(p) == Quantize(<<"hq8", l, p>>, <<"silu", l, p>>, {<<"h", l, p>>})
           F == [p \in 1 .. c.m |-> Cat(S(p), R(p))]
<1>1. PICK A : A = StageDot(c, "gate", l, "fq8", Columns(c, "xf", l), Columns(c, "g", l))
  OBVIOUS
<1>2. PICK B : B = StageDot(c, "up", l, "fq8", Columns(c, "xf", l), Columns(c, "u", l))
  OBVIOUS
<1>3. PICK E : E = FlattenSeq(F)
  OBVIOUS
<1>4. PICK G : G = StageDot(c, "down", l, "hq8", Columns(c, "h", l), Columns(c, "d", l))
  OBVIOUS
<1>5. SharedFfn(c, l) = Cat(Cat(Cat(A, B), E), G)
  BY <1>1, <1>2, <1>3, <1>4 DEF SharedFfn, ForEach, Cat
<1>6. /\ Stage(c, l, A, {"fq8"}, {"gate"}, {"fq8"})
      /\ Stage(c, l, B, {"fq8"}, {"up"}, {"fq8"})
      /\ Stage(c, l, G, {"hq8"}, {"down"}, {"hq8"})
  BY <1>1, <1>2, <1>4, StageDotStage, PlainKinds
<1>7. Stage(c, l, E, {"gate", "up"}, {"silu", "hq8"}, {"gate", "up", "silu"})
  <2>1. ASSUME NEW p \in 1 .. c.m
        PROVE  Step(c, l, p, F[p], {"gate", "up"}, {"silu", "hq8"}, {"gate", "up", "silu"})
    <3>1. Step(c, l, p, S(p), {"gate", "up"}, {"silu"}, {"gate", "up"})
      BY WaitsPlainTwo, OpStep, PlainKinds
    <3>2. Step(c, l, p, R(p), {"silu"}, {"hq8"}, {"silu"})
      BY QuantizeStep, PlainKinds
    <3>3. F[p] = Cat(S(p), R(p))
      OBVIOUS
    <3> HIDE DEF S, R, F
    <3> QED BY <3>1, <3>2, <3>3, StepThen DEF Aliases
  <2>2. F = [p \in 1 .. c.m |-> F[p]] /\ {"silu", "hq8"} \cap (Aliases \cup ForAll) = {}
    BY DEF Aliases, ForAll
  <2> HIDE DEF F
  <2> QED BY <1>3, <2>1, <2>2, EachPosition
<1> HIDE DEF F
<1>8. PICK I : I = Cat(A, B)
  OBVIOUS
<1>9. Stage(c, l, I, {"fq8"}, {"gate", "up"}, {"fq8"})
  BY <1>6, <1>8, StageThen DEF Aliases
<1>10. PICK J : J = Cat(I, E)
  OBVIOUS
<1>11. Stage(c, l, J, {"fq8"}, {"gate", "up", "silu", "hq8"}, {"fq8", "gate", "up", "silu"})
  BY <1>7, <1>9, <1>10, StageThen DEF Aliases
<1>12. PICK K : K = Cat(J, G)
  OBVIOUS
<1>13. Stage(c, l, K, {"fq8"}, {"gate", "up", "silu", "hq8", "down"},
             {"fq8", "gate", "up", "silu", "hq8"})
  BY <1>6, <1>11, <1>12, StageThen DEF Aliases
<1> QED
  BY <1>5, <1>8, <1>10, <1>12, <1>13

LEMMA DenseMergeStage ==
  ASSUME NEW c, c.m \in Nat, NEW l
  PROVE  Stage(c, l, DenseMerge(c, l), {"down", "x2"}, {"out"}, {"down", "x2"})
<1> DEFINE S(p) == Op(<<"out", l, p>>, << <<"down", l, p>>, <<"x2", l, p>> >>,
                      {<<"d", l, p>>, <<"x2", l, p>>}, {<<"xo", l, p>>})
           F == [p \in 1 .. c.m |-> S(p)]
<1>1. DenseMerge(c, l) = FlattenSeq(F)
  BY DEF DenseMerge, ForEach
<1>2. ASSUME NEW p \in 1 .. c.m
      PROVE  Step(c, l, p, F[p], {"down", "x2"}, {"out"}, {"down", "x2"})
  <2>1. Step(c, l, p, S(p), {"down", "x2"}, {"out"}, {"down", "x2"})
    BY WaitsPlainTwo, OpStep, PlainKinds
  <2> QED BY <2>1
<1>3. F = [p \in 1 .. c.m |-> F[p]] /\ {"out"} \cap (Aliases \cup ForAll) = {}
  BY DEF Aliases, ForAll
<1> HIDE DEF F
<1> QED
  BY <1>1, <1>2, <1>3, EachPosition

(* Routed experts.                                                         *)

LEMMA RoutersStage ==
  ASSUME NEW c, c.m \in Nat, NEW l
  PROVE  Stage(c, l, Routers(c, l), {"fn"}, {"rl", "rt"}, {"fn", "rl"})
<1> DEFINE S(p) == Dot(<<"rl", l, p>>, << <<"fn", l, p>> >>,
                       {<<"xf", l, p>>}, {<<"rlog", l, p>>})
           R(p) == Op(<<"rt", l, p>>, << <<"rl", l, p>> >>,
                      {<<"rlog", l, p>>}, {<<"ids", l, p>>})
           F == [p \in 1 .. c.m |-> Cat(S(p), R(p))]
<1>1. Routers(c, l) = FlattenSeq(F)
  BY DEF Routers, ForEach, Cat
<1>2. ASSUME NEW p \in 1 .. c.m
      PROVE  Step(c, l, p, F[p], {"fn"}, {"rl", "rt"}, {"fn", "rl"})
  <2>1. Step(c, l, p, S(p), {"fn"}, {"rl"}, {"fn"})
    BY WaitsPlain, DotStep, PlainKinds
  <2>2. Step(c, l, p, R(p), {"rl"}, {"rt"}, {"rl"})
    BY WaitsPlain, OpStep, PlainKinds
  <2>3. F[p] = Cat(S(p), R(p))
    OBVIOUS
  <2> HIDE DEF S, R, F
  <2> QED BY <2>1, <2>2, <2>3, StepThen DEF Aliases
<1>3. F = [p \in 1 .. c.m |-> F[p]] /\ {"rl", "rt"} \cap (Aliases \cup ForAll) = {}
  BY DEF Aliases, ForAll
<1> HIDE DEF F
<1> QED
  BY <1>1, <1>2, <1>3, EachPosition

(* What the experts wait for, and what the barrier adds.                   *)
Routed(c) == IF c.barrier THEN {"rtAll"} ELSE {"rt"}
BarrierNames(c) == IF c.barrier THEN {"rtAll"} ELSE {}
BarrierUses(c) == IF c.barrier THEN {"rt"} ELSE {}

LEMMA NamesNone ==
  ASSUME NEW c, NEW l
  PROVE  Names(c, l, {}) = {}
BY DEF Names, At

LEMMA NamesForAll ==
  ASSUME NEW c, c.m \in Nat \ {0}, NEW l, NEW t \in ForAll
  PROVE  Names(c, l, {t}) = {<<t, l, 0>>}
<1>1. \A p : NameAt(c, l, p, t) = {<<t, l, 0>>}
  BY DEF NameAt, ExpertKinds, ForAll
<1>2. \A p : At(c, l, p, {t}) = {<<t, l, 0>>}
  BY <1>1, AtOne
<1>3. 1 \in 1 .. c.m
  OBVIOUS
<1> QED
  BY <1>2, <1>3 DEF Names

LEMMA WaitsForAll ==
  ASSUME NEW c, c.m \in Nat, NEW l, NEW t, Plain(t),
         NEW ds, ds = [p \in 1 .. c.m |-> <<t, l, p>>]
  PROVE  Waits(ds, Names(c, l, {t}))
<1>1. Names(c, l, {t}) = { <<t, l, p>> : p \in 1 .. c.m }
  BY NamesPlain
<1>2. Names(c, l, {t}) = { ds[p] : p \in 1 .. c.m } /\ DOMAIN ds = 1 .. c.m
  BY <1>1
<1>3. (\E n \in Nat : DOMAIN ds = 1 .. n) /\ { ds[p] : p \in 1 .. c.m } = { ds[p] : p \in DOMAIN ds }
  BY <1>2
<1> QED
  BY <1>2, <1>3 DEF Waits

LEMMA BarrierStage ==
  ASSUME NEW c, c.m \in Nat \ {0}, NEW l
  PROVE  Stage(c, l, Barrier(c, l), {"rt"}, BarrierNames(c), BarrierUses(c))
<1>1. CASE c.barrier
  <2>1. PICK ds : ds = [p \in 1 .. c.m |-> <<"rt", l, p>>]
    OBVIOUS
  <2>2. Barrier(c, l) = FanInOf(<<"rtAll", l, 0>>, ds)
    BY <1>1, <2>1 DEF Barrier
  <2>3. Waits(ds, Names(c, l, {"rt"}))
    BY <2>1, WaitsForAll, PlainKinds
  <2>4. Piece(Barrier(c, l), Names(c, l, {"rt"}), {<<"rtAll", l, 0>>}, Names(c, l, {"rt"}))
    BY <2>2, <2>3, FanInPiece
  <2>5. Names(c, l, {"rtAll"}) = {<<"rtAll", l, 0>>}
    BY NamesForAll DEF ForAll
  <2> QED BY <1>1, <2>4, <2>5 DEF Stage, BarrierNames, BarrierUses
<1>2. CASE ~c.barrier
  <2>1. Barrier(c, l) = <<>> /\ BarrierNames(c) = {} /\ BarrierUses(c) = {}
    BY <1>2 DEF Barrier, BarrierNames, BarrierUses
  <2>2. Piece(<<>>, Names(c, l, {"rt"}), {}, {})
    BY EmptyPiece
  <2> QED BY <2>1, <2>2, NamesNone DEF Stage
<1> QED
  BY <1>1, <1>2

LEMMA NamesRouted ==
  ASSUME NEW c, c.m \in Nat \ {0}, NEW l
  PROVE  Names(c, l, {"rd"}) = Names(c, l, Routed(c))
<1>1. \A p \in 1 .. c.m : At(c, l, p, {"rd"}) = {RouterDep(c, l, p)}
  <2>1. \A p \in 1 .. c.m : NameAt(c, l, p, "rd") = {RouterDep(c, l, p)}
    BY DEF NameAt, ExpertKinds, ForAll
  <2> QED BY <2>1, AtOne
<1>2. CASE c.barrier
  <2>1. \A p \in 1 .. c.m : At(c, l, p, {"rd"}) = {<<"rtAll", l, 0>>}
    BY <1>1, <1>2 DEF RouterDep
  <2>2. 1 \in 1 .. c.m
    OBVIOUS
  <2>3. Names(c, l, {"rd"}) = {<<"rtAll", l, 0>>}
    BY <2>1, <2>2 DEF Names
  <2>4. Names(c, l, {"rtAll"}) = {<<"rtAll", l, 0>>}
    BY NamesForAll DEF ForAll
  <2> QED BY <1>2, <2>3, <2>4 DEF Routed
<1>3. CASE ~c.barrier
  <2>1. \A p \in 1 .. c.m : At(c, l, p, {"rd"}) = {<<"rt", l, p>>}
    BY <1>1, <1>3 DEF RouterDep
  <2>2. \A p \in 1 .. c.m : At(c, l, p, {"rt"}) = {<<"rt", l, p>>}
    BY AtPlain, PlainKinds
  <2>3. \A p \in 1 .. c.m : At(c, l, p, {"rd"}) = At(c, l, p, {"rt"})
    BY <2>1, <2>2
  <2>4. Names(c, l, {"rd"}) = Names(c, l, {"rt"})
    BY <2>3 DEF Names
  <2> QED BY <1>3, <2>4 DEF Routed
<1> QED
  BY <1>2, <1>3

(* One expert: two projections, their product, its quantized copy, the way *)
(* back.                                                                   *)
LEMMA ExpertPiece ==
  ASSUME NEW D, NEW a, NEW b, NEW d, NEW e, NEW f,
         a # b, a # d, a # e, a # f, b # d, b # e, b # f, d # e, d # f, e # f,
         NEW S1, Piece(S1, D, {a}, D), NEW S2, Piece(S2, D, {b}, D),
         NEW S3, Piece(S3, {a, b}, {d}, {a, b}), NEW S4, Piece(S4, {d}, {e}, {d}),
         NEW S5, Piece(S5, {e}, {f}, {e}),
         NEW W, W = Cat(Cat(Cat(Cat(S1, S2), S3), S4), S5)
  PROVE  Piece(W, D, {a, b, d, e, f}, D \cup {a, b, d, e})
<1>1. PICK R2 : R2 = Cat(S1, S2)
  OBVIOUS
<1>2. PICK N2, U2 : N2 = {a} \cup {b} /\ U2 = D \cup D
  OBVIOUS
<1>3. Piece(R2, D, N2, U2)
  <2>1. {a} \cap {b} = {} /\ D \subseteq D \cup {a}
    OBVIOUS
  <2> QED BY <1>1, <1>2, <2>1, ConcatPiece
<1>4. PICK R3 : R3 = Cat(R2, S3)
  OBVIOUS
<1>5. PICK N3, U3 : N3 = N2 \cup {d} /\ U3 = U2 \cup {a, b}
  OBVIOUS
<1>6. Piece(R3, D, N3, U3)
  <2>1. N2 \cap {d} = {} /\ {a, b} \subseteq D \cup N2
    BY <1>2
  <2> QED BY <1>3, <1>4, <1>5, <2>1, ConcatPiece
<1>7. PICK R4 : R4 = Cat(R3, S4)
  OBVIOUS
<1>8. PICK N4, U4 : N4 = N3 \cup {e} /\ U4 = U3 \cup {d}
  OBVIOUS
<1>9. Piece(R4, D, N4, U4)
  <2>1. N3 \cap {e} = {} /\ {d} \subseteq D \cup N3
    BY <1>2, <1>5
  <2> QED BY <1>6, <1>7, <1>8, <2>1, ConcatPiece
<1>10. Piece(W, D, N4 \cup {f}, U4 \cup {e})
  <2>1. N4 \cap {f} = {} /\ {e} \subseteq D \cup N4
    BY <1>2, <1>5, <1>8
  <2>2. W = Cat(R4, S5)
    BY <1>1, <1>4, <1>7
  <2> QED BY <1>9, <2>1, <2>2, ConcatPiece
<1>11. N4 \cup {f} = {a, b, d, e, f} /\ U4 \cup {e} = D \cup {a, b, d, e}
  BY <1>2, <1>5, <1>8
<1> QED
  BY <1>10, <1>11

ExpertOf(c, l, p, s) ==
    LET routed == << <<"fq8", l, p>>, RouterDep(c, l, p) >>
        inputs == WithQ8({<<"xf", l, p>>}) \cup {<<"ids", l, p>>}
    IN  Cat(Cat(Cat(Cat(
          Dot(<<"ge", l, p, s>>, routed, inputs, {<<"geb", l, p, s>>}),
          Dot(<<"ue", l, p, s>>, routed, inputs, {<<"ueb", l, p, s>>})),
          Op(<<"se", l, p, s>>, << <<"ge", l, p, s>>, <<"ue", l, p, s>> >>,
             {<<"geb", l, p, s>>, <<"ueb", l, p, s>>}, {<<"he", l, p, s>>})),
          Quantize(<<"eq8", l, p, s>>, <<"se", l, p, s>>, {<<"he", l, p, s>>})),
          Dot(<<"downE", l, p, s>>, << <<"eq8", l, p, s>> >>,
              WithQ8({<<"he", l, p, s>>}) \cup {<<"ids", l, p>>},
              {<<"de", l, p, s>>}))

LEMMA AtRouted ==
  ASSUME NEW c, NEW l, NEW p
  PROVE  At(c, l, p, {"fq8", "rd"}) = {<<"fq8", l, p>>, RouterDep(c, l, p)}
<1>1. NameAt(c, l, p, "rd") = {RouterDep(c, l, p)}
  BY DEF NameAt, ExpertKinds, ForAll
<1>2. At(c, l, p, {"fq8"}) = {<<"fq8", l, p>>} /\ At(c, l, p, {"rd"}) = {RouterDep(c, l, p)}
  BY <1>1, AtOne, AtPlain, PlainKinds
<1>3. {"fq8", "rd"} = {"fq8"} \cup {"rd"}
  OBVIOUS
<1>4. At(c, l, p, {"fq8", "rd"}) = At(c, l, p, {"fq8"}) \cup At(c, l, p, {"rd"})
  BY <1>3, AtUnion
<1> QED
  BY <1>2, <1>4

LEMMA ExpertOfPiece ==
  ASSUME NEW c, NEW l, NEW p, NEW s, NEW D, D = At(c, l, p, {"fq8", "rd"})
  PROVE  Piece(ExpertOf(c, l, p, s), D,
               { <<t, l, p, s>> : t \in ExpertKinds },
               D \cup { <<t, l, p, s>> : t \in ExpertKinds \ {"downE"} })
<1>1. PICK a, b, d, e, f :
        /\ a = <<"ge", l, p, s>> /\ b = <<"ue", l, p, s>> /\ d = <<"se", l, p, s>>
        /\ e = <<"eq8", l, p, s>> /\ f = <<"downE", l, p, s>>
  OBVIOUS
<1>2. PICK routed, i1, i2, o1, o2, o3, h, o4, i4, i5 :
        /\ routed = << <<"fq8", l, p>>, RouterDep(c, l, p) >>
        /\ ExpertOf(c, l, p, s) =
             Cat(Cat(Cat(Cat(Dot(a, routed, i1, o1), Dot(b, routed, i1, o2)),
                         Op(d, <<a, b>>, i2, o3)),
                     Quantize(e, d, h)),
                 Dot(f, <<e>>, i4, o4))
  BY <1>1 DEF ExpertOf
<1>3. Waits(routed, D)
  <2>1. D = {<<"fq8", l, p>>, RouterDep(c, l, p)}
    BY AtRouted
  <2> QED BY <1>2, <2>1, WaitsTwo
<1>4. Waits(<<a, b>>, {a, b}) /\ Waits(<<e>>, {e})
  BY WaitsTwo, WaitsOne
<1>5. PICK S1 : S1 = Dot(a, routed, i1, o1)
  OBVIOUS
<1>6. PICK S2 : S2 = Dot(b, routed, i1, o2)
  OBVIOUS
<1>7. PICK S3 : S3 = Op(d, <<a, b>>, i2, o3)
  OBVIOUS
<1>8. PICK S4 : S4 = Quantize(e, d, h)
  OBVIOUS
<1>9. PICK S5 : S5 = Dot(f, <<e>>, i4, o4)
  OBVIOUS
<1>10. Piece(S1, D, {a}, D) /\ Piece(S2, D, {b}, D)
  BY <1>3, <1>5, <1>6, DotPiece
<1>11. Piece(S3, {a, b}, {d}, {a, b})
  BY <1>4, <1>7, OpPiece
<1>12. Piece(S4, {d}, {e}, {d})
  BY <1>8, QuantizePiece
<1>13. Piece(S5, {e}, {f}, {e})
  BY <1>4, <1>9, DotPiece
<1>14. /\ a # b /\ a # d /\ a # e /\ a # f /\ b # d /\ b # e /\ b # f
       /\ d # e /\ d # f /\ e # f
  BY <1>1
<1>15. ExpertOf(c, l, p, s) = Cat(Cat(Cat(Cat(S1, S2), S3), S4), S5)
  BY <1>2, <1>5, <1>6, <1>7, <1>8, <1>9
<1>16. Piece(ExpertOf(c, l, p, s), D, {a, b, d, e, f}, D \cup {a, b, d, e})
  BY <1>10, <1>11, <1>12, <1>13, <1>14, <1>15, ExpertPiece
<1>17. /\ { <<t, l, p, s>> : t \in ExpertKinds } = {a, b, d, e, f}
       /\ { <<t, l, p, s>> : t \in ExpertKinds \ {"downE"} } = {a, b, d, e}
  BY <1>1 DEF ExpertKinds
<1> QED
  BY <1>16, <1>17

ExpertsOf(c, l, p) == ForEach(Experts(c, p), LAMBDA s : ExpertOf(c, l, p, s))

LEMMA AtExpertKinds ==
  ASSUME NEW c, NEW l, NEW p, NEW T \in SUBSET ExpertKinds
  PROVE  At(c, l, p, T) = UNION { { <<t, l, p, s>> : t \in T } : s \in 1 .. Experts(c, p) }
<1> DEFINE n == Experts(c, p)
           R == UNION { { <<t, l, p, s>> : t \in T } : s \in 1 .. n }
<1>1. \A t \in T : NameAt(c, l, p, t) = { <<t, l, p, s>> : s \in 1 .. n }
  <2>1. \A t \in T : At(c, l, p, {t}) = { <<t, l, p, s>> : s \in 1 .. n }
    BY AtExperts
  <2> QED BY <2>1, AtOne
<1> HIDE DEF n
<1>2. At(c, l, p, T) \subseteq R
  BY <1>1 DEF At
<1>3. R \subseteq At(c, l, p, T)
  BY <1>1 DEF At
<1> QED
  BY <1>2, <1>3 DEF n

LEMMA ExpertsStep ==
  ASSUME NEW c, NEW l, NEW p, Experts(c, p) \in Nat \ {0}
  PROVE  Step(c, l, p, ExpertsOf(c, l, p), {"fq8", "rd"}, ExpertKinds,
              {"fq8", "rd"} \cup (ExpertKinds \ {"downE"}))
<1> DEFINE n == Experts(c, p)
           D == At(c, l, p, {"fq8", "rd"})
           F == [s \in 1 .. n |-> ExpertOf(c, l, p, s)]
           DS == [s \in 1 .. n |-> D]
           NS == [s \in 1 .. n |-> { <<t, l, p, s>> : t \in ExpertKinds }]
           US == [s \in 1 .. n |-> D \cup { <<t, l, p, s>> : t \in ExpertKinds \ {"downE"} }]
           V == At(c, l, p, ExpertKinds \ {"downE"})
<1>1. ExpertsOf(c, l, p) = FlattenSeq(F)
  BY DEF ExpertsOf, ForEach
<1>2. F = [s \in 1 .. n |-> F[s]] /\ n \in Nat /\ n # 0
  OBVIOUS
<1>3. ASSUME NEW s \in 1 .. n  PROVE Piece(F[s], DS[s], NS[s], US[s])
  BY ExpertOfPiece
<1> HIDE DEF F
<1>4. \A s, r \in 1 .. n : s # r => NS[s] \cap NS[r] = {}
  OBVIOUS
<1>5. \A s \in 1 .. n : DS[s] \subseteq D \cup Before(NS, s - 1)
  OBVIOUS
<1>6. Before(NS, n) = At(c, l, p, ExpertKinds)
  <2>1. Before(NS, n) = UNION { { <<t, l, p, s>> : t \in ExpertKinds } : s \in 1 .. n }
    BY DEF Before
  <2> QED BY <2>1, AtExpertKinds
<1>7. Before(US, n) = D \cup V
  <2>1. V = UNION { { <<t, l, p, s>> : t \in ExpertKinds \ {"downE"} } : s \in 1 .. n }
    BY AtExpertKinds
  <2> HIDE DEF V, D, n
  <2>2. 1 \in 1 .. n
    BY <1>2
  <2>3. Before(US, n) \subseteq D \cup V
    BY <2>1 DEF Before
  <2>4. D \cup V \subseteq Before(US, n)
    BY <2>1, <2>2 DEF Before
  <2> QED BY <2>3, <2>4
<1> HIDE DEF DS, NS, US, V, D, n
<1>8. Piece(ExpertsOf(c, l, p), D, Before(NS, n), Before(US, n))
  BY <1>1, <1>2, <1>3, <1>4, <1>5, FlattenPiece
<1>9. At(c, l, p, {"fq8", "rd"} \cup (ExpertKinds \ {"downE"})) = D \cup V
  BY AtUnion DEF D, V
<1> QED
  BY <1>6, <1>7, <1>8, <1>9 DEF Step, D

RoutedOf(c, l, p) ==
  Cat(ExpertsOf(c, l, p),
      FanInOf(<<"downs", l, p>>, [s \in 1 .. Experts(c, p) |-> <<"downE", l, p, s>>]))

LEMMA RoutedStep ==
  ASSUME NEW c, NEW l, NEW p, Experts(c, p) \in Nat \ {0}
  PROVE  Step(c, l, p, RoutedOf(c, l, p), {"fq8", "rd"}, ExpertKinds \cup {"downs"},
              {"fq8", "rd"} \cup ExpertKinds)
<1> DEFINE n == Experts(c, p)
           ds == [s \in 1 .. n |-> <<"downE", l, p, s>>]
<1>1. PICK S : S = ExpertsOf(c, l, p)
  OBVIOUS
<1>2. PICK R : R = FanInOf(<<"downs", l, p>>, ds)
  OBVIOUS
<1>3. RoutedOf(c, l, p) = Cat(S, R)
  BY <1>1, <1>2 DEF RoutedOf
<1>4. Waits(ds, At(c, l, p, {"downE"}))
  <2>1. At(c, l, p, {"downE"}) = { <<"downE", l, p, s>> : s \in 1 .. n }
    BY AtExperts DEF ExpertKinds
  <2>2. At(c, l, p, {"downE"}) = { ds[s] : s \in 1 .. n }
    BY <2>1
  <2>3. DOMAIN ds = 1 .. n /\ n \in Nat
    OBVIOUS
  <2> HIDE DEF ds, n
  <2> QED BY <2>2, <2>3, WaitsList
<1> HIDE DEF ds, n
<1>5. Step(c, l, p, S, {"fq8", "rd"}, ExpertKinds,
           {"fq8", "rd"} \cup (ExpertKinds \ {"downE"}))
  BY <1>1, ExpertsStep
<1>6. Step(c, l, p, R, {"downE"}, {"downs"}, {"downE"})
  BY <1>2, <1>4, FanInStep, PlainKinds
<1>7. /\ {"downE"} \subseteq {"fq8", "rd"} \cup ExpertKinds
      /\ ExpertKinds \cap {"downs"} = {}
      /\ (ExpertKinds \cup {"downs"}) \cap Aliases = {}
      /\ {"fq8", "rd"} \cup ExpertKinds
           = ({"fq8", "rd"} \cup (ExpertKinds \ {"downE"})) \cup {"downE"}
  BY DEF ExpertKinds, Aliases
<1> QED
  BY <1>3, <1>5, <1>6, <1>7, StepThen

LEMMA RoutedExpertsStage ==
  ASSUME NEW c, c.m \in Nat \ {0}, \A p \in 1 .. c.m : Experts(c, p) \in Nat \ {0}, NEW l
  PROVE  Stage(c, l, RoutedExperts(c, l), {"fq8"} \cup Routed(c), ExpertKinds \cup {"downs"},
               {"fq8"} \cup Routed(c) \cup ExpertKinds)
<1> DEFINE F == [p \in 1 .. c.m |-> RoutedOf(c, l, p)]
<1>1. RoutedExperts(c, l) = FlattenSeq(F)
  BY DEF RoutedExperts, RoutedOf, ExpertsOf, ExpertOf, ForEach, Cat
<1>2. F = [p \in 1 .. c.m |-> F[p]] /\ (ExpertKinds \cup {"downs"}) \cap (Aliases \cup ForAll) = {}
  BY DEF Aliases, ForAll, ExpertKinds
<1>3. \A p \in 1 .. c.m : Step(c, l, p, F[p], {"fq8", "rd"}, ExpertKinds \cup {"downs"},
                               {"fq8", "rd"} \cup ExpertKinds)
  BY RoutedStep
<1> HIDE DEF F
<1>4. Stage(c, l, RoutedExperts(c, l), {"fq8", "rd"}, ExpertKinds \cup {"downs"},
            {"fq8", "rd"} \cup ExpertKinds)
  BY <1>1, <1>2, <1>3, EachPosition
<1>5. Names(c, l, {"fq8", "rd"}) = Names(c, l, {"fq8"} \cup Routed(c))
  <2>1. {"fq8", "rd"} = {"fq8"} \cup {"rd"}
    OBVIOUS
  <2>2. Names(c, l, {"fq8", "rd"}) = Names(c, l, {"fq8"}) \cup Names(c, l, {"rd"})
    BY <2>1, NamesUnion
  <2>3. Names(c, l, {"fq8"} \cup Routed(c)) = Names(c, l, {"fq8"}) \cup Names(c, l, Routed(c))
    BY NamesUnion
  <2> QED BY <2>2, <2>3, NamesRouted
<1>6. Names(c, l, {"fq8", "rd"} \cup ExpertKinds)
        = Names(c, l, {"fq8"} \cup Routed(c) \cup ExpertKinds)
  <2>1. Names(c, l, {"fq8", "rd"} \cup ExpertKinds)
          = Names(c, l, {"fq8", "rd"}) \cup Names(c, l, ExpertKinds)
    BY NamesUnion
  <2>2. Names(c, l, {"fq8"} \cup Routed(c) \cup ExpertKinds)
          = Names(c, l, {"fq8"} \cup Routed(c)) \cup Names(c, l, ExpertKinds)
    BY NamesUnion
  <2> QED BY <1>5, <2>1, <2>2
<1> QED
  BY <1>4, <1>5, <1>6 DEF Stage

LEMMA MoeMergeStage ==
  ASSUME NEW c, c.m \in Nat, NEW l
  PROVE  Stage(c, l, MoeMerge(c, l), {"downs", "down", "x2"}, {"out"}, {"downs", "down", "x2"})
<1> DEFINE S(p) == Op(<<"out", l, p>>,
                      << <<"downs", l, p>>, <<"down", l, p>>, <<"x2", l, p>> >>,
                      ExpertParts(c, l, p)
                        \cup {<<"ids", l, p>>, <<"d", l, p>>, <<"x2", l, p>>},
                      {<<"xo", l, p>>})
           F == [p \in 1 .. c.m |-> S(p)]
<1>1. MoeMerge(c, l) = FlattenSeq(F)
  BY DEF MoeMerge, ForEach
<1>2. ASSUME NEW p \in 1 .. c.m
      PROVE  Step(c, l, p, F[p], {"downs", "down", "x2"}, {"out"}, {"downs", "down", "x2"})
  <2>1. Step(c, l, p, S(p), {"downs", "down", "x2"}, {"out"}, {"downs", "down", "x2"})
    BY WaitsPlainThree, OpStep, PlainKinds
  <2> QED BY <2>1
<1>3. F = [p \in 1 .. c.m |-> F[p]] /\ {"out"} \cap (Aliases \cup ForAll) = {}
  BY DEF Aliases, ForAll
<1> HIDE DEF F
<1> QED
  BY <1>1, <1>2, <1>3, EachPosition

(* Stage H.                                                                *)
DenseNames == {"gate", "up", "silu", "hq8", "down", "out"}
MoeNames(c) ==
  {"rl", "rt", "downs"} \cup BarrierNames(c) \cup ExpertKinds \cup DenseNames
FfnNames(c, l) == IF c.layers[l] = "dense" THEN DenseNames ELSE MoeNames(c)
FfnUses(c, l) ==
  {"fq8", "x2"} \cup (IF c.layers[l] = "dense" THEN {} ELSE {"fn"})
    \cup (FfnNames(c, l) \ {"out"})

LEMMA DenseStage ==
  ASSUME NEW c, c.m \in Nat, NEW l, NEW W, W = Cat(SharedFfn(c, l), DenseMerge(c, l))
  PROVE  Stage(c, l, W, {"fn", "fq8", "x2"}, DenseNames,
               {"fq8", "x2"} \cup (DenseNames \ {"out"}))
<1>1. PICK S : S = SharedFfn(c, l)
  OBVIOUS
<1>2. PICK R : R = DenseMerge(c, l)
  OBVIOUS
<1> DEFINE TN == {"gate", "up", "silu", "hq8", "down"}
           TU == {"fq8", "gate", "up", "silu", "hq8"}
<1>3. Stage(c, l, S, {"fn", "fq8", "x2"}, TN, TU)
  <2>1. Stage(c, l, S, {"fq8"}, TN, TU)
    BY <1>1, SharedFfnStage
  <2> QED BY <2>1, StageMore
<1>4. Stage(c, l, R, {"down", "x2"}, {"out"}, {"down", "x2"})
  BY <1>2, DenseMergeStage
<1>5. /\ {"down", "x2"} \subseteq {"fn", "fq8", "x2"} \cup TN
      /\ TN \cap {"out"} = {} /\ (TN \cup {"out"}) \cap Aliases = {}
      /\ DenseNames = TN \cup {"out"}
      /\ {"fq8", "x2"} \cup (DenseNames \ {"out"}) = TU \cup {"down", "x2"}
  BY DEF DenseNames, Aliases
<1> QED
  BY <1>1, <1>2, <1>3, <1>4, <1>5, StageThen

LEMMA MoeStage ==
  ASSUME NEW c, c.m \in Nat \ {0}, \A p \in 1 .. c.m : Experts(c, p) \in Nat \ {0}, NEW l,
         NEW W, W = Cat(Cat(Cat(Cat(Routers(c, l), Barrier(c, l)), RoutedExperts(c, l)),
                            SharedFfn(c, l)), MoeMerge(c, l))
  PROVE  Stage(c, l, W, {"fn", "fq8", "x2"}, MoeNames(c),
               {"fq8", "x2"} \cup {"fn"} \cup (MoeNames(c) \ {"out"}))
<1> DEFINE TD == {"fn", "fq8", "x2"}
<1>1. PICK S1 : S1 = Routers(c, l)
  OBVIOUS
<1>2. PICK S2 : S2 = Barrier(c, l)
  OBVIOUS
<1>3. PICK S3 : S3 = RoutedExperts(c, l)
  OBVIOUS
<1>4. PICK S4 : S4 = SharedFfn(c, l)
  OBVIOUS
<1>5. PICK S5 : S5 = MoeMerge(c, l)
  OBVIOUS
<1>6. Stage(c, l, S1, TD, {"rl", "rt"}, {"fn", "rl"})
  <2>1. Stage(c, l, S1, {"fn"}, {"rl", "rt"}, {"fn", "rl"})
    BY <1>1, RoutersStage
  <2> QED BY <2>1, StageMore
<1>7. Stage(c, l, S2, {"rt"}, BarrierNames(c), BarrierUses(c))
  BY <1>2, BarrierStage
<1>8. Stage(c, l, S3, {"fq8"} \cup Routed(c), ExpertKinds \cup {"downs"},
            {"fq8"} \cup Routed(c) \cup ExpertKinds)
  BY <1>3, RoutedExpertsStage
<1>9. Stage(c, l, S4, {"fq8"}, {"gate", "up", "silu", "hq8", "down"},
            {"fq8", "gate", "up", "silu", "hq8"})
  BY <1>4, SharedFfnStage
<1>10. Stage(c, l, S5, {"downs", "down", "x2"}, {"out"}, {"downs", "down", "x2"})
  BY <1>5, MoeMergeStage
<1>11. PICK R2 : R2 = Cat(S1, S2)
  OBVIOUS
<1>12. PICK N2, U2 : N2 = {"rl", "rt"} \cup BarrierNames(c) /\ U2 = {"fn", "rl"} \cup BarrierUses(c)
  OBVIOUS
<1>13. Stage(c, l, R2, TD, N2, U2)
  <2>1. {"rl", "rt"} \cap BarrierNames(c) = {} /\ N2 \cap Aliases = {}
    BY <1>12 DEF BarrierNames, Aliases
  <2> QED BY <1>6, <1>7, <1>11, <1>12, <2>1, StageThen
<1>14. PICK R3 : R3 = Cat(R2, S3)
  OBVIOUS
<1>15. PICK N3, U3 : /\ N3 = N2 \cup (ExpertKinds \cup {"downs"})
                     /\ U3 = U2 \cup ({"fq8"} \cup Routed(c) \cup ExpertKinds)
  OBVIOUS
<1>16. Stage(c, l, R3, TD, N3, U3)
  <2>1. /\ N2 \cap (ExpertKinds \cup {"downs"}) = {}
        /\ (N2 \cup (ExpertKinds \cup {"downs"})) \cap Aliases = {}
        /\ {"fq8"} \cup Routed(c) \subseteq TD \cup N2
    BY <1>12 DEF BarrierNames, Aliases, ExpertKinds, Routed
  <2> QED BY <1>8, <1>13, <1>14, <1>15, <2>1, StageThen
<1>17. PICK R4 : R4 = Cat(R3, S4)
  OBVIOUS
<1>18. PICK N4, U4 : /\ N4 = N3 \cup {"gate", "up", "silu", "hq8", "down"}
                     /\ U4 = U3 \cup {"fq8", "gate", "up", "silu", "hq8"}
  OBVIOUS
<1>19. Stage(c, l, R4, TD, N4, U4)
  <2>1. /\ N3 \cap {"gate", "up", "silu", "hq8", "down"} = {}
        /\ (N3 \cup {"gate", "up", "silu", "hq8", "down"}) \cap Aliases = {}
    BY <1>12, <1>15 DEF BarrierNames, Aliases, ExpertKinds
  <2> QED BY <1>9, <1>16, <1>17, <1>18, <2>1, StageThen
<1>20. PICK N5, U5 : N5 = N4 \cup {"out"} /\ U5 = U4 \cup {"downs", "down", "x2"}
  OBVIOUS
<1>21. Stage(c, l, W, TD, N5, U5)
  <2>1. /\ N4 \cap {"out"} = {} /\ (N4 \cup {"out"}) \cap Aliases = {}
        /\ {"downs", "down", "x2"} \subseteq TD \cup N4
    BY <1>12, <1>15, <1>18 DEF BarrierNames, Aliases, ExpertKinds
  <2>2. W = Cat(R4, S5)
    BY <1>1, <1>2, <1>3, <1>4, <1>5, <1>11, <1>14, <1>17
  <2> QED BY <1>10, <1>19, <1>20, <2>1, <2>2, StageThen
<1>22. N5 = MoeNames(c)
  BY <1>12, <1>15, <1>18, <1>20 DEF MoeNames, DenseNames
<1>23. BarrierUses(c) \cup Routed(c) = BarrierNames(c) \cup {"rt"}
  BY DEF BarrierUses, BarrierNames, Routed
<1>24. U5 = {"fq8", "x2"} \cup {"fn"} \cup (MoeNames(c) \ {"out"})
  <2>1. MoeNames(c) \ {"out"} = {"rl", "rt", "downs"} \cup BarrierNames(c) \cup ExpertKinds
                                  \cup {"gate", "up", "silu", "hq8", "down"}
    BY DEF MoeNames, DenseNames, BarrierNames, ExpertKinds
  <2> QED BY <1>12, <1>15, <1>18, <1>20, <1>23, <2>1
<1> QED
  BY <1>21, <1>22, <1>24

LEMMA StageHStage ==
  ASSUME NEW c, c.m \in Nat \ {0}, \A p \in 1 .. c.m : Experts(c, p) \in Nat \ {0}, NEW l
  PROVE  Stage(c, l, StageH(c, l), {"fn", "fq8", "x2"}, FfnNames(c, l), FfnUses(c, l))
<1>1. CASE c.layers[l] = "dense"
  <2>1. StageH(c, l) = Cat(SharedFfn(c, l), DenseMerge(c, l))
    BY <1>1 DEF StageH, Cat
  <2>2. FfnNames(c, l) = DenseNames /\ FfnUses(c, l) = {"fq8", "x2"} \cup (DenseNames \ {"out"})
    BY <1>1 DEF FfnNames, FfnUses
  <2> QED BY <2>1, <2>2, DenseStage
<1>2. CASE c.layers[l] # "dense"
  <2>1. StageH(c, l) = Cat(Cat(Cat(Cat(Routers(c, l), Barrier(c, l)), RoutedExperts(c, l)),
                               SharedFfn(c, l)), MoeMerge(c, l))
    BY <1>2 DEF StageH, Cat
  <2>2. /\ FfnNames(c, l) = MoeNames(c)
        /\ FfnUses(c, l) = {"fq8", "x2"} \cup {"fn"} \cup (MoeNames(c) \ {"out"})
    BY <1>2 DEF FfnNames, FfnUses
  <2> QED BY <2>1, <2>2, MoeStage
<1> QED
  BY <1>1, <1>2

(* A layer.                                                                *)
LayerNames(c, l) ==
  {"an", "aq", "q", "kva", "kn", "kq8", "kvb", "ao", "x2", "fn", "fq8"}
    \cup AttentionNames \cup FfnNames(c, l)

LEMMA FfnFacts ==
  ASSUME NEW c, NEW l
  PROVE  /\ "out" \in FfnNames(c, l)
         /\ FfnNames(c, l) \cap (Aliases \cup {"head", "Fq8", "fnorm", "headCol", "done"}) = {}
         /\ FfnNames(c, l) \cap {"an", "aq", "q", "kva", "kn", "kq8", "kvb", "ao", "x2", "fn",
                                 "fq8"} = {}
         /\ FfnNames(c, l) \cap AttentionNames = {}
BY DEF FfnNames, DenseNames, MoeNames, BarrierNames, ExpertKinds, Aliases, AttentionNames

LEMMA LayerStage ==
  ASSUME NEW c, c.m \in Nat \ {0}, c.heads \in Nat \ {0},
         \A p \in 1 .. c.m : Experts(c, p) \in Nat \ {0}, NEW l
  PROVE  Stage(c, l, Layer(c, l), {"res"}, LayerNames(c, l),
               {"res"} \cup (LayerNames(c, l) \ {"out"}))
<1>1. PICK A : A = StageA(c, l)
  OBVIOUS
<1>2. PICK B : B = StageB(c, l)
  OBVIOUS
<1>3. PICK C : C = StageC(c, l)
  OBVIOUS
<1>4. PICK D : D = StageD(c, l)
  OBVIOUS
<1>5. PICK E : E = StageE(c, l)
  OBVIOUS
<1>6. PICK F : F = StageF(c, l)
  OBVIOUS
<1>7. PICK G : G = StageG(c, l)
  OBVIOUS
<1>8. PICK H : H = StageH(c, l)
  OBVIOUS
<1>9. /\ Stage(c, l, A, {"res"}, {"an", "aq"}, {"res", "an"})
      /\ Stage(c, l, B, {"aq"}, {"q", "kva"}, {"aq"})
      /\ Stage(c, l, C, {"kva"}, {"kn", "kq8"}, {"kva", "kn"})
      /\ Stage(c, l, D, {"kq8"}, {"kvb"}, {"kq8"})
  BY <1>1, <1>2, <1>3, <1>4, StageAStage, StageBStage, StageCStage, StageDStage
<1>10. Stage(c, l, E, {"q", "kva", "kvb"}, AttentionNames,
             {"q", "kva", "kvb", "rk", "rq", "app", "cum", "attn", "heads"})
  BY <1>5, StageEStage
<1>11. /\ Stage(c, l, F, {"cq8"}, {"ao"}, {"cq8"})
       /\ Stage(c, l, G, {"ao", "res"}, {"x2", "fn", "fq8"}, {"ao", "res", "x2", "fn"})
  BY <1>6, <1>7, StageFStage, StageGStage
<1>12. Stage(c, l, H, {"fn", "fq8", "x2"}, FfnNames(c, l), FfnUses(c, l))
  BY <1>8, StageHStage
<1>13. PICK R2 : R2 = Cat(A, B)
  OBVIOUS
<1>14. Stage(c, l, R2, {"res"}, {"an", "aq", "q", "kva"}, {"res", "an", "aq"})
  BY <1>9, <1>13, StageThen DEF Aliases
<1>15. PICK R3 : R3 = Cat(R2, C)
  OBVIOUS
<1>16. Stage(c, l, R3, {"res"}, {"an", "aq", "q", "kva", "kn", "kq8"},
             {"res", "an", "aq", "kva", "kn"})
  BY <1>9, <1>14, <1>15, StageThen DEF Aliases
<1>17. PICK R4 : R4 = Cat(R3, D)
  OBVIOUS
<1>18. Stage(c, l, R4, {"res"}, {"an", "aq", "q", "kva", "kn", "kq8", "kvb"},
             {"res", "an", "aq", "kva", "kn", "kq8"})
  BY <1>9, <1>16, <1>17, StageThen DEF Aliases
<1>19. PICK R5 : R5 = Cat(R4, E)
  OBVIOUS
<1>20. PICK N5, U5 :
         /\ N5 = {"an", "aq", "q", "kva", "kn", "kq8", "kvb"} \cup AttentionNames
         /\ U5 = {"res", "an", "aq", "kva", "kn", "kq8"}
                   \cup {"q", "kva", "kvb", "rk", "rq", "app", "cum", "attn", "heads"}
  OBVIOUS
<1>21. Stage(c, l, R5, {"res"}, N5, U5)
  BY <1>10, <1>18, <1>19, <1>20, StageThen DEF Aliases, AttentionNames
<1>22. PICK R6 : R6 = Cat(R5, F)
  OBVIOUS
<1>23. PICK N6, U6 : N6 = N5 \cup {"ao"} /\ U6 = U5 \cup {"cq8"}
  OBVIOUS
<1>24. Stage(c, l, R6, {"res"}, N6, U6)
  <2>1. N5 \cap {"ao"} = {} /\ (N5 \cup {"ao"}) \cap Aliases = {} /\ {"cq8"} \subseteq {"res"} \cup N5
    BY <1>20 DEF Aliases, AttentionNames
  <2> QED BY <1>11, <1>21, <1>22, <1>23, <2>1, StageThen
<1>25. PICK R7 : R7 = Cat(R6, G)
  OBVIOUS
<1>26. PICK N7, U7 : N7 = N6 \cup {"x2", "fn", "fq8"} /\ U7 = U6 \cup {"ao", "res", "x2", "fn"}
  OBVIOUS
<1>27. Stage(c, l, R7, {"res"}, N7, U7)
  <2>1. /\ N6 \cap {"x2", "fn", "fq8"} = {} /\ (N6 \cup {"x2", "fn", "fq8"}) \cap Aliases = {}
        /\ {"ao", "res"} \subseteq {"res"} \cup N6
    BY <1>20, <1>23 DEF Aliases, AttentionNames
  <2> QED BY <1>11, <1>24, <1>25, <1>26, <2>1, StageThen
<1>28. N7 = {"an", "aq", "q", "kva", "kn", "kq8", "kvb", "ao", "x2", "fn", "fq8"}
              \cup AttentionNames
  BY <1>20, <1>23, <1>26
<1>29. PICK N8, U8 : N8 = N7 \cup FfnNames(c, l) /\ U8 = U7 \cup FfnUses(c, l)
  OBVIOUS
<1>30. Stage(c, l, Layer(c, l), {"res"}, N8, U8)
  <2>1. /\ N7 \cap FfnNames(c, l) = {} /\ (N7 \cup FfnNames(c, l)) \cap Aliases = {}
        /\ {"fn", "fq8", "x2"} \subseteq {"res"} \cup N7
    <3>1. N7 \cap Aliases = {}
      BY <1>28 DEF Aliases, AttentionNames
    <3> QED BY <1>28, <3>1, FfnFacts
  <2>2. Layer(c, l) = Cat(R7, H)
    BY <1>1, <1>2, <1>3, <1>4, <1>5, <1>6, <1>7, <1>8, <1>13, <1>15, <1>17, <1>19, <1>22,
       <1>25 DEF Layer, Cat
  <2> QED BY <1>12, <1>27, <1>29, <2>1, <2>2, StageThen
<1>31. N8 = LayerNames(c, l)
  BY <1>28, <1>29 DEF LayerNames
<1>32. U8 = {"res"} \cup (LayerNames(c, l) \ {"out"})
  <2>1. U7 = {"res"} \cup (N7 \ {"fq8"})
    BY <1>20, <1>23, <1>26 DEF AttentionNames
  <2>2. "out" \notin N7 /\ "fq8" \in N7 /\ {"fn", "x2"} \subseteq N7 \ {"fq8"}
    BY <1>28 DEF AttentionNames
  <2>3. FfnUses(c, l) = {"fq8", "x2"} \cup (IF c.layers[l] = "dense" THEN {} ELSE {"fn"})
                          \cup (FfnNames(c, l) \ {"out"})
    BY DEF FfnUses
  <2> QED BY <1>29, <1>31, <2>1, <2>2, <2>3
<1> QED
  BY <1>30, <1>31, <1>32

--------------------------------------------------------------------------------
(* All layers, the final norm and the head.                                *)

LEMMA NamesRes ==
  ASSUME NEW c, NEW l
  PROVE  Names(c, l, {"res"}) = IF l = 1 THEN {} ELSE Names(c, l - 1, {"out"})
<1>1. CASE l = 1
  <2>1. \A p \in 1 .. c.m : At(c, l, p, {"res"}) = {}
    BY <1>1, AtRes
  <2>2. Names(c, l, {"res"}) = {}
    BY <2>1 DEF Names
  <2> QED BY <1>1, <2>2
<1>2. CASE l # 1
  <2>1. \A p \in 1 .. c.m : At(c, l, p, {"res"}) = {<<"out", l - 1, p>>}
    BY <1>2, AtRes
  <2>2. \A p \in 1 .. c.m : At(c, l - 1, p, {"out"}) = {<<"out", l - 1, p>>}
    BY AtPlain, PlainKinds
  <2>3. \A p \in 1 .. c.m : At(c, l, p, {"res"}) = At(c, l - 1, p, {"out"})
    BY <2>1, <2>2
  <2>4. Names(c, l, {"res"}) = Names(c, l - 1, {"out"})
    BY <2>3 DEF Names
  <2> QED BY <1>2, <2>4
<1> QED
  BY <1>1, <1>2

LEMMA ExpertsAreSome ==
  ASSUME NEW c, IsConfig(c), NEW p
  PROVE  Experts(c, p) \in Nat \ {0}
BY DEF IsConfig, Experts

LEMMA ConfigFacts ==
  ASSUME NEW c, IsConfig(c)
  PROVE  /\ c.m \in Nat \ {0} /\ c.m \in Nat /\ c.tiles \in Nat \ {0}
         /\ c.heads \in Nat \ {0}
         /\ Len(c.layers) \in Nat
BY DEF IsConfig

LayersOf(c) == ForEach(Len(c.layers), LAMBDA l : Layer(c, l))
LayerUses(c, l) == {"res"} \cup (LayerNames(c, l) \ {"out"})
AllNames(c, n) == UNION { Names(c, l, LayerNames(c, l)) : l \in 1 .. n }
AllUses(c, n) == UNION { Names(c, l, LayerUses(c, l)) : l \in 1 .. n }

LEMMA LayerFacts ==
  ASSUME NEW c, NEW l
  PROVE  /\ "out" \in LayerNames(c, l)
         /\ LayerNames(c, l) \cap (Aliases \cup {"head", "Fq8", "fnorm", "headCol", "done"}) = {}
<1>1. {"an", "aq", "q", "kva", "kn", "kq8", "kvb", "ao", "x2", "fn", "fq8"}
        \cap (Aliases \cup {"head", "Fq8", "fnorm", "headCol", "done"}) = {}
  BY DEF Aliases
<1>2. AttentionNames \cap (Aliases \cup {"head", "Fq8", "fnorm", "headCol", "done"}) = {}
  BY DEF Aliases, AttentionNames
<1> QED
  BY <1>1, <1>2, FfnFacts DEF LayerNames

LEMMA LayersPiece ==
  ASSUME NEW c, IsConfig(c), NEW n, n = Len(c.layers)
  PROVE  Piece(LayersOf(c), {}, AllNames(c, n), AllUses(c, n))
<1> DEFINE F == [l \in 1 .. n |-> Layer(c, l)]
           DS == [l \in 1 .. n |-> Names(c, l, {"res"})]
           NS == [l \in 1 .. n |-> Names(c, l, LayerNames(c, l))]
           US == [l \in 1 .. n |-> Names(c, l, LayerUses(c, l))]
<1>1. LayersOf(c) = FlattenSeq(F) /\ F = [l \in 1 .. n |-> F[l]]
  BY DEF LayersOf, ForEach
<1>2. n \in Nat
  BY ConfigFacts
<1>3. ASSUME NEW l \in 1 .. n  PROVE Piece(F[l], DS[l], NS[l], US[l])
  <2>1. /\ c.m \in Nat \ {0} /\ c.heads \in Nat \ {0}
        /\ \A p \in 1 .. c.m : Experts(c, p) \in Nat \ {0}
    BY ConfigFacts, ExpertsAreSome
  <2>2. Stage(c, l, Layer(c, l), {"res"}, LayerNames(c, l), LayerUses(c, l))
    BY <2>1, LayerStage DEF LayerUses
  <2> QED BY <2>2 DEF Stage
<1>4. Before(NS, n) = AllNames(c, n) /\ Before(US, n) = AllUses(c, n)
  BY DEF Before, AllNames, AllUses
<1>5. ASSUME NEW l \in 1 .. n  PROVE DS[l] \subseteq {} \cup Before(NS, l - 1)
  <2>1. CASE l = 1
    BY <2>1, NamesRes
  <2>2. CASE l # 1
    <3>1. PICK k \in 1 .. l - 1 : k = l - 1
      BY <2>2
    <3>2. DS[l] = Names(c, k, {"out"})
      BY <2>2, <3>1, NamesRes
    <3>3. {"out"} \subseteq LayerNames(c, k)
      BY LayerFacts
    <3>4. Names(c, k, {"out"}) \subseteq Names(c, k, LayerNames(c, k))
      BY <3>3, NamesMore
    <3>5. k \in 1 .. n /\ NS[k] = Names(c, k, LayerNames(c, k))
      BY <1>2
    <3> HIDE DEF NS, DS
    <3>6. NS[k] \subseteq Before(NS, l - 1)
      BY DEF Before
    <3> QED BY <3>2, <3>4, <3>5, <3>6
  <2> QED BY <2>1, <2>2
<1>6. ASSUME NEW l \in 1 .. n, NEW k \in 1 .. n, l # k  PROVE NS[l] \cap NS[k] = {}
  <2>1. (LayerNames(c, l) \cup LayerNames(c, k)) \cap Aliases = {}
    BY LayerFacts
  <2> QED BY <1>6, <2>1, NamesApart
<1> HIDE DEF F, DS, NS, US
<1>7. Piece(LayersOf(c), {}, Before(NS, n), Before(US, n))
  BY <1>1, <1>2, <1>3, <1>5, <1>6, FlattenPiece
<1> QED
  BY <1>4, <1>7

LEMMA FinalNormStage ==
  ASSUME NEW c, c.m \in Nat, NEW last, last = Len(c.layers) + 1
  PROVE  Stage(c, last, FinalNorm(c), {"res"}, {"fnorm", "Fq8"}, {"res", "fnorm"})
<1> DEFINE S(p) == Op(<<"fnorm", last, p>>, ResDep(last, p), {Res(last, p)},
                      {<<"xF", last, p>>})
           R(p) == Quantize(<<"Fq8", last, p>>, <<"fnorm", last, p>>, {<<"xF", last, p>>})
           F == [p \in 1 .. c.m |-> Cat(S(p), R(p))]
<1>1. FinalNorm(c) = FlattenSeq(F)
  BY DEF FinalNorm, ForEach, Cat
<1>2. ASSUME NEW p \in 1 .. c.m
      PROVE  Step(c, last, p, F[p], {"res"}, {"fnorm", "Fq8"}, {"res", "fnorm"})
  <2>1. Step(c, last, p, S(p), {"res"}, {"fnorm"}, {"res"})
    BY WaitsRes, OpStep, PlainKinds
  <2>2. Step(c, last, p, R(p), {"fnorm"}, {"Fq8"}, {"fnorm"})
    BY QuantizeStep, PlainKinds
  <2>3. F[p] = Cat(S(p), R(p))
    OBVIOUS
  <2> HIDE DEF S, R, F
  <2> QED BY <2>1, <2>2, <2>3, StepThen DEF Aliases
<1>3. F = [p \in 1 .. c.m |-> F[p]] /\ {"fnorm", "Fq8"} \cap (Aliases \cup ForAll) = {}
  BY DEF Aliases, ForAll
<1> HIDE DEF F
<1> QED
  BY <1>1, <1>2, <1>3, EachPosition

HeadNamesOf(c) == IF c.multicol THEN {"head"} ELSE {"headCol", "head"}
HeadUses(c) == IF c.multicol THEN {"Fq8"} ELSE {"Fq8", "headCol"}

LEMMA WaitsHeadDeps ==
  ASSUME NEW c, c.m \in Nat, NEW last, last = Len(c.layers) + 1
  PROVE  Waits(HeadDeps(c), Names(c, last, {"Fq8"}))
BY WaitsForAll, PlainKinds DEF HeadDeps

LEMMA HeadDotStage ==
  ASSUME NEW c, c.m \in Nat \ {0}, NEW last, last = Len(c.layers) + 1
  PROVE  Stage(c, last, HeadDot(c), {"Fq8"}, HeadNamesOf(c), HeadUses(c))
<1>0. Waits(HeadDeps(c), Names(c, last, {"Fq8"})) /\ c.m \in Nat
  BY WaitsHeadDeps
<1>9. Names(c, last, {"head"}) = {<<"head", last, 0>>}
  BY NamesForAll DEF ForAll
<1>1. CASE c.multicol
  <2>1. PICK reads, writes :
          HeadDot(c) = Call({<<"head", last, 0>>}, "dot", HeadDeps(c), reads, writes, 0)
    BY <1>1 DEF HeadDot
  <2>2. Piece(HeadDot(c), Names(c, last, {"Fq8"}), {<<"head", last, 0>>},
              Names(c, last, {"Fq8"}))
    BY <1>0, <2>1, NamedCall
  <2> QED BY <1>1, <1>9, <2>2 DEF Stage, HeadNamesOf, HeadUses
<1>2. CASE ~c.multicol
  <2> DEFINE D == Names(c, last, {"Fq8"})
             F == [p \in 1 .. c.m |->
                     Call({<<"headCol", last, p>>}, "dot", HeadDeps(c),
                          WithQ8({<<"xF", last, p>>}), {<<"lg", last, p>>}, 0)]
             ds == [p \in 1 .. c.m |-> <<"headCol", last, p>>]
             DS == [p \in 1 .. c.m |-> D]
             NS == [p \in 1 .. c.m |-> {<<"headCol", last, p>>}]
  <2>1. HeadDot(c) = Cat(FlattenSeq(F), FanInOf(<<"head", last, 0>>, ds))
    BY <1>2 DEF HeadDot, ForEach, Cat
  <2> HIDE DEF D
  <2>2. ASSUME NEW p \in 1 .. c.m  PROVE Piece(F[p], DS[p], NS[p], DS[p])
    BY <1>0, NamedCall DEF D
  <2>3. /\ \A p \in 1 .. c.m : DS[p] \subseteq D \cup Before(NS, p - 1)
        /\ \A p, q \in 1 .. c.m : p # q => NS[p] \cap NS[q] = {}
        /\ F = [p \in 1 .. c.m |-> F[p]]
    OBVIOUS
  <2>4. Before(NS, c.m) = Names(c, last, {"headCol"}) /\ Before(DS, c.m) = D
    <3>1. Names(c, last, {"headCol"}) = { <<"headCol", last, p>> : p \in 1 .. c.m }
      BY NamesPlain, PlainKinds
    <3>2. 1 \in 1 .. c.m
      BY ConfigFacts
    <3> QED BY <3>1, <3>2 DEF Before
  <2>5. Waits(ds, Names(c, last, {"headCol"}))
    BY <1>0, WaitsForAll, PlainKinds
  <2>6. PICK S, R : S = FlattenSeq(F) /\ R = FanInOf(<<"head", last, 0>>, ds)
    OBVIOUS
  <2> HIDE DEF F, ds, DS, NS
  <2>7. Piece(S, D, Before(NS, c.m), Before(DS, c.m))
    BY <1>0, <2>2, <2>3, <2>6, FlattenPiece
  <2>8. Stage(c, last, S, {"Fq8"}, {"headCol"}, {"Fq8"})
    BY <2>4, <2>7 DEF Stage, D
  <2>9. Stage(c, last, R, {"headCol"}, {"head"}, {"headCol"})
    BY <1>9, <2>5, <2>6, FanInPiece DEF Stage
  <2>10. Stage(c, last, HeadDot(c), {"Fq8"}, {"headCol", "head"}, {"Fq8", "headCol"})
    BY <2>1, <2>6, <2>8, <2>9, StageThen DEF Aliases
  <2> QED BY <1>2, <2>10 DEF HeadNamesOf, HeadUses
<1> QED
  BY <1>1, <1>2

HeadPart(c) == IF c.cert THEN <<>> ELSE HeadDot(c)
Body(c) == Cat(Cat(LayersOf(c), FinalNorm(c)), HeadPart(c))

HeadPartNames(c) == IF c.cert THEN {} ELSE HeadNamesOf(c)
HeadPartUses(c) == IF c.cert THEN {} ELSE HeadUses(c)

LEMMA HeadPartStage ==
  ASSUME NEW c, c.m \in Nat \ {0}, NEW last, last = Len(c.layers) + 1
  PROVE  Stage(c, last, HeadPart(c), {"Fq8"}, HeadPartNames(c), HeadPartUses(c))
<1>1. CASE c.cert
  <2>1. HeadPart(c) = <<>> /\ HeadPartNames(c) = {} /\ HeadPartUses(c) = {}
    BY <1>1 DEF HeadPart, HeadPartNames, HeadPartUses
  <2>2. Piece(<<>>, Names(c, last, {"Fq8"}), {}, {})
    BY EmptyPiece
  <2> QED BY <2>1, <2>2, NamesNone DEF Stage
<1>2. CASE ~c.cert
  <2>1. /\ HeadPart(c) = HeadDot(c) /\ HeadPartNames(c) = HeadNamesOf(c)
        /\ HeadPartUses(c) = HeadUses(c)
    BY <1>2 DEF HeadPart, HeadPartNames, HeadPartUses
  <2> QED BY <2>1, HeadDotStage
<1> QED
  BY <1>1, <1>2

(* What the calls before the terminal give names to, and wait for.         *)
BodyNames(c, last) ==
  AllNames(c, last - 1) \cup Names(c, last, {"fnorm", "Fq8"})
    \cup Names(c, last, HeadPartNames(c))
BodyUses(c, last) ==
  AllUses(c, last - 1) \cup Names(c, last, {"res", "fnorm"})
    \cup Names(c, last, HeadPartUses(c))

(* What the terminal waits for.                                            *)
EndKind(c) == IF c.cert THEN "Fq8" ELSE "head"
EndNames(c, last) == Names(c, last, {EndKind(c)})

LEMMA AllNamesTell ==
  ASSUME NEW c, NEW n, NEW x \in AllNames(c, n)
  PROVE  x[1] \notin {"head", "Fq8", "fnorm", "headCol", "done"}
<1>1. PICK l \in 1 .. n : x \in Names(c, l, LayerNames(c, l))
  BY DEF AllNames
<1>2. x[1] \in LayerNames(c, l)
  BY <1>1, LayerFacts, NamesTell
<1> QED
  BY <1>2, LayerFacts

LEMMA ResTells ==
  ASSUME NEW c, NEW l, NEW x \in Names(c, l, {"res"})
  PROVE  x[1] = "out"
<1>1. x \in Names(c, l - 1, {"out"})
  BY NamesRes
<1>2. {"out"} \cap Aliases = {}
  BY DEF Aliases
<1> QED
  BY <1>1, <1>2, NamesTell

LEMMA AllUsesTell ==
  ASSUME NEW c, NEW n, NEW x \in AllUses(c, n)
  PROVE  x[1] \notin {"head", "Fq8", "fnorm", "headCol", "done"}
<1>1. PICK l \in 1 .. n : x \in Names(c, l, LayerUses(c, l))
  BY DEF AllUses
<1>2. x \in Names(c, l, {"res"}) \/ x \in Names(c, l, LayerNames(c, l) \ {"out"})
  BY <1>1, NamesUnion DEF LayerUses
<1>3. CASE x \in Names(c, l, {"res"})
  BY <1>3, ResTells
<1>4. CASE x \in Names(c, l, LayerNames(c, l) \ {"out"})
  <2>1. (LayerNames(c, l) \ {"out"}) \cap Aliases = {}
    BY LayerFacts
  <2>2. x[1] \in LayerNames(c, l) \ {"out"}
    BY <1>4, <2>1, NamesTell
  <2> QED BY <2>2, LayerFacts
<1> QED
  BY <1>2, <1>3, <1>4

LEMMA ResWasNamed ==
  ASSUME NEW c, NEW n \in Nat, NEW last, last = n + 1
  PROVE  Names(c, last, {"res"}) \subseteq AllNames(c, n)
<1>1. CASE n = 0
  BY <1>1, NamesRes
<1>2. CASE n # 0
  <2>1. Names(c, last, {"res"}) = Names(c, n, {"out"})
    BY <1>2, NamesRes
  <2>2. {"out"} \subseteq LayerNames(c, n)
    BY LayerFacts
  <2>3. Names(c, n, {"out"}) \subseteq Names(c, n, LayerNames(c, n))
    BY <2>2, NamesMore
  <2>4. n \in 1 .. n
    BY <1>2
  <2> QED BY <2>1, <2>3, <2>4 DEF AllNames
<1> QED
  BY <1>1, <1>2

LEMMA HeadPartFacts ==
  ASSUME NEW c
  PROVE  /\ HeadPartNames(c) \subseteq {"head", "headCol"}
         /\ HeadPartUses(c) \subseteq {"Fq8", "headCol"}
         /\ HeadPartUses(c) \subseteq {"fnorm", "Fq8"} \cup HeadPartNames(c)
         /\ EndKind(c) \in {"fnorm", "Fq8"} \cup HeadPartNames(c)
         /\ EndKind(c) \notin HeadPartUses(c) /\ EndKind(c) \in {"Fq8", "head"}
         /\ ({"fnorm", "Fq8"} \cup HeadPartNames(c)) \ {EndKind(c)}
              \subseteq {"fnorm"} \cup HeadPartUses(c)
BY DEF HeadPartNames, HeadPartUses, HeadNamesOf, HeadUses, EndKind

LEMMA BodyPiece ==
  ASSUME NEW c, IsConfig(c), NEW last, last = Len(c.layers) + 1
  PROVE  Piece(Body(c), {}, BodyNames(c, last), BodyUses(c, last))
<1>0. PICK n \in Nat : n = Len(c.layers) /\ last = n + 1 /\ last - 1 = n
  BY ConfigFacts
<1>1. PICK L : L = LayersOf(c)
  OBVIOUS
<1>2. PICK F : F = FinalNorm(c)
  OBVIOUS
<1>3. PICK H : H = HeadPart(c)
  OBVIOUS
<1>4. Piece(L, {}, AllNames(c, n), AllUses(c, n))
  BY <1>0, <1>1, LayersPiece
<1>5. Piece(F, Names(c, last, {"res"}), Names(c, last, {"fnorm", "Fq8"}),
            Names(c, last, {"res", "fnorm"}))
  BY <1>2, ConfigFacts, FinalNormStage DEF Stage
<1>6. Piece(H, Names(c, last, {"Fq8"}), Names(c, last, HeadPartNames(c)),
            Names(c, last, HeadPartUses(c)))
  BY <1>3, ConfigFacts, HeadPartStage DEF Stage
<1>7. PICK R : R = Cat(L, F)
  OBVIOUS
<1>8. AllNames(c, n) \cap Names(c, last, {"fnorm", "Fq8"}) = {}
  <2>1. {"fnorm", "Fq8"} \cap Aliases = {}
    BY DEF Aliases
  <2>2. \A x \in Names(c, last, {"fnorm", "Fq8"}) : x[1] \in {"fnorm", "Fq8"}
    BY <2>1, NamesTell
  <2> QED BY <2>2, AllNamesTell
<1>9. PICK N, U : /\ N = AllNames(c, n) \cup Names(c, last, {"fnorm", "Fq8"})
                  /\ U = AllUses(c, n) \cup Names(c, last, {"res", "fnorm"})
  OBVIOUS
<1>10. Piece(R, {}, N, U)
  <2>1. Names(c, last, {"res"}) \subseteq {} \cup AllNames(c, n)
    BY <1>0, ResWasNamed
  <2> QED BY <1>4, <1>5, <1>7, <1>8, <1>9, <2>1, ConcatPiece
<1>11. N \cap Names(c, last, HeadPartNames(c)) = {}
  <2>1. HeadPartNames(c) \cap Aliases = {} /\ {"fnorm", "Fq8"} \cap Aliases = {}
    BY HeadPartFacts DEF Aliases
  <2>2. \A x \in Names(c, last, HeadPartNames(c)) : x[1] \in HeadPartNames(c)
    BY <2>1, NamesTell
  <2>3. \A x \in Names(c, last, {"fnorm", "Fq8"}) : x[1] \in {"fnorm", "Fq8"}
    BY <2>1, NamesTell
  <2>4. \A x \in N : x[1] \notin {"head", "headCol"}
    BY <1>9, <2>3, AllNamesTell
  <2> QED BY <2>2, <2>4, HeadPartFacts
<1>12. Names(c, last, {"Fq8"}) \subseteq {} \cup N
  <2>1. {"Fq8"} \subseteq {"fnorm", "Fq8"}
    OBVIOUS
  <2>2. Names(c, last, {"Fq8"}) \subseteq Names(c, last, {"fnorm", "Fq8"})
    BY <2>1, NamesMore
  <2> QED BY <1>9, <2>2
<1>13. Body(c) = Cat(R, H)
  BY <1>1, <1>2, <1>3, <1>7 DEF Body
<1>14. Piece(Body(c), {}, N \cup Names(c, last, HeadPartNames(c)),
             U \cup Names(c, last, HeadPartUses(c)))
  BY <1>6, <1>10, <1>11, <1>12, <1>13, ConcatPiece
<1> QED
  BY <1>0, <1>9, <1>14 DEF BodyNames, BodyUses

(* The terminal waits for what nothing else waits for; all else is waited  *)
(* for.                                                                    *)
LEMMA BodyEnds ==
  ASSUME NEW c, IsConfig(c), NEW last, last = Len(c.layers) + 1
  PROVE  /\ EndNames(c, last) \subseteq BodyNames(c, last)
         /\ EndNames(c, last) \cap BodyUses(c, last) = {}
         /\ BodyNames(c, last) \ EndNames(c, last) \subseteq BodyUses(c, last)
         /\ \A x \in BodyNames(c, last) : x[1] # "done"
         /\ \A x \in EndNames(c, last) : x[1] \in {"Fq8", "head"}
<1>0. PICK n \in Nat : n = Len(c.layers) /\ last = n + 1 /\ last - 1 = n
  BY ConfigFacts
<1> DEFINE K == {"fnorm", "Fq8"} \cup HeadPartNames(c)
           k == EndKind(c)
<1>1. /\ K \cap Aliases = {} /\ {k} \cap Aliases = {}
      /\ ({"fnorm"} \cup HeadPartUses(c)) \cap Aliases = {}
  BY HeadPartFacts DEF Aliases
<1>2. BodyNames(c, last) = AllNames(c, n) \cup Names(c, last, K)
  <2>1. Names(c, last, K) = Names(c, last, {"fnorm", "Fq8"}) \cup Names(c, last, HeadPartNames(c))
    BY NamesUnion
  <2> QED BY <1>0, <2>1 DEF BodyNames
<1>3. BodyUses(c, last) = AllUses(c, n) \cup Names(c, last, {"res"})
                            \cup Names(c, last, {"fnorm"} \cup HeadPartUses(c))
  <2>1. {"res", "fnorm"} = {"res"} \cup {"fnorm"}
    OBVIOUS
  <2>2. Names(c, last, {"res", "fnorm"}) = Names(c, last, {"res"}) \cup Names(c, last, {"fnorm"})
    BY <2>1, NamesUnion
  <2>3. Names(c, last, {"fnorm"} \cup HeadPartUses(c))
          = Names(c, last, {"fnorm"}) \cup Names(c, last, HeadPartUses(c))
    BY NamesUnion
  <2> QED BY <1>0, <2>2, <2>3 DEF BodyUses
<1>4. k \in {"Fq8", "head"} /\ k \notin {"fnorm"} \cup HeadPartUses(c) /\ k \in K
  BY HeadPartFacts
<1>5. \A x \in EndNames(c, last) : x[1] = k
  BY <1>1, NamesTell DEF EndNames
<1> HIDE DEF k, K
<1>6. EndNames(c, last) \subseteq BodyNames(c, last)
  <2>1. {k} \subseteq K
    BY <1>4
  <2> QED BY <1>2, <2>1, NamesMore DEF EndNames, k
<1>7. EndNames(c, last) \cap BodyUses(c, last) = {}
  <2>1. \A x \in AllUses(c, n) : x[1] # k
    BY <1>4, AllUsesTell
  <2>2. \A x \in Names(c, last, {"res"}) : x[1] # k
    BY <1>4, ResTells
  <2>3. \A x \in Names(c, last, {"fnorm"} \cup HeadPartUses(c)) : x[1] # k
    BY <1>1, <1>4, NamesTell
  <2> QED BY <1>3, <1>5, <2>1, <2>2, <2>3
<1>8. Names(c, last, K) \ EndNames(c, last) \subseteq BodyUses(c, last)
  <2>1. K = {k} \cup (K \ {k})
    BY <1>4
  <2>2. Names(c, last, K) = EndNames(c, last) \cup Names(c, last, K \ {k})
    BY <2>1, NamesUnion DEF EndNames, k
  <2>3. K \ {k} \subseteq {"fnorm"} \cup HeadPartUses(c)
    BY HeadPartFacts DEF K, k
  <2>4. Names(c, last, K \ {k}) \subseteq Names(c, last, {"fnorm"} \cup HeadPartUses(c))
    BY <2>3, NamesMore
  <2> QED BY <1>3, <2>2, <2>4
<1>9. AllNames(c, n) \subseteq BodyUses(c, last)
  <2> SUFFICES ASSUME NEW l \in 1 .. n
               PROVE  Names(c, l, LayerNames(c, l)) \subseteq BodyUses(c, last)
    BY DEF AllNames
  <2>1. LayerNames(c, l) = {"out"} \cup (LayerNames(c, l) \ {"out"})
    BY LayerFacts
  <2>2. Names(c, l, LayerNames(c, l))
          = Names(c, l, {"out"}) \cup Names(c, l, LayerNames(c, l) \ {"out"})
    BY <2>1, NamesUnion
  <2>3. Names(c, l, LayerNames(c, l) \ {"out"}) \subseteq BodyUses(c, last)
    <3>1. LayerNames(c, l) \ {"out"} \subseteq LayerUses(c, l)
      BY DEF LayerUses
    <3>2. Names(c, l, LayerNames(c, l) \ {"out"}) \subseteq Names(c, l, LayerUses(c, l))
      BY <3>1, NamesMore
    <3> QED BY <1>3, <3>2 DEF AllUses
  <2>4. PICK m \in 1 .. last : m = l + 1 /\ m # 1 /\ m - 1 = l
    BY <1>0
  <2>5. Names(c, m, {"res"}) = Names(c, l, {"out"})
    BY <2>4, NamesRes
  <2>6. Names(c, m, {"res"}) \subseteq BodyUses(c, last)
    <3>1. CASE m = last
      BY <1>3, <3>1
    <3>2. CASE m # last
      <4>1. m \in 1 .. n
        BY <1>0, <3>2
      <4>2. {"res"} \subseteq LayerUses(c, m)
        BY DEF LayerUses
      <4>3. Names(c, m, {"res"}) \subseteq Names(c, m, LayerUses(c, m))
        BY <4>2, NamesMore
      <4> QED BY <1>3, <4>1, <4>3 DEF AllUses
    <3> QED BY <3>1, <3>2
  <2> QED BY <2>2, <2>3, <2>5, <2>6
<1>10. \A x \in BodyNames(c, last) : x[1] # "done"
  <2>1. \A x \in Names(c, last, K) : x[1] \in K
    BY <1>1, NamesTell
  <2>2. "done" \notin K
    BY HeadPartFacts DEF K
  <2> QED BY <1>2, <2>1, <2>2, AllNamesTell
<1> QED
  BY <1>2, <1>4, <1>5, <1>6, <1>7, <1>8, <1>9, <1>10

--------------------------------------------------------------------------------
(* The whole script: n calls and the terminal, which waits for E.          *)

FollowsNames(S, i) ==
  \A x \in Used(S[i]) : \E j \in 1 .. i - 1 : x \in S[j].names

ScriptOK(S, n, E) ==
  /\ n \in Nat /\ IsSequence(S) /\ Len(S) = n + 1
  /\ \A i \in 1 .. n : IsCall(S[i])
  /\ \A i \in 1 .. n + 1 : FollowsNames(S, i)
  /\ \A i, j \in 1 .. n + 1 : i # j => S[i].names \cap S[j].names = {}
  /\ \A i \in 1 .. n : \A x \in S[i].names :
       x \in E \/ \E j \in 1 .. n : x \in Used(S[j])
  /\ \A i \in 1 .. n : Used(S[i]) \cap E = {}
  /\ \A i \in 1 .. n : \A x \in S[i].names \cap E : S[i].names = {x}

TerminalOK(it, E) ==
  /\ it.kind = "terminal" /\ it.names = {<<"done", 0, 0>>}
  /\ Used(it) = E
  /\ \E m \in Nat : DOMAIN it.deps = 1 .. m
  /\ \A i, j \in DOMAIN it.deps : it.deps[i] = it.deps[j] => i = j

LEMMA TerminalIsOK ==
  ASSUME NEW c, IsConfig(c), NEW last, last = Len(c.layers) + 1
  PROVE  \E it : TerminalCall(c) = <<it>> /\ TerminalOK(it, EndNames(c, last))
<1> DEFINE ds == IF c.cert THEN HeadDeps(c) ELSE << <<"head", last, 0>> >>
           it == [names |-> {<<"done", 0, 0>>}, kind |-> "terminal", deps |-> ds,
                  reads |-> {}, writes |-> {}, pos |-> 0]
<1>0. c.m \in Nat \ {0} /\ c.m \in Nat
  BY ConfigFacts
<1>1. TerminalCall(c) = <<it>>
  BY DEF TerminalCall, Call
<1>2. it.kind = "terminal" /\ it.names = {<<"done", 0, 0>>} /\ it.deps = ds
  OBVIOUS
<1>3. Waits(ds, EndNames(c, last))
  <2>1. CASE c.cert
    BY <1>0, <2>1, WaitsHeadDeps DEF EndNames, EndKind
  <2>2. CASE ~c.cert
    <3>1. EndNames(c, last) = {<<"head", last, 0>>}
      BY <1>0, <2>2, NamesForAll DEF EndNames, EndKind, ForAll
    <3> QED BY <2>2, <3>1, WaitsOne
  <2> QED BY <2>1, <2>2
<1>4. ASSUME NEW i \in DOMAIN ds, NEW j \in DOMAIN ds, ds[i] = ds[j]
      PROVE  i = j
  <2>1. CASE c.cert
    BY <1>4, <2>1 DEF HeadDeps
  <2>2. CASE ~c.cert
    <3> DEFINE s == << <<"head", last, 0>> >>
    <3>1. DOMAIN s = 1 .. 1 /\ 1 .. 1 = {1}
      OBVIOUS
    <3> QED BY <1>4, <2>2, <3>1
  <2> QED BY <2>1, <2>2
<1> HIDE DEF ds, it
<1>5. Used(it) = EndNames(c, last) /\ \E m \in Nat : DOMAIN it.deps = 1 .. m
  BY <1>2, <1>3 DEF Waits, Used
<1>6. TerminalOK(it, EndNames(c, last))
  BY <1>2, <1>4, <1>5 DEF TerminalOK
<1> QED
  BY <1>1, <1>6

LEMMA ScriptIsBody ==
  ASSUME NEW c
  PROVE  Script(c) = Cat(Body(c), TerminalCall(c))
<1>1. PICK L, F, H, T : /\ L = ForEach(Len(c.layers), LAMBDA l : Layer(c, l))
                        /\ F = FinalNorm(c) /\ T = TerminalCall(c)
                        /\ H = IF c.cert THEN <<>> ELSE HeadDot(c)
  OBVIOUS
<1>2. Script(c) = ((L \o F) \o H) \o T
  BY <1>1 DEF Script
<1>3. Body(c) = (L \o F) \o H
  BY <1>1 DEF Body, Cat, LayersOf, HeadPart
<1> QED
  BY <1>1, <1>2, <1>3 DEF Cat

LEMMA ScriptShape ==
  ASSUME NEW c, IsConfig(c)
  PROVE  \E n, E : /\ ScriptOK(Script(c), n, E)
                   /\ TerminalOK(Script(c)[n + 1], E)
<1>1. PICK last : last = Len(c.layers) + 1
  OBVIOUS
<1>2. PICK B, T, S, n, E : /\ B = Body(c) /\ T = TerminalCall(c) /\ S = Script(c)
                           /\ n = Len(B) /\ E = EndNames(c, last)
  OBVIOUS
<1>3. PICK N, U : N = BodyNames(c, last) /\ U = BodyUses(c, last)
  OBVIOUS
<1>4. Piece(B, {}, N, U)
  BY <1>1, <1>2, <1>3, BodyPiece
<1>5. /\ E \subseteq N /\ E \cap U = {} /\ N \ E \subseteq U
      /\ \A x \in N : x[1] # "done"
      /\ \A x \in E : x[1] \in {"Fq8", "head"}
  BY <1>1, <1>2, <1>3, BodyEnds
<1>6. PICK it : T = <<it>> /\ TerminalOK(it, E)
  BY <1>1, <1>2, TerminalIsOK
<1>7. IsSequence(T) /\ Len(T) = 1 /\ T[1] = it
  <2>1. T \in Seq({it}) /\ Len(T) = 1 /\ T[1] = it
    BY <1>6
  <2> QED BY <2>1 DEF IsSequence
<1>8. S = Cat(B, T)
  BY <1>2, ScriptIsBody
<1>9. Joins(S, B, T, n, 1)
  BY <1>2, <1>4, <1>7, <1>8, ConcatJoins DEF Piece
<1>10. /\ n \in Nat /\ IsSequence(S) /\ Len(S) = n + 1
       /\ \A i \in 1 .. n : S[i] = B[i]
       /\ S[n + 1] = it
       /\ \A i \in 1 .. n + 1 : i \in 1 .. n \/ i = n + 1
  <2>1. 1 \in 1 .. 1 /\ \A k \in 1 .. 1 : k = 1
    OBVIOUS
  <2> QED BY <1>7, <1>9, <2>1 DEF Joins
<1>11. /\ \A i \in 1 .. n : B[i].names \subseteq N /\ Used(B[i]) \subseteq U
       /\ \A x \in N : \E i \in 1 .. n : x \in B[i].names
       /\ \A x \in U : \E i \in 1 .. n : x \in Used(B[i])
  BY <1>2, <1>4 DEF Piece, NamesOf, UsesOf
<1>12. \A i \in 1 .. n : /\ IsCall(B[i]) /\ FollowsNames(B, i)
                         /\ \A j \in 1 .. n : i # j => B[i].names \cap B[j].names = {}
  BY <1>2, <1>4 DEF Piece, FollowsNames
<1>13. \A i \in 1 .. n : IsCall(S[i])
  BY <1>10, <1>12
<1>14. ASSUME NEW i \in 1 .. n + 1  PROVE FollowsNames(S, i)
  <2>1. CASE i \in 1 .. n
    <3>1. \A j \in 1 .. i - 1 : j \in 1 .. n
      BY <1>10, <2>1
    <3>2. \A j \in 1 .. i - 1 : S[j] = B[j]
      BY <1>10, <3>1
    <3>3. S[i] = B[i] /\ FollowsNames(B, i)
      BY <1>10, <1>12, <2>1
    <3> QED BY <3>2, <3>3 DEF FollowsNames
  <2>2. CASE i = n + 1
    <3>1. i - 1 = n /\ Used(S[i]) = E
      BY <1>6, <1>10, <2>2 DEF TerminalOK
    <3> QED BY <1>5, <1>10, <1>11, <3>1 DEF FollowsNames
  <2> QED BY <1>10, <2>1, <2>2
<1>15. ASSUME NEW i \in 1 .. n + 1, NEW j \in 1 .. n + 1, i # j
       PROVE  S[i].names \cap S[j].names = {}
  <2>1. S[n + 1].names = {<<"done", 0, 0>>}
    BY <1>6, <1>10 DEF TerminalOK
  <2>2. <<"done", 0, 0>> \notin N
    <3>1. <<"done", 0, 0>>[1] = "done"
      OBVIOUS
    <3> QED BY <1>5, <3>1
  <2>3. \A k \in 1 .. n : S[k].names \subseteq N
    BY <1>10, <1>11
  <2>4. CASE i \in 1 .. n /\ j \in 1 .. n
    BY <1>10, <1>12, <1>15, <2>4
  <2>5. CASE i = n + 1 /\ j \in 1 .. n
    BY <2>1, <2>2, <2>3, <2>5
  <2>6. CASE j = n + 1 /\ i \in 1 .. n
    BY <2>1, <2>2, <2>3, <2>6
  <2> QED BY <1>10, <1>15, <2>4, <2>5, <2>6
<1>16. ASSUME NEW i \in 1 .. n, NEW x \in S[i].names
       PROVE  x \in E \/ \E j \in 1 .. n : x \in Used(S[j])
  <2>1. x \in N
    BY <1>10, <1>11
  <2> QED BY <1>5, <1>10, <1>11, <2>1
<1>17. \A i \in 1 .. n : Used(S[i]) \cap E = {}
  BY <1>5, <1>10, <1>11
<1>18. \A i \in 1 .. n : \A x \in S[i].names \cap E : S[i].names = {x}
  BY <1>5, <1>13 DEF IsCall
<1>19. ScriptOK(S, n, E)
  BY <1>10, <1>13, <1>14, <1>15, <1>16, <1>17, <1>18 DEF ScriptOK
<1> QED
  BY <1>2, <1>6, <1>10, <1>19

--------------------------------------------------------------------------------
(* The builder.                                                            *)

NamedBy(S, k) == UNION { S[i].names : i \in 1 .. k }
UsedBy(S, k) == UNION { Used(S[i]) : i \in 1 .. k }

(* The graph after k calls: a task without consumers is one that a call    *)
(* stands for and no call waits for yet, and the terminal's producers are  *)
(* such tasks, each of them with a name of its own.                        *)
Built(g, names, S, E, k) ==
  /\ Good(g)
  /\ DOMAIN names = NamedBy(S, k)
  /\ \A x \in NamedBy(S, k) : Legal(g, names[x])
  /\ \A t \in TaskIds(g) : IsSink(g, t) =>
       \E x \in NamedBy(S, k) \ UsedBy(S, k) : names[x] = t
  /\ \A x \in NamedBy(S, k) \cap E :
       /\ IsSink(g, names[x])
       /\ \A y \in NamedBy(S, k) : names[y] = names[x] => y = x

(* The graph that freeze() is given.                                       *)
Finished(g) ==
  /\ Good(g)
  /\ \E z \in TaskIds(g) : /\ g.tasks[z] = Signal
                           /\ \A t \in TaskIds(g) : IsSink(g, t) <=> t = z

NamesAfter(names, it, sig) ==
  [x \in DOMAIN names \cup it.names |-> IF x \in it.names THEN sig ELSE names[x]]

LEMMA NamedByNext ==
  ASSUME NEW S, NEW k \in Nat
  PROVE  /\ NamedBy(S, k + 1) = NamedBy(S, k) \cup S[k + 1].names
         /\ UsedBy(S, k + 1) = UsedBy(S, k) \cup Used(S[k + 1])
<1>1. 1 .. k + 1 = 1 .. k \cup {k + 1}
  OBVIOUS
<1> QED
  BY <1>1 DEF NamedBy, UsedBy

LEMMA CallBuilt ==
  ASSUME NEW S, NEW n, NEW E, ScriptOK(S, n, E),
         NEW k \in Nat, NEW k1, k1 = k + 1, k1 \in 1 .. n,
         NEW g, NEW names, Built(g, names, S, E, k),
         NEW it, it = S[k1], NEW P, P = { names[x] : x \in Used(it) },
         NEW h, NEW sig, Called(g, h, sig, P),
         NEW names2, names2 = NamesAfter(names, it, sig)
  PROVE  Built(h, names2, S, E, k1)
<1>1. PICK N, U : N = NamedBy(S, k) /\ U = UsedBy(S, k)
  OBVIOUS
<1>2. NamedBy(S, k1) = N \cup it.names /\ UsedBy(S, k1) = U \cup Used(it)
  BY <1>1, NamedByNext
<1>3. /\ Good(g) /\ DOMAIN names = N
      /\ \A x \in N : Legal(g, names[x])
      /\ \A t \in TaskIds(g) : IsSink(g, t) => \E x \in N \ U : names[x] = t
      /\ \A x \in N \cap E : /\ IsSink(g, names[x])
                             /\ \A y \in N : names[y] = names[x] => y = x
  BY <1>1 DEF Built
<1>4. /\ Good(h)
      /\ \A q : Legal(g, q) => Legal(h, q)
      /\ \A t \in TaskIds(g) \ Relays(g) :
           t \notin P => t \notin Relays(h) /\ h.consumers[t] = g.consumers[t]
      /\ sig \in TaskIds(h) \ TaskIds(g) /\ Legal(h, sig) /\ IsSink(h, sig)
      /\ \A t \in TaskIds(h) : IsSink(h, t) =>
           t = sig \/ (t \in TaskIds(g) /\ IsSink(g, t) /\ t \notin P)
  BY DEF Called, Extends
<1>5. /\ DOMAIN names2 = N \cup it.names
      /\ \A x \in it.names : names2[x] = sig
      /\ \A x \in N \ it.names : names2[x] = names[x]
  BY <1>3 DEF NamesAfter
<1>6. N \cap it.names = {} /\ UsedBy(S, k1) \cap it.names = {}
  <2>1. \A i \in 1 .. k : i \in 1 .. n + 1 /\ i # k1 /\ k1 \in 1 .. n + 1
    BY DEF ScriptOK
  <2>2. \A i \in 1 .. k : S[i].names \cap it.names = {}
    BY <2>1 DEF ScriptOK
  <2>3. N \cap it.names = {}
    BY <1>1, <2>2 DEF NamedBy
  <2>4. ASSUME NEW i \in 1 .. k1, NEW x \in Used(S[i])  PROVE x \notin it.names
    <3>1. i \in 1 .. n + 1 /\ k1 \in 1 .. n + 1
      BY DEF ScriptOK
    <3>2. PICK j \in 1 .. i - 1 : x \in S[j].names
      BY <3>1 DEF ScriptOK, FollowsNames
    <3>3. j \in 1 .. k
      BY <3>1
    <3> QED BY <2>2, <3>2, <3>3
  <2>5. UsedBy(S, k1) \cap it.names = {}
    BY <2>4 DEF UsedBy
  <2> QED BY <2>3, <2>5
<1>7. \A x \in N : names2[x] = names[x] /\ names[x] \in TaskIds(g)
  BY <1>3, <1>5, <1>6 DEF Legal
<1>8. it.names # {} /\ Used(it) \cap E = {} /\ \A x \in it.names \cap E : it.names = {x}
  BY DEF ScriptOK, IsCall
<1>9. \A x \in N \cup it.names : Legal(h, names2[x])
  BY <1>3, <1>4, <1>5, <1>7
<1>10. ASSUME NEW t \in TaskIds(h), IsSink(h, t)
       PROVE  \E x \in (N \cup it.names) \ (U \cup Used(it)) : names2[x] = t
  <2>1. CASE t = sig
    <3>1. PICK x \in it.names : TRUE
      BY <1>8
    <3>2. x \notin U \cup Used(it)
      BY <1>2, <1>6
    <3> QED BY <1>5, <2>1, <3>2
  <2>2. CASE t # sig
    <3>1. t \in TaskIds(g) /\ IsSink(g, t) /\ t \notin P
      BY <1>4, <1>10, <2>2
    <3>2. PICK x \in N \ U : names[x] = t
      BY <1>3, <3>1
    <3>3. x \notin Used(it)
      BY <3>1, <3>2
    <3> QED BY <1>7, <3>2, <3>3
  <2> QED BY <2>1, <2>2
<1>11. ASSUME NEW x \in (N \cup it.names) \cap E
       PROVE  /\ IsSink(h, names2[x])
              /\ \A y \in N \cup it.names : names2[y] = names2[x] => y = x
  <2>1. CASE x \in it.names
    <3>1. names2[x] = sig /\ it.names = {x}
      BY <1>5, <1>8, <1>11, <2>1
    <3>2. \A y \in N : names2[y] # sig
      BY <1>4, <1>7
    <3> QED BY <1>4, <3>1, <3>2
  <2>2. CASE x \notin it.names
    <3>1. x \in N \cap E /\ names2[x] = names[x]
      BY <1>7, <1>11, <2>2
    <3>2. names[x] \notin P
      <4> SUFFICES ASSUME NEW y \in Used(it), names[y] = names[x]  PROVE FALSE
        OBVIOUS
      <4>1. k1 \in 1 .. n + 1 /\ k1 - 1 = k
        BY DEF ScriptOK
      <4>2. PICK j \in 1 .. k : y \in S[j].names
        BY <4>1 DEF ScriptOK, FollowsNames
      <4>3. y \in N
        BY <1>1, <4>2 DEF NamedBy
      <4>4. y = x
        BY <1>3, <3>1, <4>3
      <4> QED BY <1>8, <3>1, <4>4
    <3>3. names[x] \in TaskIds(g) \ Relays(g) /\ IsSink(g, names[x])
      BY <1>3, <3>1 DEF Legal
    <3>4. IsSink(h, names[x])
      BY <1>4, <3>2, <3>3 DEF IsSink
    <3>5. \A y \in it.names : names2[y] # names2[x]
      BY <1>4, <1>5, <3>1, <3>3
    <3>6. \A y \in N : names2[y] = names2[x] => y = x
      BY <1>3, <1>7, <3>1
    <3> QED BY <3>1, <3>4, <3>5, <3>6
  <2> QED BY <2>1, <2>2
<1> QED
  BY <1>2, <1>4, <1>5, <1>9, <1>10, <1>11 DEF Built

LEMMA TerminalOfSinks ==
  ASSUME NEW g, Good(g), NEW ids, NEW m, FreeSinks(g, ids, m),
         NEW P, P = { ids[i] : i \in 1 .. m },
         \A t \in TaskIds(g) : IsSink(g, t) => t \in P,
         NEW op, op = AddTerminal(g, ids)
  PROVE  Finished(op.graph) /\ Closes(g, op.graph, op.sig, P)
<1>2. Closes(g, op.graph, op.sig, P)
  BY AddTerminalCalled
<1>3. PICK h, z : h = op.graph /\ z = op.sig
  OBVIOUS
<1>4. Called(g, h, z, P) /\ h.tasks[z] = Signal
  BY <1>2, <1>3 DEF Closes, Called
<1>5. /\ Good(h) /\ z \in TaskIds(h) /\ IsSink(h, z)
      /\ \A t \in TaskIds(h) : IsSink(h, t) =>
           t = z \/ (t \in TaskIds(g) /\ IsSink(g, t) /\ t \notin P)
  BY <1>4 DEF Called, Extends
<1>6. Finished(h)
  BY <1>4, <1>5 DEF Finished
<1> QED
  BY <1>2, <1>3, <1>6

LEMMA TerminalBuilt ==
  ASSUME NEW S, NEW n, NEW E, ScriptOK(S, n, E),
         NEW it, it = S[n + 1], TerminalOK(it, E),
         NEW g, NEW names, Built(g, names, S, E, n),
         NEW ids, ids = [i \in DOMAIN it.deps |-> names[it.deps[i]]],
         NEW op, op = AddTerminal(g, ids), NEW P, P = { names[x] : x \in Used(it) }
  PROVE  Finished(op.graph) /\ Closes(g, op.graph, op.sig, P)
<1>1. PICK N, U : N = NamedBy(S, n) /\ U = UsedBy(S, n)
  OBVIOUS
<1>2. /\ Good(g) /\ DOMAIN names = N
      /\ \A x \in N : Legal(g, names[x])
      /\ \A t \in TaskIds(g) : IsSink(g, t) => \E x \in N \ U : names[x] = t
      /\ \A x \in N \cap E : /\ IsSink(g, names[x])
                             /\ \A y \in N : names[y] = names[x] => y = x
  BY <1>1 DEF Built
<1>3. N \ U \subseteq E
  <2>1. \A i \in 1 .. n : \A x \in S[i].names : x \in E \/ \E j \in 1 .. n : x \in Used(S[j])
    BY DEF ScriptOK
  <2> QED BY <1>1, <2>1 DEF NamedBy, UsedBy
<1>4. E \subseteq N
  <2>1. n + 1 \in 1 .. n + 1 /\ (n + 1) - 1 = n
    BY DEF ScriptOK
  <2>2. \A x \in Used(it) : \E j \in 1 .. n : x \in S[j].names
    BY <2>1 DEF ScriptOK, FollowsNames
  <2> QED BY <1>1, <2>2 DEF TerminalOK, NamedBy
<1>5. PICK m \in Nat : DOMAIN it.deps = 1 .. m
  BY DEF TerminalOK
<1>6. \A i \in 1 .. m : it.deps[i] \in E /\ ids[i] = names[it.deps[i]]
  BY <1>5 DEF TerminalOK, Used
<1>7. DOMAIN ids = 1 .. m
  BY <1>5
<1>8. \A i \in 1 .. m : Legal(g, ids[i]) /\ IsSink(g, ids[i])
  BY <1>2, <1>4, <1>6
<1>9. \A i, j \in 1 .. m : ids[i] = ids[j] => i = j
  <2> SUFFICES ASSUME NEW i \in 1 .. m, NEW j \in 1 .. m, ids[i] = ids[j]
               PROVE  i = j
    OBVIOUS
  <2>1. it.deps[i] = it.deps[j]
    BY <1>2, <1>4, <1>6
  <2> QED BY <1>5, <2>1 DEF TerminalOK
<1>10. P = { ids[i] : i \in 1 .. m }
  <2>1. Used(it) = { it.deps[i] : i \in 1 .. m }
    BY <1>5 DEF Used
  <2> QED BY <1>6, <2>1
<1>11. FreeSinks(g, ids, m)
  BY <1>7, <1>8, <1>9 DEF FreeSinks
<1>12. \A t \in TaskIds(g) : IsSink(g, t) => t \in P
  <2> SUFFICES ASSUME NEW t \in TaskIds(g), IsSink(g, t)  PROVE t \in P
    OBVIOUS
  <2>1. PICK x \in N \ U : names[x] = t
    BY <1>2
  <2>2. x \in Used(it)
    BY <1>3, <2>1 DEF TerminalOK
  <2>3. PICK i \in 1 .. m : it.deps[i] = x
    BY <1>5, <2>2 DEF Used
  <2> QED BY <1>6, <1>10, <2>1, <2>3
<1>13. PICK jds : jds = ids
  OBVIOUS
<1>14. FreeSinks(g, jds, m) /\ P = { jds[i] : i \in 1 .. m } /\ Good(g)
  <2>1. FreeSinks(g, jds, m)
    BY <1>11, <1>13
  <2>2. \A i \in 1 .. m : jds[i] = ids[i]
    BY <1>13
  <2>3. { ids[i] : i \in 1 .. m } = { jds[i] : i \in 1 .. m }
    BY ONLY <2>2
  <2> QED BY <1>2, <1>10, <2>1, <2>3
<1>15. op = AddTerminal(g, jds)
  BY <1>13
<1> HIDE <1>13
<1> QED
  BY <1>12, <1>14, <1>15, TerminalOfSinks

LEMMA EmptyGraphIsGood ==
  Good(EmptyGraph) /\ TaskIds(EmptyGraph) = {}
<1> DEFINE g == EmptyGraph
<1>1. /\ DOMAIN g = {"tasks", "consumers", "depInit", "ports", "died"}
      /\ g.tasks = <<>> /\ g.consumers = <<>> /\ g.depInit = <<>>
      /\ g.ports = <<>> /\ g.died = FALSE
  BY DEF EmptyGraph
<1> HIDE DEF g
<1>2. TaskIds(g) = {}
  <2>1. Len(g.tasks) = 0
    BY <1>1, EmptySequence
  <2> QED BY <2>1 DEF TaskIds
<1>3. Shape(g)
  BY <1>1, <1>2, EmptySequence DEF Shape, IsSequence
<1>4. Counts(g) /\ Acyclic(g)
  BY <1>2 DEF Counts, Acyclic
<1>5. <<>> = [p \in DOMAIN <<>> |-> <<>>[p]]
  <2>1. <<>> \in Seq({}) /\ Len(<<>>) = 0
    BY EmptySequence
  <2>2. <<>> \in [1 .. 0 -> {}]
    BY <2>1
  <2> QED BY <2>2
<1>6. PortsOK(g)
  BY <1>1, <1>5, EmptySequence DEF PortsOK
<1> QED
  BY <1>1, <1>2, <1>3, <1>4, <1>6 DEF Good, Base, g

(* What is left of the script S after k of its n + 1 calls.                *)
Rest(rest, S, n, k) ==
  /\ IsSequence(rest) /\ Len(rest) = (n + 1) - k
  /\ \A i \in 1 .. (n + 1) - k : rest[i] = S[k + i]

Building(S, n, E, k) ==
  /\ ScriptOK(S, n, E) /\ TerminalOK(S[n + 1], E)
  /\ k \in Nat /\ k <= n
  /\ Rest(todo, S, n, k) /\ Built(graph, sigs, S, E, k)

(* The graph is what the calls made so far promise, or finished.           *)
BuildInv ==
  /\ config \in Configs
  /\ \/ pc = "build" /\ \E S, n, E, k : Building(S, n, E, k)
     \/ todo = <<>> /\ Finished(graph)

LEMMA InitBuilds ==
  Init => BuildInv
<1> SUFFICES ASSUME Init  PROVE BuildInv
  OBVIOUS
<1>1. /\ config \in Configs /\ pc = "build" /\ todo = Script(config)
      /\ graph = EmptyGraph /\ sigs = <<>>
  BY DEF Init
<1>2. IsConfig(config)
  BY <1>1, ConfigAssumption
<1>3. PICK S : S = Script(config)
  OBVIOUS
<1>4. PICK n, E : ScriptOK(S, n, E) /\ TerminalOK(S[n + 1], E)
  BY <1>2, <1>3, ScriptShape
<1>5. n \in Nat /\ IsSequence(S) /\ Len(S) = n + 1
  BY <1>4 DEF ScriptOK
<1>6. Rest(todo, S, n, 0)
  <2>1. (n + 1) - 0 = n + 1 /\ \A i \in 1 .. n + 1 : 0 + i = i
    BY <1>5
  <2> QED BY <1>1, <1>3, <1>5, <2>1 DEF Rest
<1>7. Built(graph, sigs, S, E, 0)
  <2>1. NamedBy(S, 0) = {} /\ DOMAIN sigs = {}
    <3>1. 1 .. 0 = {}
      OBVIOUS
    <3> QED BY <1>1, <3>1, EmptySequence DEF NamedBy
  <2> QED BY <1>1, <2>1, EmptyGraphIsGood DEF Built
<1>8. Building(S, n, E, 0)
  BY <1>4, <1>5, <1>6, <1>7 DEF Building
<1> QED
  BY <1>1, <1>8 DEF BuildInv

LEMMA RestNext ==
  ASSUME NEW n \in Nat, NEW k \in Nat, k <= n, NEW S, NEW rest, Rest(rest, S, n, k)
  PROVE  /\ rest # <<>> /\ Head(rest) = S[k + 1]
         /\ Rest(Tail(rest), S, n, k + 1)
         /\ k = n => Tail(rest) = <<>>
<1>1. PICK A : rest \in Seq(A)
  BY DEF Rest, IsSequence
<1>2. PICK r \in Nat : r = (n + 1) - k /\ r # 0 /\ (n + 1) - (k + 1) = r - 1
  <2>1. (n + 1) - k \in Nat /\ (n + 1) - k # 0 /\ (n + 1) - (k + 1) = ((n + 1) - k) - 1
    OBVIOUS
  <2> QED BY <2>1
<1>3. Len(rest) = r /\ \A i \in 1 .. r : rest[i] = S[k + i]
  BY <1>2 DEF Rest
<1>4. rest # <<>>
  BY <1>2, <1>3, EmptySequence
<1>5. Head(rest) = rest[1] /\ Tail(rest) \in Seq(A) /\ Len(Tail(rest)) = r - 1
      /\ \A i \in 1 .. r - 1 : Tail(rest)[i] = rest[i + 1]
  BY <1>1, <1>3, <1>4, HeadTailProperties
<1>6. Head(rest) = S[k + 1]
  BY <1>2, <1>3, <1>5
<1>7. PICK q : q = Tail(rest)
  OBVIOUS
<1>8. ASSUME NEW i \in 1 .. r - 1  PROVE q[i] = S[(k + 1) + i]
  <2>1. i + 1 \in 1 .. r /\ k + (i + 1) = (k + 1) + i
    BY <1>2
  <2> QED BY <1>3, <1>5, <1>7, <2>1
<1>9. Rest(q, S, n, k + 1)
  BY <1>2, <1>5, <1>7, <1>8 DEF Rest, IsSequence
<1>10. k = n => q = <<>>
  <2> SUFFICES ASSUME k = n  PROVE q = <<>>
    OBVIOUS
  <2>1. r = 1
    BY <1>2
  <2>2. q \in Seq(A) /\ Len(q) = 0
    BY <1>5, <1>7, <2>1
  <2> QED BY <2>2, EmptySeq
<1> QED
  BY <1>4, <1>6, <1>7, <1>9, <1>10

LEMMA MadeCalled ==
  ASSUME NEW it, IsCall(it), Good(graph), config.tiles \in Nat \ {0},
         \A x \in Used(it) : Legal(graph, sigs[x]),
         NEW P, P = { sigs[x] : x \in Used(it) }
  PROVE  Called(graph, Made(it).graph, Made(it).sig, P)
<1>1. PICK n \in Nat : DOMAIN it.deps = 1 .. n
  BY DEF IsCall
<1>2. PICK ids, task :
        /\ ids = [i \in DOMAIN it.deps |-> sigs[it.deps[i]]]
        /\ task = [kind |-> it.kind, reads |-> it.reads, writes |-> it.writes,
                   part |-> 0, pos |-> it.pos]
  OBVIOUS
<1>3. /\ DOMAIN ids = 1 .. n /\ \A i \in 1 .. n : ids[i] = sigs[it.deps[i]]
      /\ P = { ids[i] : i \in 1 .. n }
  <2>1. DOMAIN ids = 1 .. n /\ \A i \in 1 .. n : ids[i] = sigs[it.deps[i]]
    BY <1>1, <1>2
  <2>2. { sigs[x] : x \in Used(it) } = { sigs[it.deps[i]] : i \in 1 .. n }
    BY <1>1 DEF Used
  <2>3. { sigs[it.deps[i]] : i \in 1 .. n } = { ids[i] : i \in 1 .. n }
    BY <2>1
  <2> QED BY <2>1, <2>2, <2>3
<1>4. \A i \in 1 .. n : Legal(graph, ids[i])
  BY <1>1, <1>3 DEF Used
<1>5. CASE it.kind = "op"
  <2>1. PICK op : op = AddOp(graph, task, ids)
    OBVIOUS
  <2>2. Made(it) = op
    BY <1>2, <1>5, <2>1 DEF Made
  <2>3. Called(graph, op.graph, op.sig, P)
    BY <1>3, <1>4, <2>1, AddOpCalled
  <2> QED BY <2>2, <2>3
<1>6. CASE it.kind = "dot"
  <2>1. PICK t, op : t = config.tiles /\ op = AddDot(graph, task, t, ids)
    OBVIOUS
  <2>2. Made(it) = op
    BY <1>2, <1>6, <2>1 DEF Made
  <2>3. Called(graph, op.graph, op.sig, P)
    BY <1>3, <1>4, <2>1, AddDotCalled
  <2> QED BY <2>2, <2>3
<1>7. CASE it.kind = "signal"
  <2>1. PICK op : op = AddOp(graph, Signal, ids)
    OBVIOUS
  <2>2. Made(it) = op
    BY <1>2, <1>7, <2>1 DEF Made
  <2>3. Called(graph, op.graph, op.sig, P)
    BY <1>3, <1>4, <2>1, AddOpCalled
  <2> QED BY <2>2, <2>3
<1> QED
  BY <1>5, <1>6, <1>7 DEF IsCall

LEMMA MadeTerminal ==
  ASSUME NEW it, it.kind = "terminal"
  PROVE  Made(it) = AddTerminal(graph, [i \in DOMAIN it.deps |-> sigs[it.deps[i]]])
BY DEF Made

LEMMA UsedIsLegal ==
  ASSUME NEW S, NEW n, NEW E, ScriptOK(S, n, E), NEW k \in Nat, k + 1 \in 1 .. n,
         NEW g, NEW names, Built(g, names, S, E, k)
  PROVE  Good(g) /\ \A x \in Used(S[k + 1]) : Legal(g, names[x])
<1>1. k + 1 \in 1 .. n + 1 /\ (k + 1) - 1 = k
  BY DEF ScriptOK
<1>2. \A x \in Used(S[k + 1]) : \E j \in 1 .. k : x \in S[j].names
  BY <1>1 DEF ScriptOK, FollowsNames
<1> QED
  BY <1>2 DEF Built, NamedBy

LEMMA BuildBuilds ==
  ASSUME BuildInv, Build
  PROVE  BuildInv'
<1>1. /\ pc = "build" /\ todo # <<>> /\ config' = config /\ todo' = Tail(todo)
      /\ graph' = Made(Head(todo)).graph
      /\ sigs' = NamesAfter(sigs, Head(todo), Made(Head(todo)).sig)
      /\ pc' = IF Made(Head(todo)).graph.died THEN "died" ELSE pc
  BY DEF Build, NamesAfter
<1>2. PICK S, n, E, k : Building(S, n, E, k)
  BY <1>1 DEF BuildInv
<1>3. config \in Configs /\ config.tiles \in Nat \ {0}
  <2>1. config \in Configs
    BY DEF BuildInv
  <2>2. IsConfig(config)
    BY <2>1, ConfigAssumption
  <2> QED BY <2>1, <2>2, ConfigFacts
<1>4. /\ ScriptOK(S, n, E) /\ TerminalOK(S[n + 1], E) /\ k \in Nat /\ k <= n
      /\ Rest(todo, S, n, k) /\ Built(graph, sigs, S, E, k) /\ n \in Nat
  BY <1>2 DEF Building, ScriptOK
<1>5. /\ Head(todo) = S[k + 1] /\ Rest(Tail(todo), S, n, k + 1)
      /\ k = n => Tail(todo) = <<>>
  BY <1>4, RestNext
<1>6. PICK it : it = S[k + 1]
  OBVIOUS
<1>7. CASE k = n
  <2>1. it = S[n + 1] /\ TerminalOK(it, E) /\ it.kind = "terminal"
    BY <1>4, <1>6, <1>7 DEF TerminalOK
  <2>2. PICK ids : ids = [i \in DOMAIN it.deps |-> sigs[it.deps[i]]]
    OBVIOUS
  <2>3. Made(it) = AddTerminal(graph, ids)
    BY <2>1, <2>2, MadeTerminal
  <2>4. Built(graph, sigs, S, E, n)
    BY <1>4, <1>7
  <2>5. Finished(AddTerminal(graph, ids).graph)
    <3>1. PICK op : op = AddTerminal(graph, ids)
      OBVIOUS
    <3>2. PICK P : P = { sigs[x] : x \in Used(it) }
      OBVIOUS
    <3>3. Finished(op.graph)
      BY <1>4, <2>1, <2>2, <2>4, <3>1, <3>2, TerminalBuilt
    <3> QED BY <3>1, <3>3
  <2>6. Finished(graph')
    BY <1>1, <1>5, <1>6, <2>3, <2>5
  <2>7. todo' = <<>>
    BY <1>1, <1>5, <1>7
  <2> QED BY <1>1, <1>3, <2>6, <2>7 DEF BuildInv
<1>8. CASE k # n
  <2>1. PICK k1 \in 1 .. n : k1 = k + 1
    BY <1>4, <1>8
  <2>2. IsCall(it) /\ Good(graph) /\ \A x \in Used(it) : Legal(graph, sigs[x])
    <3>1. IsCall(it)
      BY <1>4, <1>6, <2>1 DEF ScriptOK
    <3> QED BY <1>4, <1>6, <2>1, <3>1, UsedIsLegal
  <2>3. PICK P : P = { sigs[x] : x \in Used(it) }
    OBVIOUS
  <2>4. Called(graph, Made(it).graph, Made(it).sig, P)
    BY <1>3, <2>2, <2>3, MadeCalled
  <2>5. graph' = Made(it).graph /\ sigs' = NamesAfter(sigs, it, Made(it).sig)
    BY <1>1, <1>5, <1>6
  <2>6. Called(graph, graph', Made(it).sig, P)
    BY <2>4, <2>5
  <2>7. Built(graph', sigs', S, E, k1)
    BY <1>4, <1>6, <2>1, <2>3, <2>5, <2>6, CallBuilt
  <2>8. pc' = "build"
    <3>1. Good(graph')
      BY <2>6 DEF Called, Extends
    <3> QED BY <1>1, <2>5, <1>5, <1>6, <3>1 DEF Good
  <2>9. Rest(todo', S, n, k1) /\ k1 \in Nat /\ k1 <= n
    BY <1>1, <1>4, <1>5, <2>1
  <2>10. Building(S, n, E, k1)'
    BY <1>4, <2>7, <2>9 DEF Building
  <2> QED BY <1>1, <1>3, <2>8, <2>10 DEF BuildInv
<1> QED
  BY <1>7, <1>8

LEMMA NextBuilds ==
  ASSUME BuildInv, [Next]_vars
  PROVE  BuildInv'
<1>1. CASE Build
  BY <1>1, BuildBuilds
<1>2. CASE UNCHANGED <<config, pc, todo, graph, sigs>>
  BY <1>2 DEF BuildInv, Building
<1>3. ASSUME config' = config, todo' = todo, graph' = graph,
             pc # "build" \/ todo = <<>>
      PROVE  BuildInv'
  <2>1. todo = <<>> /\ Finished(graph)
    <3>1. ASSUME NEW S, NEW n, NEW E, NEW k, Building(S, n, E, k)
          PROVE  todo # <<>>
      <4>1. Rest(todo, S, n, k) /\ n \in Nat /\ k \in Nat /\ k <= n
        BY <3>1 DEF Building, ScriptOK
      <4> QED BY <4>1, RestNext
    <3> QED BY <1>3, <3>1 DEF BuildInv
  <2> QED BY <1>3, <2>1 DEF BuildInv
<1>4. CASE BeginFreeze
  BY <1>3, <1>4 DEF BeginFreeze
<1>5. CASE FreezePop
  BY <1>3, <1>5 DEF FreezePop
<1>6. CASE EndFreeze
  BY <1>3, <1>6 DEF EndFreeze
<1>7. CASE BeginPass
  BY <1>3, <1>7 DEF BeginPass
<1>8. CASE Execute
  BY <1>3, <1>8 DEF Execute
<1>9. CASE EndPass
  BY <1>3, <1>9 DEF EndPass
<1>10. CASE UNCHANGED vars
  BY <1>2, <1>10 DEF vars
<1> QED
  BY <1>1, <1>4, <1>5, <1>6, <1>7, <1>8, <1>9, <1>10 DEF Next

LEMMA GoodIsWellFormed ==
  ASSUME NEW g, Good(g)
  PROVE  IsWellFormed(g)
BY DEF Good, Base, Shape, Counts, PortsOK, PortOK, IsWellFormed

(* Every fan-out stays within the consumer array, every countdown is the   *)
(* number of edges and every relay tree knows how full it is, after each   *)
(* call of build_graph_m, for any batch, layers, tiles, heads and options. *)
THEOREM WellFormedAlways ==
  Spec => []WellFormed
<1>1. Init => BuildInv
  BY InitBuilds
<1>2. BuildInv /\ [Next]_vars => BuildInv'
  BY NextBuilds
<1>3. BuildInv => WellFormed
  <2> SUFFICES ASSUME BuildInv, pc = "build"  PROVE IsWellFormed(graph)
    BY DEF WellFormed
  <2>1. Good(graph)
    BY DEF BuildInv, Building, Built, Finished
  <2> QED BY <2>1, GoodIsWellFormed
<1> QED
  BY <1>1, <1>2, <1>3, PTL DEF Spec

--------------------------------------------------------------------------------
(* Lists of tasks without repetition.                                      *)

Lists(s, T) ==
  /\ IsSequence(s)
  /\ T = { s[i] : i \in 1 .. Len(s) }
  /\ \A i, j \in 1 .. Len(s) : s[i] = s[j] => i = j

LEMMA ListsEmpty ==
  Lists(<<>>, {})
<1>1. IsSequence(<<>>) /\ Len(<<>>) = 0 /\ 1 .. 0 = {}
  BY EmptySequence DEF IsSequence
<1> QED
  BY <1>1 DEF Lists

LEMMA ListsNothing ==
  ASSUME NEW T, Lists(<<>>, T)
  PROVE  T = {}
<1>1. Len(<<>>) = 0 /\ 1 .. 0 = {}
  BY EmptySequence
<1> QED
  BY <1>1 DEF Lists

LEMMA ListsAppend ==
  ASSUME NEW s, NEW T, Lists(s, T), NEW x, x \notin T
  PROVE  Lists(Append(s, x), T \cup {x})
<1>1. PICK A : s \in Seq(A)
  BY DEF Lists, IsSequence
<1>2. PICK n \in Nat : n = Len(s)
  BY <1>1
<1>3. PICK q : q = Append(s, x)
  OBVIOUS
<1>4. /\ q \in Seq(A \cup {x}) /\ Len(q) = n + 1 /\ q[n + 1] = x
      /\ \A i \in 1 .. n : q[i] = s[i]
  <2>1. s \in Seq(A \cup {x}) /\ x \in A \cup {x}
    BY <1>1, SeqMonotonic
  <2> QED BY <1>2, <1>3, <2>1, AppendProperties
<1>5. T = { s[i] : i \in 1 .. n } /\ \A i, j \in 1 .. n : s[i] = s[j] => i = j
  BY <1>2 DEF Lists
<1>6. \A i \in 1 .. n + 1 : i \in 1 .. n \/ i = n + 1
  OBVIOUS
<1>7. T \cup {x} = { q[i] : i \in 1 .. n + 1 }
  BY <1>4, <1>5, <1>6
<1>8. \A i, j \in 1 .. n + 1 : q[i] = q[j] => i = j
  BY <1>4, <1>5, <1>6
<1> QED
  BY <1>3, <1>4, <1>7, <1>8 DEF Lists, IsSequence

LEMMA ListsFront ==
  ASSUME NEW s, NEW T, Lists(s, T), s # <<>>
  PROVE  Last(s) \in T /\ Lists(Front(s), T \ {Last(s)})
<1>1. PICK A : s \in Seq(A)
  BY DEF Lists, IsSequence
<1>2. PICK n \in Nat : n + 1 = Len(s)
  <2>1. Len(s) \in Nat \ {0}
    BY <1>1, EmptySeq
  <2>2. Len(s) - 1 \in Nat /\ (Len(s) - 1) + 1 = Len(s)
    BY <2>1
  <2> QED BY <2>2
<1>3. PICK q, x : q = Front(s) /\ x = Last(s)
  OBVIOUS
<1>4. x = s[n + 1] /\ q \in Seq(A) /\ Len(q) = n /\ \A i \in 1 .. n : q[i] = s[i]
  <2>1. q = SubSeq(s, 1, n) /\ x = s[n + 1]
    <3>1. Len(s) - 1 = n
      BY <1>2
    <3> QED BY <1>2, <1>3, <3>1 DEF Front, Last
  <2>2. \A i \in 1 .. n : s[i] \in A
    BY <1>1, <1>2
  <2>3. /\ q \in Seq(A) /\ Len(q) = IF 1 <= n THEN (n - 1) + 1 ELSE 0
        /\ \A i \in 1 .. ((n - 1) + 1) : q[i] = s[(1 + i) - 1]
    BY <2>1, <2>2, SubSeqProperties
  <2>4. /\ (n - 1) + 1 = n /\ (IF 1 <= n THEN (n - 1) + 1 ELSE 0) = n
        /\ \A i \in 1 .. n : (1 + i) - 1 = i
    OBVIOUS
  <2> QED BY <2>1, <2>3, <2>4
<1>5. T = { s[i] : i \in 1 .. n + 1 } /\ \A i, j \in 1 .. n + 1 : s[i] = s[j] => i = j
  BY <1>2 DEF Lists
<1>6. /\ \A i \in 1 .. n + 1 : i \in 1 .. n \/ i = n + 1
      /\ \A i \in 1 .. n : i \in 1 .. n + 1 /\ i # n + 1
      /\ n + 1 \in 1 .. n + 1
  OBVIOUS
<1>7. x \in T
  BY <1>4, <1>5, <1>6
<1>8. T \ {x} = { q[i] : i \in 1 .. n }
  <2>1. { q[i] : i \in 1 .. n } \subseteq T \ {x}
    BY <1>4, <1>5, <1>6
  <2>2. T \ {x} \subseteq { q[i] : i \in 1 .. n }
    BY <1>4, <1>5, <1>6
  <2> QED BY <2>1, <2>2
<1>9. \A i, j \in 1 .. n : q[i] = q[j] => i = j
  BY <1>4, <1>5, <1>6
<1>10. PICK U : U = T \ {x}
  OBVIOUS
<1>11. IsSequence(q) /\ U = { q[i] : i \in 1 .. n }
  BY <1>4, <1>8, <1>10 DEF IsSequence
<1>12. Lists(q, U)
  BY <1>4, <1>9, <1>11 DEF Lists
<1> QED
  BY <1>3, <1>7, <1>10, <1>12

--------------------------------------------------------------------------------
(* The loop of freeze() and run_serial().                                  *)

(* Entries of the consumer arrays of the tasks in D.                       *)
EntriesOf(g, D) ==
  { e \in TaskIds(g) \X (1 .. MaxConsumers) :
      e[1] \in D /\ e[2] \in DOMAIN g.consumers[e[1]] }

(* A countdown is the number of entries that name the task and have not    *)
(* been gone through; the tasks of D have been popped, those of rd wait.   *)
Counting(g, D, P, dp, rd) ==
  /\ DOMAIN dp = TaskIds(g) /\ D \subseteq TaskIds(g)
  /\ \A c \in TaskIds(g) : dp[c] = Cardinality(EntriesNaming(g, c) \ P)
  /\ \A c \in D : dp[c] = 0
  /\ Lists(rd, { c \in TaskIds(g) \ D : dp[c] = 0 })

LEMMA EntriesFinite ==
  ASSUME NEW g, Shape(g), NEW c, NEW P
  PROVE  IsFiniteSet(EntriesNaming(g, c) \ P)
<1>1. IsFiniteSet(TaskIds(g)) /\ IsFiniteSet(1 .. MaxConsumers)
  <2>1. Len(g.tasks) \in Int /\ MaxConsumers \in Int /\ 1 \in Int
    BY ShapeFacts DEF MaxConsumers
  <2> QED BY <2>1, FS_Interval DEF TaskIds
<1>2. IsFiniteSet(TaskIds(g) \X (1 .. MaxConsumers))
  BY <1>1, FS_Product
<1>3. EntriesNaming(g, c) \ P \subseteq TaskIds(g) \X (1 .. MaxConsumers)
  BY DEF EntriesNaming
<1> QED
  BY <1>2, <1>3, FS_Subset

LEMMA CountDownCounts ==
  ASSUME NEW g, Shape(g), NEW D, NEW P, NEW dp, NEW rd, Counting(g, D, P, dp, rd),
         NEW c \in TaskIds(g), NEW e \in EntriesNaming(g, c), e \notin P,
         NEW acc, acc.deps = dp, acc.ready = rd,
         NEW Q, Q = P \cup {e}
  PROVE  Counting(g, D, Q, CountDown(acc, c).deps, CountDown(acc, c).ready)
<1>1. PICK dq, rq : dq = CountDown(acc, c).deps /\ rq = CountDown(acc, c).ready
  OBVIOUS
<1>2. dq = [dp EXCEPT ![c] = @ - 1] /\ rq = IF dp[c] = 1 THEN Append(rd, c) ELSE rd
  BY <1>1 DEF CountDown
<1>3. /\ DOMAIN dp = TaskIds(g) /\ D \subseteq TaskIds(g)
      /\ \A x \in TaskIds(g) : dp[x] = Cardinality(EntriesNaming(g, x) \ P)
      /\ \A x \in D : dp[x] = 0
      /\ Lists(rd, { x \in TaskIds(g) \ D : dp[x] = 0 })
  BY DEF Counting
<1>4. DOMAIN dq = TaskIds(g) /\ dq[c] = dp[c] - 1 /\ \A x \in TaskIds(g) \ {c} : dq[x] = dp[x]
  BY <1>2, <1>3
<1>5. \A x \in TaskIds(g) \ {c} : EntriesNaming(g, x) \ Q = EntriesNaming(g, x) \ P
  BY DEF EntriesNaming
<1>6. PICK A : A = EntriesNaming(g, c) \ P
  OBVIOUS
<1>7. e \in A /\ EntriesNaming(g, c) \ Q = A \ {e} /\ IsFiniteSet(A)
  BY <1>6, EntriesFinite
<1>8. dp[c] = Cardinality(A)
  BY <1>3, <1>6
<1>9. Cardinality(A) \in Nat \ {0} /\ Cardinality(A \ {e}) = Cardinality(A) - 1
  BY <1>7, FS_RemoveElement, FS_EmptySet, FS_CardinalityType
<1>10. \A x \in TaskIds(g) : dq[x] = Cardinality(EntriesNaming(g, x) \ Q)
  BY <1>3, <1>4, <1>5, <1>7, <1>8, <1>9
<1>11. dp[c] # 0 /\ dp[c] \in Nat
  BY <1>8, <1>9
<1>12. c \notin D
  BY <1>3, <1>11
<1>13. \A x \in D : dq[x] = 0
  BY <1>3, <1>4, <1>12
<1>14. PICK R : R = { x \in TaskIds(g) \ D : dp[x] = 0 }
  OBVIOUS
<1>15. CASE dp[c] = 1
  <2>1. { x \in TaskIds(g) \ D : dq[x] = 0 } = R \cup {c} /\ c \notin R
    BY <1>4, <1>11, <1>12, <1>14, <1>15
  <2>2. Lists(rq, R \cup {c})
    BY <1>2, <1>3, <1>14, <1>15, <2>1, ListsAppend
  <2> QED BY <1>1, <1>3, <1>4, <1>10, <1>13, <2>1, <2>2 DEF Counting
<1>16. CASE dp[c] # 1
  <2>1. dq[c] # 0
    BY <1>4, <1>11, <1>16
  <2>2. { x \in TaskIds(g) \ D : dq[x] = 0 } = R
    BY <1>4, <1>11, <1>14, <2>1
  <2>3. Lists(rq, R)
    BY <1>2, <1>3, <1>14, <1>16
  <2> QED BY <1>1, <1>3, <1>4, <1>10, <1>13, <2>2, <2>3 DEF Counting
<1> QED
  BY <1>15, <1>16

LEMMA EntriesOfOneMore ==
  ASSUME NEW g, Shape(g), NEW D, NEW t \in TaskIds(g) \ D,
         NEW E, E = D \cup {t}, NEW n, n = Len(g.consumers[t])
  PROVE  /\ n \in Nat /\ DOMAIN g.consumers[t] = 1 .. n
         /\ EntriesOf(g, E) = EntriesOf(g, D) \cup { <<t, j>> : j \in 1 .. n }
         /\ \A j \in 1 .. n : /\ g.consumers[t][j] \in TaskIds(g)
                              /\ <<t, j>> \in EntriesNaming(g, g.consumers[t][j])
                              /\ <<t, j>> \notin EntriesOf(g, D)
<1>1. /\ n \in Nat /\ DOMAIN g.consumers[t] = 1 .. n /\ 1 .. n \subseteq 1 .. MaxConsumers
      /\ \A j \in 1 .. n : g.consumers[t][j] \in TaskIds(g)
  BY ShapeFacts
<1>2. \A j \in 1 .. n : <<t, j>> \in TaskIds(g) \X (1 .. MaxConsumers)
  BY <1>1
<1>3. \A j \in 1 .. n : /\ <<t, j>> \in EntriesNaming(g, g.consumers[t][j])
                        /\ <<t, j>> \notin EntriesOf(g, D)
  BY <1>1, <1>2 DEF EntriesNaming, EntriesOf
<1>4. EntriesOf(g, E) = EntriesOf(g, D) \cup { <<t, j>> : j \in 1 .. n }
  <2>1. EntriesOf(g, D) \cup { <<t, j>> : j \in 1 .. n } \subseteq EntriesOf(g, E)
    BY <1>1, <1>2 DEF EntriesOf
  <2>2. ASSUME NEW e \in EntriesOf(g, E), e \notin EntriesOf(g, D)
        PROVE  e \in { <<t, j>> : j \in 1 .. n }
    <3>1. e \in TaskIds(g) \X (1 .. MaxConsumers) /\ e[1] = t /\ e[2] \in 1 .. n
      BY <1>1, <2>2 DEF EntriesOf
    <3>2. e = <<t, e[2]>>
      BY <3>1
    <3> QED BY <3>1, <3>2
  <2> QED BY <2>1, <2>2
<1> QED
  BY <1>1, <1>3, <1>4

CountedTo(g, D, t, k) == EntriesOf(g, D) \cup { <<t, j>> : j \in 1 .. k }

(* A task has been popped.                                                 *)
LEMMA PopCountsDown ==
  ASSUME NEW g, Shape(g), NEW D, NEW dp, NEW rd,
         Counting(g, D, EntriesOf(g, D), dp, rd), rd # <<>>,
         NEW t, t = Last(rd), NEW base, base = [deps |-> dp, ready |-> Front(rd)],
         NEW n, n = Len(g.consumers[t]),
         NEW after, after = AfterFold("count", g.consumers[t], 0, base, n),
         NEW E, E = D \cup {t}
  PROVE  /\ t \in TaskIds(g) \ D
         /\ Counting(g, E, EntriesOf(g, E), after.deps, after.ready)
<1>1. /\ DOMAIN dp = TaskIds(g) /\ D \subseteq TaskIds(g)
      /\ \A x \in TaskIds(g) : dp[x] = Cardinality(EntriesNaming(g, x) \ EntriesOf(g, D))
      /\ \A x \in D : dp[x] = 0
  BY DEF Counting
<1>2. PICK R : R = { x \in TaskIds(g) \ D : dp[x] = 0 } /\ Lists(rd, R)
  BY DEF Counting
<1>3. t \in R /\ Lists(Front(rd), R \ {t})
  BY <1>2, ListsFront
<1>4. t \in TaskIds(g) \ D /\ dp[t] = 0
  BY <1>2, <1>3
<1>5. R \ {t} = { x \in TaskIds(g) \ E : dp[x] = 0 }
  BY <1>2
<1>7. /\ n \in Nat /\ DOMAIN g.consumers[t] = 1 .. n
      /\ EntriesOf(g, E) = EntriesOf(g, D) \cup { <<t, j>> : j \in 1 .. n }
      /\ \A j \in 1 .. n : /\ g.consumers[t][j] \in TaskIds(g)
                           /\ <<t, j>> \in EntriesNaming(g, g.consumers[t][j])
                           /\ <<t, j>> \notin EntriesOf(g, D)
  BY <1>4, EntriesOfOneMore
<1>8. Counting(g, E, EntriesOf(g, D), dp, Front(rd))
  <2>1. E \subseteq TaskIds(g) /\ \A x \in E : dp[x] = 0
    BY <1>1, <1>4
  <2> QED BY <1>1, <1>3, <1>5, <2>1 DEF Counting
<1>9. base.deps = dp /\ base.ready = Front(rd)
  OBVIOUS
<1>10. PICK ps : ps = g.consumers[t]
  OBVIOUS
<1>12. PICK run : Waiting("count", run, base, ps, 0, n) /\ run[n] = after
  BY <1>7, <1>10, AfterRuns
<1> DEFINE T == { k \in Nat : k <= n =>
                    Counting(g, E, CountedTo(g, D, t, k), run[k].deps, run[k].ready) }
<1>13. 0 \in T
  <2>1. run[0] = base /\ 1 .. 0 = {}
    BY <1>12 DEF Waiting
  <2>2. CountedTo(g, D, t, 0) = EntriesOf(g, D)
    BY <2>1 DEF CountedTo
  <2> QED BY <1>8, <1>9, <2>1, <2>2
<1>14. ASSUME NEW k \in Nat, k \in T  PROVE k + 1 \in T
  <2> SUFFICES ASSUME k + 1 <= n
               PROVE  Counting(g, E, CountedTo(g, D, t, k + 1),
                               run[k + 1].deps, run[k + 1].ready)
    OBVIOUS
  <2>1. k <= n /\ k + 1 \in 1 .. n /\ (k + 1) - 1 = k
    BY <1>7
  <2>2. Counting(g, E, CountedTo(g, D, t, k), run[k].deps, run[k].ready)
    BY <1>14, <2>1
  <2> HIDE DEF T
  <2>3. PICK c : c = ps[k + 1]
    OBVIOUS
  <2>4. run[k + 1] = CountDown(run[k], c)
    BY <1>12, <2>1, <2>3 DEF Waiting, FoldStep
  <2>5. c \in TaskIds(g) /\ <<t, k + 1>> \in EntriesNaming(g, c)
        /\ <<t, k + 1>> \notin EntriesOf(g, D)
    BY <1>7, <1>10, <2>1, <2>3
  <2>6. <<t, k + 1>> \notin CountedTo(g, D, t, k)
    <3>1. \A j \in 1 .. k : j # k + 1
      OBVIOUS
    <3> QED BY <2>5, <3>1 DEF CountedTo
  <2>7. CountedTo(g, D, t, k + 1) = CountedTo(g, D, t, k) \cup {<<t, k + 1>>}
    <3>1. 1 .. (k + 1) = (1 .. k) \cup {k + 1}
      OBVIOUS
    <3> QED BY <3>1 DEF CountedTo
  <2>8. PICK acc, P, e : acc = run[k] /\ P = CountedTo(g, D, t, k) /\ e = <<t, k + 1>>
    OBVIOUS
  <2>9. Counting(g, E, P \cup {e}, CountDown(acc, c).deps, CountDown(acc, c).ready)
    BY <2>2, <2>5, <2>6, <2>8, CountDownCounts
  <2> QED BY <2>4, <2>7, <2>8, <2>9
<1> HIDE DEF T
<1>15. n \in T
  BY <1>7, <1>13, <1>14, Induction
<1>16. Counting(g, E, CountedTo(g, D, t, n), after.deps, after.ready)
  BY <1>7, <1>12, <1>15 DEF T
<1>17. CountedTo(g, D, t, n) = EntriesOf(g, E)
  BY <1>7 DEF CountedTo
<1> QED
  BY <1>4, <1>16, <1>17

LEMMA CountDownIsChosen ==
  ASSUME NEW base, NEW ps, NEW n, DOMAIN ps = 1 .. n, NEW c
  PROVE  FoldLeft(CountDown, base, ps) = AfterFold("count", ps, c, base, n)
BY DEF FoldLeft, MapThenFoldSet, AfterStep, AfterFold, FoldStep

(* What Pop makes of the countdowns and the stack.                         *)
AfterPop(g, dp, rd) ==
  FoldLeft(CountDown, [deps |-> dp, ready |-> Front(rd)], g.consumers[Last(rd)])

LEMMA PopCounts ==
  ASSUME NEW g, Shape(g), NEW D, NEW dp, NEW rd,
         Counting(g, D, EntriesOf(g, D), dp, rd), rd # <<>>,
         NEW t, t = Last(rd), NEW E, E = D \cup {t}
  PROVE  /\ t \in TaskIds(g) \ D
         /\ Counting(g, E, EntriesOf(g, E), AfterPop(g, dp, rd).deps,
                     AfterPop(g, dp, rd).ready)
<1>1. PICK n, base, after :
        /\ n = Len(g.consumers[t]) /\ base = [deps |-> dp, ready |-> Front(rd)]
        /\ after = AfterFold("count", g.consumers[t], 0, base, n)
  OBVIOUS
<1>2. t \in TaskIds(g) \ D /\ Counting(g, E, EntriesOf(g, E), after.deps, after.ready)
  BY <1>1, PopCountsDown
<1>3. DOMAIN g.consumers[t] = 1 .. n
  BY <1>1, <1>2, ShapeFacts
<1>4. AfterPop(g, dp, rd) = after
  BY <1>1, <1>3, CountDownIsChosen DEF AfterPop
<1> QED
  BY <1>2, <1>4

LEMMA RootsAreChosen ==
  ASSUME NEW g, NEW n, TaskIds(g) = 1 .. n
  PROVE  RootsOf(g) = AfterFold("root", [i \in 1 .. n |-> i], g.depInit, <<>>, n)
<1>1. DOMAIN [i \in 1 .. n |-> i] = 1 .. n
  OBVIOUS
<1>2. RootsOf(g) = FoldLeft(LAMBDA acc, i : IF g.depInit[i] = 0 THEN Append(acc, i) ELSE acc,
                            <<>>, [i \in 1 .. n |-> i])
  BY DEF RootsOf
<1> QED
  BY <1>1, <1>2 DEF FoldLeft, MapThenFoldSet, AfterStep, AfterFold, FoldStep

LEMMA StartCounts ==
  ASSUME NEW g, Base(g)
  PROVE  Counting(g, {}, EntriesOf(g, {}), g.depInit, RootsOf(g))
<1>1. Shape(g) /\ Counts(g)
  BY DEF Base
<1>2. PICK n \in Nat : n = Len(g.tasks) /\ TaskIds(g) = 1 .. n
  BY <1>1, ShapeFacts DEF TaskIds
<1>3. PICK ps, d : ps = [i \in 1 .. n |-> i] /\ d = g.depInit
  OBVIOUS
<1>4. PICK run : Waiting("root", run, <<>>, ps, d, n) /\ run[n] = RootsOf(g)
  <2>1. RootsOf(g) = AfterFold("root", ps, d, <<>>, n)
    BY <1>2, <1>3, RootsAreChosen
  <2> QED BY <1>2, <2>1, AfterRuns
<1>5. DOMAIN d = 1 .. n
  BY <1>1, <1>2, <1>3 DEF Shape
<1> DEFINE Z(k) == { i \in 1 .. k : d[i] = 0 }
           T == { k \in Nat : k <= n => Lists(run[k], Z(k)) }
<1>6. 0 \in T
  <2>1. run[0] = <<>> /\ Z(0) = {}
    BY <1>4 DEF Waiting
  <2> HIDE DEF Z
  <2> QED BY <2>1, ListsEmpty
<1>7. ASSUME NEW k \in Nat, k \in T  PROVE k + 1 \in T
  <2> SUFFICES ASSUME k + 1 <= n  PROVE Lists(run[k + 1], Z(k + 1))
    OBVIOUS
  <2>1. k <= n /\ k + 1 \in 1 .. n /\ (k + 1) - 1 = k /\ 1 .. (k + 1) = (1 .. k) \cup {k + 1}
    OBVIOUS
  <2>2. Lists(run[k], Z(k))
    BY <1>7, <2>1
  <2>3. ps[k + 1] = k + 1
    BY <1>3, <2>1
  <2>4. run[k + 1] = IF d[k + 1] = 0 THEN Append(run[k], k + 1) ELSE run[k]
    BY <1>4, <2>1, <2>3 DEF Waiting, FoldStep
  <2>5. Z(k + 1) = IF d[k + 1] = 0 THEN Z(k) \cup {k + 1} ELSE Z(k)
    BY <2>1
  <2>6. k + 1 \notin Z(k)
    OBVIOUS
  <2> HIDE DEF T, Z
  <2> QED BY <2>2, <2>4, <2>5, <2>6, ListsAppend
<1> HIDE DEF T, Z
<1>8. n \in T
  BY <1>6, <1>7, Induction
<1>9. Lists(RootsOf(g), Z(n))
  <2>1. n <= n
    OBVIOUS
  <2> QED BY <1>4, <1>8, <2>1 DEF T
<1>10. Z(n) = { c \in TaskIds(g) \ {} : d[c] = 0 }
  BY <1>2 DEF Z
<1>11. EntriesOf(g, {}) = {}
  BY DEF EntriesOf
<1>12. \A c \in TaskIds(g) : d[c] = Cardinality(EntriesNaming(g, c) \ {})
  BY <1>1, <1>3 DEF Counts
<1> QED
  BY <1>2, <1>3, <1>5, <1>9, <1>10, <1>11, <1>12 DEF Counting

(* The loop ends when it has popped every task.                            *)
LEMMA EndCounts ==
  ASSUME NEW g, Base(g), NEW D, NEW dp,
         Counting(g, D, EntriesOf(g, D), dp, <<>>)
  PROVE  D = TaskIds(g)
<1>1. Shape(g) /\ Acyclic(g)
  BY DEF Base
<1>2. D \subseteq TaskIds(g)
  BY DEF Counting
<1>3. { c \in TaskIds(g) \ D : dp[c] = 0 } = {}
  BY ListsNothing DEF Counting
<1> SUFFICES ASSUME TaskIds(g) \ D # {}  PROVE FALSE
  BY <1>2
<1>4. PICK t \in TaskIds(g) \ D : \A p \in TaskIds(g) \ D : ~Leads(g, p, t)
  BY <1>1 DEF Acyclic
<1>5. EntriesNaming(g, t) \ EntriesOf(g, D) = {}
  <2> SUFFICES ASSUME NEW e \in EntriesNaming(g, t), e \notin EntriesOf(g, D)
               PROVE  FALSE
    OBVIOUS
  <2>1. /\ e[1] \in TaskIds(g) /\ e[2] \in DOMAIN g.consumers[e[1]]
        /\ g.consumers[e[1]][e[2]] = t /\ e \in TaskIds(g) \X (1 .. MaxConsumers)
    BY DEF EntriesNaming
  <2>2. e[1] \notin D
    BY <2>1 DEF EntriesOf
  <2>3. Leads(g, e[1], t)
    BY <2>1 DEF Leads
  <2> QED BY <1>4, <2>1, <2>2, <2>3
<1>6. dp[t] = 0
  BY <1>5, FS_EmptySet DEF Counting
<1> QED
  BY <1>3, <1>6

(* The tasks popped so far: each once, after all it waits for.             *)
InOrder(g, s) ==
  \A i \in 1 .. Len(s) : \A p \in TaskIds(g) :
    Leads(g, p, s[i]) => \E j \in 1 .. i - 1 : s[j] = p

Popped(g, D, dp, rd, s) ==
  /\ Counting(g, D, EntriesOf(g, D), dp, rd)
  /\ Lists(s, D) /\ IsFiniteSet(D) /\ Cardinality(D) = Len(s)
  /\ InOrder(g, s)

LEMMA StartPopped ==
  ASSUME NEW g, Base(g)
  PROVE  Popped(g, {}, g.depInit, RootsOf(g), <<>>)
<1>1. Len(<<>>) = 0 /\ 1 .. 0 = {}
  BY EmptySequence
<1> QED
  BY <1>1, StartCounts, ListsEmpty, FS_EmptySet DEF Popped, InOrder

LEMMA PoppedOneMore ==
  ASSUME NEW g, Shape(g), NEW D, NEW dp, NEW rd, NEW s,
         Popped(g, D, dp, rd, s), rd # <<>>,
         NEW t, t = Last(rd)
  PROVE  /\ t \in TaskIds(g) \ D
         /\ Popped(g, D \cup {t}, AfterPop(g, dp, rd).deps,
                   AfterPop(g, dp, rd).ready, Append(s, t))
<1>1. /\ Counting(g, D, EntriesOf(g, D), dp, rd)
      /\ Lists(s, D) /\ IsFiniteSet(D) /\ Cardinality(D) = Len(s)
      /\ InOrder(g, s)
  BY DEF Popped
<1>2. PICK E : E = D \cup {t}
  OBVIOUS
<1>3. /\ t \in TaskIds(g) \ D
      /\ Counting(g, E, EntriesOf(g, E),
                  AfterPop(g, dp, rd).deps, AfterPop(g, dp, rd).ready)
  BY <1>1, <1>2, PopCounts
<1>4. PICK q : q = Append(s, t)
  OBVIOUS
<1>5. Lists(q, E)
  BY <1>1, <1>2, <1>3, <1>4, ListsAppend
<1>6. PICK n \in Nat : n = Len(s)
  <2>1. IsSequence(s)
    BY <1>1 DEF Lists
  <2> QED BY <2>1, SequenceFacts
<1>7. Len(q) = n + 1 /\ q[n + 1] = t /\ \A i \in 1 .. n : q[i] = s[i]
  <2>1. PICK A : s \in Seq(A)
    BY <1>1 DEF Lists, IsSequence
  <2>2. s \in Seq(A \cup {t}) /\ t \in A \cup {t}
    BY <2>1, SeqMonotonic
  <2> QED BY <1>4, <1>6, <2>2, AppendProperties
<1>8. IsFiniteSet(E) /\ Cardinality(E) = n + 1
  BY <1>1, <1>2, <1>3, <1>6, FS_AddElement
<1>9. ASSUME NEW p \in TaskIds(g), Leads(g, p, t)  PROVE \E j \in 1 .. n : s[j] = p
  <2>1. Cardinality(EntriesNaming(g, t) \ EntriesOf(g, D)) = 0
    <3>1. /\ Lists(rd, { c \in TaskIds(g) \ D : dp[c] = 0 })
          /\ \A c \in TaskIds(g) : dp[c] = Cardinality(EntriesNaming(g, c) \ EntriesOf(g, D))
      BY <1>1 DEF Counting
    <3>2. t \in { c \in TaskIds(g) \ D : dp[c] = 0 }
      BY <3>1, ListsFront
    <3> QED BY <3>1, <3>2
  <2>2. EntriesNaming(g, t) \ EntriesOf(g, D) = {}
    BY <2>1, EntriesFinite, FS_EmptySet
  <2>3. PICK k \in DOMAIN g.consumers[p] : g.consumers[p][k] = t
    BY <1>9 DEF Leads
  <2>4. <<p, k>> \in EntriesNaming(g, t)
    <3>1. k \in 1 .. MaxConsumers
      BY ShapeFacts
    <3> QED BY <2>3, <3>1 DEF EntriesNaming
  <2>5. p \in D
    BY <2>2, <2>4 DEF EntriesOf
  <2> QED BY <1>1, <1>6, <2>5 DEF Lists
<1>10. InOrder(g, q)
  <2> SUFFICES ASSUME NEW i \in 1 .. n + 1, NEW p \in TaskIds(g), Leads(g, p, q[i])
               PROVE  \E j \in 1 .. i - 1 : q[j] = p
    BY <1>7 DEF InOrder
  <2>1. CASE i = n + 1
    <3>1. i - 1 = n /\ q[i] = t
      BY <1>7, <2>1
    <3> QED BY <1>7, <1>9, <3>1
  <2>2. CASE i # n + 1
    <3>1. i \in 1 .. n /\ \A j \in 1 .. i - 1 : j \in 1 .. n
      BY <2>2
    <3>2. q[i] = s[i]
      BY <1>7, <3>1
    <3>3. PICK j \in 1 .. i - 1 : s[j] = p
      BY <1>1, <1>6, <3>1, <3>2 DEF InOrder
    <3> QED BY <1>7, <3>1, <3>3
  <2> QED BY <2>1, <2>2
<1> QED
  BY <1>2, <1>3, <1>4, <1>5, <1>7, <1>8, <1>10 DEF Popped

LEMMA PoppedAll ==
  ASSUME NEW g, Base(g), NEW D, NEW dp, NEW s, Popped(g, D, dp, <<>>, s)
  PROVE  D = TaskIds(g) /\ Len(s) = Len(g.tasks)
<1>1. D = TaskIds(g)
  BY EndCounts DEF Popped
<1>2. Len(g.tasks) \in Nat
  BY ShapeFacts DEF Base
<1>3. Cardinality(TaskIds(g)) = Len(g.tasks)
  <2>1. PICK n \in Nat : n = Len(g.tasks)
    BY <1>2
  <2>2. Cardinality(1 .. n) = IF 1 > n THEN 0 ELSE (n - 1) + 1
    BY FS_Interval
  <2>3. Cardinality(1 .. n) = n
    BY <2>2
  <2> QED BY <2>1, <2>3 DEF TaskIds
<1> QED
  BY <1>1, <1>3 DEF Popped

(* The builder and freeze() do not abort, and the loops do not lose a task.*)
LoopInv ==
  /\ BuildInv
  /\ pc \in {"build", "freeze", "frozen", "run", "done"}
  /\ pc = "build" => sinks = {}
  /\ pc = "freeze" =>
       \E D : /\ Popped(graph, D, deps, ready, seen)
              /\ sinks = { t \in D : IsSink(graph, t) }
              /\ sinks # {} => terminal \in sinks
  /\ pc = "run" => \E D : Popped(graph, D, deps, ready, seen)
  /\ pc = "done" => Popped(graph, TaskIds(graph), deps, ready, seen)

LEMMA FinishedFacts ==
  ASSUME LoopInv, pc # "build" \/ todo = <<>>
  PROVE  todo = <<>> /\ Finished(graph) /\ Base(graph) /\ Shape(graph)
<1>1. ASSUME NEW S, NEW n, NEW E, NEW k, Building(S, n, E, k)  PROVE todo # <<>>
  <2>1. Rest(todo, S, n, k) /\ n \in Nat /\ k \in Nat /\ k <= n
    BY <1>1 DEF Building, ScriptOK
  <2> QED BY <2>1, RestNext
<1>2. todo = <<>> /\ Finished(graph)
  BY <1>1 DEF LoopInv, BuildInv
<1> QED
  BY <1>2 DEF Finished, Good, Base

LEMMA PopPops ==
  ASSUME NEW D, Popped(graph, D, deps, ready, seen), Shape(graph), Pop,
         graph' = graph
  PROVE  /\ Last(ready) \in TaskIds(graph) \ D
         /\ Popped(graph', D \cup {Last(ready)}, deps', ready', seen')
<1>1. /\ ready # <<>> /\ seen' = Append(seen, Last(ready))
      /\ deps' = AfterPop(graph, deps, ready).deps
      /\ ready' = AfterPop(graph, deps, ready).ready
  BY DEF Pop, AfterPop
<1> QED
  BY <1>1, PoppedOneMore

LEMMA StartPops ==
  ASSUME Base(graph), StartLoop, graph' = graph
  PROVE  Popped(graph', {}, deps', ready', seen')
BY StartPopped DEF StartLoop

LEMMA InitLoops ==
  Init => LoopInv
<1> SUFFICES ASSUME Init  PROVE LoopInv
  OBVIOUS
<1>1. BuildInv
  BY InitBuilds
<1> QED
  BY <1>1 DEF Init, LoopInv

LEMMA BuildLoops ==
  ASSUME LoopInv, Build
  PROVE  LoopInv'
<1>1. BuildInv'
  BY BuildBuilds DEF LoopInv
<1>2. pc = "build" /\ sinks' = sinks /\ sinks = {} /\ pc' \in {"build", "died"}
  BY DEF Build, LoopInv
<1>3. Made(Head(todo)).graph.died = FALSE
  <2>1. Good(graph')
    BY <1>1 DEF BuildInv, Building, Built, Finished
  <2> QED BY <2>1 DEF Build, Good
<1>4. pc' = "build"
  BY <1>2, <1>3 DEF Build
<1> QED
  BY <1>1, <1>2, <1>4 DEF LoopInv

LEMMA BeginFreezeLoops ==
  ASSUME LoopInv, BeginFreeze
  PROVE  LoopInv'
<1>1. BuildInv'
  BY NextBuilds DEF LoopInv, Next
<1>2. pc = "build" /\ todo = <<>> /\ pc' = "freeze" /\ sinks' = sinks /\ graph' = graph
      /\ StartLoop
  BY DEF BeginFreeze
<1>3. Popped(graph', {}, deps', ready', seen')
  BY <1>2, FinishedFacts, StartPops
<1>4. sinks' = { t \in {} : IsSink(graph, t)' }
  BY <1>2 DEF LoopInv
<1> QED
  BY <1>1, <1>2, <1>3, <1>4 DEF LoopInv

LEMMA FreezePopLoops ==
  ASSUME LoopInv, FreezePop
  PROVE  LoopInv'
<1>1. BuildInv'
  BY NextBuilds DEF LoopInv, Next
<1>2. pc = "freeze" /\ pc' = pc /\ graph' = graph /\ Pop
  BY DEF FreezePop
<1>3. PICK D : /\ Popped(graph, D, deps, ready, seen)
               /\ sinks = { t \in D : IsSink(graph, t) }
               /\ sinks # {} => terminal \in sinks
  BY <1>2 DEF LoopInv
<1>4. PICK t : t = Last(ready)
  OBVIOUS
<1>5. PICK E : E = D \cup {t}
  OBVIOUS
<1>6. Popped(graph', E, deps', ready', seen')
  BY <1>2, <1>3, <1>4, <1>5, PopPops, FinishedFacts
<1>7. IF IsSink(graph, t) THEN sinks' = sinks \cup {t} /\ terminal' = t
                          ELSE sinks' = sinks /\ terminal' = terminal
  BY <1>4 DEF FreezePop, IsSink
<1>8. sinks' = { x \in E : IsSink(graph, x) } /\ (sinks' # {} => terminal' \in sinks')
  BY <1>3, <1>5, <1>7
<1>9. { x \in E : IsSink(graph, x) } = { x \in E : IsSink(graph', x) }
  BY <1>2
<1> QED
  BY <1>1, <1>2, <1>6, <1>8, <1>9 DEF LoopInv

LEMMA EndFreezeLoops ==
  ASSUME LoopInv, EndFreeze
  PROVE  LoopInv'
<1>1. BuildInv'
  BY NextBuilds DEF LoopInv, Next
<1>2. pc = "freeze" /\ ready = <<>>
      /\ pc' = IF /\ Len(seen) = Len(graph.tasks)
                  /\ Cardinality(sinks) = 1
                  /\ graph.tasks[terminal].kind = "SIGNAL"
                 THEN "frozen" ELSE "died"
  BY DEF EndFreeze
<1>3. PICK D : /\ Popped(graph, D, deps, <<>>, seen)
               /\ sinks = { t \in D : IsSink(graph, t) }
               /\ sinks # {} => terminal \in sinks
  BY <1>2 DEF LoopInv
<1>4. Finished(graph) /\ Base(graph)
  BY <1>2, FinishedFacts
<1>5. D = TaskIds(graph) /\ Len(seen) = Len(graph.tasks)
  BY <1>3, <1>4, PoppedAll
<1>6. PICK z \in TaskIds(graph) : /\ graph.tasks[z] = Signal
                                  /\ \A t \in TaskIds(graph) : IsSink(graph, t) <=> t = z
  BY <1>4 DEF Finished
<1>7. sinks = {z} /\ terminal = z
  BY <1>3, <1>5, <1>6
<1>8. Cardinality(sinks) = 1 /\ graph.tasks[terminal].kind = "SIGNAL"
  <2>1. Signal.kind = "SIGNAL"
    BY DEF Signal
  <2>2. Cardinality({z}) = 1
    BY FS_Singleton
  <2> QED BY <1>6, <1>7, <2>1, <2>2
<1> QED
  BY <1>1, <1>2, <1>5, <1>8 DEF LoopInv

LEMMA PassLoops ==
  ASSUME LoopInv, BeginPass \/ Execute \/ EndPass
  PROVE  LoopInv'
<1>1. BuildInv'
  BY NextBuilds DEF LoopInv, Next
<1>2. CASE BeginPass
  <2>1. pc # "build" /\ pc' = "run" /\ graph' = graph /\ StartLoop
    BY <1>2 DEF BeginPass
  <2>2. Popped(graph', {}, deps', ready', seen')
    BY <2>1, FinishedFacts, StartPops
  <2> QED BY <1>1, <2>1, <2>2 DEF LoopInv
<1>3. CASE Execute
  <2>1. pc = "run" /\ pc' = pc /\ graph' = graph /\ Pop
    BY <1>3 DEF Execute
  <2>2. PICK D : Popped(graph, D, deps, ready, seen)
    BY <2>1 DEF LoopInv
  <2>3. Popped(graph', D \cup {Last(ready)}, deps', ready', seen')
    BY <2>1, <2>2, PopPops, FinishedFacts
  <2> QED BY <1>1, <2>1, <2>3 DEF LoopInv
<1>4. CASE EndPass
  <2>1. /\ pc = "run" /\ pc' = "done" /\ ready = <<>>
        /\ UNCHANGED <<graph, deps, ready, seen>>
    BY <1>4 DEF EndPass
  <2>2. PICK D : Popped(graph, D, deps, <<>>, seen)
    BY <2>1 DEF LoopInv
  <2>3. D = TaskIds(graph)
    BY <2>1, <2>2, FinishedFacts, PoppedAll
  <2>4. Popped(graph, TaskIds(graph), deps, ready, seen)'
    BY <2>1, <2>2, <2>3
  <2> QED BY <1>1, <2>1, <2>4 DEF LoopInv
<1> QED
  BY <1>2, <1>3, <1>4

LEMMA NextLoops ==
  LoopInv /\ [Next]_vars => LoopInv'
<1> SUFFICES ASSUME LoopInv, [Next]_vars  PROVE LoopInv'
  OBVIOUS
<1>1. CASE UNCHANGED vars
  <2>1. BuildInv'
    BY NextBuilds DEF LoopInv
  <2> QED BY <1>1, <2>1 DEF LoopInv, vars
<1> QED
  BY <1>1, BuildLoops, BeginFreezeLoops, FreezePopLoops, EndFreezeLoops, PassLoops
     DEF Next

LEMMA LoopsAlways ==
  Spec => []LoopInv
BY InitLoops, NextLoops, PTL DEF Spec

(* build_graph_m and freeze() never abort, for any batch, layers, tiles,   *)
(* heads and options: no task gets more consumers than its array holds,    *)
(* the edges have no cycle, and the terminal is the only sink.             *)
THEOREM BuildAlwaysSucceeds ==
  Spec => []BuildSucceeds
<1>1. LoopInv => BuildSucceeds
  BY DEF LoopInv, BuildSucceeds
<1> QED
  BY <1>1, LoopsAlways, PTL

(* run_serial has executed every task once, each after all that it waits   *)
(* for.                                                                    *)
AllRanInOrder == pc = "done" => Lists(seen, TaskIds(graph)) /\ InOrder(graph, seen)

THEOREM PassRunsAllInOrder ==
  Spec => []AllRanInOrder
<1>1. LoopInv => AllRanInOrder
  BY DEF LoopInv, AllRanInOrder, Popped
<1> QED
  BY <1>1, LoopsAlways, PTL

--------------------------------------------------------------------------------
(* What freeze() hands to the runtime.                                     *)

(* What TaskGraph assumes of a frozen graph, with ids from 1 on: one task  *)
(* that nothing waits for, no cycle, and dep_init counts entries.          *)
FitsRuntime(g, z) ==
  /\ Len(g.tasks) \in Nat \ {0} /\ z \in TaskIds(g)
  /\ Len(g.consumers) = Len(g.tasks)
  /\ \A t \in TaskIds(g) : /\ g.consumers[t] \in Seq(TaskIds(g))
                           /\ Len(g.consumers[t]) <= MaxConsumers
  /\ \A t \in TaskIds(g) : (g.consumers[t] = <<>>) <=> (t = z)
  /\ \E rank \in [TaskIds(g) -> TaskIds(g)] :
       \A p, c \in TaskIds(g) : Leads(g, p, c) => rank[p] < rank[c]
  /\ \A c \in TaskIds(g) : g.depInit[c] = Cardinality(EntriesNaming(g, c))

(* freeze() accepts only graphs that the runtime is sound for.             *)
FrozenFits == pc \in {"frozen", "run", "done"} => FitsRuntime(graph, terminal)

(* The place in an order of all tasks grows along the edges.               *)
LEMMA OrderRanks ==
  ASSUME NEW g, Shape(g), NEW s, Lists(s, TaskIds(g)), InOrder(g, s),
         Len(s) = Len(g.tasks)
  PROVE  \E rank \in [TaskIds(g) -> TaskIds(g)] :
           \A p, c \in TaskIds(g) : Leads(g, p, c) => rank[p] < rank[c]
<1>1. PICK n \in Nat : n = Len(s) /\ n = Len(g.tasks)
  BY ShapeFacts
<1>2. TaskIds(g) = 1 .. n
  BY <1>1 DEF TaskIds
<1>3. \A t \in TaskIds(g) : \E i \in 1 .. n : s[i] = t
  BY <1>1 DEF Lists
<1> DEFINE rank == [t \in TaskIds(g) |-> CHOOSE i \in 1 .. n : s[i] = t]
<1>4. \A t \in TaskIds(g) : rank[t] \in 1 .. n /\ s[rank[t]] = t
  BY <1>3
<1>5. rank \in [TaskIds(g) -> TaskIds(g)]
  BY <1>2, <1>4
<1> HIDE DEF rank
<1>6. ASSUME NEW p \in TaskIds(g), NEW c \in TaskIds(g), Leads(g, p, c)
      PROVE  rank[p] < rank[c]
  <2>1. PICK a, b \in 1 .. n : a = rank[p] /\ b = rank[c] /\ s[a] = p /\ s[b] = c
    BY <1>4
  <2>2. PICK j \in 1 .. b - 1 : s[j] = p
    BY <1>1, <1>6, <2>1 DEF InOrder
  <2>3. j \in 1 .. n /\ j < b
    BY <2>1, <2>2
  <2>4. j = a
    BY <1>1, <2>1, <2>2, <2>3 DEF Lists
  <2> QED BY <2>1, <2>3, <2>4
<1> QED
  BY <1>5, <1>6

LEMMA NextKeepsFrozen ==
  ASSUME LoopInv, FrozenFits, [Next]_vars
  PROVE  FrozenFits'
<1>1. CASE EndFreeze
  <2>1. SUFFICES ASSUME pc' = "frozen"  PROVE FitsRuntime(graph, terminal)
    BY <1>1 DEF EndFreeze, FrozenFits
  <2>2. /\ pc = "freeze" /\ ready = <<>>
        /\ Cardinality(sinks) = 1
    BY <1>1, <2>1 DEF EndFreeze
  <2>3. PICK D : /\ Popped(graph, D, deps, <<>>, seen)
                 /\ sinks = { t \in D : IsSink(graph, t) }
                 /\ sinks # {} => terminal \in sinks
    BY <2>2 DEF LoopInv
  <2>4. Finished(graph) /\ Base(graph) /\ Shape(graph)
    BY <2>2, FinishedFacts
  <2>5. D = TaskIds(graph) /\ Len(seen) = Len(graph.tasks)
    BY <2>3, <2>4, PoppedAll
  <2>6. PICK z \in TaskIds(graph) :
          \A t \in TaskIds(graph) : IsSink(graph, t) <=> t = z
    BY <2>4 DEF Finished
  <2>7. terminal = z
    BY <2>3, <2>5, <2>6
  <2>8. Len(graph.tasks) \in Nat \ {0}
    BY <2>4, <2>6, ShapeFacts
  <2>9. \E rank \in [TaskIds(graph) -> TaskIds(graph)] :
          \A p, c \in TaskIds(graph) : Leads(graph, p, c) => rank[p] < rank[c]
    BY <2>3, <2>4, <2>5, OrderRanks DEF Popped
  <2>10. Len(graph.consumers) = Len(graph.tasks)
         /\ \A t \in TaskIds(graph) : /\ graph.consumers[t] \in Seq(TaskIds(graph))
                                      /\ Len(graph.consumers[t]) <= MaxConsumers
    BY <2>4 DEF Shape
  <2>11. \A c \in TaskIds(graph) : graph.depInit[c] = Cardinality(EntriesNaming(graph, c))
    BY <2>4 DEF Base, Counts
  <2>12. \A t \in TaskIds(graph) : (graph.consumers[t] = <<>>) <=> (t = z)
    BY <2>6 DEF IsSink
  <2> QED BY <2>6, <2>7, <2>8, <2>9, <2>10, <2>11, <2>12 DEF FitsRuntime
<1>2. ASSUME UNCHANGED <<graph, terminal>>, pc' \in {"frozen", "run", "done"} =>
                                              pc \in {"frozen", "run", "done"}
      PROVE  FrozenFits'
  BY <1>2 DEF FrozenFits
<1>3. CASE Build \/ BeginFreeze \/ FreezePop
  <2>1. pc' \notin {"frozen", "run", "done"}
    BY <1>3 DEF Build, BeginFreeze, FreezePop
  <2> QED BY <2>1 DEF FrozenFits
<1>4. CASE BeginPass \/ Execute \/ EndPass \/ UNCHANGED vars
  <2>1. UNCHANGED <<graph, terminal>>
    BY <1>4 DEF BeginPass, Execute, EndPass, vars
  <2>2. pc' \in {"frozen", "run", "done"} => pc \in {"frozen", "run", "done"}
    BY <1>4 DEF BeginPass, Execute, EndPass, vars
  <2> QED BY <1>2, <2>1, <2>2
<1> QED
  BY <1>1, <1>3, <1>4 DEF Next

(* A graph that step_batch runs, on whichever engine, has what the runtime *)
(* needs: an order of its tasks, one terminal that nothing waits for, and  *)
(* countdowns that are exact.                                              *)
THEOREM FrozenGraphsFitRuntime ==
  Spec => []FrozenFits
<1>1. Init => FrozenFits
  BY DEF Init, FrozenFits
<1>2. LoopInv /\ FrozenFits /\ [Next]_vars => FrozenFits'
  BY NextKeepsFrozen
<1> QED
  BY <1>1, <1>2, LoopsAlways, PTL DEF Spec
================================================================================
