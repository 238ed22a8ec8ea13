----------------------------- MODULE RuntimeProofs -----------------------------
(***************************************************************************)
(* For every frozen graph, every number of workers and GPU blocks, every   *)
(* queue capacity and every moment of teardown: no task runs twice in a    *)
(* run, none runs before its producers, and run() leaves nothing behind.   *)
(*                                                                         *)
(* The argument.  A task that is ready exists in one place only: among the *)
(* roots still to publish, in the hand of one publisher, once in the queue *)
(* of its route, in the batch of one agent, or executed (PlaceInv).  It    *)
(* gets there when its last undelivered edge is delivered, because         *)
(* dep_count is never below the number of undelivered edges (DepInv): the  *)
(* subtraction that finds exactly what it subtracts has delivered all that *)
(* was left.  n_done counts each executed task once (CountInv), so         *)
(* n_done = n means that every place but "executed" is empty (QuietInv),   *)
(* which is what the reset of the next run needs.                          *)
(*                                                                         *)
(* Three consequences come last: run() returns only when every task has    *)
(* been executed, tasks run only on engines that may run them, and the     *)
(* runtime implements module GraphExecution.                               *)
(***************************************************************************)
EXTENDS Runtime, FiniteSetTheorems, TLAPS

(* Where an agent may hold nothing.                                        *)
Polling == Positions \ {"exec", "signal", "notify", "push"}

(* Entries of consumer arrays that lead to c and were not yet subtracted.  *)
Undelivered(c) ==
  { e \in EdgesInto(graph, c) :
      execs[e[1]] = 0 \/ \E a \in Agents : e \in rem[a] }

(* Batch, epilogue and publication go with the position of the agent.      *)
PhaseInv ==
  \A a \in Agents :
    /\ pc[a] \in Polling => held[a] = {}
    /\ pc[a] \notin {"signal", "notify", "push"} => rem[a] = {}
    /\ pc[a] = "push" <=> pub[a] # NoTask
    /\ pc[a] = "exec" => \A t \in held[a] : execs[t] = 0
    /\ pc[a] \in {"signal", "notify", "push"} => \A t \in held[a] : execs[t] = 1

(* Where a ready task can be.                                              *)
Queued(t) == \E x \in Queues : q[x][t] > 0
InHand(t) == \E a \in Agents : t \in held[a]
InPush(t) == \E a \in Agents : pub[a] = t
Placed(t) == t \in roots \/ InPush(t) \/ Queued(t) \/ InHand(t) \/ execs[t] > 0

(* One place per task.                                                     *)
PlaceInv ==
  /\ \A t \in Tasks : execs[t] <= 1
  /\ \A t \in roots : ~InPush(t) /\ ~Queued(t) /\ ~InHand(t) /\ execs[t] = 0
  /\ \A a \in Agents : pub[a] # NoTask =>
       /\ ~Queued(pub[a]) /\ ~InHand(pub[a]) /\ execs[pub[a]] = 0
       /\ \A b \in Agents : pub[b] = pub[a] => b = a
  /\ \A t \in Tasks : \A x \in Queues : q[x][t] > 0 =>
       q[x][t] = 1 /\ x = Route(graph, t) /\ ~InHand(t) /\ execs[t] = 0
  /\ \A a, b \in Agents : a # b => held[a] \cap held[b] = {}

(* A task has a place only in a graph and when all its inputs are there.   *)
ReadyInv ==
  \A t \in Tasks : Placed(t) =>
    graph # NoGraph /\ t \in TasksOf(graph) /\ Undelivered(t) = {}

(* An epilogue delivers entries of its own batch.                          *)
RemInv ==
  \A a \in Agents : \A e \in rem[a] :
    graph # NoGraph /\ e \in Edges(graph) /\ e[1] \in held[a]

(* dep_count covers what is undelivered; teardown may leave it above.      *)
DepInv ==
  graph # NoGraph =>
    \A c \in TasksOf(graph) : dep[c] >= Cardinality(Undelivered(c))

(* n_done counts each executed task once, after its epilogue.              *)
CountInv ==
  /\ nDone = Cardinality(counted)
  /\ \A t \in counted :
       graph # NoGraph /\ t \in TasksOf(graph) /\ execs[t] = 1 /\ ~InHand(t)

(* Between two runs every place but "executed" is empty.                   *)
QuietInv ==
  /\ Quiescent
  /\ hpc # "idle" => graph # NoGraph
  /\ hpc \in {"close", "idle"} => roots = {}

IInv ==
  /\ TypeOK /\ PhaseInv /\ PlaceInv /\ ReadyInv /\ RemInv /\ DepInv
  /\ CountInv /\ QuietInv

--------------------------------------------------------------------------------
(* Facts about the constants.                                              *)

(* Task ids are finitely many, and NoTask is none of them.                 *)
LEMMA TaskFacts ==
  /\ IsFiniteSet(Tasks) /\ Tasks \subseteq Nat /\ NoTask \notin Tasks
  /\ NoGraph \notin Graphs
  /\ \A g \in Graphs : TasksOf(g) \subseteq Tasks
  BY ConfigIsValid DEF ConfigAssumption

(* A graph has n tasks and finitely many edges, which join its tasks.      *)
LEMMA GraphFacts ==
  ASSUME NEW g \in Graphs
  PROVE  /\ IsFiniteSet(TasksOf(g)) /\ Cardinality(TasksOf(g)) = GraphOf[g].n
         /\ IsFiniteSet(Edges(g))
         /\ \A e \in Edges(g) : e[1] \in TasksOf(g) /\ Target(g, e) \in TasksOf(g)
<1>1. GraphOf[g].n \in Nat \ {0}
  BY GraphsAreWellFormed DEF GraphAssumption
<1>2. /\ IsFiniteSet(TasksOf(g)) /\ Cardinality(TasksOf(g)) = GraphOf[g].n
  BY <1>1, FS_Interval DEF TasksOf
<1>3. IsFiniteSet(Edges(g))
  <2> MaxConsumers \in Int
    BY DEF MaxConsumers
  <2>1. IsFiniteSet(1 .. MaxConsumers)
    BY FS_Interval
  <2>2. IsFiniteSet(TasksOf(g) \X (1 .. MaxConsumers))
    BY <1>2, <2>1, FS_Product
  <2> QED
    BY <2>2, FS_Subset DEF Edges
<1>4. ASSUME NEW e \in Edges(g)
      PROVE  e[1] \in TasksOf(g) /\ Target(g, e) \in TasksOf(g)
  <2>1. e \in TasksOf(g) \X (1 .. MaxConsumers)
        /\ e[2] \in 1 .. Len(GraphOf[g].consumers[e[1]])
    BY DEF Edges
  <2>2. GraphOf[g].consumers[e[1]] \in Seq(TasksOf(g))
    BY <2>1, GraphsAreWellFormed DEF GraphAssumption
  <2> QED
    BY <2>1, <2>2 DEF Target
<1> QED
  BY <1>2, <1>3, <1>4

(* Routing leads to a queue that exists (fl_task_queue, fl_publish).       *)
LEMMA RouteFacts ==
  ASSUME NEW g \in Graphs, NEW t \in TasksOf(g)
  PROVE  Route(g, t) \in Queues
<1> DEFINE x == TaskQueueOf(GraphOf[g].desc[t])
<1>1. NumBlocks \in Nat /\ Chunk \in Nat \ {0} /\ (PerBlock => NumBlocks > 0)
      /\ t \in Nat
  BY ConfigIsValid, TaskFacts DEF ConfigAssumption
<1>2. x \in 0 .. 3
  BY DEF TaskQueueOf
<1>3. CASE x = 0 /\ PerBlock
  <2>1. t \div Chunk \in Nat
    BY <1>1
  <2>2. (t \div Chunk) % NumBlocks \in 0 .. NumBlocks - 1
    BY <1>1, <1>3, <2>1
  <2>3. Route(g, t) = 4 + ((t \div Chunk) % NumBlocks)
    BY <1>3 DEF Route, Ring
  <2> QED
    BY <1>1, <2>2, <2>3 DEF Queues
<1>4. CASE ~(x = 0 /\ PerBlock)
  <2>1. Route(g, t) = x
    BY <1>4 DEF Route
  <2> QED
    BY <1>1, <1>2, <2>1 DEF Queues
<1> QED
  BY <1>3, <1>4

(* Sets of undelivered entries are finite, and shrink when entries do.     *)
LEMMA UndeliveredFacts ==
  ASSUME TypeOK, graph # NoGraph, NEW c
  PROVE  IsFiniteSet(Undelivered(c)) /\ Cardinality(Undelivered(c)) \in Nat
<1>1. graph \in Graphs
  BY DEF TypeOK
<1>2. IsFiniteSet(Undelivered(c))
  BY <1>1, GraphFacts, FS_Subset DEF Undelivered, EdgesInto
<1> QED
  BY <1>2, FS_CardinalityType
(* Fewer undelivered entries need no more of dep_count.                    *)
LEMMA ShrinkingKeepsDepInv ==
  ASSUME TypeOK, DepInv, UNCHANGED <<graph, dep>>,
         graph # NoGraph => \A c : Undelivered(c)' \subseteq Undelivered(c)
  PROVE  DepInv'
<1> SUFFICES ASSUME graph # NoGraph, NEW c \in TasksOf(graph)
             PROVE  dep[c] >= Cardinality(Undelivered(c)')
  BY DEF DepInv
<1>1. IsFiniteSet(Undelivered(c)) /\ Cardinality(Undelivered(c)) \in Nat
  BY UndeliveredFacts
<1>2. Cardinality(Undelivered(c)') <= Cardinality(Undelivered(c))
      /\ IsFiniteSet(Undelivered(c)')
  BY <1>1, FS_Subset
<1>3. Cardinality(Undelivered(c)') \in Nat
  BY <1>2, FS_CardinalityType
<1>4. dep[c] \in Nat /\ dep[c] >= Cardinality(Undelivered(c))
  BY TaskFacts DEF TypeOK, DepInv
<1> QED
  BY <1>1, <1>2, <1>3, <1>4

--------------------------------------------------------------------------------
(* The constructor.                                                        *)
LEMMA InitEstablishesIInv == Init => IInv
<1> SUFFICES ASSUME Init PROVE IInv
  OBVIOUS
<1>1. NumWorkers \in Nat /\ NumBlocks \in Nat /\ NoStealSettings \subseteq BOOLEAN
  BY ConfigIsValid DEF ConfigAssumption
<1>2. TypeOK
  BY <1>1, TaskFacts DEF Init, TypeOK, Positions
<1>3. PhaseInv
  BY DEF Init, PhaseInv, Polling, Positions
<1>4. PlaceInv
  BY DEF Init, PlaceInv, InPush, Queued, InHand
<1>5. ReadyInv
  BY TaskFacts DEF Init, ReadyInv, Placed, InPush, Queued, InHand
<1>6. RemInv /\ DepInv
  BY DEF Init, RemInv, DepInv
<1>7. CountInv
  BY FS_EmptySet DEF Init, CountInv
<1>8. QuietInv
  BY DEF Init, QuietInv, Quiescent, Enqueued
<1> QED
  BY <1>2, <1>3, <1>4, <1>5, <1>6, <1>7, <1>8 DEF IInv

--------------------------------------------------------------------------------
(* Steps that leave tasks where they are: the life cycle, the window, the  *)
(* polling of an agent.                                                    *)

places == <<graph, dep, q, roots, held, rem, pub, execs, counted, nDone>>

LEMMA UnmovedKeepsPlaces ==
  ASSUME IInv, UNCHANGED places, TypeOK', PhaseInv', QuietInv'
  PROVE  IInv'
<1> USE DEF IInv, places
<1>1. PlaceInv'
  BY DEF PlaceInv, InPush, Queued, InHand
<1>2. \A c : Undelivered(c)' = Undelivered(c)
  BY DEF Undelivered
<1>3. ReadyInv'
  BY <1>2 DEF ReadyInv, Placed, InPush, Queued, InHand
<1>4. RemInv'
  BY DEF RemInv
<1>5. DepInv'
  BY <1>2 DEF DepInv
<1>6. CountInv'
  BY DEF CountInv, InHand
<1> QED
  BY <1>1, <1>3, <1>4, <1>5, <1>6

LEMMA UnmovedKeepsIInv ==
  ASSUME IInv, UNCHANGED places, TypeOK', PhaseInv',
         hpc' \in {"close", "idle"} => hpc \in {"close", "idle"},
         hpc' = "open" => hpc = "open",
         hpc' # "idle" => hpc # "idle"
  PROVE  IInv'
<1>1. QuietInv'
  BY DEF IInv, places, QuietInv, Quiescent, Enqueued
<1> QED
  BY <1>1, UnmovedKeepsPlaces

(* stop(), the join, and the opening and closing of the window.            *)
LEMMA LifeCycleKeepsIInv ==
  ASSUME IInv, Stop \/ Join \/ Open \/ Close
  PROVE  IInv'
<1>1. UNCHANGED <<places, pc>>
  BY DEF Stop, Join, Open, Close, places, shared, hist
<1>2. TypeOK'
  BY DEF IInv, TypeOK, Stop, Join, Open, Close, shared, hist
<1>3. PhaseInv'
  BY <1>1 DEF IInv, PhaseInv, places
<1> QED
  BY <1>1, <1>2, <1>3, UnmovedKeepsIInv DEF Stop, Join, Open, Close, places

(* Polling.                                                                *)
LEMMA PollingKeepsIInv ==
  ASSUME IInv, NEW a \in Agents, NEW l \in Polling,
         pc[a] \in Polling, pc' = [pc EXCEPT ![a] = l],
         UNCHANGED <<shared, q, host, held, rem, pub, rr, hist>>,
         sweep' \in [Agents -> Nat]
  PROVE  IInv'
<1>1. UNCHANGED places /\ UNCHANGED hpc
  BY DEF places, shared, host, hist
<1>2. TypeOK'
  BY DEF IInv, TypeOK, shared, host, hist, Polling
<1>3. PhaseInv'
  BY DEF IInv, TypeOK, PhaseInv, Polling, Positions, hist
<1> QED
  BY <1>1, <1>2, <1>3, UnmovedKeepsIInv

(* The terminal signal.                                                    *)
LEMMA SignalKeepsIInv ==
  ASSUME IInv, NEW a \in Agents, Signal(a)
  PROVE  IInv'
<1>1. UNCHANGED places /\ UNCHANGED hpc
  BY DEF Signal, places, host, hist
<1>2. TypeOK'
  BY DEF IInv, TypeOK, Signal, Goto, host, hist, Positions
<1>3. PhaseInv'
  BY DEF IInv, TypeOK, PhaseInv, Signal, Goto, Polling, Positions, host, hist
<1> QED
  BY <1>1, <1>2, <1>3, UnmovedKeepsIInv
(* start(): all queues are empty then, so laying out fresh rings changes   *)
(* nothing.                                                                *)
LEMMA StartKeepsIInv == IInv /\ Start => IInv'
<1> SUFFICES ASSUME IInv, Start PROVE IInv'
  OBVIOUS
<1>1. /\ \A x \in Queues : \A t \in Tasks : q[x][t] = 0
      /\ \A a \in Agents : held[a] = {} /\ rem[a] = {} /\ pub[a] = NoTask
  BY DEF IInv, TypeOK, QuietInv, Quiescent, Enqueued, Start
<1>2. q' = q
  <2>1. \A x \in Queues : q[x] = [t \in Tasks |-> 0]
    BY <1>1 DEF IInv, TypeOK
  <2> QED
    BY <2>1 DEF IInv, TypeOK, Start
<1>3. UNCHANGED places
  BY <1>2 DEF Start, places, hist
<1>4. NumWorkers \in Nat /\ NumBlocks \in Nat
  BY ConfigIsValid DEF ConfigAssumption
<1>5. TypeOK'
  <2>1. rr' \in [Agents -> Nat]
    BY <1>4 DEF Start, Agents, Workers, Blocks
  <2> QED
    BY <1>2, <2>1 DEF IInv, TypeOK, Start, hist, Positions
<1>6. PhaseInv'
  BY <1>1 DEF Start, PhaseInv, Polling, Positions
<1> QED
  BY <1>3, <1>5, <1>6, UnmovedKeepsIInv DEF Start

(* The reset of run().                                                     *)
LEMMA BeginRunKeepsIInv ==
  ASSUME IInv, NEW g \in Graphs, BeginRun(g)
  PROVE  IInv'
<1> USE DEF BeginRun
<1>1. /\ \A x \in Queues : \A t \in Tasks : q[x][t] = 0
      /\ \A a \in Agents : held[a] = {} /\ rem[a] = {} /\ pub[a] = NoTask
  BY DEF IInv, TypeOK, QuietInv, Quiescent, Enqueued
<1>2. graph' = g /\ graph' # NoGraph /\ TasksOf(g) \subseteq Tasks
  BY TaskFacts
<1>3. \A c : IsFiniteSet(EdgesInto(g, c)) /\ Cardinality(EdgesInto(g, c)) \in Nat
  BY GraphFacts, FS_Subset, FS_CardinalityType DEF EdgesInto
<1>4. \A c : Undelivered(c)' = EdgesInto(g, c)
  BY <1>2, GraphFacts DEF Undelivered, EdgesInto
<1>5. TypeOK'
  <2>1. dep' \in [Tasks -> Nat]
    <3>1. \A t \in TasksOf(g) : DepInit(g)[t] \in Nat
      BY <1>3 DEF DepInit
    <3> QED
      BY <3>1
  <2>2. roots' \in SUBSET Tasks /\ execs' \in [Tasks -> Nat]
    BY <1>2 DEF Roots
  <2>3. /\ graph' \in Graphs /\ nDone' = 0 /\ doneFlag' = FALSE
        /\ hpc' = "open" /\ runs' = runs + 1 /\ counted' = {}
        /\ UNCHANGED <<active, runFlag, noSteal, q, life, starts, pc, held, rem,
                       pub, rr, sweep>>
    OBVIOUS
  <2>4. TypeOK
    BY DEF IInv
  <2> HIDE DEF BeginRun
  <2>5. /\ graph' \in Graphs \cup {NoGraph} /\ nDone' \in Nat
        /\ doneFlag' \in BOOLEAN /\ active' \in BOOLEAN /\ runFlag' \in BOOLEAN
        /\ noSteal' \in BOOLEAN /\ q' \in [Queues -> [Tasks -> Nat]]
        /\ hpc' \in {"idle", "open", "publish", "close"}
        /\ counted' \in SUBSET Tasks
    BY <2>3, <2>4 DEF TypeOK
  <2>6. /\ life' \in {"stopped", "started", "stopping"}
        /\ runs' \in Nat /\ starts' \in Nat
        /\ pc' \in [Agents -> Positions]
        /\ held' \in [Agents -> SUBSET Tasks]
        /\ rem' \in [Agents -> SUBSET (Tasks \X (1 .. MaxConsumers))]
        /\ pub' \in [Agents -> Tasks \cup {NoTask}]
        /\ rr' \in [Agents -> Nat] /\ sweep' \in [Agents -> Nat]
    BY <2>3, <2>4 DEF TypeOK
  <2> QED
    BY <2>1, <2>2, <2>5, <2>6 DEF TypeOK
<1>6. PhaseInv'
  BY <1>1 DEF IInv, PhaseInv
<1>7. /\ \A t : ~InPush(t)' \/ t = NoTask
      /\ \A t : ~InHand(t)'
      /\ \A t \in Tasks : ~Queued(t)' /\ execs'[t] = 0
  BY <1>1 DEF InPush, Queued, InHand
<1>8. PlaceInv'
  <2>1. \A t \in roots' : t \in Tasks /\ t # NoTask
    BY <1>2, TaskFacts DEF Roots
  <2>2. \A a \in Agents : pub'[a] = NoTask /\ held'[a] = {}
    BY <1>1
  <2>3. \A t \in Tasks : \A x \in Queues : q'[x][t] = 0
    BY <1>1
  <2> QED
    BY <1>7, <2>1, <2>2, <2>3 DEF PlaceInv
<1>9. ReadyInv'
  <2>1. \A t \in Tasks : Placed(t)' => t \in Roots(g)
    BY <1>7, TaskFacts DEF Placed
  <2> QED
    BY <1>2, <1>4, <2>1 DEF ReadyInv, Roots
<1>10. RemInv'
  BY <1>1 DEF RemInv
<1>11. DepInv'
  BY <1>2, <1>3, <1>4 DEF DepInv, DepInit
<1>12. CountInv'
  BY FS_EmptySet DEF CountInv
<1>13. QuietInv'
  BY <1>1, <1>2 DEF QuietInv, Quiescent, Enqueued
<1> QED
  BY <1>5, <1>6, <1>8, <1>9, <1>10, <1>11, <1>12, <1>13 DEF IInv

(* The end of the wait: n_done = n, so every task is executed and counted, *)
(* and no other place holds one.                                           *)
LEMMA AwaitDoneKeepsIInv == IInv /\ AwaitDone => IInv'
<1> SUFFICES ASSUME IInv, AwaitDone PROVE IInv'
  OBVIOUS
<1> USE DEF IInv
<1>1. graph \in Graphs /\ graph # NoGraph
  BY DEF AwaitDone, TypeOK, QuietInv
<1>2. counted = TasksOf(graph)
  <2>1. counted \subseteq TasksOf(graph)
    BY DEF CountInv
  <2>2. Cardinality(counted) = Cardinality(TasksOf(graph))
    BY <1>1, GraphFacts DEF AwaitDone, RunDrained, CountInv
  <2> QED
    BY <1>1, <2>1, <2>2, GraphFacts, FS_Subset
<1>3. \A t \in Tasks : Placed(t) => execs[t] = 1 /\ ~InHand(t)
  BY <1>2 DEF ReadyInv, CountInv
<1>4. \A x \in Queues : Enqueued(x) = {}
  BY <1>3 DEF Enqueued, Placed, Queued, PlaceInv
<1>5. \A a \in Agents : held[a] = {} /\ pub[a] = NoTask
  BY <1>3 DEF Placed, InHand, InPush, PlaceInv, TypeOK
<1>6. \A a \in Agents : rem[a] = {}
  BY <1>5 DEF RemInv
<1>7. UNCHANGED <<places, pc>>
  <2>1. roots = {} /\ roots' = roots
    BY DEF AwaitDone
  <2> QED
    BY <2>1 DEF AwaitDone, places, shared, hist
<1>8. TypeOK'
  BY DEF TypeOK, AwaitDone, shared, hist
<1>9. PhaseInv'
  BY <1>7 DEF PhaseInv, places
<1>10. QuietInv'
  BY <1>1, <1>4, <1>5, <1>6, <1>7
  DEF QuietInv, Quiescent, Enqueued, places, AwaitDone
<1> QED
  BY <1>7, <1>8, <1>9, <1>10, UnmovedKeepsPlaces DEF places
--------------------------------------------------------------------------------
(* Steps that move tasks.                                                  *)

(* A push by the host or by an agent: t leaves the roots, or the hand of   *)
(* its publisher, and is queued at its route, or, at teardown, dropped.    *)
LEMMA EnqueueKeepsPlaceInv ==
  ASSUME IInv, NEW t \in Tasks, Placed(t),
         ~Queued(t), ~InHand(t), execs[t] = 0,
         t \notin roots', ~InPush(t)',
         roots' \subseteq roots,
         \A a \in Agents : pub'[a] \in {pub[a], NoTask},
         \A u \in Tasks : \A y \in Queues :
           q'[y][u] = q[y][u] \/ (u = t /\ y = Route(graph, t) /\ q'[y][u] = 1),
         UNCHANGED <<graph, held, execs>>
  PROVE  PlaceInv'
<1> USE DEF IInv
<1>1. /\ \A u : InHand(u)' <=> InHand(u)
      /\ \A u : u # NoTask /\ InPush(u)' => InPush(u)
      /\ \A u \in Tasks : u # t => (Queued(u)' <=> Queued(u))
  BY DEF InHand, InPush, Queued
<1>2. \A u \in Tasks : execs'[u] <= 1
  BY DEF PlaceInv
<1>3. \A u \in roots' : ~InPush(u)' /\ ~Queued(u)' /\ ~InHand(u)' /\ execs'[u] = 0
  BY <1>1, TaskFacts DEF PlaceInv, TypeOK
<1>4. ASSUME NEW a \in Agents, pub'[a] # NoTask
      PROVE  /\ ~Queued(pub[a])' /\ ~InHand(pub[a])' /\ execs'[pub'[a]] = 0
             /\ pub'[a] = pub[a]
             /\ \A b \in Agents : pub'[b] = pub'[a] => b = a
  <2>1. pub'[a] = pub[a] /\ pub[a] \in Tasks /\ pub[a] # t
    BY <1>4 DEF InPush, TypeOK
  <2>2. ~Queued(pub[a]) /\ ~InHand(pub[a]) /\ execs[pub[a]] = 0
        /\ \A b \in Agents : pub[b] = pub[a] => b = a
    BY <1>4, <2>1 DEF PlaceInv
  <2>3. ~(\E x \in Queues : q'[x][pub[a]] > 0)
    BY <2>1, <2>2 DEF Queued
  <2>4. ~(\E b \in Agents : pub[a] \in held'[b])
    BY <2>2 DEF InHand
  <2> QED
    BY <1>4, <2>1, <2>2, <2>3, <2>4 DEF Queued, InHand
<1>5. ASSUME NEW u \in Tasks, NEW x \in Queues, q'[x][u] > 0
      PROVE  q'[x][u] = 1 /\ x = Route(graph, u)' /\ ~InHand(u)' /\ execs'[u] = 0
  <2>1. Route(graph, u)' = Route(graph, u)
    BY DEF Route
  <2>2. CASE u = t /\ x = Route(graph, t) /\ q'[x][u] = 1
    BY <1>1, <2>1, <2>2
  <2>3. CASE q'[x][u] = q[x][u]
    BY <1>1, <1>5, <2>1, <2>3 DEF PlaceInv
  <2> QED
    BY <2>2, <2>3
<1>6. \A a, b \in Agents : a # b => held'[a] \cap held'[b] = {}
  BY DEF PlaceInv
<1> QED
  BY <1>2, <1>3, <1>4, <1>5, <1>6 DEF PlaceInv
(* What a task that has a place gets from the other invariants.            *)
LEMMA PlacedFacts ==
  ASSUME IInv, NEW t \in Tasks, Placed(t)
  PROVE  /\ graph \in Graphs /\ t \in TasksOf(graph) /\ Route(graph, t) \in Queues
         /\ Undelivered(t) = {}
<1>1. graph \in Graphs /\ t \in TasksOf(graph) /\ Undelivered(t) = {}
  BY DEF IInv, ReadyInv, TypeOK
<1> QED
  BY <1>1, RouteFacts

(* A push, successful or given up, keeps the rest of the invariant.        *)
LEMMA EnqueueKeepsIInv ==
  ASSUME IInv, TypeOK', PhaseInv', PlaceInv', NEW t \in Tasks, Placed(t),
         roots' \subseteq roots,
         \A a \in Agents : pub'[a] \in {pub[a], NoTask},
         \A u \in Tasks \ {t} : \A y \in Queues : q'[y][u] = q[y][u],
         hpc' = hpc, hpc = "publish" \/ InPush(t),
         UNCHANGED <<graph, dep, nDone, held, rem, execs, counted>>
  PROVE  IInv'
<1> USE DEF IInv
<1>1. \A c : Undelivered(c)' = Undelivered(c)
  BY DEF Undelivered
<1>2. ReadyInv'
  <2>1. \A u \in Tasks : Placed(u)' => Placed(u)
    BY TaskFacts DEF Placed, InPush, InHand, Queued
  <2> QED
    BY <1>1, <2>1 DEF ReadyInv
<1>3. RemInv'
  BY DEF RemInv
<1>4. DepInv'
  BY <1>1 DEF DepInv
<1>5. CountInv'
  BY DEF CountInv, InHand
<1>6. QuietInv'
  <2>1. CASE hpc \in {"close", "idle", "open"}
    BY <2>1, TaskFacts DEF QuietInv, Quiescent, InPush
  <2>2. CASE hpc \notin {"close", "idle", "open"}
    BY <2>2 DEF QuietInv, Quiescent
  <2> QED
    BY <2>1, <2>2
<1> QED
  BY <1>2, <1>3, <1>4, <1>5, <1>6

(* What a push does to the queues.                                         *)
LEMMA PushedQueues ==
  ASSUME TypeOK, NEW x \in Queues, NEW t \in Tasks, q[x][t] = 0,
         q' = [q EXCEPT ![x][t] = @ + 1]
  PROVE  /\ q' \in [Queues -> [Tasks -> Nat]]
         /\ \A u \in Tasks : \A y \in Queues :
              q'[y][u] = q[y][u] \/ (u = t /\ y = x /\ q'[y][u] = 1)
<1>1. q \in [Queues -> [Tasks -> Nat]]
  BY DEF TypeOK
<1>2. [q[x] EXCEPT ![t] = q[x][t] + 1] \in [Tasks -> Nat]
  BY <1>1
<1>3. q' = [q EXCEPT ![x] = [q[x] EXCEPT ![t] = q[x][t] + 1]]
  BY <1>1
<1> QED
  BY <1>1, <1>2, <1>3

(* publish() of run() for one root.                                        *)
LEMMA PublishRootKeepsIInv == IInv /\ PublishRoot => IInv'
<1> SUFFICES ASSUME IInv, PublishRoot PROVE IInv'
  OBVIOUS
<1>1. PICK t \in roots :
        /\ \/ q' = [q EXCEPT ![Route(graph, t)][t] = @ + 1]
           \/ UNCHANGED q
        /\ roots' = roots \ {t}
  BY DEF PublishRoot
<1>2. /\ hpc = "publish" /\ hpc' = hpc
      /\ UNCHANGED <<graph, dep, nDone, held, rem, pub, execs, counted, pc>>
  BY DEF PublishRoot, shared, hist
<1>3. t \in Tasks /\ Placed(t) /\ ~InPush(t) /\ ~Queued(t) /\ ~InHand(t)
      /\ execs[t] = 0
  BY DEF IInv, TypeOK, PlaceInv, Placed
<1>4. Route(graph, t) \in Queues
  BY <1>3, PlacedFacts
<1>5. /\ q' \in [Queues -> [Tasks -> Nat]]
      /\ \A u \in Tasks : \A y \in Queues :
        q'[y][u] = q[y][u] \/ (u = t /\ y = Route(graph, t) /\ q'[y][u] = 1)
  <2>1. q[Route(graph, t)][t] = 0
    BY <1>3, <1>4 DEF Queued, IInv, TypeOK
  <2>2. CASE q' = [q EXCEPT ![Route(graph, t)][t] = @ + 1]
    BY <1>3, <1>4, <2>1, <2>2, PushedQueues DEF IInv
  <2>3. CASE UNCHANGED q
    BY <2>3 DEF IInv, TypeOK
  <2> QED
    BY <1>1, <2>2, <2>3
<1>6. PlaceInv'
  BY <1>1, <1>2, <1>3, <1>5, EnqueueKeepsPlaceInv DEF InPush
<1>7. TypeOK'
  BY <1>1, <1>5 DEF IInv, TypeOK, PublishRoot, shared, hist
<1>8. PhaseInv'
  BY <1>2 DEF IInv, PhaseInv
<1>9. /\ roots' \subseteq roots
      /\ \A a \in Agents : pub'[a] \in {pub[a], NoTask}
      /\ \A u \in Tasks \ {t} : \A y \in Queues : q'[y][u] = q[y][u]
  BY <1>1, <1>2, <1>5
<1>10. UNCHANGED <<graph, dep, nDone, held, rem, execs, counted>>
  BY <1>2
<1>11. t \in Tasks /\ Placed(t) /\ hpc = "publish" /\ hpc' = hpc
  BY <1>2, <1>3
<1> QED
  BY <1>6, <1>7, <1>8, <1>9, <1>10, <1>11, EnqueueKeepsIInv

(* fl_publish by an agent.                                                 *)
LEMMA PushKeepsIInv ==
  ASSUME IInv, NEW a \in Agents, Push(a)
  PROVE  IInv'
<1>1. /\ pc[a] = "push" /\ pub' = [pub EXCEPT ![a] = NoTask]
      /\ q' = [q EXCEPT ![Route(graph, pub[a])][pub[a]] = @ + 1]
      /\ pc' = [pc EXCEPT ![a] = "notify"]
      /\ UNCHANGED <<graph, dep, nDone, hpc, roots, held, rem, execs, counted>>
  BY DEF Push, Goto, shared, host, hist
<1>2. PICK t \in Tasks : t = pub[a]
  BY <1>1 DEF IInv, PhaseInv, TypeOK
<1>3. InPush(t) /\ Placed(t)
  BY <1>2 DEF InPush, Placed
<1>4. /\ ~Queued(t) /\ ~InHand(t) /\ execs[t] = 0 /\ t \notin roots
      /\ \A b \in Agents : pub[b] = t => b = a
  BY <1>2, <1>3, TaskFacts DEF IInv, PlaceInv
<1>5. Route(graph, t) \in Queues
  BY <1>3, PlacedFacts
<1>6. /\ \A b \in Agents : pub'[b] \in {pub[b], NoTask}
      /\ ~(\E b \in Agents : pub'[b] = t)
  BY <1>1, <1>4, TaskFacts DEF IInv, TypeOK
<1>7. /\ q' \in [Queues -> [Tasks -> Nat]]
      /\ \A u \in Tasks : \A y \in Queues :
           q'[y][u] = q[y][u] \/ (u = t /\ y = Route(graph, t) /\ q'[y][u] = 1)
  <2>1. q[Route(graph, t)][t] = 0
    BY <1>4, <1>5 DEF Queued, IInv, TypeOK
  <2>2. q' = [q EXCEPT ![Route(graph, t)][t] = @ + 1]
    BY <1>1, <1>2
  <2>3. TypeOK
    BY DEF IInv
  <2> QED
    BY <1>5, <2>1, <2>2, <2>3, PushedQueues
<1>8. PlaceInv'
  BY <1>1, <1>3, <1>4, <1>6, <1>7, EnqueueKeepsPlaceInv DEF InPush
<1>9. TypeOK'
  BY <1>1, <1>7 DEF IInv, TypeOK, Push, shared, host, hist, Positions
<1>10. PhaseInv'
  BY <1>1 DEF IInv, TypeOK, PhaseInv, Polling, Positions
<1>11. \A u \in Tasks \ {t} : \A y \in Queues : q'[y][u] = q[y][u]
  BY <1>7
<1> QED
  BY <1>1, <1>3, <1>6, <1>7, <1>8, <1>9, <1>10, <1>11, EnqueueKeepsIInv

(* The push spin gives up: the GPU block goes on, the worker abandons the  *)
(* rest of its epilogue uncounted.                                         *)
LEMMA BlockBailKeepsIInv ==
  ASSUME IInv, NEW b \in Blocks, BlockBail(b)
  PROVE  IInv'
<1> b \in Agents
  BY DEF Agents
<1>1. /\ pc[b] = "push" /\ pub' = [pub EXCEPT ![b] = NoTask]
      /\ pc' = [pc EXCEPT ![b] = "notify"]
      /\ UNCHANGED <<graph, dep, nDone, q, hpc, roots, held, rem, execs, counted>>
  BY DEF BlockBail, Goto, shared, host, hist
<1>2. pub[b] \in Tasks /\ pub[b] # NoTask /\ InPush(pub[b]) /\ Placed(pub[b])
  BY <1>1, TaskFacts DEF IInv, PhaseInv, TypeOK, InPush, Placed
<1>3. \A a \in Agents : pub'[a] \in {pub[a], NoTask}
  BY <1>1 DEF IInv, TypeOK
<1>4. /\ ~Queued(pub[b]) /\ ~InHand(pub[b]) /\ execs[pub[b]] = 0
      /\ pub[b] \notin roots /\ ~(\E a \in Agents : pub'[a] = pub[b])
  BY <1>1, <1>2 DEF IInv, PlaceInv, TypeOK
<1>5. PlaceInv'
  BY <1>1, <1>2, <1>3, <1>4, EnqueueKeepsPlaceInv DEF InPush
<1>6. TypeOK'
  BY <1>1, TaskFacts
  DEF IInv, TypeOK, BlockBail, shared, host, hist, Positions
<1>7. PhaseInv'
  BY <1>1 DEF IInv, TypeOK, PhaseInv, Polling, Positions
<1> QED
  BY <1>1, <1>2, <1>3, <1>5, <1>6, <1>7, EnqueueKeepsIInv DEF IInv, TypeOK
LEMMA WorkerBailKeepsIInv ==
  ASSUME IInv, NEW w \in Workers, WorkerBail(w)
  PROVE  IInv'
<1> w \in Agents
  BY DEF Agents
<1>1. /\ pc[w] = "push" /\ pub' = [pub EXCEPT ![w] = NoTask]
      /\ rem' = [rem EXCEPT ![w] = {}] /\ held' = [held EXCEPT ![w] = {}]
      /\ pc' = [pc EXCEPT ![w] = "top"]
      /\ UNCHANGED <<graph, dep, nDone, q, hpc, roots, execs, counted>>
  BY DEF WorkerBail, Goto, shared, host, hist
<1>2. \A a \in Agents : /\ pub'[a] = IF a = w THEN NoTask ELSE pub[a]
                        /\ rem'[a] = IF a = w THEN {} ELSE rem[a]
                        /\ held'[a] = IF a = w THEN {} ELSE held[a]
                        /\ pc'[a] = IF a = w THEN "top" ELSE pc[a]
  BY <1>1 DEF IInv, TypeOK
<1>3. TypeOK'
  BY <1>1, TaskFacts
  DEF IInv, TypeOK, WorkerBail, shared, host, hist, Positions
<1>4. PhaseInv'
  BY <1>1, <1>2 DEF IInv, PhaseInv, Polling, Positions
<1>5. /\ \A t \in Tasks : InPush(t)' => InPush(t)
      /\ \A t : InHand(t)' => InHand(t)
      /\ \A t \in Tasks : Queued(t)' <=> Queued(t)
  BY <1>1, <1>2, TaskFacts DEF InPush, InHand, Queued
<1>6. PlaceInv'
  <2>1. \A t \in roots' : ~InPush(t)' /\ ~Queued(t)' /\ ~InHand(t)' /\ execs'[t] = 0
    BY <1>1, <1>5 DEF IInv, PlaceInv, TypeOK
  <2>2. \A a \in Agents : pub'[a] # NoTask =>
          /\ ~Queued(pub[a])' /\ ~InHand(pub[a])' /\ execs'[pub'[a]] = 0
          /\ \A b \in Agents : pub'[b] = pub'[a] => b = a
    BY <1>1, <1>2 DEF IInv, PlaceInv, Queued, InHand
  <2>3. \A t \in Tasks : \A x \in Queues : q'[x][t] > 0 =>
          q'[x][t] = 1 /\ x = Route(graph, t)' /\ ~InHand(t)' /\ execs'[t] = 0
    BY <1>1, <1>5 DEF IInv, PlaceInv, Route
  <2>4. \A a, b \in Agents : a # b => held'[a] \cap held'[b] = {}
    BY <1>2 DEF IInv, PlaceInv
  <2>5. \A t \in Tasks : execs'[t] <= 1
    BY <1>1 DEF IInv, PlaceInv
  <2> QED
    BY <2>1, <2>2, <2>3, <2>4, <2>5 DEF PlaceInv
<1>7. \A c : Undelivered(c)' \subseteq Undelivered(c)
  BY <1>1, <1>2 DEF Undelivered
<1>8. ReadyInv'
  <2>1. \A t \in Tasks : Placed(t)' => Placed(t)
    BY <1>1, <1>5 DEF Placed
  <2> QED
    BY <1>1, <1>7, <2>1 DEF IInv, ReadyInv
<1>9. RemInv'
  BY <1>1, <1>2 DEF IInv, RemInv
<1>10. DepInv'
  BY <1>1, <1>7, ShrinkingKeepsDepInv DEF IInv
<1>11. CountInv'
  BY <1>1, <1>5 DEF IInv, CountInv
<1>12. QuietInv'
  BY <1>1, <1>2 DEF IInv, QuietInv, Quiescent, Enqueued
<1> QED
  BY <1>3, <1>4, <1>6, <1>8, <1>9, <1>10, <1>11, <1>12 DEF IInv

(* A pop that succeeds: pop for a worker, pop_bulk for a block.            *)
LEMMA ClaimKeepsIInv ==
  ASSUME IInv, NEW a \in Agents, NEW x \in Queues, NEW S, S # {},
         pc[a] \in Polling, Claim(a, x, S), rr' \in [Agents -> Nat]
  PROVE  IInv'
<1>1. /\ S \subseteq Tasks /\ \A t \in S : q[x][t] > 0
      /\ q' = [q EXCEPT ![x] = [t \in Tasks |-> IF t \in S THEN @[t] - 1 ELSE @[t]]]
      /\ held' = [held EXCEPT ![a] = S] /\ pc' = [pc EXCEPT ![a] = "exec"]
      /\ sweep' = [sweep EXCEPT ![a] = 0]
      /\ UNCHANGED <<graph, dep, nDone, hpc, roots, rem, pub, execs, counted>>
  BY DEF Claim, Enqueued, Goto, Unheld, shared, host, hist
<1>2. \A t \in S : q[x][t] = 1 /\ x = Route(graph, t) /\ ~InHand(t)
                  /\ execs[t] = 0 /\ Queued(t) /\ Placed(t)
  BY <1>1 DEF IInv, PlaceInv, Queued, Placed
<1>3. /\ \A y \in Queues : \A t \in Tasks :
           q'[y][t] = IF y = x /\ t \in S THEN 0 ELSE q[y][t]
      /\ q' \in [Queues -> [Tasks -> Nat]]
  BY <1>1, <1>2 DEF IInv, TypeOK
<1>4. \A b \in Agents : /\ held'[b] = IF b = a THEN S ELSE held[b]
                        /\ pc'[b] = IF b = a THEN "exec" ELSE pc[b]
  BY <1>1 DEF IInv, TypeOK
<1>5. held[a] = {} /\ rem[a] = {} /\ pub[a] = NoTask
  BY DEF IInv, PhaseInv, Polling
<1>6. TypeOK'
  BY <1>1, <1>3 DEF IInv, TypeOK, Claim, Unheld, shared, host, hist, Positions
<1>7. PhaseInv'
  BY <1>1, <1>2, <1>4, <1>5 DEF IInv, PhaseInv, Polling, Positions
<1>8. /\ \A t : InPush(t)' <=> InPush(t)
      /\ \A t : InHand(t)' <=> InHand(t) \/ t \in S
      /\ \A t \in Tasks : Queued(t)' => Queued(t) /\ t \notin S
  <2>1. \A t \in S : \A y \in Queues : q'[y][t] = 0
    BY <1>1, <1>2, <1>3 DEF IInv, PlaceInv, TypeOK
  <2> QED
    BY <1>1, <1>3, <1>4, <1>5, <2>1 DEF InPush, InHand, Queued
<1>9. PlaceInv'
  <2>1. \A t \in roots' : ~InPush(t)' /\ ~Queued(t)' /\ ~InHand(t)' /\ execs'[t] = 0
    BY <1>1, <1>2, <1>8 DEF IInv, PlaceInv, TypeOK
  <2>2. ASSUME NEW b \in Agents, pub'[b] # NoTask
        PROVE  /\ ~Queued(pub[b])' /\ ~InHand(pub[b])' /\ execs'[pub'[b]] = 0
               /\ \A c \in Agents : pub'[c] = pub'[b] => c = b
    <3>1. /\ ~Queued(pub[b]) /\ ~InHand(pub[b]) /\ execs[pub[b]] = 0
          /\ \A c \in Agents : pub[c] = pub[b] => c = b
          /\ pub'[b] = pub[b] /\ pub[b] \in Tasks
      BY <1>1, <2>2 DEF IInv, PlaceInv, TypeOK
    <3>2. pub[b] \notin S
      BY <1>2, <3>1
    <3>3. ~(\E y \in Queues : q'[y][pub[b]] > 0)
      BY <1>3, <3>1, <3>2 DEF Queued
    <3>4. ~(\E c \in Agents : pub[b] \in held'[c])
      BY <1>4, <3>1, <3>2 DEF InHand
    <3> QED
      BY <1>1, <3>1, <3>3, <3>4 DEF Queued, InHand
  <2>3. \A t \in Tasks : \A y \in Queues : q'[y][t] > 0 =>
          q'[y][t] = 1 /\ y = Route(graph, t)' /\ ~InHand(t)' /\ execs'[t] = 0
    BY <1>1, <1>3, <1>8 DEF IInv, PlaceInv, Route, Queued
  <2>4. \A b, c \in Agents : b # c => held'[b] \cap held'[c] = {}
    BY <1>2, <1>4 DEF IInv, PlaceInv, InHand
  <2>5. \A t \in Tasks : execs'[t] <= 1
    BY <1>1 DEF IInv, PlaceInv
  <2> QED
    BY <2>1, <2>2, <2>3, <2>4, <2>5 DEF PlaceInv
<1>10. \A c : Undelivered(c)' = Undelivered(c)
  BY <1>1 DEF Undelivered
<1>11. ReadyInv'
  <2>1. \A t \in Tasks : Placed(t)' => Placed(t)
    BY <1>1, <1>2, <1>8 DEF Placed
  <2> QED
    BY <1>1, <1>10, <2>1 DEF IInv, ReadyInv
<1>12. RemInv'
  BY <1>1, <1>4, <1>5 DEF IInv, RemInv
<1>13. DepInv'
  BY <1>1, <1>10 DEF IInv, DepInv
<1>14. CountInv'
  BY <1>1, <1>2, <1>8 DEF IInv, CountInv
<1>15. QuietInv'
  <2>1. hpc \notin {"close", "idle", "open"}
    BY <1>1 DEF IInv, QuietInv, Quiescent, Enqueued
  <2> QED
    BY <1>1, <2>1 DEF IInv, QuietInv, Quiescent
<1> QED
  BY <1>6, <1>7, <1>9, <1>11, <1>12, <1>13, <1>14, <1>15 DEF IInv
(* The execution of a claimed batch.                                       *)
LEMMA ExecKeepsIInv ==
  ASSUME IInv, NEW a \in Agents, Exec(a)
  PROVE  IInv'
<1>1. /\ pc[a] = "exec"
      /\ execs' = [t \in Tasks |-> IF t \in held[a] THEN execs[t] + 1 ELSE execs[t]]
      /\ rem' = [rem EXCEPT ![a] = EdgesOf(graph, held[a])]
      /\ pc' \in { [pc EXCEPT ![a] = l] : l \in {"signal", "notify"} }
      /\ UNCHANGED <<graph, dep, nDone, q, hpc, roots, held, pub, counted>>
  BY DEF Exec, Goto, shared, host
<1>2. \A t \in held[a] : /\ t \in Tasks /\ execs[t] = 0 /\ Placed(t)
                         /\ InHand(t) /\ graph \in Graphs /\ graph # NoGraph
  BY <1>1 DEF IInv, TypeOK, PhaseInv, Placed, InHand, ReadyInv
<1>3. \A t \in Tasks : execs'[t] = IF t \in held[a] THEN 1 ELSE execs[t]
  BY <1>1, <1>2
<1>4. \A b \in Agents :
        /\ rem'[b] = IF b = a THEN EdgesOf(graph, held[a]) ELSE rem[b]
        /\ b # a => pc'[b] = pc[b]
        /\ pc'[a] \in {"signal", "notify"}
  BY <1>1 DEF IInv, TypeOK
<1>5. /\ held[a] = {} => EdgesOf(graph, held[a]) = {}
      /\ EdgesOf(graph, held[a]) \subseteq Tasks \X (1 .. MaxConsumers)
  BY <1>2, TaskFacts DEF EdgesOf, Edges
<1>6. pub[a] = NoTask
  BY <1>1 DEF IInv, PhaseInv
<1>7. TypeOK'
  <2>1. execs' \in [Tasks -> Nat]
    BY <1>1, <1>3 DEF IInv, TypeOK
  <2>2. rem' \in [Agents -> SUBSET (Tasks \X (1 .. MaxConsumers))]
    BY <1>1, <1>5 DEF IInv, TypeOK
  <2>3. pc' \in [Agents -> Positions]
    BY <1>1 DEF IInv, TypeOK, Positions
  <2> QED
    BY <1>1, <2>1, <2>2, <2>3 DEF IInv, TypeOK, Exec, shared, host
<1>8. \A b \in Agents : b # a => held[b] \cap held[a] = {}
  BY DEF IInv, PlaceInv
<1>9. PhaseInv'
  BY <1>1, <1>3, <1>4, <1>6, <1>8 DEF IInv, TypeOK, PhaseInv, Polling, Positions
<1>10. \A t : /\ InPush(t)' <=> InPush(t)
              /\ InHand(t)' <=> InHand(t)
              /\ Queued(t)' <=> Queued(t)
  BY <1>1 DEF InPush, InHand, Queued
<1>11. PlaceInv'
  <2>1. \A t \in roots' : ~InPush(t)' /\ ~Queued(t)' /\ ~InHand(t)' /\ execs'[t] = 0
    BY <1>1, <1>2, <1>3, <1>10 DEF IInv, PlaceInv, TypeOK
  <2>2. \A b \in Agents : pub'[b] # NoTask =>
          /\ ~Queued(pub[b])' /\ ~InHand(pub[b])' /\ execs'[pub'[b]] = 0
          /\ \A c \in Agents : pub'[c] = pub'[b] => c = b
    <3> SUFFICES ASSUME NEW b \in Agents, pub'[b] # NoTask
                 PROVE  /\ ~Queued(pub[b])' /\ ~InHand(pub[b])'
                        /\ execs'[pub'[b]] = 0
                        /\ \A c \in Agents : pub'[c] = pub'[b] => c = b
      OBVIOUS
    <3>1. /\ ~Queued(pub[b]) /\ ~InHand(pub[b]) /\ execs[pub[b]] = 0
          /\ \A c \in Agents : pub[c] = pub[b] => c = b
          /\ pub'[b] = pub[b] /\ pub[b] \in Tasks
      BY <1>1 DEF IInv, PlaceInv, TypeOK
    <3>2. pub[b] \notin held[a]
      BY <3>1 DEF InHand
    <3> QED
      BY <1>1, <1>3, <3>1, <3>2 DEF Queued, InHand
  <2>3. \A t \in Tasks : \A x \in Queues : q'[x][t] > 0 =>
          q'[x][t] = 1 /\ x = Route(graph, t)' /\ ~InHand(t)' /\ execs'[t] = 0
    BY <1>1, <1>2, <1>3, <1>10 DEF IInv, PlaceInv, Route
  <2>4. \A b, c \in Agents : b # c => held'[b] \cap held'[c] = {}
    BY <1>1 DEF IInv, PlaceInv
  <2>5. \A t \in Tasks : execs'[t] <= 1
    BY <1>3 DEF IInv, PlaceInv
  <2> QED
    BY <2>1, <2>2, <2>3, <2>4, <2>5 DEF PlaceInv
<1>12. graph # NoGraph => \A c : Undelivered(c)' \subseteq Undelivered(c)
  <2> SUFFICES ASSUME graph # NoGraph, NEW c, NEW e \in Undelivered(c)'
               PROVE  e \in Undelivered(c)
    OBVIOUS
  <2>1. e \in EdgesInto(graph, c) /\ e[1] \in Tasks
    BY <1>1, GraphFacts, TaskFacts DEF Undelivered, EdgesInto, IInv, TypeOK
  <2>2. CASE execs'[e[1]] = 0
    BY <1>3, <2>1, <2>2 DEF Undelivered
  <2>3. CASE \E b \in Agents : e \in rem'[b]
    BY <1>2, <1>4, <2>1, <2>3 DEF Undelivered, EdgesOf
  <2> QED
    <3>1. execs'[e[1]] = 0 \/ \E b \in Agents : e \in rem'[b]
      BY DEF Undelivered
    <3> QED
      BY <2>2, <2>3, <3>1
<1>13. ReadyInv'
  <2>1. \A t \in Tasks : Placed(t)' => Placed(t)
    BY <1>1, <1>2, <1>3, <1>10 DEF Placed
  <2> QED
    BY <1>1, <1>12, <2>1 DEF IInv, ReadyInv
<1>14. RemInv'
  BY <1>1, <1>2, <1>4 DEF IInv, RemInv, EdgesOf
<1>15. DepInv'
  BY <1>1, <1>12, ShrinkingKeepsDepInv DEF IInv
<1>16. CountInv'
  BY <1>1, <1>3, <1>10 DEF IInv, TypeOK, CountInv, InHand
<1>17. QuietInv'
  BY <1>1, <1>4, <1>5 DEF IInv, QuietInv, Quiescent, Enqueued
<1> QED
  BY <1>7, <1>9, <1>11, <1>13, <1>14, <1>15, <1>16, <1>17 DEF IInv

(* n_done after the last consumer.                                         *)
LEMMA CountKeepsIInv ==
  ASSUME IInv, NEW a \in Agents, Count(a)
  PROVE  IInv'
<1>1. /\ pc[a] = "notify" /\ rem[a] = {}
      /\ nDone' = nDone + Cardinality(held[a])
      /\ counted' = counted \cup held[a]
      /\ held' = [held EXCEPT ![a] = {}]
      /\ pc' = [pc EXCEPT ![a] = "top"]
      /\ UNCHANGED <<graph, dep, q, hpc, roots, rem, pub, execs>>
  BY DEF Count, Goto, host
<1>2. /\ held[a] \subseteq Tasks
      /\ \A t \in held[a] : InHand(t) /\ Placed(t) /\ execs[t] = 1
                            /\ graph # NoGraph /\ t \in TasksOf(graph)
      /\ \A b \in Agents : b # a => held[b] \cap held[a] = {}
  BY <1>1 DEF IInv, TypeOK, PhaseInv, PlaceInv, ReadyInv, Placed, InHand
<1>3. \A b \in Agents : /\ held'[b] = IF b = a THEN {} ELSE held[b]
                        /\ pc'[b] = IF b = a THEN "top" ELSE pc[b]
  BY <1>1 DEF IInv, TypeOK
<1>4. /\ IsFiniteSet(held[a]) /\ IsFiniteSet(counted)
      /\ Cardinality(held[a]) \in Nat /\ Cardinality(counted) \in Nat
  BY <1>2, TaskFacts, FS_Subset, FS_CardinalityType DEF IInv, TypeOK
<1>5. Cardinality(counted') = Cardinality(counted) + Cardinality(held[a])
  <2>1. counted \cap held[a] = {}
    BY <1>2 DEF IInv, CountInv
  <2> QED
    BY <1>1, <1>4, <2>1, FS_Union, FS_EmptySet
<1>6. TypeOK'
  BY <1>1, <1>2, <1>4 DEF IInv, TypeOK, Count, host, Positions
<1>7. PhaseInv'
  BY <1>1, <1>3 DEF IInv, PhaseInv, Polling, Positions
<1>8. \A t : InHand(t)' <=> InHand(t) /\ t \notin held[a]
  BY <1>2, <1>3 DEF InHand
<1>9. PlaceInv'
  <2>1. \A t \in roots' : ~InPush(t)' /\ ~Queued(t)' /\ ~InHand(t)' /\ execs'[t] = 0
    BY <1>1, <1>8 DEF IInv, PlaceInv, InPush, Queued
  <2>2. \A b \in Agents : pub'[b] # NoTask =>
          /\ ~Queued(pub[b])' /\ ~InHand(pub[b])' /\ execs'[pub'[b]] = 0
          /\ \A c \in Agents : pub'[c] = pub'[b] => c = b
    BY <1>1, <1>3 DEF IInv, PlaceInv, Queued, InHand
  <2>3. \A t \in Tasks : \A x \in Queues : q'[x][t] > 0 =>
          q'[x][t] = 1 /\ x = Route(graph, t)' /\ ~InHand(t)' /\ execs'[t] = 0
    BY <1>1, <1>8 DEF IInv, PlaceInv, Route
  <2>4. \A b, c \in Agents : b # c => held'[b] \cap held'[c] = {}
    BY <1>3 DEF IInv, PlaceInv
  <2>5. \A t \in Tasks : execs'[t] <= 1
    BY <1>1 DEF IInv, PlaceInv
  <2> QED
    BY <2>1, <2>2, <2>3, <2>4, <2>5 DEF PlaceInv
<1>10. \A c : Undelivered(c)' = Undelivered(c)
  BY <1>1 DEF Undelivered
<1>11. ReadyInv'
  <2>1. \A t \in Tasks : Placed(t)' => Placed(t)
    BY <1>1, <1>8 DEF Placed, InPush, Queued
  <2> QED
    BY <1>1, <1>10, <2>1 DEF IInv, ReadyInv
<1>12. RemInv'
  BY <1>1, <1>3 DEF IInv, RemInv
<1>13. DepInv'
  BY <1>1, <1>10 DEF IInv, DepInv
<1>14. CountInv'
  BY <1>1, <1>2, <1>5, <1>8 DEF IInv, CountInv
<1>15. QuietInv'
  BY <1>1, <1>3 DEF IInv, QuietInv, Quiescent, Enqueued
<1> QED
  BY <1>6, <1>7, <1>9, <1>11, <1>12, <1>13, <1>14, <1>15 DEF IInv

(* Delivery: the subtraction that finds exactly what it subtracts is the   *)
(* one after which nothing is undelivered, and only one can be.            *)
LEMMA DeliverKeepsIInv ==
  ASSUME IInv, NEW a \in Agents, NEW c, NEW D \in SUBSET rem[a], D # {},
         \A e \in D : Target(graph, e) = c, Deliver(a, c, D)
  PROVE  IInv'
<1> DEFINE ready == dep[c] = Cardinality(D)
<1>1. /\ pc[a] = "notify"
      /\ dep' = [dep EXCEPT ![c] = @ - Cardinality(D)]
      /\ rem' = [rem EXCEPT ![a] = @ \ D]
      /\ pub' = IF ready THEN [pub EXCEPT ![a] = c] ELSE pub
      /\ pc' = IF ready THEN [pc EXCEPT ![a] = "push"] ELSE pc
      /\ UNCHANGED <<graph, nDone, q, hpc, roots, held, execs, counted>>
  BY DEF Deliver, Decrement, MadeReady, Goto, host, hist
<1>2. /\ graph \in Graphs /\ graph # NoGraph
      /\ \A e \in D : e \in EdgesInto(graph, c)
      /\ c \in TasksOf(graph) /\ c \in Tasks /\ c # NoTask
  <2>1. graph # NoGraph /\ \A e \in D : e \in Edges(graph)
    BY DEF IInv, RemInv
  <2>2. graph \in Graphs
    BY <2>1 DEF IInv, TypeOK
  <2>3. c \in TasksOf(graph)
    BY <2>1, <2>2, GraphFacts
  <2> QED
    BY <2>1, <2>2, <2>3, TaskFacts DEF EdgesInto
<1>3. \A e \in rem[a] : execs[e[1]] = 1
  BY <1>1 DEF IInv, PhaseInv, RemInv
<1>4. \A b \in Agents : b # a => rem[b] \cap rem[a] = {}
  BY DEF IInv, PlaceInv, RemInv
<1>5. D \subseteq Undelivered(c)
  BY <1>2 DEF Undelivered
<1>6. \A b \in Agents : /\ rem'[b] = IF b = a THEN rem[b] \ D ELSE rem[b]
                        /\ pub'[b] = IF b = a /\ ready THEN c ELSE pub[b]
                        /\ pc'[b] = IF b = a /\ ready THEN "push" ELSE pc[b]
  BY <1>1 DEF IInv, TypeOK
<1>7. Undelivered(c)' = Undelivered(c) \ D
  <2>1. ASSUME NEW e \in EdgesInto(graph, c)
        PROVE  (execs[e[1]] = 0 \/ \E b \in Agents : e \in rem'[b])
               <=> ((execs[e[1]] = 0 \/ \E b \in Agents : e \in rem[b]) /\ e \notin D)
    <3>1. CASE e \in D
      <4>1. e \in rem[a] /\ execs[e[1]] = 1
        BY <1>3, <3>1
      <4>2. \A b \in Agents : e \notin rem'[b]
        BY <1>4, <1>6, <3>1, <4>1
      <4> QED
        BY <3>1, <4>1, <4>2
    <3>2. CASE e \notin D
      <4>1. \A b \in Agents : e \in rem'[b] <=> e \in rem[b]
        BY <1>6, <3>2
      <4> QED
        BY <3>2, <4>1
    <3> QED
      BY <3>1, <3>2
  <2> QED
    BY <1>1, <2>1 DEF Undelivered
<1>8. \A k : k # c => Undelivered(k)' = Undelivered(k)
  <2> SUFFICES ASSUME NEW k, k # c PROVE Undelivered(k)' = Undelivered(k)
    OBVIOUS
  <2>1. \A e \in EdgesInto(graph, k) : e \notin D
    BY DEF EdgesInto
  <2>2. ASSUME NEW e \in EdgesInto(graph, k)
        PROVE  (\E b \in Agents : e \in rem'[b]) <=> (\E b \in Agents : e \in rem[b])
    BY <1>6, <2>1
  <2> QED
    BY <1>1, <2>2 DEF Undelivered
<1>9. /\ IsFiniteSet(Undelivered(c)) /\ Cardinality(Undelivered(c)) \in Nat
      /\ IsFiniteSet(D) /\ Cardinality(D) \in Nat
      /\ Cardinality(Undelivered(c)') = Cardinality(Undelivered(c)) - Cardinality(D)
      /\ Cardinality(Undelivered(c)') \in Nat
  <2>1. IsFiniteSet(Undelivered(c)) /\ Cardinality(Undelivered(c)) \in Nat
    BY <1>2, UndeliveredFacts DEF IInv
  <2>2. IsFiniteSet(D) /\ Cardinality(D) \in Nat
    BY <1>5, <2>1, FS_Subset, FS_CardinalityType
  <2>3. Undelivered(c) \cap D = D
    BY <1>5
  <2>4. /\ IsFiniteSet(Undelivered(c) \ D)
        /\ Cardinality(Undelivered(c) \ D)
             = Cardinality(Undelivered(c)) - Cardinality(D)
    BY <2>1, <2>3, FS_Difference
  <2>5. Cardinality(Undelivered(c) \ D) \in Nat
    BY <2>4, FS_CardinalityType
  <2> QED
    BY <1>7, <2>1, <2>2, <2>4, <2>5
<1>10. dep[c] \in Nat /\ dep[c] >= Cardinality(Undelivered(c))
  BY <1>2 DEF IInv, TypeOK, DepInv
<1>11. ready => Undelivered(c)' = {}
  <2> SUFFICES ASSUME ready PROVE Undelivered(c)' = {}
    OBVIOUS
  <2>1. Cardinality(Undelivered(c)') = 0
    BY <1>9, <1>10
  <2>2. IsFiniteSet(Undelivered(c)')
    BY <1>7, <1>9, FS_Subset
  <2> QED
    BY <2>1, <2>2, FS_EmptySet
<1>12. ~Placed(c)
  BY <1>2, <1>5 DEF IInv, ReadyInv
<1>13. pub[a] = NoTask
  BY <1>1 DEF IInv, PhaseInv
<1>14. \A k \in Tasks : /\ dep'[k] \in Nat
                        /\ k # c => dep'[k] = dep[k]
                        /\ k = c => dep'[k] = dep[k] - Cardinality(D)
  BY <1>1, <1>2, <1>9, <1>10 DEF IInv, TypeOK
<1>15. TypeOK'
  <2>1. /\ dep' \in [Tasks -> Nat]
        /\ rem' \in [Agents -> SUBSET (Tasks \X (1 .. MaxConsumers))]
        /\ pub' \in [Agents -> Tasks \cup {NoTask}]
        /\ pc' \in [Agents -> Positions]
    <3>1. dep' \in [Tasks -> Nat]
      BY <1>1, <1>14 DEF IInv, TypeOK
    <3>2. rem' \in [Agents -> SUBSET (Tasks \X (1 .. MaxConsumers))]
      BY <1>1 DEF IInv, TypeOK
    <3>3. pub' \in [Agents -> Tasks \cup {NoTask}] /\ pc' \in [Agents -> Positions]
      BY <1>1, <1>2 DEF IInv, TypeOK, Positions
    <3> QED
      BY <3>1, <3>2, <3>3
  <2>2. UNCHANGED <<graph, nDone, doneFlag, active, runFlag, noSteal, q, hpc,
                    roots, life, runs, starts, held, rr, sweep, execs, counted>>
    BY DEF Deliver, host, hist
  <2>3. TypeOK
    BY DEF IInv
  <2> QED
    BY <2>1, <2>2, <2>3 DEF TypeOK
<1>16. PhaseInv'
  BY <1>1, <1>2, <1>6, <1>13 DEF IInv, PhaseInv, Polling, Positions
<1>17. /\ \A t \in Tasks : InPush(t)' <=> InPush(t) \/ (ready /\ t = c)
       /\ \A t : InHand(t)' <=> InHand(t)
       /\ \A t : Queued(t)' <=> Queued(t)
  BY <1>1, <1>6, <1>13, TaskFacts DEF InPush, InHand, Queued
<1>18. /\ c \notin roots /\ ~InPush(c) /\ ~Queued(c) /\ ~InHand(c)
       /\ execs[c] = 0
  BY <1>2, <1>12 DEF Placed, IInv, TypeOK
<1>19. PlaceInv'
  <2>1. \A t \in roots' : ~InPush(t)' /\ ~Queued(t)' /\ ~InHand(t)' /\ execs'[t] = 0
    BY <1>1, <1>17, <1>18 DEF IInv, PlaceInv, TypeOK
  <2>2. ASSUME NEW b \in Agents, pub'[b] # NoTask
        PROVE  /\ ~Queued(pub[b])' /\ ~InHand(pub[b])' /\ execs'[pub'[b]] = 0
               /\ \A k \in Agents : pub'[k] = pub'[b] => k = b
    <3>1. CASE b = a /\ ready
      BY <1>1, <1>6, <1>18, <3>1 DEF Queued, InHand, InPush
    <3>2. CASE ~(b = a /\ ready)
      BY <1>1, <1>6, <1>18, <2>2, <3>2 DEF IInv, PlaceInv, Queued, InHand, InPush
    <3> QED
      BY <3>1, <3>2
  <2>3. \A t \in Tasks : \A x \in Queues : q'[x][t] > 0 =>
          q'[x][t] = 1 /\ x = Route(graph, t)' /\ ~InHand(t)' /\ execs'[t] = 0
    BY <1>1, <1>17 DEF IInv, PlaceInv, Route
  <2>4. \A b, k \in Agents : b # k => held'[b] \cap held'[k] = {}
    BY <1>1 DEF IInv, PlaceInv
  <2>5. \A t \in Tasks : execs'[t] <= 1
    BY <1>1 DEF IInv, PlaceInv
  <2> QED
    BY <2>1, <2>2, <2>3, <2>4, <2>5 DEF PlaceInv
<1>20. ReadyInv'
  <2> SUFFICES ASSUME NEW t \in Tasks, Placed(t)'
               PROVE  t \in TasksOf(graph) /\ Undelivered(t)' = {}
    BY <1>1, <1>2 DEF ReadyInv
  <2>1. Placed(t) \/ (ready /\ t = c)
    BY <1>1, <1>17 DEF Placed
  <2>2. CASE Placed(t)
    <3>1. t # c /\ t \in TasksOf(graph) /\ Undelivered(t) = {}
      BY <1>12, <2>2 DEF IInv, ReadyInv
    <3> QED
      BY <1>8, <3>1
  <2>3. CASE ready /\ t = c
    BY <1>2, <1>11, <2>3
  <2> QED
    BY <2>1, <2>2, <2>3
<1>21. RemInv'
  BY <1>1, <1>6 DEF IInv, RemInv
<1>22. DepInv'
  <2> SUFFICES ASSUME NEW k \in TasksOf(graph)
               PROVE  dep'[k] >= Cardinality(Undelivered(k)')
    BY <1>1 DEF DepInv
  <2>1. CASE k = c
    BY <1>2, <1>9, <1>10, <1>14, <2>1
  <2>2. CASE k # c
    <3>1. k \in Tasks
      BY <1>2, TaskFacts
    <3> QED
      BY <1>2, <1>8, <1>14, <2>2, <3>1 DEF IInv, DepInv
  <2> QED
    BY <2>1, <2>2
<1>23. CountInv'
  BY <1>1, <1>17 DEF IInv, CountInv
<1>24. QuietInv'
  <2>1. hpc \notin {"close", "idle", "open"}
    BY DEF IInv, QuietInv, Quiescent
  <2> QED
    BY <1>1, <2>1 DEF IInv, QuietInv, Quiescent
<1> QED
  BY <1>15, <1>16, <1>19, <1>20, <1>21, <1>22, <1>23, <1>24 DEF IInv

--------------------------------------------------------------------------------
(* The agents.                                                             *)

(* A pop that misses, the loop head, a look at active, waking up.          *)
LEMMA MissKeepsIInv ==
  ASSUME IInv, NEW a \in Agents, NEW x \in Queues, NEW l \in Polling,
         pc[a] \in Polling, Miss(a, x, l)
  PROVE  IInv'
<1>1. sweep' \in [Agents -> Nat]
  BY DEF Miss, IInv, TypeOK
<1> QED
  BY <1>1, PollingKeepsIInv DEF Miss, Goto, Unheld

LEMMA IdlingKeepsIInv ==
  ASSUME IInv, NEW a \in Agents, Top(a) \/ Look(a) \/ Wake(a)
  PROVE  IInv'
<1>1. PICK l \in Polling : pc' = [pc EXCEPT ![a] = l]
  BY DEF Top, Look, Wake, Goto, Polling, Positions
<1>2. /\ pc[a] \in Polling /\ sweep' \in [Agents -> Nat]
      /\ UNCHANGED <<shared, q, host, held, rem, pub, rr, hist>>
  BY DEF Top, Look, Wake, Unheld, Polling, Positions, IInv, TypeOK
<1> QED
  BY <1>1, <1>2, PollingKeepsIInv

(* The five shared sources of a worker and of a block.                     *)
LEMMA QueueFacts ==
  /\ 0 .. 3 \subseteq Queues
  /\ NumBlocks \in Nat
  /\ \A n \in 0 .. NumBlocks - 1 : Ring(n) \in Queues
  /\ PerBlock => NumBlocks > 0
  BY ConfigIsValid DEF ConfigAssumption, Queues, Ring

LEMMA WorkerPopKeepsIInv ==
  ASSUME IInv, NEW w \in Workers, NEW l \in Polling, NEW x \in Queues,
         NEW next \in Polling, WorkerPop(w, l, x, next)
  PROVE  IInv'
<1>1. w \in Agents /\ pc[w] \in Polling
  BY DEF Agents, WorkerPop
<1>2. ASSUME NEW t \in Enqueued(x), Claim(w, x, {t}), UNCHANGED rr
      PROVE  IInv'
  <2>1. rr' \in [Agents -> Nat] /\ {t} # {}
    BY <1>2 DEF IInv, TypeOK
  <2> QED
    BY <1>1, <1>2, <2>1, ClaimKeepsIInv
<1>3. CASE Miss(w, x, next)
  BY <1>1, <1>3, MissKeepsIInv
<1> QED
  BY <1>2, <1>3 DEF WorkerPop

LEMMA BlockPopKeepsIInv ==
  ASSUME IInv, NEW b \in Blocks, NEW l \in Polling, NEW x \in Queues,
         NEW next \in Polling, BlockPop(b, l, x, next)
  PROVE  IInv'
<1>1. b \in Agents /\ pc[b] \in Polling
  BY DEF Agents, BlockPop
<1>2. ASSUME NEW S \in Batches(x), Claim(b, x, S), UNCHANGED rr
      PROVE  IInv'
  <2>1. rr' \in [Agents -> Nat] /\ S # {}
    BY <1>2 DEF IInv, TypeOK, Batches
  <2> QED
    BY <1>1, <1>2, <2>1, ClaimKeepsIInv
<1>3. CASE Miss(b, x, next)
  BY <1>1, <1>3, MissKeepsIInv
<1> QED
  BY <1>2, <1>3 DEF BlockPop

(* The sweep of a worker over the rings.                                   *)
LEMMA WorkerStealRingKeepsIInv ==
  ASSUME IInv, NEW w \in Workers, WorkerStealRing(w)
  PROVE  IInv'
<1>1. /\ w \in Agents /\ pc[w] = "steal" /\ pc[w] \in Polling /\ PerBlock
      /\ {"steal", "top"} \subseteq Polling
  BY DEF Agents, WorkerStealRing, Polling, Positions
<1>2. rr \in [Agents -> Nat] /\ sweep \in [Agents -> Nat]
  BY DEF IInv, TypeOK
<1> DEFINE b == (rr[w] + sweep[w]) % NumBlocks
           last == sweep[w] = NumBlocks - 1
<1>3. b \in 0 .. NumBlocks - 1 /\ b + 1 \in Nat /\ Ring(b) \in Queues
  <2>1. NumBlocks \in Nat /\ NumBlocks > 0 /\ rr[w] + sweep[w] \in Nat
    BY <1>1, <1>2, QueueFacts
  <2>2. b \in 0 .. NumBlocks - 1
    BY <2>1
  <2> QED
    BY <2>1, <2>2, QueueFacts
<1>4. ASSUME NEW t \in Enqueued(Ring(b)), Claim(w, Ring(b), {t}),
             rr' = [rr EXCEPT ![w] = b + 1]
      PROVE  IInv'
  <2>1. rr' \in [Agents -> Nat] /\ {t} # {}
    BY <1>2, <1>3, <1>4
  <2> QED
    BY <1>1, <1>3, <1>4, <2>1, ClaimKeepsIInv
<1>5. ASSUME sweep' = [sweep EXCEPT ![w] = IF last THEN 0 ELSE @ + 1],
             Goto(w, IF last THEN "top" ELSE "steal"),
             UNCHANGED <<q, held, rr, Unheld>>
      PROVE  IInv'
  <2>1. sweep' \in [Agents -> Nat]
    <3>1. (IF last THEN 0 ELSE sweep[w] + 1) \in Nat
      BY <1>1, <1>2
    <3> HIDE DEF last
    <3> QED
      BY <1>2, <1>5, <3>1
  <2>2. PICK l \in Polling : pc' = [pc EXCEPT ![w] = l]
    BY <1>1, <1>5 DEF Goto
  <2> QED
    BY <1>1, <1>5, <2>1, <2>2, PollingKeepsIInv DEF Unheld
<1> QED
  BY <1>4, <1>5 DEF WorkerStealRing

(* The sweep of a block over the other rings.                              *)
LEMMA BlockPeersKeepsIInv ==
  ASSUME IInv, NEW b \in Blocks, BlockPeers(b)
  PROVE  IInv'
<1>1. /\ b \in Agents /\ pc[b] = "peers" /\ pc[b] \in Polling
      /\ {"peers", "q1"} \subseteq Polling
  BY DEF Agents, BlockPeers, Polling, Positions
<1>2. rr \in [Agents -> Nat] /\ sweep \in [Agents -> Nat]
  BY DEF IInv, TypeOK
<1> DEFINE p == (rr[b] + sweep[b] + 1) % NumBlocks
           last == sweep[b] + 2 = NumBlocks
<1>3. p \in 0 .. NumBlocks - 1 /\ p \in Nat /\ Ring(p) \in Queues
  <2>1. NumBlocks \in Nat /\ NumBlocks > 0 /\ rr[b] + sweep[b] + 1 \in Nat
    BY <1>1, <1>2, QueueFacts DEF Blocks
  <2>2. p \in 0 .. NumBlocks - 1
    BY <2>1
  <2> QED
    BY <2>1, <2>2, QueueFacts
<1>4. ASSUME NEW S \in Batches(Ring(p)), Claim(b, Ring(p), S),
             rr' = [rr EXCEPT ![b] = p]
      PROVE  IInv'
  <2>1. rr' \in [Agents -> Nat] /\ S # {}
    BY <1>2, <1>3, <1>4 DEF Batches
  <2> QED
    BY <1>1, <1>3, <1>4, <2>1, ClaimKeepsIInv
<1>5. ASSUME sweep' = [sweep EXCEPT ![b] = IF last THEN 0 ELSE @ + 1],
             Goto(b, IF last THEN "q1" ELSE "peers"),
             UNCHANGED <<q, held, rr, Unheld>>
      PROVE  IInv'
  <2>1. sweep' \in [Agents -> Nat]
    <3>1. (IF last THEN 0 ELSE sweep[b] + 1) \in Nat
      BY <1>1, <1>2
    <3> HIDE DEF last
    <3> QED
      BY <1>2, <1>5, <3>1
  <2>2. PICK l \in Polling : pc' = [pc EXCEPT ![b] = l]
    BY <1>1, <1>5 DEF Goto
  <2> QED
    BY <1>1, <1>5, <2>1, <2>2, PollingKeepsIInv DEF Unheld
<1> QED
  BY <1>4, <1>5 DEF BlockPeers

LEMMA WorkerKeepsIInv ==
  ASSUME IInv, NEW w \in Workers, Worker(w)
  PROVE  IInv'
<1>1. w \in Agents /\ {0, 1, 2} \subseteq Queues
      /\ {"q1", "q2", "steal", "top"} \subseteq Polling
  BY QueueFacts DEF Agents, Polling, Positions
<1>2. CASE Top(w) \/ Look(w) \/ Wake(w)
  BY <1>1, <1>2, IdlingKeepsIInv
<1>3. CASE WorkerPop(w, "q2", 2, "q1")
  BY <1>1, <1>3, WorkerPopKeepsIInv
<1>4. CASE WorkerPop(w, "q1", 1, IF noSteal THEN "top" ELSE "steal")
  BY <1>1, <1>4, WorkerPopKeepsIInv
<1>5. CASE WorkerSteal(w)
  BY <1>1, <1>5, WorkerPopKeepsIInv DEF WorkerSteal
<1>6. CASE WorkerStealRing(w)
  BY <1>6, WorkerStealRingKeepsIInv
<1>7. CASE Exec(w)
  BY <1>1, <1>7, ExecKeepsIInv
<1>8. CASE Signal(w)
  BY <1>1, <1>8, SignalKeepsIInv
<1>9. CASE WorkerNotify(w)
  <2>1. PICK e \in rem[w] : Deliver(w, Target(graph, e), {e})
    BY <1>9 DEF WorkerNotify
  <2>2. {e} \in SUBSET rem[w] /\ {e} # {}
        /\ \A f \in {e} : Target(graph, f) = Target(graph, e)
    OBVIOUS
  <2> QED
    BY <1>1, <2>1, <2>2, DeliverKeepsIInv
<1>10. CASE Push(w)
  BY <1>1, <1>10, PushKeepsIInv
<1>11. CASE WorkerBail(w)
  BY <1>11, WorkerBailKeepsIInv
<1>12. CASE Count(w)
  BY <1>1, <1>12, CountKeepsIInv
<1> QED
  BY <1>2, <1>3, <1>4, <1>5, <1>6, <1>7, <1>8, <1>9, <1>10, <1>11, <1>12
  DEF Worker

LEMMA BlockKeepsIInv ==
  ASSUME IInv, NEW b \in Blocks, Block(b)
  PROVE  IInv'
<1>1. /\ b \in Agents /\ {1, 3, OwnQueue(b)} \subseteq Queues
      /\ {"q3", "own", "q1", "top", AfterOwn} \subseteq Polling
  <2>1. b[2] \in 0 .. NumBlocks - 1
    BY DEF Blocks
  <2>2. OwnQueue(b) \in Queues
    BY <2>1, QueueFacts DEF OwnQueue
  <2> QED
    BY <2>2, QueueFacts DEF Agents, Polling, Positions, AfterOwn
<1>2. CASE Top(b)
  BY <1>1, <1>2, IdlingKeepsIInv
<1>3. CASE BlockPop(b, "q3", 3, "own")
  BY <1>1, <1>3, BlockPopKeepsIInv
<1>4. CASE BlockPop(b, "own", OwnQueue(b), AfterOwn)
  BY <1>1, <1>4, BlockPopKeepsIInv
<1>5. CASE BlockPeers(b)
  BY <1>5, BlockPeersKeepsIInv
<1>6. CASE BlockPop(b, "q1", 1, "top")
  BY <1>1, <1>6, BlockPopKeepsIInv
<1>7. CASE Exec(b)
  BY <1>1, <1>7, ExecKeepsIInv
<1>8. CASE Signal(b)
  BY <1>1, <1>8, SignalKeepsIInv
<1>9. CASE BlockNotify(b)
  <2>1. PICK f \in rem[b] :
          Deliver(b, Target(graph, f),
                  { e \in rem[b] : Target(graph, e) = Target(graph, f) })
    BY <1>9 DEF BlockNotify
  <2> DEFINE D == { e \in rem[b] : Target(graph, e) = Target(graph, f) }
  <2>2. D \in SUBSET rem[b] /\ D # {}
        /\ \A e \in D : Target(graph, e) = Target(graph, f)
    OBVIOUS
  <2> QED
    BY <1>1, <2>1, <2>2, DeliverKeepsIInv
<1>10. CASE Push(b)
  BY <1>1, <1>10, PushKeepsIInv
<1>11. CASE BlockBail(b)
  BY <1>11, BlockBailKeepsIInv
<1>12. CASE Count(b)
  BY <1>1, <1>12, CountKeepsIInv
<1> QED
  BY <1>2, <1>3, <1>4, <1>5, <1>6, <1>7, <1>8, <1>9, <1>10, <1>11, <1>12
  DEF Block

--------------------------------------------------------------------------------
(* The theorems.                                                           *)

LEMMA StepsKeepIInv == IInv /\ [Next]_vars => IInv'
<1> SUFFICES ASSUME IInv, [Next]_vars PROVE IInv'
  OBVIOUS
<1>1. CASE UNCHANGED vars
  <2>1. UNCHANGED places /\ UNCHANGED hpc
    BY <1>1 DEF vars, places, shared, host, hist
  <2>2. TypeOK' /\ PhaseInv'
    BY <1>1 DEF IInv, TypeOK, PhaseInv, vars, shared, host, hist
  <2> QED
    BY <2>1, <2>2, UnmovedKeepsIInv
<1>2. CASE Start
  BY <1>2, StartKeepsIInv
<1>3. CASE Stop \/ Join \/ Open \/ Close
  BY <1>3, LifeCycleKeepsIInv
<1>4. ASSUME NEW g \in Graphs, BeginRun(g) PROVE IInv'
  BY <1>4, BeginRunKeepsIInv
<1>5. CASE PublishRoot
  BY <1>5, PublishRootKeepsIInv
<1>6. CASE AwaitDone
  BY <1>6, AwaitDoneKeepsIInv
<1>7. ASSUME NEW w \in Workers, Worker(w) PROVE IInv'
  BY <1>7, WorkerKeepsIInv
<1>8. ASSUME NEW b \in Blocks, Block(b) PROVE IInv'
  BY <1>8, BlockKeepsIInv
<1> QED
  BY <1>1, <1>2, <1>3, <1>4, <1>5, <1>6, <1>7, <1>8 DEF Next, HostStep

(* The inductive invariant of the runtime: every ready task is in one      *)
(* place, and dep_count covers the undelivered edges (runtime.cpp,         *)
(* gpu_exec.cu).                                                           *)
THEOREM RuntimeInvariant == Spec => []IInv
<1>1. Init => IInv
  BY InitEstablishesIInv
<1>2. IInv /\ [Next]_vars => IInv'
  BY StepsKeepIInv
<1> QED
  BY <1>1, <1>2, PTL DEF Spec

(* Types, and dep_count never below zero, for every frozen graph and every *)
(* number of workers, blocks and runs.                                     *)
THEOREM TypesHold == Spec => []TypeOK
<1>1. IInv => TypeOK
  BY DEF IInv
<1> QED
  BY <1>1, RuntimeInvariant, PTL

(* No task is executed twice in a run, whoever pops, steals or publishes   *)
(* it (exec_and_publish, the executor kernel).                             *)
THEOREM EachTaskRunsOnce == Spec => []RunsOnce
<1>1. IInv => RunsOnce
  BY DEF IInv, PlaceInv, RunsOnce
<1> QED
  BY <1>1, RuntimeInvariant, PTL

(* A task is executed only after all of its producers in the same run.     *)
THEOREM InputsAreReady == Spec => []InputsReady
<1>1. IInv => InputsReady
  <2> SUFFICES ASSUME IInv, graph # NoGraph, NEW a \in Agents,
                      NEW t \in Running(a), NEW p \in Producers(graph, t)
               PROVE  execs[p] > 0
    BY DEF InputsReady
  <2>1. t \in held[a] /\ t \in Tasks /\ graph \in Graphs
    BY DEF Running, IInv, TypeOK
  <2>2. Undelivered(t) = {}
    BY <2>1 DEF IInv, ReadyInv, Placed, InHand
  <2>3. PICK e \in EdgesInto(graph, t) : p = e[1]
    BY DEF Producers
  <2>4. execs[p] # 0
    BY <2>2, <2>3 DEF Undelivered
  <2>5. p \in Tasks
    BY <2>1, <2>3, GraphFacts, TaskFacts DEF EdgesInto
  <2> QED
    BY <2>4, <2>5 DEF IInv, TypeOK
<1> QED
  BY <1>1, RuntimeInvariant, PTL

(* Between two runs no task is queued and no agent is inside an epilogue:  *)
(* the reset of dep_count races with nobody (Runtime::run).                *)
THEOREM RunsAreDrained == Spec => []Quiescent
<1>1. IInv => Quiescent
  BY DEF IInv, QuietInv
<1> QED
  BY <1>1, RuntimeInvariant, PTL

--------------------------------------------------------------------------------
(* Past the wait of run(), n_done stays at the number of tasks.            *)
CloseInv == hpc = "close" => nDone = GraphOf[graph].n

LEMMA StepsKeepCloseInv == IInv /\ CloseInv /\ [Next]_vars => CloseInv'
<1> SUFFICES ASSUME IInv, CloseInv, [Next]_vars, hpc' = "close"
             PROVE  nDone' = GraphOf[graph'].n
  BY DEF CloseInv
<1>1. CASE AwaitDone
  BY <1>1 DEF AwaitDone, RunDrained, shared
<1>2. ASSUME NEW a \in Agents, Count(a)
      PROVE  nDone' = GraphOf[graph'].n
  <2>1. hpc = "close" /\ graph' = graph
    BY <1>2 DEF Count, host
  <2>2. held[a] = {}
    BY <2>1 DEF IInv, QuietInv, Quiescent
  <2>3. nDone' = nDone
    BY <1>2, <2>2, FS_EmptySet DEF Count, IInv, TypeOK
  <2> QED
    BY <2>1, <2>3 DEF CloseInv
<1>3. ASSUME UNCHANGED <<graph, nDone, hpc>>
      PROVE  nDone' = GraphOf[graph'].n
  BY <1>3 DEF CloseInv
<1>4. CASE Start \/ Stop \/ Join \/ UNCHANGED vars
  BY <1>3, <1>4 DEF Start, Stop, Join, vars, shared, host
<1>5. ASSUME NEW g \in Graphs, BeginRun(g) PROVE FALSE
  BY <1>5 DEF BeginRun
<1>6. CASE Open \/ PublishRoot \/ Close
  BY <1>3, <1>6 DEF Open, PublishRoot, Close, shared
<1>7. ASSUME NEW a \in Agents,
             Top(a) \/ Look(a) \/ Wake(a) \/ Exec(a) \/ Signal(a) \/ Push(a)
             \/ WorkerBail(a) \/ BlockBail(a)
      PROVE  nDone' = GraphOf[graph'].n
  BY <1>3, <1>7
  DEF Top, Look, Wake, Exec, Signal, Push, WorkerBail, BlockBail, Unheld,
      shared, host
<1>8. ASSUME NEW w \in Workers, Worker(w)
      PROVE  nDone' = GraphOf[graph'].n
  <2>1. w \in Agents
    BY DEF Agents
  <2>2. ASSUME NEW l, NEW x, NEW next, WorkerPop(w, l, x, next)
        PROVE  nDone' = GraphOf[graph'].n
    BY <1>3, <2>2 DEF WorkerPop, Claim, Miss, Unheld, shared, host
  <2>3. CASE WorkerSteal(w)
    BY <2>2, <2>3 DEF WorkerSteal
  <2>4. CASE WorkerStealRing(w)
    BY <1>3, <2>4 DEF WorkerStealRing, Claim, Unheld, shared, host
  <2>5. CASE WorkerNotify(w)
    BY <1>3, <2>5 DEF WorkerNotify, Deliver, host
  <2> QED
    BY <1>2, <1>7, <1>8, <2>1, <2>2, <2>3, <2>4, <2>5 DEF Worker
<1>9. ASSUME NEW b \in Blocks, Block(b)
      PROVE  nDone' = GraphOf[graph'].n
  <2>1. b \in Agents
    BY DEF Agents
  <2>2. ASSUME NEW l, NEW x, NEW next, BlockPop(b, l, x, next)
        PROVE  nDone' = GraphOf[graph'].n
    BY <1>3, <2>2 DEF BlockPop, Claim, Miss, Unheld, shared, host
  <2>3. CASE BlockPeers(b)
    BY <1>3, <2>3 DEF BlockPeers, Claim, Unheld, shared, host
  <2>4. CASE BlockNotify(b)
    BY <1>3, <2>4 DEF BlockNotify, Deliver, host
  <2> QED
    BY <1>2, <1>7, <1>9, <2>1, <2>2, <2>3, <2>4 DEF Block
<1> QED
  BY <1>1, <1>4, <1>5, <1>6, <1>8, <1>9 DEF Next, HostStep

(* When run() is about to return every task has been executed.             *)
LEMMA CloseIsComplete == IInv /\ CloseInv => Complete
<1> SUFFICES ASSUME IInv, CloseInv, hpc = "close"
             PROVE  \A t \in TasksOf(graph) : execs[t] = 1
  BY DEF Complete
<1>1. graph \in Graphs
  BY DEF IInv, QuietInv, TypeOK
<1>2. /\ IsFiniteSet(TasksOf(graph))
      /\ counted \subseteq TasksOf(graph)
      /\ Cardinality(counted) = Cardinality(TasksOf(graph))
  BY <1>1, GraphFacts DEF IInv, CountInv, CloseInv
<1>3. counted = TasksOf(graph)
  BY <1>2, FS_Subset
<1> QED
  BY <1>3 DEF IInv, CountInv

LEMMA SpecKeepsCloseInv == Spec => []CloseInv
<1>1. Init => CloseInv
  BY DEF Init, CloseInv
<1>2. IInv /\ CloseInv /\ [Next]_vars => CloseInv'
  BY StepsKeepCloseInv
<1> QED
  BY <1>1, <1>2, RuntimeInvariant, PTL DEF Spec

(* run() returns only when every task of its graph has been executed: its  *)
(* wait for n_done = n is enough (Runtime::run).                           *)
THEOREM RunsAreComplete == Spec => []Complete
  BY CloseIsComplete, RuntimeInvariant, SpecKeepsCloseInv, PTL

--------------------------------------------------------------------------------
(* Engines.                                                                *)

(* Under FASTLLM_NO_STEAL nobody gets to where it would steal.             *)
NoStealInv ==
  /\ \A w \in Workers : pc[w] = "steal" => ~noSteal
  /\ \A b \in Blocks : pc[b] \in {"peers", "q1"} => ~noSteal

EnginesInv == EnginesRespected /\ NoStealInv

(* Which tasks a queue can hold (fl_task_queue, fl_publish).               *)
LEMMA RoutedTasks ==
  ASSUME NEW g \in Graphs, NEW t \in TasksOf(g)
  PROVE  LET d == GraphOf[g].desc[t]
             x == Route(g, t)
         IN  /\ x = 1 => /\ ~d.op /\ ~(GpuEnabled /\ d.codebook)
                         /\ d.affinity = "CPU" \/ ~GpuEnabled
             /\ x = 2 => d.op
             /\ x = 3 => ~d.op /\ d.codebook
             /\ x \notin {1, 2, 3} => ~d.op /\ ~d.codebook /\ d.affinity # "CPU"
<1> DEFINE d == GraphOf[g].desc[t]
           x == TaskQueueOf(d)
<1>1. /\ d.affinity \in {"GPU", "CPU", "ANY"}
      /\ d.op \in BOOLEAN /\ d.codebook \in BOOLEAN
  BY GraphsAreWellFormed DEF GraphAssumption, Descriptors, Engines
<1>2. \/ x = 0 /\ ~d.op /\ ~d.codebook /\ d.affinity # "CPU"
      \/ x = 1 /\ ~d.op /\ ~(GpuEnabled /\ d.codebook)
         /\ (d.affinity = "CPU" \/ ~GpuEnabled)
      \/ x = 2 /\ d.op
      \/ x = 3 /\ ~d.op /\ d.codebook
  BY <1>1 DEF TaskQueueOf, GpuEnabled
<1>3. CASE x = 0 /\ PerBlock
  <2>1. NumBlocks \in Nat \ {0} /\ Chunk \in Nat \ {0} /\ t \in Nat
    BY <1>3, ConfigIsValid, TaskFacts DEF ConfigAssumption
  <2>2. t \div Chunk \in Nat
    BY <2>1
  <2>3. (t \div Chunk) % NumBlocks \in Nat
    BY <2>1, <2>2
  <2>4. Route(g, t) = 4 + ((t \div Chunk) % NumBlocks)
    BY <1>3 DEF Route, Ring
  <2>5. Route(g, t) \notin {1, 2, 3}
    BY <2>3, <2>4
  <2> QED
    BY <1>2, <1>3, <2>5
<1>4. CASE ~(x = 0 /\ PerBlock)
  <2>1. Route(g, t) = x
    BY <1>4 DEF Route
  <2> QED
    BY <1>2, <2>1
<1> QED
  BY <1>3, <1>4

(* A batch is claimed from one queue, and lies on its route.               *)
LEMMA ClaimedTasks ==
  ASSUME IInv, NEW a \in Agents, NEW x \in Queues, NEW S, Claim(a, x, S)
  PROVE  \A t \in S : /\ graph \in Graphs /\ t \in TasksOf(graph)
                      /\ Route(graph, t) = x
<1> SUFFICES ASSUME NEW t \in S
             PROVE  /\ graph \in Graphs /\ t \in TasksOf(graph)
                    /\ Route(graph, t) = x
  OBVIOUS
<1>1. t \in Tasks /\ q[x][t] > 0
  BY DEF Claim, Enqueued
<1>2. Route(graph, t) = x /\ Placed(t)
  BY <1>1 DEF IInv, PlaceInv, Placed, Queued
<1> QED
  BY <1>1, <1>2 DEF IInv, ReadyInv, TypeOK

(* Who may execute task t of graph g.                                      *)
Allowed(g, a, t) ==
  LET d == GraphOf[g].desc[t]
  IN  IF a \in Workers
        THEN /\ ~(GpuEnabled /\ d.codebook /\ ~d.op)
             /\ noSteal => (d.op \/ d.affinity = "CPU" \/ ~GpuEnabled)
        ELSE /\ ~d.op
             /\ noSteal => (d.codebook \/ d.affinity # "CPU")

(* A claim of tasks the agent may execute keeps the invariant ...          *)
LEMMA ClaimKeepsEngines ==
  ASSUME IInv, EnginesInv, NEW a \in Agents, NEW x, NEW S,
         Claim(a, x, S), \A t \in S : Allowed(graph, a, t)
  PROVE  EnginesInv'
<1>1. /\ held' = [held EXCEPT ![a] = S] /\ pc' = [pc EXCEPT ![a] = "exec"]
      /\ graph' = graph /\ noSteal' = noSteal
  BY DEF Claim, Goto, Unheld, shared
<1>2. \A b \in Agents : b # a => Running(b)' = Running(b)
  BY <1>1 DEF Running, IInv, TypeOK
<1>3. Running(a)' = S
  BY <1>1 DEF Running, IInv, TypeOK
<1>4. \A b \in Agents : \A t \in Running(b)' : Allowed(graph, b, t)
  BY <1>2, <1>3 DEF EnginesInv, EnginesRespected, Allowed
<1>5. EnginesRespected'
  BY <1>1, <1>4 DEF EnginesRespected, Allowed
<1>6. NoStealInv'
  BY <1>1 DEF EnginesInv, NoStealInv, IInv, TypeOK, Agents
<1> QED
  BY <1>5, <1>6 DEF EnginesInv

(* ... and so does a step that starts no batch.                            *)
LEMMA OtherKeepsEngines ==
  ASSUME IInv, EnginesInv, NEW a \in Agents, NEW l, l # "exec",
         pc' = [pc EXCEPT ![a] = l], UNCHANGED <<graph, noSteal>>,
         \A b \in Agents : held'[b] \subseteq held[b],
         a \in Workers /\ l = "steal" => ~noSteal,
         a \in Blocks /\ l \in {"peers", "q1"} => ~noSteal
  PROVE  EnginesInv'
<1>1. \A b \in Agents : Running(b)' \subseteq Running(b)
  BY DEF Running, IInv, TypeOK
<1>2. \A b \in Agents : \A t \in Running(b)' : Allowed(graph, b, t)
  BY <1>1 DEF EnginesInv, EnginesRespected, Allowed
<1>3. EnginesRespected'
  BY <1>2 DEF EnginesRespected, Allowed
<1>4. NoStealInv'
  BY DEF EnginesInv, NoStealInv, IInv, TypeOK, Agents
<1> QED
  BY <1>3, <1>4 DEF EnginesInv

(* Steps of the host, the life cycle and the reset start no batch either.  *)
LEMMA HostKeepsEngines ==
  ASSUME IInv, EnginesInv,
         Start \/ Stop \/ Join \/ HostStep \/ UNCHANGED vars
         \/ \E g \in Graphs : BeginRun(g)
  PROVE  EnginesInv'
<1>1. CASE Start \/ \E g \in Graphs : BeginRun(g)
  <2>1. \A a \in Agents : held[a] = {}
    BY <1>1 DEF IInv, QuietInv, Quiescent, Start, BeginRun
  <2>2. \A a \in Agents : Running(a)' = {}
    BY <1>1, <2>1 DEF Running, Start, BeginRun
  <2>3. EnginesRespected'
    BY <2>2 DEF EnginesRespected
  <2>4. NoStealInv'
    BY <1>1 DEF EnginesInv, NoStealInv, Start, BeginRun, Agents
  <2> QED
    BY <2>3, <2>4 DEF EnginesInv
<1>2. CASE Stop \/ Join \/ HostStep \/ UNCHANGED vars
  <2>1. UNCHANGED <<graph, noSteal, held, pc>>
    BY <1>2
    DEF Stop, Join, HostStep, Open, PublishRoot, AwaitDone, Close, vars, shared
  <2> QED
    BY <2>1 DEF EnginesInv, EnginesRespected, NoStealInv, Running
<1> QED
  BY <1>1, <1>2

LEMMA WorkerKeepsEngines ==
  ASSUME IInv, EnginesInv, NEW w \in Workers, Worker(w)
  PROVE  EnginesInv'
<1>1. w \in Agents /\ w \notin Blocks /\ {0, 1, 2} \subseteq Queues
  BY QueueFacts DEF Agents, Workers, Blocks
<1>2. ASSUME NEW x \in Queues, NEW t, Claim(w, x, {t}), x # 3,
             noSteal => x \in {1, 2}
      PROVE  EnginesInv'
  <2>1. graph \in Graphs /\ t \in TasksOf(graph) /\ Route(graph, t) = x
    BY <1>1, <1>2, ClaimedTasks
  <2>2. Allowed(graph, w, t)
    BY <1>2, <2>1, RoutedTasks DEF Allowed
  <2> QED
    BY <1>1, <1>2, <2>2, ClaimKeepsEngines
<1>3. ASSUME NEW l, l # "exec", pc' = [pc EXCEPT ![w] = l],
             UNCHANGED <<graph, noSteal, held>>, l = "steal" => ~noSteal
      PROVE  EnginesInv'
  BY <1>1, <1>3, OtherKeepsEngines
<1>4. CASE Top(w) \/ Look(w) \/ Wake(w)
  <2>1. PICK l \in {"exit", "look", "q2", "idle", "top"} : Goto(w, l)
    BY <1>1, <1>4 DEF Top, Look, Wake
  <2>2. UNCHANGED <<graph, noSteal, held>>
    BY <1>4 DEF Top, Look, Wake, Unheld, shared
  <2> QED
    BY <1>3, <2>1, <2>2 DEF Goto
<1>5. ASSUME NEW l, NEW x \in {0, 1, 2}, NEW next, WorkerPop(w, l, x, next),
             next # "exec", next = "steal" => ~noSteal, noSteal => x # 0
      PROVE  EnginesInv'
  <2>1. \/ \E t : Claim(w, x, {t})
        \/ /\ pc' = [pc EXCEPT ![w] = next]
           /\ UNCHANGED <<graph, noSteal, held>>
    BY <1>5 DEF WorkerPop, Miss, Goto, Unheld, shared
  <2>2. x \in Queues /\ x # 3 /\ (noSteal => x \in {1, 2})
    BY <1>1, <1>5
  <2>3. CASE \E t : Claim(w, x, {t})
    BY <1>2, <2>2, <2>3
  <2>4. CASE pc' = [pc EXCEPT ![w] = next] /\ UNCHANGED <<graph, noSteal, held>>
    BY <1>3, <1>5, <2>4
  <2> QED
    BY <2>1, <2>3, <2>4
<1>6. CASE WorkerPop(w, "q2", 2, "q1")
           \/ WorkerPop(w, "q1", 1, IF noSteal THEN "top" ELSE "steal")
  BY <1>5, <1>6
<1>7. CASE WorkerSteal(w)
  <2>1. ~noSteal
    BY <1>7 DEF WorkerSteal, EnginesInv, NoStealInv
  <2> QED
    BY <1>5, <1>7, <2>1 DEF WorkerSteal
<1>8. CASE WorkerStealRing(w)
  <2>1. ~noSteal
    BY <1>8 DEF WorkerStealRing, EnginesInv, NoStealInv
  <2> DEFINE b == (rr[w] + sweep[w]) % NumBlocks
  <2>2. Ring(b) \in Queues /\ Ring(b) # 3
    <3>1. NumBlocks \in Nat /\ NumBlocks > 0 /\ rr[w] + sweep[w] \in Nat
      BY <1>1, <1>8, QueueFacts DEF WorkerStealRing, IInv, TypeOK
    <3>2. b \in 0 .. NumBlocks - 1
      BY <3>1
    <3>3. Ring(b) # 3
      BY <3>1, <3>2 DEF Ring
    <3> QED
      BY <3>2, <3>3, QueueFacts
  <2>3. \/ \E t : Claim(w, Ring(b), {t})
        \/ /\ \E l \in {"top", "steal"} : Goto(w, l)
           /\ UNCHANGED <<graph, noSteal, held>>
    BY <1>8 DEF WorkerStealRing, Unheld, shared
  <2> HIDE DEF b
  <2> QED
    BY <1>2, <1>3, <2>1, <2>2, <2>3 DEF Goto
<1>9. CASE Exec(w) \/ Signal(w) \/ WorkerNotify(w) \/ Push(w)
  <2>1. /\ UNCHANGED <<graph, noSteal, held>>
        /\ \/ \E l \in {"signal", "notify", "push"} : pc' = [pc EXCEPT ![w] = l]
           \/ pc' = pc
    BY <1>9
    DEF Exec, Signal, WorkerNotify, Deliver, Push, Goto, shared, host
  <2>2. CASE pc' = pc
    BY <2>1, <2>2
    DEF EnginesInv, EnginesRespected, NoStealInv, Running
  <2> QED
    BY <1>3, <2>1, <2>2
<1>10. CASE WorkerBail(w) \/ Count(w)
  <2>1. /\ pc' = [pc EXCEPT ![w] = "top"] /\ held' = [held EXCEPT ![w] = {}]
        /\ UNCHANGED <<graph, noSteal>>
    BY <1>10 DEF WorkerBail, Count, Goto, shared
  <2>2. \A b \in Agents : held'[b] \subseteq held[b]
    BY <2>1 DEF IInv, TypeOK
  <2> QED
    BY <1>1, <2>1, <2>2, OtherKeepsEngines
<1> QED
  BY <1>4, <1>5, <1>6, <1>7, <1>8, <1>9, <1>10 DEF Worker

LEMMA BlockKeepsEngines ==
  ASSUME IInv, EnginesInv, NEW b \in Blocks, Block(b)
  PROVE  EnginesInv'
<1>1. b \in Agents /\ b \notin Workers /\ {1, 3, OwnQueue(b)} \subseteq Queues
      /\ OwnQueue(b) \notin {1, 2, 3}
  <2>1. b[2] \in 0 .. NumBlocks - 1 /\ NumBlocks \in Nat
    BY QueueFacts DEF Blocks
  <2>2. OwnQueue(b) \in Queues /\ OwnQueue(b) \notin {1, 2, 3}
    BY <2>1, QueueFacts DEF OwnQueue, Ring
  <2> QED
    BY <2>2, QueueFacts DEF Agents, Workers, Blocks
<1>2. ASSUME NEW x \in Queues, NEW S, Claim(b, x, S), x # 2,
             noSteal => x # 1
      PROVE  EnginesInv'
  <2>1. ASSUME NEW t \in S PROVE Allowed(graph, b, t)
    <3>1. graph \in Graphs /\ t \in TasksOf(graph) /\ Route(graph, t) = x
      BY <1>1, <1>2, ClaimedTasks
    <3> QED
      BY <1>1, <1>2, <3>1, RoutedTasks DEF Allowed
  <2> QED
    BY <1>1, <1>2, <2>1, ClaimKeepsEngines
<1>3. ASSUME NEW l, l # "exec", pc' = [pc EXCEPT ![b] = l],
             UNCHANGED <<graph, noSteal, held>>,
             l \in {"peers", "q1"} => ~noSteal
      PROVE  EnginesInv'
  BY <1>1, <1>3, OtherKeepsEngines
<1>4. CASE Top(b)
  <2>1. PICK l \in {"exit", "q3"} : Goto(b, l)
    BY <1>1, <1>4 DEF Top
  <2>2. UNCHANGED <<graph, noSteal, held>>
    BY <1>4 DEF Top, Unheld, shared
  <2> QED
    BY <1>3, <2>1, <2>2 DEF Goto
<1>5. ASSUME NEW l, NEW x \in Queues, NEW next, BlockPop(b, l, x, next),
             next # "exec", next \in {"peers", "q1"} => ~noSteal,
             x # 2, noSteal => x # 1
      PROVE  EnginesInv'
  <2>1. \/ \E S : Claim(b, x, S)
        \/ /\ pc' = [pc EXCEPT ![b] = next]
           /\ UNCHANGED <<graph, noSteal, held>>
    BY <1>5 DEF BlockPop, Miss, Goto, Unheld, shared
  <2>2. CASE \E S : Claim(b, x, S)
    BY <1>2, <1>5, <2>2
  <2>3. CASE pc' = [pc EXCEPT ![b] = next] /\ UNCHANGED <<graph, noSteal, held>>
    BY <1>3, <1>5, <2>3
  <2> QED
    BY <2>1, <2>2, <2>3
<1>6. CASE BlockPop(b, "q3", 3, "own")
  BY <1>1, <1>5, <1>6
<1>7. CASE BlockPop(b, "own", OwnQueue(b), AfterOwn)
  <2>1. AfterOwn # "exec" /\ (AfterOwn \in {"peers", "q1"} => ~noSteal)
    BY DEF AfterOwn
  <2>2. OwnQueue(b) \in Queues /\ OwnQueue(b) # 2 /\ OwnQueue(b) # 1
    BY <1>1
  <2> QED
    BY <1>5, <1>7, <2>1, <2>2
<1>8. CASE BlockPop(b, "q1", 1, "top")
  <2>1. ~noSteal
    BY <1>8 DEF BlockPop, EnginesInv, NoStealInv
  <2> QED
    BY <1>1, <1>5, <1>8, <2>1
<1>9. CASE BlockPeers(b)
  <2>1. ~noSteal
    BY <1>9 DEF BlockPeers, EnginesInv, NoStealInv
  <2> DEFINE p == (rr[b] + sweep[b] + 1) % NumBlocks
  <2>2. Ring(p) \in Queues /\ Ring(p) # 2
    <3>1. NumBlocks \in Nat /\ NumBlocks > 0 /\ rr[b] + sweep[b] + 1 \in Nat
      BY <1>1, QueueFacts DEF Blocks, IInv, TypeOK
    <3>2. p \in 0 .. NumBlocks - 1
      BY <3>1
    <3>3. Ring(p) # 2
      BY <3>1, <3>2 DEF Ring
    <3> QED
      BY <3>2, <3>3, QueueFacts
  <2>3. \/ \E S : Claim(b, Ring(p), S)
        \/ /\ \E l \in {"q1", "peers"} : Goto(b, l)
           /\ UNCHANGED <<graph, noSteal, held>>
    BY <1>9 DEF BlockPeers, Unheld, shared
  <2> HIDE DEF p
  <2> QED
    BY <1>2, <1>3, <2>1, <2>2, <2>3 DEF Goto
<1>10. CASE Exec(b) \/ Signal(b) \/ BlockNotify(b) \/ Push(b) \/ BlockBail(b)
  <2>1. /\ UNCHANGED <<graph, noSteal, held>>
        /\ \/ \E l \in {"signal", "notify", "push"} : pc' = [pc EXCEPT ![b] = l]
           \/ pc' = pc
    BY <1>10
    DEF Exec, Signal, BlockNotify, Deliver, Push, BlockBail, Goto, shared, host
  <2>2. CASE pc' = pc
    BY <2>1, <2>2
    DEF EnginesInv, EnginesRespected, NoStealInv, Running
  <2> QED
    BY <1>3, <2>1, <2>2
<1>11. CASE Count(b)
  <2>1. /\ pc' = [pc EXCEPT ![b] = "top"] /\ held' = [held EXCEPT ![b] = {}]
        /\ UNCHANGED <<graph, noSteal>>
    BY <1>11 DEF Count, Goto
  <2>2. \A a \in Agents : held'[a] \subseteq held[a]
    BY <2>1 DEF IInv, TypeOK
  <2> QED
    BY <1>1, <2>1, <2>2, OtherKeepsEngines
<1> QED
  BY <1>4, <1>6, <1>7, <1>8, <1>9, <1>10, <1>11 DEF Block

(* No CPU worker executes a codebook dot while there is a GPU, no block a  *)
(* decode op, and under FASTLLM_NO_STEAL each engine only its own tasks    *)
(* (fl_task_queue with the polling orders of worker and executor).         *)
THEOREM EnginesAreRespected == Spec => []EnginesRespected
<1>1. Init => EnginesInv
  BY DEF Init, EnginesInv, EnginesRespected, NoStealInv, Running, Agents
<1>2. IInv /\ EnginesInv /\ [Next]_vars => EnginesInv'
  <2> SUFFICES ASSUME IInv, EnginesInv, [Next]_vars PROVE EnginesInv'
    OBVIOUS
  <2> QED
    BY HostKeepsEngines, WorkerKeepsEngines, BlockKeepsEngines DEF Next
<1>3. EnginesInv => EnginesRespected
  BY DEF EnginesInv
<1> QED
  BY <1>1, <1>2, <1>3, RuntimeInvariant, PTL DEF Spec

--------------------------------------------------------------------------------
(* The runtime implements GraphExecution.                                  *)

(* The state of GraphExecution the runtime is in (the substitution of Abs). *)
Current == IF hpc = "idle" THEN NoGraph ELSE graph
Started == { t \in Tasks : execs[t] > 0 \/ \E a \in Agents : t \in held[a] }
Finished == { t \in Tasks : execs[t] > 0 }

(* The operators on graphs are those of GraphExecution.                    *)
LEMMA SameGraphs ==
  ASSUME NEW g
  PROVE  /\ Abs!TasksOf(g) = TasksOf(g)
         /\ \A t : Abs!Producers(g, t) = Producers(g, t)
  BY DEF Abs!TasksOf, TasksOf, Abs!Producers, Producers, Abs!EdgesInto,
         EdgesInto, Abs!Edges, Edges, Abs!Target, Target, Abs!MaxConsumers,
         MaxConsumers

(* Steps that neither claim, execute, begin nor return are invisible.      *)
LEMMA Invisible ==
  ASSUME Current' = Current, Started' = Started, Finished' = Finished
  PROVE  [Abs!AbsNext]_(Abs!absVars)
  BY DEF Current, Started, Finished, Abs!absVars

(* A claim starts its batch.                                               *)
LEMMA ClaimStarts ==
  ASSUME IInv, NEW a \in Agents, NEW x \in Queues, NEW S, pc[a] \in Polling,
         Claim(a, x, S)
  PROVE  [Abs!AbsNext]_(Abs!absVars)
<1>1. /\ held[a] = {} /\ held' = [held EXCEPT ![a] = S]
      /\ UNCHANGED <<graph, hpc, execs>> /\ S \subseteq Tasks
  BY DEF IInv, PhaseInv, Claim, Unheld, shared, host, hist, Enqueued
<1>2. /\ Current' = Current /\ Finished' = Finished
      /\ Started' = Started \cup S
  <2>1. held'[a] = S /\ \A b \in Agents : b # a => held'[b] = held[b]
    BY <1>1 DEF IInv, TypeOK
  <2> QED
    BY <1>1, <2>1 DEF Current, Started, Finished
<1>3. CASE S = {}
  BY <1>2, <1>3, Invisible
<1>4. CASE S # {}
  <2>1. \A t \in S : q[x][t] > 0 /\ Queued(t) /\ Placed(t)
    BY DEF Claim, Enqueued, Queued, Placed
  <2>2. Current = graph /\ Current # NoGraph /\ graph \in Graphs
    <3>1. hpc # "idle"
      BY <1>4, <2>1 DEF IInv, QuietInv, Quiescent, Claim
    <3> QED
      BY <3>1 DEF Current, IInv, QuietInv, TypeOK
  <2>3. S \in SUBSET TasksOf(graph)
    BY <1>1, <2>1 DEF IInv, ReadyInv
  <2>4. S \cap Started = {}
    BY <1>1, <2>1 DEF IInv, PlaceInv, InHand, Started
  <2>5. ASSUME NEW t \in S PROVE Producers(graph, t) \subseteq Finished
    <3>1. Undelivered(t) = {}
      BY <1>1, <2>1 DEF IInv, ReadyInv
    <3>2. ASSUME NEW e \in EdgesInto(graph, t) PROVE e[1] \in Finished
      <4>1. e[1] \in Tasks
        BY <2>2, GraphFacts, TaskFacts DEF EdgesInto
      <4>2. execs[e[1]] # 0 /\ execs[e[1]] \in Nat
        BY <3>1, <4>1 DEF Undelivered, IInv, TypeOK
      <4> QED
        BY <4>1, <4>2 DEF Finished
    <3> QED
      BY <3>2 DEF Producers
  <2>6. Abs!StartTasks(S)
    BY <1>2, <2>2, <2>4, <2>5, SameGraphs
    DEF Abs!StartTasks, Current, Started, Finished
  <2> QED
    BY <2>2, <2>3, <2>6, SameGraphs DEF Abs!AbsNext, Current
<1> QED
  BY <1>3, <1>4

(* Execution finishes the batch.                                           *)
LEMMA ExecFinishes ==
  ASSUME IInv, NEW a \in Agents, Exec(a)
  PROVE  [Abs!AbsNext]_(Abs!absVars)
<1>1. /\ pc[a] = "exec" /\ UNCHANGED <<graph, hpc, held>>
      /\ execs' = [t \in Tasks |->
                     IF t \in held[a] THEN execs[t] + 1 ELSE execs[t]]
      /\ held[a] \subseteq Tasks
      /\ \A t \in held[a] : execs[t] = 0
  BY DEF Exec, shared, host, IInv, PhaseInv, TypeOK
<1>2. /\ Current' = Current
      /\ Finished' = Finished \cup held[a]
      /\ Started' = Started
      /\ held[a] \subseteq Started \ Finished
  BY <1>1 DEF Current, Started, Finished, IInv, TypeOK
<1>3. CASE held[a] = {}
  BY <1>2, <1>3, Invisible
<1>4. CASE held[a] # {}
  <2>1. hpc # "idle"
    BY <1>4 DEF IInv, QuietInv, Quiescent
  <2>2. Current = graph /\ Current # NoGraph
    BY <2>1 DEF Current, IInv, QuietInv
  <2>3. \A t \in held[a] : Placed(t)
    BY DEF Placed, InHand
  <2>4. held[a] \in SUBSET TasksOf(graph)
    BY <1>1, <2>3 DEF IInv, ReadyInv
  <2>5. PICK S \in SUBSET TasksOf(graph) : S = held[a]
    BY <2>4
  <2>6. Abs!FinishTasks(S)
    BY <1>2, <2>2, <2>5 DEF Abs!FinishTasks, Current, Started, Finished
  <2> QED
    BY <2>2, <2>6, SameGraphs DEF Abs!AbsNext, Current
<1> QED
  BY <1>3, <1>4

(* The reset begins a run: nobody holds a task.                            *)
LEMMA BeginRunBegins ==
  ASSUME IInv, NEW g \in Graphs, BeginRun(g)
  PROVE  [Abs!AbsNext]_(Abs!absVars)
<1>1. hpc = "idle" /\ hpc' = "open" /\ graph' = g /\ held' = held
      /\ execs' = [t \in Tasks |-> 0]
  BY DEF BeginRun
<1>2. \A a \in Agents : held[a] = {}
  BY <1>1 DEF IInv, QuietInv, Quiescent
<1>3. Current = NoGraph /\ Current' = g /\ Started' = {} /\ Finished' = {}
  BY <1>1, <1>2 DEF Current, Started, Finished
<1>4. Abs!Begin(g)
  BY <1>3 DEF Abs!Begin, Current, Started, Finished
<1> QED
  BY <1>4 DEF Abs!AbsNext

(* run() returns with every task finished and no other.                    *)
LEMMA CloseReturns ==
  ASSUME IInv, CloseInv, Close
  PROVE  [Abs!AbsNext]_(Abs!absVars)
<1>1. hpc = "close" /\ hpc' = "idle" /\ UNCHANGED <<execs, held>>
  BY DEF Close, hist
<1>2. graph \in Graphs /\ Current = graph /\ Current # NoGraph
  BY <1>1, TaskFacts DEF Current, IInv, QuietInv, TypeOK
<1>3. \A t \in TasksOf(graph) : execs[t] = 1
  BY <1>1, CloseIsComplete DEF Complete
<1>4. Finished = TasksOf(graph)
  <2>1. TasksOf(graph) \subseteq Finished
    BY <1>2, <1>3, TaskFacts DEF Finished
  <2>2. Finished \subseteq TasksOf(graph)
    BY DEF Finished, Placed, IInv, ReadyInv
  <2> QED
    BY <2>1, <2>2
<1>5. Current' = NoGraph /\ Started' = Started /\ Finished' = Finished
  BY <1>1 DEF Current, Started, Finished
<1>6. Abs!Return
  BY <1>2, <1>4, <1>5, SameGraphs DEF Abs!Return, Current, Started, Finished
<1> QED
  BY <1>6 DEF Abs!AbsNext

(* What counts or abandons a batch has executed it.                        *)
LEMMA LetGo ==
  ASSUME IInv, NEW a \in Agents, WorkerBail(a) \/ Count(a)
  PROVE  [Abs!AbsNext]_(Abs!absVars)
<1>1. /\ held' = [held EXCEPT ![a] = {}] /\ UNCHANGED <<graph, hpc, execs>>
      /\ pc[a] \in {"signal", "notify", "push"}
  BY DEF WorkerBail, Count, shared, host, hist
<1>2. \A t \in held[a] : execs[t] > 0
  BY <1>1 DEF IInv, PhaseInv
<1>3. held'[a] = {} /\ \A b \in Agents : b # a => held'[b] = held[b]
  BY <1>1 DEF IInv, TypeOK
<1>4. Current' = Current /\ Started' = Started /\ Finished' = Finished
  BY <1>1, <1>2, <1>3 DEF Current, Started, Finished
<1> QED
  BY <1>4, Invisible

LEMMA UnseenStep ==
  ASSUME UNCHANGED <<graph, hpc, held, execs>>
  PROVE  [Abs!AbsNext]_(Abs!absVars)
<1>1. Current' = Current /\ Started' = Started /\ Finished' = Finished
  BY DEF Current, Started, Finished
<1> QED
  BY <1>1, Invisible

LEMMA WorkerRefines ==
  ASSUME IInv, NEW w \in Workers, Worker(w)
  PROVE  [Abs!AbsNext]_(Abs!absVars)
<1>1. w \in Agents /\ {0, 1, 2} \subseteq Queues
  BY QueueFacts DEF Agents
<1>2. CASE Top(w) \/ Look(w) \/ Wake(w) \/ Signal(w) \/ Push(w)
  BY <1>2, UnseenStep
  DEF Top, Look, Wake, Signal, Push, Unheld, shared, host, hist
<1>3. ASSUME NEW l \in Polling, NEW x \in {0, 1, 2}, NEW next,
             WorkerPop(w, l, x, next)
      PROVE  [Abs!AbsNext]_(Abs!absVars)
  <2>1. CASE \E t : Claim(w, x, {t})
    BY <1>1, <1>3, <2>1, ClaimStarts DEF WorkerPop
  <2>2. CASE Miss(w, x, next)
    BY <2>2, UnseenStep DEF Miss, Unheld, shared, host, hist
  <2> QED
    BY <1>3, <2>1, <2>2 DEF WorkerPop
<1>4. CASE WorkerPop(w, "q2", 2, "q1")
           \/ WorkerPop(w, "q1", 1, IF noSteal THEN "top" ELSE "steal")
           \/ WorkerSteal(w)
  BY <1>3, <1>4 DEF WorkerSteal, Polling, Positions
<1>5. CASE WorkerStealRing(w)
  <2> DEFINE b == (rr[w] + sweep[w]) % NumBlocks
  <2>1. Ring(b) \in Queues
    <3>1. NumBlocks \in Nat /\ NumBlocks > 0 /\ rr[w] + sweep[w] \in Nat
      BY <1>1, <1>5, QueueFacts DEF WorkerStealRing, IInv, TypeOK
    <3>2. b \in 0 .. NumBlocks - 1
      BY <3>1
    <3> QED
      BY <3>2, QueueFacts
  <2>2. \/ \E t : Claim(w, Ring(b), {t})
        \/ UNCHANGED <<graph, hpc, held, execs>>
    BY <1>5 DEF WorkerStealRing, Unheld, shared, host, hist
  <2>3. pc[w] \in Polling
    BY <1>5 DEF WorkerStealRing, Polling, Positions
  <2> HIDE DEF b
  <2> QED
    BY <1>1, <2>1, <2>2, <2>3, ClaimStarts, UnseenStep
<1>6. CASE WorkerNotify(w)
  BY <1>6, UnseenStep DEF WorkerNotify, Deliver, host, hist
<1> QED
  BY <1>1, <1>2, <1>4, <1>5, <1>6, ExecFinishes, LetGo DEF Worker

LEMMA BlockRefines ==
  ASSUME IInv, NEW b \in Blocks, Block(b)
  PROVE  [Abs!AbsNext]_(Abs!absVars)
<1>1. b \in Agents /\ {1, 3, OwnQueue(b)} \subseteq Queues
  <2>1. b[2] \in 0 .. NumBlocks - 1
    BY DEF Blocks
  <2> QED
    BY <2>1, QueueFacts DEF Agents, OwnQueue
<1>2. CASE Top(b) \/ Signal(b) \/ Push(b) \/ BlockBail(b)
  BY <1>2, UnseenStep
  DEF Top, Signal, Push, BlockBail, Unheld, shared, host, hist
<1>3. ASSUME NEW l \in Polling, NEW x \in Queues, NEW next,
             BlockPop(b, l, x, next)
      PROVE  [Abs!AbsNext]_(Abs!absVars)
  <2>1. CASE \E S : Claim(b, x, S)
    BY <1>1, <1>3, <2>1, ClaimStarts DEF BlockPop
  <2>2. CASE Miss(b, x, next)
    BY <2>2, UnseenStep DEF Miss, Unheld, shared, host, hist
  <2> QED
    BY <1>3, <2>1, <2>2 DEF BlockPop
<1>4. CASE \/ BlockPop(b, "q3", 3, "own") \/ BlockPop(b, "q1", 1, "top")
           \/ BlockPop(b, "own", OwnQueue(b), AfterOwn)
  BY <1>1, <1>3, <1>4 DEF Polling, Positions
<1>5. CASE BlockPeers(b)
  <2> DEFINE p == (rr[b] + sweep[b] + 1) % NumBlocks
  <2>1. Ring(p) \in Queues
    <3>1. NumBlocks \in Nat /\ NumBlocks > 0 /\ rr[b] + sweep[b] + 1 \in Nat
      BY <1>1, QueueFacts DEF Blocks, IInv, TypeOK
    <3>2. p \in 0 .. NumBlocks - 1
      BY <3>1
    <3> QED
      BY <3>2, QueueFacts
  <2>2. \/ \E S : Claim(b, Ring(p), S)
        \/ UNCHANGED <<graph, hpc, held, execs>>
    BY <1>5 DEF BlockPeers, Unheld, shared, host, hist
  <2>3. pc[b] \in Polling
    BY <1>5 DEF BlockPeers, Polling, Positions
  <2> HIDE DEF p
  <2> QED
    BY <1>1, <2>1, <2>2, <2>3, ClaimStarts, UnseenStep
<1>6. CASE BlockNotify(b)
  BY <1>6, UnseenStep DEF BlockNotify, Deliver, host, hist
<1> QED
  BY <1>1, <1>2, <1>4, <1>5, <1>6, ExecFinishes, LetGo DEF Block

(* The runtime executes a graph the way Runtime::run promises: every step  *)
(* of host, workers and blocks begins a run, starts or finishes a batch of *)
(* ready tasks, returns with all of them finished, or is invisible.        *)
THEOREM RuntimeImplementsGraphExecution == Spec => ImplementsGraphExecution
<1>1. Init => Abs!AbsInit
  <2> SUFFICES ASSUME Init PROVE Abs!AbsInit
    OBVIOUS
  <2>1. Current = NoGraph /\ Started = {} /\ Finished = {}
    BY DEF Init, Current, Started, Finished
  <2> QED
    BY <2>1 DEF Abs!AbsInit, Current, Started, Finished
<1>2. IInv /\ CloseInv /\ [Next]_vars => [Abs!AbsNext]_(Abs!absVars)
  <2> SUFFICES ASSUME IInv, CloseInv, [Next]_vars
               PROVE  [Abs!AbsNext]_(Abs!absVars)
    OBVIOUS
  <2>1. CASE Start \/ Stop \/ Join \/ PublishRoot \/ UNCHANGED vars
    BY <2>1, UnseenStep
    DEF Start, Stop, Join, PublishRoot, vars, shared, host, hist
  <2>2. CASE Open \/ AwaitDone
    <3>1. hpc # "idle" /\ hpc' # "idle" /\ UNCHANGED <<graph, held, execs>>
      BY <2>2 DEF Open, AwaitDone, shared, hist
    <3>2. Current' = Current /\ Started' = Started /\ Finished' = Finished
      BY <3>1 DEF Current, Started, Finished
    <3> QED
      BY <3>2, Invisible
  <2> QED
    BY <2>1, <2>2, BeginRunBegins, CloseReturns, WorkerRefines,
       BlockRefines
    DEF Next, HostStep
<1> QED
  BY <1>1, <1>2, RuntimeInvariant, SpecKeepsCloseInv, PTL
  DEF Spec, ImplementsGraphExecution, Abs!AbsSpec

================================================================================
