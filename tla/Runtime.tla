-------------------------------- MODULE Runtime --------------------------------
(***************************************************************************)
(* The dataflow runtime: the host inside Runtime::run, the CPU worker pool *)
(* (runtime.cpp) and the persistent GPU blocks (gpu_exec.cu), sharing      *)
(* RtShared (runtime_internal.h).                                          *)
(*                                                                         *)
(* Ready queues.  q[x][t] says how many times task t is in queue x.  A pop *)
(* may take any task of the queue, so nothing here depends on the FIFO     *)
(* order; module TaskQueue models the queue itself.  A pop may also find a *)
(* non-empty queue empty while a push to it is under way: the cell of the  *)
(* oldest claimed position is not published yet.  Queues 0..3 are RtShared *)
(* ::q, queue 4 + b is the private ring gq[b] of GPU block b.              *)
(*                                                                         *)
(* The consumer loop of a finished batch is the set rem[a] of consumer     *)
(* entries agent a has still to deliver.  Parking is the wait at pc "idle" *)
(* for active or teardown; module ParkWake models how it is implemented.   *)
(***************************************************************************)
EXTENDS TaskGraph

CONSTANTS
  Tasks,       \* every task id a graph may use, with NoTask outside
  NoTask, NoGraph,
  NumWorkers,  \* RuntimeConfig::cpu_threads
  NumBlocks,   \* launched GPU blocks; 0 when gpu_enabled is false
  GpuBatch,    \* RuntimeConfig::gpu_batch
  Capacity,    \* kQueueCapacity
  PerBlock,    \* FASTLLM_PERBLOCK_Q
  Chunk,       \* FASTLLM_PERBLOCK_CHUNK
  NoStealSettings, \* values of FASTLLM_NO_STEAL considered
  Teardown,    \* whether another thread may call stop() during a run
  MaxRuns,     \* bound: how often run() is called
  MaxStarts    \* bound: how often start() is called

ConfigAssumption ==
  /\ Tasks \subseteq Nat /\ IsFiniteSet(Tasks)
  /\ \A g \in Graphs : TasksOf(g) \subseteq Tasks
  /\ NoTask \notin Tasks /\ NoGraph \notin Graphs
  /\ NumWorkers \in Nat /\ NumBlocks \in Nat
  /\ GpuBatch \in Nat \ {0} /\ Capacity \in Nat \ {0, 1} /\ Chunk \in Nat \ {0}
  /\ PerBlock \in BOOLEAN /\ Teardown \in BOOLEAN
  /\ NoStealSettings \subseteq BOOLEAN
  /\ PerBlock => NumBlocks > 0
  /\ MaxRuns \in Nat /\ MaxStarts \in Nat

ASSUME ConfigIsValid == ConfigAssumption

Workers == {"cpu"} \X (0 .. NumWorkers - 1)
Blocks  == {"gpu"} \X (0 .. NumBlocks - 1)
Agents  == Workers \cup Blocks
GpuEnabled == NumBlocks > 0
Queues  == 0 .. 3 + NumBlocks
Ring(b) == 4 + b

VARIABLES
  graph,      \* sh->tasks: the graph being executed
  dep,        \* Task::dep_count of its tasks
  nDone, doneFlag, active, runFlag,             \* RtShared control words
  noSteal,    \* RtShared::no_steal, fixed by the constructor
  q,          \* the ready queues
  hpc, roots, \* host: position in run(), roots still to publish
  life,       \* executors: stopped, started, stopping
  pc, held,   \* agents: position, batch claimed and not yet counted
  rem,        \* agents: consumer entries of the batch still to deliver
  pub,        \* agents: consumer made ready and not yet pushed
  rr, sweep,  \* agents: rotating ring cursor, probes made in this sweep
  execs,      \* history: how often each task was executed in this run
  counted,    \* history: tasks added to n_done in this run
  runs, starts

shared == <<graph, dep, nDone, doneFlag, active, runFlag, noSteal>>
host   == <<hpc, roots, life, runs, starts>>
hist   == <<execs, counted>>
vars   == <<shared, q, host, pc, held, rem, pub, rr, sweep, hist>>

--------------------------------------------------------------------------------
(* Routing.                                                                *)

(* Faulty: codebook dots follow their affinity.                            *)
TaskQueueByAffinity(d) ==
  IF d.op THEN 2
  ELSE IF d.affinity = "GPU" THEN 0 ELSE 1

(* fl_task_queue: decode ops to the CPU-only queue, codebook dots to the   *)
(* GPU-only queue while there is a GPU, the rest by affinity.              *)
TaskQueueOf(d) ==
  IF d.op THEN 2
  ELSE IF d.codebook THEN (IF GpuEnabled THEN 3 ELSE 1)
  ELSE IF d.affinity = "GPU" THEN 0
  ELSE IF d.affinity = "CPU" THEN 1
  ELSE (IF GpuEnabled THEN 0 ELSE 1)

(* Faulty: rings enabled, but the publisher still uses the shared queue.   *)
RouteShared(g, t) == TaskQueueOf(GraphOf[g].desc[t])

(* fl_publish: GPU work goes to the ring that owns the task id.            *)
Route(g, t) ==
  LET x == TaskQueueOf(GraphOf[g].desc[t])
  IN  IF x = 0 /\ PerBlock THEN Ring((t \div Chunk) % NumBlocks) ELSE x

Occupied(x) == { e \in Tasks \X (1 .. Capacity) : e[2] <= q[x][e[1]] }
(* push() finds no free cell.                                              *)
Full(x) == Cardinality(Occupied(x)) >= Capacity
Enqueued(x) == { t \in Tasks : q[x][t] > 0 }

(* A push to queue x may have claimed its position and not published it.   *)
HostPushing(x) ==
  /\ hpc = "publish"
  /\ \E t \in roots : (\A u \in roots : t <= u) /\ Route(graph, t) = x
PushInFlight(x) ==
  \/ \E a \in Agents : pc[a] = "push" /\ Route(graph, pub[a]) = x
  \/ HostPushing(x)

(* The retry loop around push looks at the teardown latch.                 *)
NeverGivesUp(x) == FALSE   \* faulty: the spin ignores the latch
GivesUp(x) == Full(x) /\ ~runFlag

MayMiss(x) == Enqueued(x) = {} \/ (PushInFlight(x) /\ ~Full(x))

--------------------------------------------------------------------------------
(* Initial state: RuntimeImpl's constructor.                               *)

Init ==
  /\ graph = NoGraph
  /\ dep = [t \in Tasks |-> 0]
  /\ nDone = 0 /\ doneFlag = FALSE /\ active = FALSE /\ runFlag = FALSE
  /\ noSteal \in NoStealSettings
  /\ q = [x \in Queues |-> [t \in Tasks |-> 0]]
  /\ hpc = "idle" /\ roots = {}
  /\ life = "stopped"
  /\ pc = [a \in Agents |-> "exit"]
  /\ held = [a \in Agents |-> {}]
  /\ rem = [a \in Agents |-> {}]
  /\ pub = [a \in Agents |-> NoTask]
  /\ rr = [a \in Agents |-> 0]
  /\ sweep = [a \in Agents |-> 0]
  /\ execs = [t \in Tasks |-> 0]
  /\ counted = {}
  /\ runs = 0 /\ starts = 0

--------------------------------------------------------------------------------
(* Life cycle: start(), stop().                                            *)

(* start() lays out fresh rings; the four shared queues keep their state.   *)
Start ==
  /\ life = "stopped" /\ hpc = "idle" /\ starts < MaxStarts
  /\ life' = "started"
  /\ starts' = starts + 1
  /\ runFlag' = TRUE
  /\ pc' = [a \in Agents |-> "top"]
  /\ rr' = [a \in Agents |-> IF a \in Workers THEN a[2] ELSE a[2] + 1]
  /\ sweep' = [a \in Agents |-> 0]
  /\ q' = IF PerBlock
            THEN [x \in Queues |-> IF x > 3 THEN [t \in Tasks |-> 0] ELSE q[x]]
            ELSE q
  /\ UNCHANGED <<graph, dep, nDone, doneFlag, active, noSteal, hpc, roots, runs,
                 held, rem, pub, hist>>

(* stop() drops the teardown latch ...                                     *)
Stop ==
  /\ life = "started" /\ (hpc = "idle" \/ Teardown)
  /\ life' = "stopping"
  /\ runFlag' = FALSE
  /\ UNCHANGED <<graph, dep, nDone, doneFlag, active, noSteal, q, hpc, roots,
                 runs, starts, pc, held, rem, pub, rr, sweep, hist>>

(* ... joins the pool and waits for the grid.                              *)
Join ==
  /\ life = "stopping"
  /\ \A a \in Agents : pc[a] = "exit"
  /\ life' = "stopped"
  /\ UNCHANGED <<shared, q, hpc, roots, runs, starts, pc, held, rem, pub, rr,
                 sweep, hist>>

--------------------------------------------------------------------------------
(* The host: Runtime::run.                                                 *)

(* The reset.  The previous run is expected to be fully drained.           *)
BeginRun(g) ==
  /\ life = "started" /\ hpc = "idle" /\ runs < MaxRuns
  /\ graph' = g
  /\ dep' = [t \in Tasks |-> IF t \in TasksOf(g) THEN DepInit(g)[t] ELSE 0]
  /\ nDone' = 0 /\ doneFlag' = FALSE
  /\ roots' = Roots(g)
  /\ execs' = [t \in Tasks |-> 0]
  /\ counted' = {}
  /\ runs' = runs + 1
  /\ hpc' = "open"
  /\ UNCHANGED <<active, runFlag, noSteal, q, life, starts, pc, held, rem, pub,
                 rr, sweep>>

Open ==
  /\ hpc = "open"
  /\ active' = TRUE
  /\ hpc' = "publish"
  /\ UNCHANGED <<graph, dep, nDone, doneFlag, runFlag, noSteal, q, roots, life,
                 runs, starts, pc, held, rem, pub, rr, sweep, hist>>

(* Roots are the tasks with dep_init = 0, in id order.  A push that finds  *)
(* the queue full is retried; after teardown it is given up.               *)
PublishRoot ==
  /\ hpc = "publish"
  /\ \E t \in roots :
       /\ \A u \in roots : t <= u
       /\ LET x == Route(graph, t)
          IN  \/ ~Full(x) /\ q' = [q EXCEPT ![x][t] = @ + 1]
              \/ GivesUp(x) /\ UNCHANGED q
       /\ roots' = roots \ {t}
  /\ UNCHANGED <<shared, hpc, life, runs, starts, pc, held, rem, pub, rr, sweep,
                 hist>>

(* The wait ends when the terminal has fired and every epilogue is over.   *)
TerminalFired == doneFlag   \* faulty: stragglers are not waited for
RunDrained == doneFlag /\ nDone = GraphOf[graph].n

AwaitDone ==
  /\ hpc = "publish" /\ roots = {}
  /\ RunDrained
  /\ hpc' = "close"
  /\ UNCHANGED <<shared, q, roots, life, runs, starts, pc, held, rem, pub, rr,
                 sweep, hist>>

Close ==
  /\ hpc = "close"
  /\ active' = FALSE
  /\ hpc' = "idle"
  /\ UNCHANGED <<graph, dep, nDone, doneFlag, runFlag, noSteal, q, roots, life,
                 runs, starts, pc, held, rem, pub, rr, sweep, hist>>

--------------------------------------------------------------------------------
(* What the two kinds of agents share.                                     *)

Goto(a, l) == pc' = [pc EXCEPT ![a] = l]

Unheld == <<shared, host, rem, pub, hist>>

(* A pop that succeeds: the tasks of S leave queue x.                      *)
Claim(a, x, S) ==
  /\ S \subseteq Enqueued(x)
  /\ q' = [q EXCEPT ![x] = [t \in Tasks |-> IF t \in S THEN @[t] - 1 ELSE @[t]]]
  /\ held' = [held EXCEPT ![a] = S]
  /\ Goto(a, "exec")
  /\ sweep' = [sweep EXCEPT ![a] = 0]
  /\ UNCHANGED Unheld

(* A pop that finds nothing: on to the next source.                        *)
Miss(a, x, l) ==
  /\ MayMiss(x)
  /\ Goto(a, l)
  /\ UNCHANGED <<q, held, rr, sweep, Unheld>>

(* Loop head: teardown latch.                                              *)
Top(a) ==
  /\ pc[a] = "top"
  /\ Goto(a, IF ~runFlag THEN "exit" ELSE IF a \in Blocks THEN "q3" ELSE "look")
  /\ UNCHANGED <<q, held, rr, sweep, Unheld>>

(* Execution of the claimed batch.                                         *)
Exec(a) ==
  /\ pc[a] = "exec"
  /\ execs' = [t \in Tasks |-> IF t \in held[a] THEN execs[t] + 1 ELSE execs[t]]
  /\ rem' = [rem EXCEPT ![a] = EdgesOf(graph, held[a])]
  /\ Goto(a, IF Terminal(graph) \in held[a] THEN "signal" ELSE "notify")
  /\ UNCHANGED <<shared, host, q, held, pub, rr, sweep, counted>>

Signal(a) ==
  /\ pc[a] = "signal"
  /\ doneFlag' = TRUE
  /\ Goto(a, "notify")
  /\ UNCHANGED <<graph, dep, nDone, active, runFlag, noSteal, q, host, held,
                 rem, pub, rr, sweep, hist>>

(* fetch_sub returned the value it found; the consumer is ready when that  *)
(* value is what has just been subtracted.                                 *)
MadeReadyEarly(c, D) == dep[c] - Cardinality(D) <= 1   \* faulty: off by one
MadeReady(c, D) == dep[c] = Cardinality(D)

(* What a fetch_sub subtracts for the entries of D.                        *)
OnePerConsumer(D) == 1   \* faulty: repeated entries count once
Decrement(D) == Cardinality(D)

(* fetch_sub: deliver the entries of D, all of them to consumer c; the one *)
(* that brings dep_count to zero publishes c.                              *)
Deliver(a, c, D) ==
  /\ pc[a] = "notify"
  /\ dep' = [dep EXCEPT ![c] = @ - Decrement(D)]
  /\ rem' = [rem EXCEPT ![a] = @ \ D]
  /\ IF MadeReady(c, D)
       THEN pub' = [pub EXCEPT ![a] = c] /\ Goto(a, "push")
       ELSE UNCHANGED <<pub, pc>>
  /\ UNCHANGED <<graph, nDone, doneFlag, active, runFlag, noSteal, q, host,
                 held, rr, sweep, hist>>

(* fl_publish: push, retried while the queue is full.                      *)
Push(a) ==
  /\ pc[a] = "push"
  /\ LET x == Route(graph, pub[a])
     IN  ~Full(x) /\ q' = [q EXCEPT ![x][pub[a]] = @ + 1]
  /\ pub' = [pub EXCEPT ![a] = NoTask]
  /\ Goto(a, "notify")
  /\ UNCHANGED <<shared, host, held, rem, rr, sweep, hist>>

(* Every consumer entry is delivered: n_done, then back to the loop head.  *)
Count(a) ==
  /\ pc[a] = "notify" /\ rem[a] = {}
  /\ nDone' = nDone + Cardinality(held[a])
  /\ counted' = counted \cup held[a]
  /\ held' = [held EXCEPT ![a] = {}]
  /\ Goto(a, "top")
  /\ UNCHANGED <<graph, dep, doneFlag, active, runFlag, noSteal, q, host, rem,
                 pub, rr, sweep, execs>>

--------------------------------------------------------------------------------
(* CPU worker w (RuntimeImpl::worker, exec_and_publish).                   *)

Look(w) ==
  /\ pc[w] = "look"
  /\ Goto(w, IF active THEN "q2" ELSE "idle")
  /\ UNCHANGED <<q, held, rr, sweep, Unheld>>

Wake(w) ==
  /\ pc[w] = "idle" /\ (active \/ ~runFlag)
  /\ Goto(w, "top")
  /\ UNCHANGED <<q, held, rr, sweep, Unheld>>

(* One pop from queue x at position l.                                     *)
WorkerPop(w, l, x, next) ==
  /\ pc[w] = l
  /\ \/ \E t \in Enqueued(x) : Claim(w, x, {t}) /\ UNCHANGED rr
     \/ Miss(w, x, next)

(* Stealing GPU work: the shared queue, or every ring from the cursor on.  *)
WorkerSteal(w) ==
  /\ pc[w] = "steal" /\ ~PerBlock
  /\ WorkerPop(w, "steal", 0, "top")

WorkerStealRing(w) ==
  /\ pc[w] = "steal" /\ PerBlock
  /\ LET b == (rr[w] + sweep[w]) % NumBlocks
         last == sweep[w] = NumBlocks - 1
     IN  \/ \E t \in Enqueued(Ring(b)) :
              /\ Claim(w, Ring(b), {t})
              /\ rr' = [rr EXCEPT ![w] = b + 1]
         \/ /\ MayMiss(Ring(b))
            /\ sweep' = [sweep EXCEPT ![w] = IF last THEN 0 ELSE @ + 1]
            /\ Goto(w, IF last THEN "top" ELSE "steal")
            /\ UNCHANGED <<q, held, rr, Unheld>>

(* The consumer array is walked in order, one decrement per entry.         *)
WorkerNotify(w) ==
  \E e \in rem[w] :
    /\ \A f \in rem[w] : e[2] <= f[2]
    /\ Deliver(w, Target(graph, e), {e})

(* Teardown seen by the push spin: the task is abandoned uncounted.        *)
WorkerBail(w) ==
  /\ pc[w] = "push" /\ GivesUp(Route(graph, pub[w]))
  /\ pub' = [pub EXCEPT ![w] = NoTask]
  /\ rem' = [rem EXCEPT ![w] = {}]
  /\ held' = [held EXCEPT ![w] = {}]
  /\ Goto(w, "top")
  /\ UNCHANGED <<shared, host, q, rr, sweep, hist>>

Worker(w) ==
  \/ Top(w) \/ Look(w) \/ Wake(w)
  \/ WorkerPop(w, "q2", 2, "q1")
  \/ WorkerPop(w, "q1", 1, IF noSteal THEN "top" ELSE "steal")
  \/ WorkerSteal(w) \/ WorkerStealRing(w)
  \/ Exec(w) \/ Signal(w) \/ WorkerNotify(w) \/ Push(w) \/ WorkerBail(w)
  \/ Count(w)

--------------------------------------------------------------------------------
(* GPU block b (executor kernel).                                          *)

(* pop_bulk claims up to gpu_batch tasks.                                  *)
Batches(x) ==
  { S \in SUBSET Enqueued(x) : S # {} /\ Cardinality(S) <= GpuBatch }

BlockPop(b, l, x, next) ==
  /\ pc[b] = l
  /\ \/ \E S \in Batches(x) : Claim(b, x, S) /\ UNCHANGED rr
     \/ Miss(b, x, next)

OwnQueue(b) == IF PerBlock THEN Ring(b[2]) ELSE 0
AfterOwn == IF noSteal THEN "top"
            ELSE IF PerBlock /\ NumBlocks > 1 THEN "peers" ELSE "q1"

(* Peers: rings peer_rr + 1 .. peer_rr + nb - 1.                           *)
BlockPeers(b) ==
  /\ pc[b] = "peers"
  /\ LET p == (rr[b] + sweep[b] + 1) % NumBlocks
         last == sweep[b] + 2 = NumBlocks
     IN  \/ \E S \in Batches(Ring(p)) :
              /\ Claim(b, Ring(p), S)
              /\ rr' = [rr EXCEPT ![b] = p]
         \/ /\ MayMiss(Ring(p))
            /\ sweep' = [sweep EXCEPT ![b] = IF last THEN 0 ELSE @ + 1]
            /\ Goto(b, IF last THEN "q1" ELSE "peers")
            /\ UNCHANGED <<q, held, rr, Unheld>>

(* The consumers of the whole batch are collected without repetition, each *)
(* with the number of its entries, and take one fetch_sub each.            *)
BlockNotify(b) ==
  \E c \in { Target(graph, e) : e \in rem[b] } :
    Deliver(b, c, { e \in rem[b] : Target(graph, e) = c })

(* Teardown seen by the push spin: this consumer is dropped, the epilogue  *)
(* goes on.                                                                *)
BlockBail(b) ==
  /\ pc[b] = "push" /\ GivesUp(Route(graph, pub[b]))
  /\ pub' = [pub EXCEPT ![b] = NoTask]
  /\ Goto(b, "notify")
  /\ UNCHANGED <<shared, host, q, held, rem, rr, sweep, hist>>

Block(b) ==
  \/ Top(b)
  \/ BlockPop(b, "q3", 3, "own")
  \/ BlockPop(b, "own", OwnQueue(b), AfterOwn)
  \/ BlockPeers(b)
  \/ BlockPop(b, "q1", 1, "top")
  \/ Exec(b) \/ Signal(b) \/ BlockNotify(b) \/ Push(b) \/ BlockBail(b)
  \/ Count(b)

--------------------------------------------------------------------------------

HostStep == Open \/ PublishRoot \/ AwaitDone \/ Close

Next ==
  \/ Start \/ Stop \/ Join
  \/ \E g \in Graphs : BeginRun(g)
  \/ HostStep
  \/ \E w \in Workers : Worker(w)
  \/ \E b \in Blocks : Block(b)

Spec == Init /\ [][Next]_vars

(* Threads are scheduled preemptively; the launched grid is clamped to the *)
(* blocks that are resident together; the host thread runs.  Nobody is     *)
(* obliged to call start, run or stop.                                     *)
Fairness ==
  /\ \A w \in Workers : WF_vars(Worker(w))
  /\ \A b \in Blocks : WF_vars(Block(b))
  /\ WF_vars(HostStep)
  /\ WF_vars(Join)

FairSpec == Spec /\ Fairness

--------------------------------------------------------------------------------
(* Properties.                                                             *)

Positions == {"exit", "top", "look", "idle", "q1", "q2", "steal", "q3", "own",
              "peers", "exec", "signal", "notify", "push"}

(* Types; dep_count never goes below zero, whatever the order in which the *)
(* engines subtract (fl_fetch_sub_i32 in both consumer loops).             *)
TypeOK ==
  /\ graph \in Graphs \cup {NoGraph}
  /\ dep \in [Tasks -> Nat]
  /\ nDone \in Nat
  /\ doneFlag \in BOOLEAN /\ active \in BOOLEAN /\ runFlag \in BOOLEAN
  /\ noSteal \in BOOLEAN
  /\ q \in [Queues -> [Tasks -> Nat]]
  /\ hpc \in {"idle", "open", "publish", "close"}
  /\ roots \in SUBSET Tasks
  /\ life \in {"stopped", "started", "stopping"}
  /\ runs \in Nat /\ starts \in Nat
  /\ pc \in [Agents -> Positions]
  /\ held \in [Agents -> SUBSET Tasks]
  /\ rem \in [Agents -> SUBSET (Tasks \X (1 .. MaxConsumers))]
  /\ pub \in [Agents -> Tasks \cup {NoTask}]
  /\ rr \in [Agents -> Nat]
  /\ sweep \in [Agents -> Nat]
  /\ execs \in [Tasks -> Nat]
  /\ counted \in SUBSET Tasks

(* No task is executed twice in a run, although every engine may pop,      *)
(* steal and publish (fl_fetch_sub_i32 decides the only publisher).        *)
RunsOnce == \A t \in Tasks : execs[t] <= 1

Running(a) == IF pc[a] = "exec" THEN held[a] ELSE {}

(* A task is claimed only when all of its producers have been executed in  *)
(* this run: no stale or missing input (Runtime::run, "resets dep counts").*)
InputsReady ==
  graph # NoGraph =>
    \A a \in Agents : \A t \in Running(a) :
      \A p \in Producers(graph, t) : execs[p] > 0

(* Between two runs nothing is left over: no queued task, no agent inside  *)
(* an epilogue, so the next reset of dep_count races with nobody           *)
(* (runtime.cpp, "quiescent: previous run fully drained via n_done").      *)
Quiescent ==
  hpc \in {"close", "idle", "open"} =>
    /\ \A x \in Queues : Enqueued(x) = {}
    /\ \A a \in Agents : held[a] = {} /\ rem[a] = {} /\ pub[a] = NoTask

(* When run() returns every task of the graph has been executed.           *)
Complete ==
  hpc = "close" => \A t \in TasksOf(graph) : execs[t] = 1

(* CPU workers never execute codebook dots while there is a GPU (they      *)
(* would compute zeros), GPU blocks never execute decode ops, and under    *)
(* FASTLLM_NO_STEAL each engine executes only what was assigned to it.     *)
EnginesRespected ==
  \A a \in Agents : \A t \in Running(a) :
    LET d == GraphOf[graph].desc[t]
    IN  IF a \in Workers
          THEN /\ ~(GpuEnabled /\ d.codebook /\ ~d.op)
               /\ noSteal => (d.op \/ d.affinity = "CPU" \/ ~GpuEnabled)
          ELSE /\ ~d.op
               /\ noSteal => (d.codebook \/ d.affinity # "CPU")

(* Nobody meets a full queue: push never blocks (queue.h, "sized >=        *)
(* n_tasks at Runtime creation"; the code's capacity is a constant).       *)
PushNeverBlocks ==
  /\ \A a \in Agents : pc[a] = "push" => ~Full(Route(graph, pub[a]))
  /\ \A x \in Queues : HostPushing(x) => ~Full(x)

(* run() returns: the 60 s deadline of its wait is never needed.           *)
RunReturns == (hpc # "idle") ~> (hpc = "idle")

(* The same where another thread may stop the executors in between.        *)
RunReturnsUnlessStopped == (hpc # "idle") ~> (hpc = "idle" \/ life # "started")

(* stop() returns: every worker and every block sees the teardown latch,   *)
(* also from inside a push to a full queue.                                *)
StopReturns == (life = "stopping") ~> (life = "stopped")

(* Every step is a step of the promise of Runtime::run, or invisible.      *)
Abs == INSTANCE GraphExecution WITH
  current  <- IF hpc = "idle" THEN NoGraph ELSE graph,
  started  <- { t \in Tasks : execs[t] > 0 \/ \E a \in Agents : t \in held[a] },
  finished <- { t \in Tasks : execs[t] > 0 }

ImplementsGraphExecution == Abs!AbsSpec
================================================================================
