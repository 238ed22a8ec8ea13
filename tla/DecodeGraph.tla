------------------------------ MODULE DecodeGraph ------------------------------
(***************************************************************************)
(* The life of one decode graph: build_graph_m makes its calls one by one, *)
(* Graph::freeze validates the result, and step_batch runs it on the host  *)
(* with run_serial, several times over the same buffers.                   *)
(***************************************************************************)
EXTENDS GraphBuild, DecodeScript, FiniteSets

CONSTANTS
  Configs,     \* configurations, see DecodeScript
  MaxPasses    \* bound: number of passes

IsConfig(c) ==
  /\ {c.m, c.tiles, c.heads, c.used} \subseteq Nat \ {0} /\ c.approxK \in Nat
  /\ c.layers \in Seq({"dense", "moe"})
  /\ {c.multicol, c.barrier, c.cert} \subseteq BOOLEAN

ASSUME ConfigAssumption == \A c \in Configs : IsConfig(c)

VARIABLES
  config,
  pc,          \* "build", "freeze", "frozen", "run", "done", "died"
  todo,        \* calls of build_graph_m still to come
  graph,
  sigs,        \* id each name stands for
  deps, ready, \* countdown and stack of freeze() and run_serial()
  seen,        \* tasks popped, in their order
  sinks,       \* tasks without consumers among them
  terminal,
  before,      \* all tasks each task waits for, through others too
  dirty,       \* <<buffer, part>> written since it was cleared
  right,       \* tasks of this pass that saw their inputs and clean outputs
  passes

vars == <<config, pc, todo, graph, sigs, deps, ready, seen, sinks, terminal,
          before, dirty, right, passes>>

Init ==
  /\ config \in Configs
  /\ pc = "build" /\ todo = Script(config)
  /\ graph = EmptyGraph /\ sigs = <<>>
  /\ deps = <<>> /\ ready = <<>> /\ seen = <<>> /\ sinks = {} /\ terminal = 0
  /\ before = <<>> /\ dirty = {} /\ right = {}
  /\ passes = 0

(* A call's tasks, edges and relays.                                       *)
Made(it) ==
  LET task == [kind |-> it.kind, reads |-> it.reads, writes |-> it.writes,
               part |-> 0, pos |-> it.pos]
      ids  == [i \in DOMAIN it.deps |-> sigs[it.deps[i]]]
  IN  CASE it.kind = "op"     -> AddOp(graph, task, ids)
        [] it.kind = "dot"    -> AddDot(graph, task, config.tiles, ids)
        [] it.kind = "signal" -> AddOp(graph, Signal, ids)
        [] it.kind = "terminal" -> AddTerminal(graph, ids)

Build ==
  /\ pc = "build" /\ todo # <<>>
  /\ LET it   == Head(todo)
         made == Made(it)
     IN  /\ graph' = made.graph
         /\ sigs' = [x \in DOMAIN sigs \cup it.names |->
                       IF x \in it.names THEN made.sig ELSE sigs[x]]
         /\ pc' = IF made.graph.died THEN "died" ELSE pc
  /\ todo' = Tail(todo)
  /\ UNCHANGED <<config, deps, ready, seen, sinks, terminal, before, dirty,
                 right, passes>>

--------------------------------------------------------------------------------
(* freeze() and run_serial() share their loop: pop a ready task, count     *)
(* down its consumers, push those that reach zero.                         *)

RootsOf(g) ==
  FoldLeft(LAMBDA acc, i : IF g.depInit[i] = 0 THEN Append(acc, i) ELSE acc,
           <<>>, [i \in TaskIds(g) |-> i])

CountDown(acc, c) ==
  [deps  |-> [acc.deps EXCEPT ![c] = @ - 1],
   ready |-> IF acc.deps[c] = 1 THEN Append(acc.ready, c) ELSE acc.ready]

StartLoop ==
  /\ deps' = graph.depInit
  /\ ready' = RootsOf(graph)
  /\ seen' = <<>>

Pop ==
  /\ ready # <<>>
  /\ LET t     == Last(ready)
         after == FoldLeft(CountDown, [deps |-> deps, ready |-> Front(ready)],
                           graph.consumers[t])
     IN  /\ deps' = after.deps
         /\ ready' = after.ready
         /\ seen' = Append(seen, t)

BeginFreeze ==
  /\ pc = "build" /\ todo = <<>>
  /\ StartLoop
  /\ before' = [i \in TaskIds(graph) |-> {}]
  /\ pc' = "freeze"
  /\ UNCHANGED <<config, todo, graph, sigs, sinks, terminal, dirty, right, passes>>

FreezePop ==
  /\ pc = "freeze"
  /\ Pop
  /\ LET t == Last(ready)
     IN  /\ before' = [c \in DOMAIN before |->
               IF \E k \in DOMAIN graph.consumers[t] : graph.consumers[t][k] = c
                 THEN before[c] \cup before[t] \cup {t} ELSE before[c]]
         /\ IF graph.consumers[t] = <<>>
              THEN sinks' = sinks \cup {t} /\ terminal' = t
              ELSE UNCHANGED <<sinks, terminal>>
  /\ UNCHANGED <<config, pc, todo, graph, sigs, dirty, right, passes>>

(* A cycle, several sinks or a terminal that computes something: abort.    *)
EndFreeze ==
  /\ pc = "freeze" /\ ready = <<>>
  /\ pc' = IF /\ Len(seen) = Len(graph.tasks)
              /\ Cardinality(sinks) = 1
              /\ graph.tasks[terminal].kind = "SIGNAL"
             THEN "frozen" ELSE "died"
  /\ UNCHANGED <<config, todo, graph, sigs, deps, ready, seen, sinks, terminal,
                 before, dirty, right, passes>>

(* step_batch clears the slots and runs the graph.                         *)
BeginPass ==
  /\ pc \in {"frozen", "done"} /\ passes < MaxPasses
  /\ StartLoop
  /\ dirty' = { d \in dirty : d[1][1] \notin Slots }
  /\ right' = {}
  /\ passes' = passes + 1
  /\ before' = <<>>
  /\ pc' = "run"
  /\ UNCHANGED <<config, todo, graph, sigs, sinks, terminal>>

Task(t) == graph.tasks[t]
Overlap(t, u) == Task(t).part = 0 \/ Task(u).part = 0 \/ Task(t).part = Task(u).part
Writes(t) == { <<b, Task(t).part>> : b \in Task(t).writes }
WritersOf(S) == { t \in TaskIds(graph) : Task(t).writes \cap S # {} }

(* Tasks whose output t uses.                                              *)
SourcesOf(t) == WritersOf(Task(t).reads) \ {t}

(* A dot adds to its output, so the output has to be clear.                *)
Execute ==
  /\ pc = "run"
  /\ Pop
  /\ LET t == Last(ready)
     IN  /\ dirty' = dirty \cup Writes(t)
         /\ right' = IF /\ SourcesOf(t) \subseteq right
                        /\ Task(t).kind = "dot" => Writes(t) \cap dirty = {}
                       THEN right \cup {t} ELSE right
  /\ UNCHANGED <<config, pc, todo, graph, sigs, sinks, terminal, before, passes>>

EndPass ==
  /\ pc = "run" /\ ready = <<>>
  /\ pc' = "done"
  /\ UNCHANGED <<config, todo, graph, sigs, deps, ready, seen, sinks, terminal,
                 before, dirty, right, passes>>

Next ==
  \/ Build \/ BeginFreeze \/ FreezePop \/ EndFreeze
  \/ BeginPass \/ Execute \/ EndPass

Spec == Init /\ [][Next]_vars

--------------------------------------------------------------------------------
(* Properties.                                                             *)

(* At every call of the builder the graph is what TaskGraph assumes of it. *)
(* Checked once per call, not while the finished graph is run.             *)
WellFormed == pc = "build" => IsWellFormed(graph)

(* The builder and freeze() never abort: relay trees keep every task       *)
(* within MaxConsumers, and the terminal is the only sink ("Keeps fan-out  *)
(* legal", "keeping term the last SIGNAL").                                *)
BuildSucceeds == pc # "died"

(* Whatever order the runtime picks, a task starts after all tasks whose   *)
(* output it reads, attention after the KV rows of all positions up to its *)
(* own, and two tasks that write the same part of a buffer are ordered.    *)
RaceFree == pc = "frozen" =>
  \A t \in TaskIds(graph) :
    /\ \A w \in SourcesOf(t) : w \in before[t]
    /\ \A u \in WritersOf(Task(t).writes) \ {t} :
         Overlap(t, u) => t \in before[u] \/ u \in before[t]

(* "positions couple ONLY through the KV cache": without the options that  *)
(* join positions nothing waits for a later position.                      *)
Wavefront == pc = "frozen" /\ ~config.multicol /\ ~config.barrier =>
  \A t \in TaskIds(graph) : Task(t).pos # 0 =>
    \A u \in before[t] : Task(u).pos <= Task(t).pos

(* run_serial executes each task once, after its sources, and no dot adds  *)
(* to what an earlier pass left: the second pass is as good as the first.  *)
PassIsRight == pc = "done" =>
  /\ right = TaskIds(graph)
  /\ Len(seen) = Len(graph.tasks)
================================================================================
