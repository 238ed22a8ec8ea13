------------------------------- MODULE TaskGraph -------------------------------
(***************************************************************************)
(* Frozen task graphs, as Graph::add, Graph::edge and Graph::freeze leave  *)
(* them (src/src/runtime/graph.cpp).  A graph is a constant here: the      *)
(* runtime never changes the immutable part of a task.  GraphOf[g] is a    *)
(* record                                                                  *)
(*    n         |-> number of tasks; their ids are 0 .. n-1                *)
(*    consumers |-> for each task, the sequence of its consumers (the same *)
(*                  consumer may occur twice: edge() does not reject it)   *)
(*    desc      |-> for each task, what routing looks at: is it a decode   *)
(*                  op (kind >= RMSNORM), is its format a codebook, and    *)
(*                  its engine affinity                                    *)
(*    terminal  |-> the only task without consumers                        *)
(***************************************************************************)
EXTENDS Integers, Sequences, FiniteSets

CONSTANTS
  Graphs,     \* identities of the graphs a run may be given
  GraphOf     \* the frozen graph of each identity

Engines == {"GPU", "CPU", "ANY"}
Descriptors == [op : BOOLEAN, codebook : BOOLEAN, affinity : Engines]

MaxConsumers == 6

TasksOf(g) == 0 .. GraphOf[g].n - 1
Terminal(g) == GraphOf[g].terminal

(* The entries of every task's consumer array: <<producer, index>>.        *)
Edges(g) ==
  { e \in TasksOf(g) \X (1 .. MaxConsumers) :
      e[2] \in 1 .. Len(GraphOf[g].consumers[e[1]]) }

Target(g, e) == GraphOf[g].consumers[e[1]][e[2]]
EdgesOf(g, S) == { e \in Edges(g) : e[1] \in S }
EdgesInto(g, c) == { e \in Edges(g) : Target(g, e) = c }
Producers(g, c) == { e[1] : e \in EdgesInto(g, c) }

(* Faulty: a consumer listed twice is waited for once.                     *)
DepInitDistinct(g) == [c \in TasksOf(g) |-> Cardinality(Producers(g, c))]

(* dep_init: one unit per call edge(p, c), duplicates included.            *)
DepInit(g) == [c \in TasksOf(g) |-> Cardinality(EdgesInto(g, c))]
Roots(g) == { t \in TasksOf(g) : EdgesInto(g, t) = {} }

--------------------------------------------------------------------------------
(* What every accepted sequence of add() and edge() calls guarantees.      *)
GraphAssumption ==
  \A g \in Graphs :
    /\ GraphOf[g].n \in Nat \ {0}
    /\ GraphOf[g].consumers \in [TasksOf(g) -> Seq(TasksOf(g))]
    /\ GraphOf[g].desc \in [TasksOf(g) -> Descriptors]
    /\ Terminal(g) \in TasksOf(g)
    /\ \A t \in TasksOf(g) : Len(GraphOf[g].consumers[t]) <= MaxConsumers

(* What freeze() adds: no cycle (some numbering of the tasks grows along   *)
(* every edge) and one sink.                                               *)
FrozenAssumption ==
  \A g \in Graphs :
    /\ \E rank \in [TasksOf(g) -> TasksOf(g)] :
         \A e \in Edges(g) : rank[e[1]] < rank[Target(g, e)]
    /\ \A t \in TasksOf(g) :
         (GraphOf[g].consumers[t] = <<>>) <=> (t = Terminal(g))

ASSUME GraphsAreWellFormed == GraphAssumption
ASSUME GraphsAreFrozen == FrozenAssumption
================================================================================
