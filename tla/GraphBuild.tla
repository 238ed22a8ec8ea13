------------------------------ MODULE GraphBuild ------------------------------
(***************************************************************************)
(* Building a task graph: Graph::add and Graph::edge of                    *)
(* src/src/runtime/graph.cpp and the helpers raw_signal, dep_edge and      *)
(* fan_in of src/src/model/decoder.cpp.                                    *)
(*                                                                         *)
(* A graph under construction is a record                                  *)
(*    tasks     |-> sequence of tasks; ids count from 1 here               *)
(*    consumers |-> for each task, its consumers in the order of edge()    *)
(*    depInit   |-> for each task, the number of edges into it             *)
(*    ports     |-> relay tree of each producer that has one (ports_)      *)
(*    died      |-> the builder has aborted the process                    *)
(* A task is a record [kind, reads, writes, part, pos]: the buffers it     *)
(* reads and writes, which part of each written buffer (0: all of it), and *)
(* the position of the batch it belongs to (0: none).                      *)
(***************************************************************************)
EXTENDS Integers, Sequences, FiniteSets, SequencesExt

MaxConsumers == 6

EmptyGraph ==
  [tasks |-> <<>>, consumers |-> <<>>, depInit |-> <<>>,
   ports |-> <<>>, died |-> FALSE]

NewestTask(g) == Len(g.tasks)
TaskIds(g) == 1 .. Len(g.tasks)

AddTask(g, task) ==
  [g EXCEPT !.tasks = Append(@, task), !.consumers = Append(@, <<>>),
            !.depInit = Append(@, 0)]

EdgeIsLegal(g, p, c) ==
  /\ p \in TaskIds(g) /\ c \in TaskIds(g) /\ p # c
  /\ Len(g.consumers[p]) < MaxConsumers

AddEdge(g, p, c) ==
  IF EdgeIsLegal(g, p, c)
    THEN [g EXCEPT !.consumers[p] = Append(@, c), !.depInit[c] = @ + 1]
    ELSE [g EXCEPT !.died = TRUE]

Signal == [kind |-> "SIGNAL", reads |-> {}, writes |-> {}, part |-> 0, pos |-> 0]
RawSignal(g) == AddTask(g, Signal)

(* A new signal that waits for p.                                          *)
SignalAfter(g, p) == AddEdge(RawSignal(g), p, NewestTask(g) + 1)

--------------------------------------------------------------------------------
(* dep_edge.  A producer keeps its last consumer slot for a relay tree: a  *)
(* chain of trunks, each with leaves, each with consumers.                 *)

HasRoom(g, p) == Len(g.consumers[p]) < MaxConsumers - 1

OpenPort(g, p) ==
  LET withTrunk == SignalAfter(g, p)
      trunk     == NewestTask(withTrunk)
      withLeaf  == SignalAfter(withTrunk, trunk)
      port      == [trunk |-> trunk, trunkUsed |-> 1,
                    leaf |-> NewestTask(withLeaf), leafUsed |-> 0]
  IN  [withLeaf EXCEPT !.ports =
         [x \in DOMAIN @ \cup {p} |-> IF x = p THEN port ELSE @[x]]]

TrunkIsOverfull(port) == port.trunkUsed > MaxConsumers   \* faulty: no slot kept
TrunkIsFull(port) == port.trunkUsed >= MaxConsumers - 1
ForgetfulChain(g, p) ==   \* faulty: the new trunk counts as full
  LET chained == SignalAfter(g, g.ports[p].trunk)
  IN  [chained EXCEPT !.ports[p].trunk = NewestTask(chained)]
ChainTrunk(g, p) ==
  LET chained == SignalAfter(g, g.ports[p].trunk)
  IN  [chained EXCEPT !.ports[p].trunk = NewestTask(chained),
                      !.ports[p].trunkUsed = 0]

NewLeaf(g, p) ==
  LET room   == IF TrunkIsFull(g.ports[p]) THEN ChainTrunk(g, p) ELSE g
      leafed == SignalAfter(room, room.ports[p].trunk)
  IN  [leafed EXCEPT !.ports[p].leaf = NewestTask(leafed),
                     !.ports[p].leafUsed = 0,
                     !.ports[p].trunkUsed = @ + 1]

DepEdge(g, p, c) ==
  IF HasRoom(g, p) THEN AddEdge(g, p, c)
  ELSE LET ported == IF p \in DOMAIN g.ports THEN g ELSE OpenPort(g, p)
           leafed == IF ported.ports[p].leafUsed >= MaxConsumers
                       THEN NewLeaf(ported, p) ELSE ported
       IN  [AddEdge(leafed, leafed.ports[p].leaf, c)
              EXCEPT !.ports[p].leafUsed = @ + 1]

--------------------------------------------------------------------------------
(* A task that waits for each of the producers ps, in their order.         *)
AddTaskAfter(g, task, ps) ==
  LET c == NewestTask(g) + 1
  IN  FoldLeft(LAMBDA acc, p : DepEdge(acc, p, c), AddTask(g, task), ps)

(* add_dot: one task per tile of rows, joined by a signal unless there is  *)
(* only one.  Relays may lie between the tiles, so their ids are collected.*)
AddTile(g, task, ps, i) == AddTaskAfter(g, [task EXCEPT !.part = i], ps)

AddTiles(g, task, tiles, ps) ==
  FoldLeft(LAMBDA acc, i :
             [graph |-> AddTile(acc.graph, task, ps, i),
              ids   |-> Append(acc.ids, NewestTask(acc.graph) + 1)],
           [graph |-> g, ids |-> <<>>],
           [i \in 1 .. tiles |-> i])

(* The graph and the id that stands for the whole call.                    *)
AddOp(g, task, ps) ==
  [graph |-> AddTaskAfter(g, task, ps), sig |-> NewestTask(g) + 1]
AddDot(g, task, tiles, ps) ==
  LET tiled == AddTiles(g, task, tiles, ps)
  IN  IF tiles = 1
        THEN [graph |-> tiled.graph, sig |-> tiled.ids[1]]
        ELSE AddOp(tiled.graph, Signal, tiled.ids)

(* The terminal: a signal with an edge from each producer, not by way of   *)
(* relays.                                                                 *)
AddTerminal(g, ps) ==
  LET term == NewestTask(g) + 1
  IN  [graph |-> FoldLeft(LAMBDA acc, p : AddEdge(acc, p, term), RawSignal(g), ps),
       sig |-> term]

--------------------------------------------------------------------------------
(* What the runtime relies on: the fan-out fits the consumer array,        *)
(* dep_init counts the entries that name a task, and a port's counters are *)
(* those of its trunk and leaf.                                            *)
EntriesNaming(g, c) ==
  { e \in TaskIds(g) \X (1 .. MaxConsumers) :
      e[2] \in DOMAIN g.consumers[e[1]] /\ g.consumers[e[1]][e[2]] = c }

IsWellFormed(g) ==
  /\ \A t \in TaskIds(g) : Len(g.consumers[t]) <= MaxConsumers
  /\ \A c \in TaskIds(g) : g.depInit[c] = Cardinality(EntriesNaming(g, c))
  /\ \A p \in DOMAIN g.ports :
       /\ g.ports[p].leafUsed = Len(g.consumers[g.ports[p].leaf])
       /\ g.ports[p].trunkUsed = Len(g.consumers[g.ports[p].trunk])
================================================================================
