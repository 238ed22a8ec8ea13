------------------------------- MODULE MCRuntime -------------------------------
(***************************************************************************)
(* Small graphs for the model checker.  "step" has the shape of a decode   *)
(* step: a root op, three dots of the three engine classes in parallel, a  *)
(* merge that waits for one of them twice, and the terminal.  "single" is  *)
(* the smallest graph, of another size, so that a task that survived its   *)
(* run would be read in the wrong graph.                                   *)
(***************************************************************************)
EXTENDS Runtime

D(op, cb, aff) == [op |-> op, codebook |-> cb, affinity |-> aff]

At(i, s) == s[i + 1]

StepGraph ==
  LET cons == << <<1, 2, 3>>, <<4, 4>>, <<4>>, <<4, 5>>, <<5>>, <<>> >>
      desc == << D(TRUE, FALSE, "CPU"), D(FALSE, TRUE, "GPU"),
                 D(FALSE, FALSE, "ANY"), D(FALSE, FALSE, "CPU"),
                 D(FALSE, FALSE, "GPU"), D(FALSE, FALSE, "ANY") >>
  IN  [n |-> 6, terminal |-> 5,
       consumers |-> [t \in 0 .. 5 |-> At(t, cons)],
       desc |-> [t \in 0 .. 5 |-> At(t, desc)]]

SingleGraph ==
  [n |-> 2, terminal |-> 0,
   consumers |-> [t \in 0 .. 1 |-> IF t = 0 THEN <<>> ELSE <<0>>],
   desc |-> [t \in 0 .. 1 |-> D(FALSE, FALSE, IF t = 0 THEN "CPU" ELSE "GPU")]]

(* With two rings of two cells and chunks of three task ids, the host      *)
(* meets a full ring in "roots" (three roots) and an agent in "fan" (three *)
(* consumers of one task).                                                 *)
RootsGraph ==
  [n |-> 4, terminal |-> 3,
   consumers |-> [t \in 0 .. 3 |-> IF t = 3 THEN <<>> ELSE <<3>>],
   desc |-> [t \in 0 .. 3 |-> D(FALSE, FALSE, "GPU")]]

FanGraph ==
  [n |-> 5, terminal |-> 4,
   consumers |-> [t \in 0 .. 4 |-> IF t = 3 THEN <<0, 1, 2>>
                                   ELSE IF t = 4 THEN <<>> ELSE <<4>>],
   desc |-> [t \in 0 .. 4 |->
               D(FALSE, FALSE, IF t = 4 THEN "CPU" ELSE "GPU")]]

AllGraphs ==
  [g \in {"step", "single", "roots", "fan"} |->
     CASE g = "step" -> StepGraph [] g = "single" -> SingleGraph
       [] g = "roots" -> RootsGraph [] g = "fan" -> FanGraph]

StepAndSingle == {"step", "single"}
RootsAndFan == {"roots", "fan"}
MCTasks == 0 .. 5
================================================================================
