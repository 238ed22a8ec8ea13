---------------------------- MODULE GraphExecution ----------------------------
(***************************************************************************)
(* What Runtime::run promises (src/include/fastllm/fastllm.h): it executes *)
(* one frozen graph, every task exactly once, none before all of its       *)
(* producers have finished, and returns when all of them have finished.    *)
(* Who executes a task and how it gets there is not visible here.          *)
(***************************************************************************)
EXTENDS TaskGraph

CONSTANT NoGraph   \* no member of Graphs

VARIABLES
  current,    \* the graph being run, or NoGraph between two runs
  started,    \* tasks whose execution has begun in this run
  finished    \* tasks whose execution has ended in this run

absVars == <<current, started, finished>>

AbsInit ==
  /\ current = NoGraph
  /\ started = {}
  /\ finished = {}

Begin(g) ==
  /\ current = NoGraph
  /\ current' = g
  /\ started' = {}
  /\ finished' = {}

(* An engine begins a batch of tasks whose inputs are all computed.        *)
StartTasks(S) ==
  /\ current # NoGraph
  /\ S \cap started = {}
  /\ \A t \in S : Producers(current, t) \subseteq finished
  /\ started' = started \cup S
  /\ UNCHANGED <<current, finished>>

FinishTasks(S) ==
  /\ current # NoGraph
  /\ S \subseteq started \ finished
  /\ finished' = finished \cup S
  /\ UNCHANGED <<current, started>>

Return ==
  /\ current # NoGraph
  /\ finished = TasksOf(current)
  /\ current' = NoGraph
  /\ UNCHANGED <<started, finished>>

AbsNext ==
  \/ \E g \in Graphs : Begin(g)
  \/ /\ current # NoGraph
     /\ \E S \in SUBSET TasksOf(current) : StartTasks(S) \/ FinishTasks(S)
  \/ Return

AbsSpec == AbsInit /\ [][AbsNext]_absVars
================================================================================
