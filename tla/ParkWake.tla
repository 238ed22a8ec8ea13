------------------------------- MODULE ParkWake --------------------------------
(***************************************************************************)
(* How idle CPU workers park and are woken (src/src/runtime/runtime.cpp:   *)
(* worker, run, stop).  Two words are stored without the mutex: active,    *)
(* around a run, and run_flag, the teardown latch.  The generation         *)
(* wake_gen_ is protected by the mutex mu_; cv_ is notified after the      *)
(* mutex is released.  Module Runtime takes from here that a parked worker *)
(* comes back once active is set or the latch is dropped.                  *)
(*                                                                         *)
(* What a run needs of the workers is left open: it may last for ever or   *)
(* end at any time.  stop() may come from another thread.                  *)
(***************************************************************************)
EXTENDS Naturals

CONSTANTS
  Workers,
  Nobody,       \* owner of the free mutex
  MaxRuns,      \* bound: number of runs
  MaxSpurious   \* bound: number of spurious wake-ups of the cv

ASSUME PoolAssumption ==
  /\ Workers \cap {"run", "stop", Nobody} = {}
  /\ Nobody \notin {"run", "stop"}
  /\ MaxRuns \in Nat /\ MaxSpurious \in Nat

VARIABLES
  active, runFlag,  \* RtShared words
  wakeGen, mu,      \* wake_gen_, owner of mu_
  pc, gen,          \* workers: position, generation copied before the wait
  rpc, spc,         \* positions in run() and stop()
  runs, spurious

words  == <<active, runFlag>>
caller == <<rpc, spc, runs>>
vars   == <<words, wakeGen, mu, pc, gen, caller, spurious>>

(* start() has dropped the latch of an earlier stop() and spawned the pool.*)
Init ==
  /\ active = FALSE /\ runFlag = TRUE
  /\ wakeGen = 0 /\ mu = Nobody
  /\ pc = [w \in Workers |-> "top"]
  /\ gen = [w \in Workers |-> 0]
  /\ rpc = "idle" /\ spc = "idle"
  /\ runs = 0 /\ spurious = 0

--------------------------------------------------------------------------------
(* The callers.                                                            *)

(* notify_all: every thread in the wait set goes for the mutex.            *)
NotifyAll == pc' = [w \in Workers |-> IF pc[w] = "wait" THEN "relock" ELSE pc[w]]

RunOpen ==
  /\ rpc = "idle" /\ spc = "idle" /\ runs < MaxRuns
  /\ active' = TRUE
  /\ runs' = runs + 1
  /\ rpc' = "lock"
  /\ UNCHANGED <<runFlag, wakeGen, mu, pc, gen, spc, spurious>>

RunLock ==
  /\ rpc = "lock" /\ mu = Nobody
  /\ mu' = "run"
  /\ rpc' = "bump"
  /\ UNCHANGED <<words, wakeGen, pc, gen, spc, runs, spurious>>

RunBump ==
  /\ rpc = "bump"
  /\ wakeGen' = wakeGen + 1
  /\ mu' = Nobody
  /\ rpc' = "notify"
  /\ UNCHANGED <<words, pc, gen, spc, runs, spurious>>

RunNotify ==
  /\ rpc = "notify"
  /\ NotifyAll
  /\ rpc' = "work"
  /\ UNCHANGED <<words, wakeGen, mu, gen, spc, runs, spurious>>

RunClose ==
  /\ rpc = "work"
  /\ active' = FALSE
  /\ rpc' = "idle"
  /\ UNCHANGED <<runFlag, wakeGen, mu, pc, gen, spc, runs, spurious>>

StopLatch ==
  /\ spc = "idle"
  /\ runFlag' = FALSE
  /\ spc' = "lock"
  /\ UNCHANGED <<active, wakeGen, mu, pc, gen, rpc, runs, spurious>>

StopLock ==
  /\ spc = "lock" /\ mu = Nobody
  /\ mu' = "stop"
  /\ spc' = "bump"
  /\ UNCHANGED <<words, wakeGen, pc, gen, rpc, runs, spurious>>

StopBump ==
  /\ spc = "bump"
  /\ wakeGen' = wakeGen + 1
  /\ mu' = Nobody
  /\ spc' = "notify"
  /\ UNCHANGED <<words, pc, gen, rpc, runs, spurious>>

StopNotify ==
  /\ spc = "notify"
  /\ NotifyAll
  /\ spc' = "join"
  /\ UNCHANGED <<words, wakeGen, mu, gen, rpc, runs, spurious>>

StopJoin ==
  /\ spc = "join"
  /\ \A w \in Workers : pc[w] = "exit"
  /\ spc' = "done"
  /\ UNCHANGED <<words, wakeGen, mu, pc, gen, rpc, runs, spurious>>

--------------------------------------------------------------------------------
(* A worker.                                                               *)

Goto(w, l) == pc' = [pc EXCEPT ![w] = l]
Rest == <<words, wakeGen, caller, spurious>>

Top(w) ==
  /\ pc[w] = "top"
  /\ Goto(w, IF runFlag THEN "look" ELSE "exit")
  /\ UNCHANGED <<mu, gen, Rest>>

Look(w) ==
  /\ pc[w] = "look"
  /\ Goto(w, IF active THEN "poll" ELSE "spin")
  /\ UNCHANGED <<mu, gen, Rest>>

(* The queues are polled, a task executed: back to the loop head.          *)
Poll(w) ==
  /\ pc[w] = "poll"
  /\ Goto(w, "top")
  /\ UNCHANGED <<mu, gen, Rest>>

(* The spin sees one of the words change, or its time is up.               *)
Spin(w) ==
  /\ pc[w] = "spin"
  /\ \/ (active \/ ~runFlag) /\ Goto(w, "top")
     \/ Goto(w, "lock")
  /\ UNCHANGED <<mu, gen, Rest>>

Lock(w) ==
  /\ pc[w] = "lock" /\ mu = Nobody
  /\ mu' = w
  /\ gen' = [gen EXCEPT ![w] = wakeGen]
  /\ Goto(w, "test")
  /\ UNCHANGED Rest

(* The predicate of the wait, load by load.                                *)
WokenOnly(w) == gen[w] # wakeGen   \* faulty: `active` is not looked at
Called(w) == gen[w] # wakeGen \/ active

Test(w) ==
  /\ pc[w] = "test"
  /\ IF Called(w) THEN Goto(w, "top") /\ mu' = Nobody
                  ELSE Goto(w, "testLatch") /\ UNCHANGED mu
  /\ UNCHANGED <<gen, Rest>>

NeverLeaving == FALSE   \* faulty: the latch is not looked at
Leaving == ~runFlag

TestLatch(w) ==
  /\ pc[w] = "testLatch"
  /\ IF Leaving THEN Goto(w, "top") /\ mu' = Nobody
                ELSE Goto(w, "block") /\ UNCHANGED mu
  /\ UNCHANGED <<gen, Rest>>

(* cv_.wait: into the wait set and out of the mutex, in one step.          *)
Block(w) ==
  /\ pc[w] = "block"
  /\ mu' = Nobody
  /\ Goto(w, "wait")
  /\ UNCHANGED <<gen, Rest>>

Spurious(w) ==
  /\ pc[w] = "wait" /\ spurious < MaxSpurious
  /\ spurious' = spurious + 1
  /\ Goto(w, "relock")
  /\ UNCHANGED <<words, wakeGen, mu, gen, caller>>

Relock(w) ==
  /\ pc[w] = "relock" /\ mu = Nobody
  /\ mu' = w
  /\ Goto(w, "test")
  /\ UNCHANGED <<gen, Rest>>

WorkerStep(w) ==
  \/ Top(w) \/ Look(w) \/ Poll(w) \/ Spin(w) \/ Lock(w) \/ Test(w)
  \/ TestLatch(w) \/ Block(w) \/ Relock(w)

RunSteps  == RunLock \/ RunBump \/ RunNotify
StopSteps == StopLock \/ StopBump \/ StopNotify \/ StopJoin

Next ==
  \/ RunOpen \/ RunSteps \/ RunClose
  \/ StopLatch \/ StopSteps
  \/ \E w \in Workers : WorkerStep(w) \/ Spurious(w)

Spec == Init /\ [][Next]_vars

(* Threads are scheduled preemptively.  The spin is bounded by time.       *)
Fairness ==
  /\ WF_vars(RunSteps) /\ WF_vars(StopSteps)
  /\ \A w \in Workers : WF_vars(WorkerStep(w))

FairSpec == Spec /\ Fairness

--------------------------------------------------------------------------------
(* Properties.                                                             *)

Sleepers == { w \in Workers : pc[w] = "wait" }

(* Once run() has notified, no worker is in the wait set until the run is  *)
(* over, however the store of active, the generation and the wait race     *)
(* (worker, the comment on the predicate: "sleeps through the entire run").*)
NobodySleepsThroughRun == rpc = "work" => Sleepers = {}

(* The same for the join of stop().                                        *)
NobodySleepsThroughStop == spc \in {"join", "done"} => Sleepers = {}

(* A worker joins every run that lasts.                                    *)
EveryoneJoins ==
  \A w \in Workers :
    (rpc # "idle") ~> (pc[w] = "poll" \/ rpc = "idle" \/ spc # "idle")

(* stop() gets past the join of the pool.                                  *)
PoolStops == (spc # "idle") ~> (spc = "done")
================================================================================
