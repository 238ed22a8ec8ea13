---------------------------- MODULE HandshakeProofs ----------------------------
(***************************************************************************)
(* Two handshakes: of the host with the worker pool (ParkWake) and of the  *)
(* host with the device while their clocks are compared (Calibration).     *)
(*                                                                         *)
(* No worker sleeps through a run or through stop(), for any number of     *)
(* workers, runs and spurious wake-ups.                                    *)
(*                                                                         *)
(* The argument: a worker that is past a test of `active` (or of the       *)
(* latch) holds the mutex until it is in the wait set.  run() sets active  *)
(* before it takes the mutex, so from its critical section on nobody is    *)
(* between the test and the wait, nobody gets there while active is set,   *)
(* and its notify_all empties the wait set.  stop() does the same with the *)
(* latch.                                                                  *)
(***************************************************************************)
EXTENDS ParkWake, Calibration, FiniteSetTheorems, TLAPS

Positions == {"top", "look", "poll", "spin", "lock", "test", "testLatch",
              "block", "wait", "relock", "exit"}

(* Types of what the argument is about.                                    *)
PoolTypeOK ==
  /\ active \in BOOLEAN /\ runFlag \in BOOLEAN
  /\ mu \in Workers \cup {"run", "stop", Nobody}
  /\ pc \in [Workers -> Positions]

(* Who is between a test and the wait, or in the critical section of run() *)
(* or stop(), owns the mutex.                                              *)
LockInv ==
  /\ \A w \in Workers : pc[w] \in {"test", "testLatch", "block"} => mu = w
  /\ rpc = "bump" => mu = "run"
  /\ spc = "bump" => mu = "stop"

(* The words are stored before the mutex is asked for.                     *)
WordsInv ==
  /\ rpc \in {"lock", "bump", "notify", "work"} => active
  /\ spc # "idle" => ~runFlag

(* From the critical section on, nobody is on the way to the wait set.     *)
OnTheWayInv ==
  /\ rpc \in {"bump", "notify", "work"} =>
       \A w \in Workers : pc[w] \notin {"testLatch", "block"}
  /\ spc \in {"bump", "notify", "join", "done"} =>
       \A w \in Workers : pc[w] # "block"

PoolInv ==
  /\ PoolTypeOK /\ LockInv /\ WordsInv /\ OnTheWayInv
  /\ NobodySleepsThroughRun /\ NobodySleepsThroughStop

--------------------------------------------------------------------------------
(* The constructor and start() establish the invariant.                    *)
LEMMA InitEstablishesPoolInv == Init => PoolInv
  BY PoolAssumption
  DEF Init, PoolInv, PoolTypeOK, LockInv, WordsInv, OnTheWayInv, Positions,
      NobodySleepsThroughRun, NobodySleepsThroughStop, Sleepers

(* No step of run(), stop() or a worker breaks it.                         *)
LEMMA StepsKeepPoolInv == PoolInv /\ [Next]_vars => PoolInv'
<1> SUFFICES ASSUME PoolInv, [Next]_vars PROVE PoolInv'
  OBVIOUS
<1> USE PoolAssumption
    DEF PoolInv, PoolTypeOK, LockInv, WordsInv, OnTheWayInv, Positions,
        NobodySleepsThroughRun, NobodySleepsThroughStop, Sleepers
<1>1. CASE RunOpen
  BY <1>1 DEF RunOpen
<1>2. CASE RunLock
  BY <1>2 DEF RunLock, words
<1>3. CASE RunBump
  BY <1>3 DEF RunBump, words
<1>4. CASE RunNotify
  BY <1>4 DEF RunNotify, NotifyAll, words
<1>5. CASE RunClose
  BY <1>5 DEF RunClose
<1>6. CASE StopLatch
  BY <1>6 DEF StopLatch
<1>7. CASE StopLock
  BY <1>7 DEF StopLock, words
<1>8. CASE StopBump
  BY <1>8 DEF StopBump, words
<1>9. CASE StopNotify
  BY <1>9 DEF StopNotify, NotifyAll, words
<1>10. CASE StopJoin
  BY <1>10 DEF StopJoin, words
<1>11. ASSUME NEW w \in Workers, WorkerStep(w) PROVE PoolInv'
  <2> USE DEF Goto, Rest, words, caller
  <2>1. CASE Top(w)
    BY <2>1 DEF Top
  <2>2. CASE Look(w)
    BY <2>2 DEF Look
  <2>3. CASE Poll(w)
    BY <2>3 DEF Poll
  <2>4. CASE Spin(w)
    BY <2>4 DEF Spin
  <2>5. CASE Lock(w)
    BY <2>5 DEF Lock
  <2>6. CASE Test(w)
    BY <2>6 DEF Test, Called
  <2>7. CASE TestLatch(w)
    BY <2>7 DEF TestLatch, Leaving
  <2>8. CASE Block(w)
    BY <2>8 DEF Block
  <2>9. CASE Relock(w)
    BY <2>9 DEF Relock
  <2> QED
    BY <1>11, <2>1, <2>2, <2>3, <2>4, <2>5, <2>6, <2>7, <2>8, <2>9
    DEF WorkerStep
<1>12. ASSUME NEW w \in Workers, Spurious(w) PROVE PoolInv'
  BY <1>12 DEF Spurious, Goto, words, caller
<1>13. CASE UNCHANGED vars
  BY <1>13 DEF vars, words, caller
<1> QED
  BY <1>1, <1>2, <1>3, <1>4, <1>5, <1>6, <1>7, <1>8, <1>9, <1>10, <1>11, <1>12,
     <1>13
  DEF Next, RunSteps, StopSteps

(* The invariant holds throughout (worker, run and stop of runtime.cpp).   *)
THEOREM PoolInvariant == Spec => []PoolInv
  BY InitEstablishesPoolInv, StepsKeepPoolInv, PTL DEF Spec

(* After the notify_all of run() the wait set stays empty until the run is *)
(* over.                                                                   *)
THEOREM NoSleepThroughRun == Spec => []NobodySleepsThroughRun
  BY PoolInvariant, PTL DEF PoolInv

(* After the notify_all of stop() the wait set stays empty, so the join    *)
(* waits for nobody who is asleep.                                         *)
THEOREM NoSleepThroughStop == Spec => []NobodySleepsThroughStop
  BY PoolInvariant, PTL DEF PoolInv

--------------------------------------------------------------------------------
(***************************************************************************)
(* The clock calibration is sound for any number of rounds and starts.     *)
(*                                                                         *)
(* The argument: host and device are in the same round, or the device is   *)
(* one ahead and waits for the ping; ping and pong say which.  The device  *)
(* stamps after it has seen the round's ping, hence after the host's first *)
(* reading, and answers afterwards, hence before the second.               *)
(***************************************************************************)

Samples == [t0 : Nat, g : Int, t1 : Nat]

CalTypeOK ==
  /\ run_flag \in {0, 1} /\ calib_ping \in Nat /\ calib_pong \in Nat /\ calib_gpu_ts \in Int
  /\ host \in [at : {"stopped", "t0", "ping", "await", "sample", "sync", "running"},
               i : Nat, t0 : Nat, t1 : Nat]
  /\ device \in [at : {"await", "stamp", "pong", "exited"}, i : Nat]
  /\ samples \in Seq(Samples)
  /\ gpu_clock_offset \in Int /\ clock \in Nat /\ starts \in Nat

(* The device's stamp lies after the host's first reading, and in the past.*)
Stamped == host.t0 < calib_gpu_ts - TrueOffset /\ calib_gpu_ts - TrueOffset < clock

(* The device has answered the host's round.                               *)
Answered ==
  /\ calib_pong = host.i /\ Stamped
  /\ \/ host.i < iters /\ device.at = "await" /\ device.i = host.i + 1
     \/ host.i = iters /\ device.at = "exited"

(* Where both are, by the host's position.                                 *)
RoundInv ==
  /\ host.at \in {"t0", "ping", "await", "sample"} =>
        run_flag = 1 /\ host.i \in 1..iters /\ Len(samples) = host.i - 1
  /\ host.at \in {"t0", "ping"} =>
        /\ calib_ping = host.i - 1 /\ calib_pong = host.i - 1
        /\ device.at = "await" /\ device.i = host.i
  /\ host.at \in {"ping", "await"} => host.t0 < clock
  /\ host.at = "await" =>
        /\ calib_ping = host.i
        /\ \/ /\ calib_pong = host.i - 1 /\ device.i = host.i
              /\ device.at \in {"await", "stamp"} \/ (device.at = "pong" /\ Stamped)
           \/ Answered
  /\ host.at = "sample" =>
        Answered /\ calib_ping = host.i /\ calib_gpu_ts - TrueOffset < host.t1
  /\ host.at \in {"sync", "running", "stopped"} => device.at = "exited"
  /\ host.at \in {"sync", "running"} => Len(samples) = iters

CalInv == CalTypeOK /\ RoundInv /\ StampsFresh /\ OffsetWithinTrip
-----------------------------------------------------------------------------
LEMMA InitEstablishesCalInv == CalInit => CalInv
  BY CalibrationAssumption
  DEF CalInit, CalInv, CalTypeOK, RoundInv, StampsFresh, OffsetWithinTrip, Samples

(* Half a round trip is the most by which a fresh sample is wrong.         *)
LEMMA OffsetOfSample ==
  ASSUME NEW s \in Samples
  PROVE  /\ Offset(s) \in Int
         /\ s.t0 < s.g - TrueOffset /\ s.g - TrueOffset < s.t1 =>
              /\ 2 * (Offset(s) - TrueOffset) <= s.t1 - s.t0
              /\ -2 * (Offset(s) - TrueOffset) <= s.t1 - s.t0
<1> DEFINE mid == (s.t0 + s.t1) \div 2
<1>1. s.t0 \in Nat /\ s.t1 \in Nat /\ s.g \in Int /\ TrueOffset \in Int
  BY CalibrationAssumption DEF Samples
<1>2. mid \in Int /\ 2 * mid <= s.t0 + s.t1 /\ s.t0 + s.t1 <= 2 * mid + 1
  BY <1>1
<1>3. Offset(s) = s.g - mid
  BY DEF Offset
<1> HIDE DEF mid
<1> QED
  BY <1>1, <1>2, <1>3

(* The sorted offsets have an element number iters / 2: the numbers of the *)
(* samples are distinct, hence all numbers below iters are taken.          *)
LEMMA MedianExists ==
  ASSUME CalTypeOK, Len(samples) = iters
  PROVE  Median \in DOMAIN samples
<1> DEFINE D == DOMAIN samples
           N == 0..(iters - 1)
           rank == [i \in D |-> Cardinality(Below(i))]
<1>1. D = 1..iters /\ iters \in Nat \ {0}
  BY CalibrationAssumption DEF CalTypeOK
<1>2. \A i \in D : Offset(samples[i]) \in Int
  BY OffsetOfSample DEF CalTypeOK
<1>3. IsFiniteSet(D) /\ Cardinality(D) = iters
  BY <1>1, FS_Interval
<1>4. IsFiniteSet(N) /\ Cardinality(N) = iters
  BY <1>1, FS_Interval
<1>5. \A i \in D : IsFiniteSet(Below(i)) /\ Cardinality(Below(i)) \in Nat
  <2> TAKE i \in D
  <2>1. Below(i) \in SUBSET D
    BY DEF Below
  <2> QED
    BY <1>3, <2>1, FS_Subset, FS_CardinalityType
<1>6. \A i \in D : rank[i] \in N
  <2> TAKE i \in D
  <2>1. Below(i) \in SUBSET D /\ i \notin Below(i)
    BY <1>1, <1>2 DEF Below, Before
  <2>2. Cardinality(Below(i)) <= Cardinality(D) /\ Cardinality(Below(i)) # Cardinality(D)
    <3>1. /\ Cardinality(Below(i)) <= Cardinality(D)
          /\ Cardinality(D) = Cardinality(Below(i)) => D = Below(i)
      BY <1>3, <2>1, FS_Subset
    <3> QED
      BY <2>1, <3>1
  <2> QED
    BY <1>1, <1>3, <1>5, <2>2
<1>7. \A i, j \in D : Before(i, j) => rank[i] < rank[j]
  <2> SUFFICES ASSUME NEW i \in D, NEW j \in D, Before(i, j)
               PROVE  rank[i] < rank[j]
    OBVIOUS
  <2>1. \A k \in Below(i) : Before(k, j)
    BY <1>1, <1>2 DEF Below, Before
  <2>2. Below(i) \in SUBSET Below(j) /\ i \in Below(j) /\ i \notin Below(i)
    BY <1>1, <1>2, <2>1 DEF Below, Before
  <2>3. /\ Cardinality(Below(i)) <= Cardinality(Below(j))
        /\ Cardinality(Below(j)) = Cardinality(Below(i)) => Below(j) = Below(i)
    BY <1>5, <2>2, FS_Subset
  <2>4. Cardinality(Below(i)) # Cardinality(Below(j))
    BY <2>2, <2>3
  <2> QED
    BY <1>5, <2>3, <2>4
<1>8. \A i, j \in D : i # j => Before(i, j) \/ Before(j, i)
  BY <1>1, <1>2 DEF Before
<1>9. rank \in [D -> N] /\ \A i, j \in D : rank[i] = rank[j] => i = j
  <2> HIDE DEF rank
  <2>1. \A i \in D : rank[i] \in Int
    BY <1>1, <1>6
  <2>2. \A i, j \in D : rank[i] = rank[j] => i = j
    BY <1>7, <1>8, <2>1
  <2>3. rank \in [D -> N]
    BY <1>6 DEF rank
  <2> QED
    BY <2>2, <2>3
<1>10. iters \div 2 \in N
  BY <1>1
<1>11. \E i \in D : rank[i] = iters \div 2
  <2> HIDE DEF rank, D, N
  <2>1. rank \in Injection(D, N)
    BY <1>9 DEF Injection, IsInjective
  <2>2. rank \in Surjection(D, N)
    BY <1>3, <1>4, <2>1, FS_Injection
  <2> QED
    BY <1>10, <2>2 DEF Surjection
<1>12. \E i \in DOMAIN samples : Cardinality(Below(i)) = iters \div 2
  BY <1>11
<1> QED
  BY <1>12 DEF Median

(* Every step of host or device keeps the invariant.                       *)
LEMMA StepsKeepCalInv == CalInv /\ [CalNext]_calVars => CalInv'
<1> SUFFICES ASSUME CalInv, [CalNext]_calVars PROVE CalInv'
  OBVIOUS
<1> USE CalibrationAssumption
<1>1. CASE UNCHANGED calVars
  <2>1. CalTypeOK' /\ RoundInv'
    BY <1>1 DEF calVars, CalInv, CalTypeOK, RoundInv, Answered, Stamped
  <2>2. StampsFresh' /\ OffsetWithinTrip'
    BY <1>1 DEF calVars, CalInv, StampsFresh, OffsetWithinTrip
  <2> QED
    BY <2>1, <2>2 DEF CalInv
<1>2. CASE HostStart
  <2>1. CalTypeOK'
    <3>1. <<>> \in Seq(Samples)
      OBVIOUS
    <3>2. starts' \in Nat /\ samples' \in Seq(Samples)
      BY <1>2, <3>1 DEF HostStart, BeginCalibration, CalInv, CalTypeOK
    <3> QED
      BY <1>2, <3>2 DEF HostStart, BeginCalibration, CalInv, CalTypeOK
  <2>2. RoundInv'
    BY <1>2 DEF HostStart, BeginCalibration, CalInv, CalTypeOK, RoundInv, Answered, Stamped
  <2>3. StampsFresh' /\ OffsetWithinTrip'
    BY <1>2 DEF HostStart, BeginCalibration, CalInv, CalTypeOK, StampsFresh, OffsetWithinTrip
  <2> QED
    BY <2>1, <2>2, <2>3 DEF CalInv
<1>3. CASE HostReadT0
  <2> PICK passed \in 1..MaxTick : clock' = clock + passed
    BY <1>3 DEF HostReadT0, Tick
  <2>0. clock \in Nat /\ clock' \in Nat /\ clock < clock'
    BY DEF CalInv, CalTypeOK
  <2>1. CalTypeOK'
    BY <1>3, <2>0 DEF HostReadT0, CalInv, CalTypeOK
  <2>2. RoundInv'
    BY <1>3, <2>0 DEF HostReadT0, CalInv, CalTypeOK, RoundInv, Answered, Stamped
  <2>3. StampsFresh' /\ OffsetWithinTrip'
    BY <1>3 DEF HostReadT0, CalInv, CalTypeOK, StampsFresh, OffsetWithinTrip
  <2> QED
    BY <2>1, <2>2, <2>3 DEF CalInv
<1>4. CASE HostPing
  <2>1. CalTypeOK'
    BY <1>4 DEF HostPing, CalInv, CalTypeOK
  <2>2. RoundInv'
    BY <1>4 DEF HostPing, CalInv, CalTypeOK, RoundInv, Answered, Stamped
  <2>3. StampsFresh' /\ OffsetWithinTrip'
    BY <1>4 DEF HostPing, CalInv, CalTypeOK, StampsFresh, OffsetWithinTrip
  <2> QED
    BY <2>1, <2>2, <2>3 DEF CalInv
<1>5. CASE HostReadT1
  <2> PICK passed \in 1..MaxTick : clock' = clock + passed
    BY <1>5 DEF HostReadT1, Tick
  <2>0. clock \in Nat /\ clock' \in Nat /\ clock < clock'
    BY DEF CalInv, CalTypeOK
  <2>1. CalTypeOK'
    BY <1>5, <2>0 DEF HostReadT1, CalInv, CalTypeOK
  <2>2. RoundInv'
    <3>1. /\ host' = [host EXCEPT !.at = "sample", !.t1 = clock]
          /\ host'.at = "sample" /\ host'.i = host.i /\ host'.t0 = host.t0 /\ host'.t1 = clock
      BY <1>5 DEF HostReadT1, CalInv, CalTypeOK
    <3>2. run_flag = 1 /\ host.i \in 1..iters /\ Len(samples) = host.i - 1
      BY <1>5 DEF HostReadT1, CalInv, RoundInv
    <3>3. Answered /\ calib_ping = host.i
      <4>1. host.at = "await" /\ calib_pong >= host.i
        BY <1>5 DEF HostReadT1
      <4>2. calib_ping = host.i /\ (calib_pong = host.i - 1 \/ Answered)
        BY <4>1 DEF CalInv, RoundInv
      <4>3. host.i \in Nat /\ calib_pong \in Nat
        BY DEF CalInv, CalTypeOK
      <4> QED
        BY <4>1, <4>2, <4>3
    <3>4. Answered' /\ calib_ping' = host'.i /\ calib_gpu_ts' - TrueOffset < host'.t1
      <4>1. /\ calib_ping' = calib_ping /\ calib_pong' = calib_pong
            /\ calib_gpu_ts' = calib_gpu_ts /\ device' = device
        BY <1>5 DEF HostReadT1
      <4>2. calib_gpu_ts - TrueOffset \in Int
        BY CalibrationAssumption DEF CalInv, CalTypeOK
      <4>3. calib_gpu_ts - TrueOffset < clock
        BY <3>3 DEF Answered, Stamped
      <4>4. Stamped'
        BY <2>0, <3>1, <3>3, <4>1, <4>2 DEF Answered, Stamped
      <4>5. Answered'
        BY <3>1, <3>3, <4>1, <4>4 DEF Answered
      <4> QED BY <3>1, <3>3, <4>1, <4>3, <4>5
    <3>5. run_flag' = 1 /\ host'.i \in 1..iters /\ Len(samples') = host'.i - 1
      BY <1>5, <3>1, <3>2 DEF HostReadT1
    <3> QED
      BY <3>1, <3>4, <3>5 DEF RoundInv
  <2>3. StampsFresh' /\ OffsetWithinTrip'
    BY <1>5 DEF HostReadT1, CalInv, CalTypeOK, StampsFresh, OffsetWithinTrip
  <2> QED
    BY <2>1, <2>2, <2>3 DEF CalInv
<1>6. CASE HostSample
  <2> DEFINE s == [t0 |-> host.t0, g |-> calib_gpu_ts, t1 |-> host.t1]
  <2>1. s \in Samples /\ samples \in Seq(Samples) /\ samples' = Append(samples, s)
    BY <1>6 DEF HostSample, CalInv, CalTypeOK, Samples
  <2>2. /\ samples' \in Seq(Samples) /\ Len(samples') = Len(samples) + 1
        /\ Len(samples) \in Nat
        /\ \A k \in 1..Len(samples) : samples'[k] = samples[k]
        /\ samples'[Len(samples) + 1] = s
    <3> HIDE DEF s
    <3> QED
      BY <2>1
  <2>3. CalTypeOK'
    <3>1. /\ host.i \in Nat /\ host.i + 1 \in Nat
          /\ host' = IF host.i < iters THEN [host EXCEPT !.at = "t0", !.i = host.i + 1]
                     ELSE [host EXCEPT !.at = "sync"]
      BY <1>6 DEF HostSample, CalInv, CalTypeOK
    <3>2. host' \in [at : {"stopped", "t0", "ping", "await", "sample", "sync", "running"},
                     i : Nat, t0 : Nat, t1 : Nat]
      BY <3>1 DEF CalInv, CalTypeOK
    <3> HIDE DEF s
    <3> QED
      BY <1>6, <2>2, <3>2 DEF HostSample, CalInv, CalTypeOK
  <2>4. RoundInv'
    <3>1. /\ Answered /\ calib_ping = host.i /\ run_flag = 1 /\ host.i \in 1..iters
          /\ Len(samples) = host.i - 1
      BY <1>6 DEF HostSample, CalInv, RoundInv
    <3>2. /\ Len(samples') = host.i
          /\ run_flag' = 1 /\ calib_ping' = host.i /\ calib_pong' = host.i /\ device' = device
      BY <1>6, <2>2, <3>1 DEF HostSample, Answered
    <3>3. CASE host.i < iters
      <4>1. host'.at = "t0" /\ host'.i = host.i + 1
        BY <1>6, <3>3 DEF HostSample, CalInv, CalTypeOK
      <4>2. device.at = "await" /\ device.i = host.i + 1
        BY <3>1, <3>3 DEF Answered
      <4> QED
        BY <3>1, <3>2, <3>3, <4>1, <4>2 DEF RoundInv
    <3>4. CASE ~(host.i < iters)
      <4>1. host'.at = "sync" /\ host.i = iters
        <5>1. host' = [host EXCEPT !.at = "sync"]
          BY <1>6, <3>4 DEF HostSample
        <5>2. host'.at = "sync"
          BY <5>1 DEF CalInv, CalTypeOK
        <5> QED
          BY <3>1, <3>4, <5>2
      <4>2. device.at = "exited"
        BY <3>1, <4>1 DEF Answered
      <4> QED
        BY <3>2, <4>1, <4>2 DEF RoundInv
    <3> QED
      BY <3>3, <3>4
  <2>5. StampsFresh'
    <3>1. s.t0 < s.g - TrueOffset /\ s.g - TrueOffset < s.t1
      BY <1>6 DEF HostSample, CalInv, CalTypeOK, RoundInv, Answered, Stamped
    <3>2. DOMAIN samples' = 1..(Len(samples) + 1) /\ DOMAIN samples = 1..Len(samples)
      BY <2>1, <2>2
    <3>3. \A k \in DOMAIN samples' : k \in DOMAIN samples \/ samples'[k] = s
      BY <2>2, <3>2
    <3> HIDE DEF s
    <3> QED
      BY <2>2, <3>1, <3>2, <3>3 DEF CalInv, StampsFresh
  <2>6. OffsetWithinTrip'
    BY <1>6 DEF HostSample, CalInv, CalTypeOK, OffsetWithinTrip
  <2> QED
    BY <2>3, <2>4, <2>5, <2>6 DEF CalInv
<1>7. CASE HostReturn
  <2>1. host.at = "sync" /\ Len(samples) = iters
    BY <1>7 DEF HostReturn, CalInv, RoundInv
  <2>2. Median \in DOMAIN samples
    BY <2>1, MedianExists DEF CalInv
  <2>3. samples[Median] \in Samples
    BY <2>2 DEF CalInv, CalTypeOK
  <2>4. CalTypeOK'
    BY <1>7, <2>3, OffsetOfSample DEF HostReturn, CalInv, CalTypeOK
  <2>5. RoundInv'
    BY <1>7, <2>1 DEF HostReturn, CalInv, CalTypeOK, RoundInv
  <2>6. StampsFresh'
    BY <1>7 DEF HostReturn, CalInv, StampsFresh
  <2>7. OffsetWithinTrip'
    <3>1. /\ samples' = samples
          /\ gpu_clock_offset' = Offset(samples[Median])
      BY <1>7 DEF HostReturn
    <3>2. /\ samples[Median].t0 < samples[Median].g - TrueOffset
          /\ samples[Median].g - TrueOffset < samples[Median].t1
      BY <2>2 DEF CalInv, StampsFresh
    <3> QED
      BY <2>2, <2>3, <3>1, <3>2, OffsetOfSample DEF OffsetWithinTrip
  <2> QED
    BY <2>4, <2>5, <2>6, <2>7 DEF CalInv
<1>8. CASE HostStop
  <2>1. CalTypeOK'
    BY <1>8 DEF HostStop, CalInv, CalTypeOK
  <2>2. RoundInv'
    BY <1>8 DEF HostStop, CalInv, CalTypeOK, RoundInv, Answered, Stamped
  <2>3. StampsFresh' /\ OffsetWithinTrip'
    BY <1>8 DEF HostStop, CalInv, CalTypeOK, StampsFresh, OffsetWithinTrip
  <2> QED
    BY <2>1, <2>2, <2>3 DEF CalInv
<1>9. CASE DeviceAwait
  <2>1. CalTypeOK'
    BY <1>9 DEF DeviceAwait, CalInv, CalTypeOK
  <2>2. RoundInv'
    <3>1. host.at \in {"t0", "ping", "await", "sample"}
      BY <1>9 DEF DeviceAwait, CalInv, CalTypeOK, RoundInv
    <3>2. run_flag = 1 /\ calib_ping >= device.i
      BY <1>9, <3>1 DEF DeviceAwait, CalInv, RoundInv
    <3>3. /\ host.at = "await" /\ device.i = host.i
          /\ calib_ping = host.i /\ calib_pong = host.i - 1
      <4>1. host.i \in Nat /\ device.i \in Nat /\ device.at = "await"
        BY <1>9 DEF DeviceAwait, CalInv, CalTypeOK
      <4>2. CASE host.at \in {"t0", "ping"}
        BY <3>2, <4>1, <4>2 DEF CalInv, RoundInv
      <4>3. CASE host.at = "await"
        BY <3>2, <4>1, <4>3 DEF CalInv, RoundInv, Answered
      <4>4. CASE host.at = "sample"
        BY <3>2, <4>1, <4>4 DEF CalInv, RoundInv, Answered
      <4> QED
        BY <3>1, <4>2, <4>3, <4>4
    <3>4. device'.at = "stamp" /\ device'.i = device.i
      BY <1>9, <3>2 DEF DeviceAwait, CalInv, CalTypeOK
    <3>5. host.i \in 1..iters /\ Len(samples) = host.i - 1 /\ host.t0 < clock
      BY <3>3 DEF CalInv, RoundInv
    <3> QED
      BY <1>9, <3>2, <3>3, <3>4, <3>5 DEF DeviceAwait, RoundInv
  <2>3. StampsFresh' /\ OffsetWithinTrip'
    BY <1>9 DEF DeviceAwait, CalInv, CalTypeOK, StampsFresh, OffsetWithinTrip
  <2> QED
    BY <2>1, <2>2, <2>3 DEF CalInv
<1>10. CASE DeviceStamp
  <2> PICK passed \in 1..MaxTick : clock' = clock + passed
    BY <1>10 DEF DeviceStamp, Tick
  <2>0. clock \in Nat /\ clock' \in Nat /\ clock < clock'
    BY DEF CalInv, CalTypeOK
  <2>1. CalTypeOK'
    <3>1. calib_gpu_ts' \in Int
      BY <1>10, <2>0 DEF DeviceStamp
    <3> QED
      BY <1>10, <2>0, <3>1 DEF DeviceStamp, CalInv, CalTypeOK
  <2>2. RoundInv'
    <3>1. /\ host.at = "await" /\ device.i = host.i
          /\ calib_ping = host.i /\ calib_pong = host.i - 1
      BY <1>10 DEF DeviceStamp, CalInv, CalTypeOK, RoundInv, Answered
    <3>2. /\ device'.at = "pong" /\ device'.i = device.i
          /\ calib_gpu_ts' - TrueOffset = clock
      BY <1>10, <2>0 DEF DeviceStamp, CalInv, CalTypeOK
    <3>3. /\ run_flag = 1 /\ host.i \in 1..iters /\ Len(samples) = host.i - 1
          /\ host.t0 < clock /\ host.t0 \in Nat
      BY <3>1 DEF CalInv, CalTypeOK, RoundInv
    <3>4. Stamped' /\ host'.t0 < clock'
      BY <1>10, <2>0, <3>2, <3>3 DEF DeviceStamp, Stamped
    <3> QED
      BY <1>10, <3>1, <3>2, <3>3, <3>4 DEF DeviceStamp, RoundInv
  <2>3. StampsFresh' /\ OffsetWithinTrip'
    BY <1>10 DEF DeviceStamp, CalInv, CalTypeOK, StampsFresh, OffsetWithinTrip
  <2> QED
    BY <2>1, <2>2, <2>3 DEF CalInv
<1>11. CASE DevicePong
  <2>1. CalTypeOK'
    <3>1. CASE device.i < iters
      BY <1>11, <3>1 DEF DevicePong, CalInv, CalTypeOK
    <3>2. CASE ~(device.i < iters)
      BY <1>11, <3>2 DEF DevicePong, CalInv, CalTypeOK
    <3> QED
      BY <3>1, <3>2
  <2>2. RoundInv'
    BY <1>11 DEF DevicePong, CalInv, CalTypeOK, RoundInv, Answered, Stamped
  <2>3. StampsFresh' /\ OffsetWithinTrip'
    BY <1>11 DEF DevicePong, CalInv, CalTypeOK, StampsFresh, OffsetWithinTrip
  <2> QED
    BY <2>1, <2>2, <2>3 DEF CalInv
<1> QED
  BY <1>1, <1>2, <1>3, <1>4, <1>5, <1>6, <1>7, <1>8, <1>9, <1>10, <1>11
  DEF CalNext, HostStep, DeviceStep

-----------------------------------------------------------------------------
(* Host and device agree on the round in every calibration.                *)
THEOREM CalibrationInvariant == CalSpec => []CalInv
<1>1. CalInit => CalInv
  BY InitEstablishesCalInv
<1>2. CalInv /\ [CalNext]_calVars => CalInv'
  BY StepsKeepCalInv
<1> QED
  BY <1>1, <1>2, PTL DEF CalSpec

(* Stamps are fresh, and the offset gpu_calibrate_clock keeps is wrong by  *)
(* at most half a round trip, for any number of rounds and restarts.       *)
THEOREM CalibrationIsSound == CalSpec => []StampInWindow
<1>1. CalInv => StampInWindow
  BY DEF CalInv, StampInWindow
<1> QED
  BY <1>1, CalibrationInvariant, PTL
================================================================================
