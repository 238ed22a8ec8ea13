---------------------------- MODULE Calibration ----------------------------
(***************************************************************************)
(* Clock calibration (gpu_calibrate_clock and calib_kernel of              *)
(* src/src/runtime/gpu_exec.cu) each time the runtime starts                *)
(* (runtime.cpp): host and device alternate over a mailbox, and the host   *)
(* takes the median of the offsets it sees.  The clocks advance at every   *)
(* reading; the device's is ahead by TrueOffset.                           *)
(***************************************************************************)
EXTENDS Integers, Sequences, FiniteSets

CONSTANTS iters, TrueOffset,
          MaxTick,             \* how far the clock moves between two readings at most
          MaxStarts            \* bound on how often the runtime is started

ASSUME CalibrationAssumption == iters \in Nat \ {0} /\ TrueOffset \in Int /\ MaxTick \in Nat

VARIABLES run_flag, calib_ping, calib_pong, calib_gpu_ts,
          host,       \* [at, i, t0, t1] of the host thread
          device,     \* [at, i] of the kernel's thread
          samples,        \* the samples of this calibration, [t0, g, t1]
          gpu_clock_offset, clock, starts

calVars == <<run_flag, calib_ping, calib_pong, calib_gpu_ts, host, device, samples,
             gpu_clock_offset, clock, starts>>

CalInit ==
    /\ run_flag = 0 /\ calib_ping = 0 /\ calib_pong = 0 /\ calib_gpu_ts = 0
    /\ host = [at |-> "stopped", i |-> 0, t0 |-> 0, t1 |-> 0]
    /\ device = [at |-> "exited", i |-> 0]
    /\ samples = <<>> /\ gpu_clock_offset = 0 /\ clock = 0 /\ starts = 0

Tick == \E passed \in 1..MaxTick : clock' = clock + passed

\* faulty: the mailbox is not reset
BeginCalibrationStaleMailbox ==
    UNCHANGED <<calib_ping, calib_pong>> /\ device' = [at |-> "await", i |-> 1]
\* gpu_calibrate_clock resets the mailbox and launches the kernel.
BeginCalibration ==
    /\ calib_ping' = 0 /\ calib_pong' = 0
    /\ device' = [at |-> "await", i |-> 1]

\* faulty: run_flag is not raised before the launch
HostStartNotRunning ==
    /\ host.at = "stopped" /\ starts < MaxStarts
    /\ starts' = starts + 1
    /\ BeginCalibration
    /\ host' = [host EXCEPT !.at = "t0", !.i = 1]
    /\ samples' = <<>>
    /\ UNCHANGED <<run_flag, calib_gpu_ts, gpu_clock_offset, clock>>
\* Host: start the runtime and begin to calibrate.
HostStart ==
    /\ host.at = "stopped" /\ starts < MaxStarts
    /\ starts' = starts + 1 /\ run_flag' = 1
    /\ BeginCalibration
    /\ host' = [host EXCEPT !.at = "t0", !.i = 1]
    /\ samples' = <<>>
    /\ UNCHANGED <<calib_gpu_ts, gpu_clock_offset, clock>>

HostReadT0 ==
    /\ host.at = "t0"
    /\ host' = [host EXCEPT !.at = "ping", !.t0 = clock]
    /\ Tick
    /\ UNCHANGED <<run_flag, calib_ping, calib_pong, calib_gpu_ts, device, samples, gpu_clock_offset, starts>>

HostPing ==
    /\ host.at = "ping"
    /\ calib_ping' = host.i
    /\ host' = [host EXCEPT !.at = "await"]
    /\ UNCHANGED <<run_flag, calib_pong, calib_gpu_ts, device, samples, gpu_clock_offset, clock, starts>>

\* The spin on the pong ends.
HostReadT1 ==
    /\ host.at = "await" /\ calib_pong >= host.i
    /\ host' = [host EXCEPT !.at = "sample", !.t1 = clock]
    /\ Tick
    /\ UNCHANGED <<run_flag, calib_ping, calib_pong, calib_gpu_ts, device, samples, gpu_clock_offset, starts>>

HostSample ==
    /\ host.at = "sample"
    /\ samples' = Append(samples, [t0 |-> host.t0, g |-> calib_gpu_ts, t1 |-> host.t1])
    /\ host' = IF host.i < iters THEN [host EXCEPT !.at = "t0", !.i = @ + 1]
               ELSE [host EXCEPT !.at = "sync"]
    /\ UNCHANGED <<run_flag, calib_ping, calib_pong, calib_gpu_ts, device, gpu_clock_offset, clock, starts>>

\* The stream is synchronised; element iters / 2 of the sorted offsets is kept.
Offset(s) == s.g - (s.t0 + s.t1) \div 2
Before(k, i) == \/ Offset(samples[k]) < Offset(samples[i])
                \/ Offset(samples[k]) = Offset(samples[i]) /\ k < i
Below(i) == {k \in DOMAIN samples : Before(k, i)}
Median == CHOOSE i \in DOMAIN samples : Cardinality(Below(i)) = iters \div 2

HostReturn ==
    /\ host.at = "sync" /\ device.at = "exited"
    /\ gpu_clock_offset' = Offset(samples[Median])
    /\ host' = [host EXCEPT !.at = "running"]
    /\ UNCHANGED <<run_flag, calib_ping, calib_pong, calib_gpu_ts, device, samples, clock, starts>>

HostStop ==
    /\ host.at = "running"
    /\ run_flag' = 0
    /\ host' = [host EXCEPT !.at = "stopped"]
    /\ UNCHANGED <<calib_ping, calib_pong, calib_gpu_ts, device, samples, gpu_clock_offset, clock, starts>>

-----------------------------------------------------------------------------
\* Device: one look at the ping; without one, and the runtime stopped, it leaves.
DeviceAwait ==
    /\ device.at = "await"
    /\ calib_ping >= device.i \/ run_flag = 0
    /\ device' = [device EXCEPT !.at = IF calib_ping >= device.i THEN "stamp" ELSE "exited"]
    /\ UNCHANGED <<run_flag, calib_ping, calib_pong, calib_gpu_ts, host, samples, gpu_clock_offset, clock, starts>>

DeviceStamp ==
    /\ device.at = "stamp"
    /\ calib_gpu_ts' = clock + TrueOffset
    /\ Tick
    /\ device' = [device EXCEPT !.at = "pong"]
    /\ UNCHANGED <<run_flag, calib_ping, calib_pong, host, samples, gpu_clock_offset, starts>>

DevicePong ==
    /\ device.at = "pong"
    /\ calib_pong' = device.i
    /\ device' = IF device.i < iters THEN [at |-> "await", i |-> device.i + 1]
                 ELSE [device EXCEPT !.at = "exited"]
    /\ UNCHANGED <<run_flag, calib_ping, calib_gpu_ts, host, samples, gpu_clock_offset, clock, starts>>

HostStep == HostReadT0 \/ HostPing \/ HostReadT1 \/ HostSample \/ HostReturn
DeviceStep == DeviceAwait \/ DeviceStamp \/ DevicePong
CalNext == HostStart \/ HostStep \/ HostStop \/ DeviceStep

\* The host thread and the kernel both run.
CalFairness == WF_calVars(HostStep) /\ WF_calVars(DeviceStep)
CalSpec == CalInit /\ [][CalNext]_calVars /\ CalFairness

-----------------------------------------------------------------------------
(* Properties *)

\* Every device stamp was taken between the two host readings around it, in
\* every calibration: none is left over from an earlier round or start, none is
\* overtaken by the pong.
StampsFresh ==
    \A k \in DOMAIN samples : LET taken == samples[k].g - TrueOffset
                              IN  samples[k].t0 < taken /\ taken < samples[k].t1

\* The offset kept is that of a sample, and wrong by at most half its round trip.
OffsetWithinTrip ==
    host.at = "running" =>
        \E k \in DOMAIN samples : LET error == gpu_clock_offset - TrueOffset
                                      trip == samples[k].t1 - samples[k].t0
                                  IN  2 * error <= trip /\ -2 * error <= trip

\* The calibration of gpu_calibrate_clock is sound: its stamps are fresh, and so
\* the offset it keeps is wrong by at most half a round trip.
StampInWindow == StampsFresh /\ OffsetWithinTrip

\* Neither side waits for the other forever.
CalibrationEnds == host.at = "t0" ~> host.at = "running"
=============================================================================
