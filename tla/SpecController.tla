--------------------------- MODULE SpecController ---------------------------
(***************************************************************************)
(* The controller of the draft length (src/src/spec/spec_controller.h),    *)
(* with the drafter and the verify pass as its environment.  A round of    *)
(* the speculative loop chooses a length, drafts at most that many tokens, *)
(* and reports what was drafted, what was accepted and how long the pass   *)
(* took.                                                                   *)
(*                                                                         *)
(* The controller's doubles are rationals here: alpha_ counts fiftieths    *)
(* (its clamps 0.02 and 0.98 are 1 and 49), latencies are whole units, the *)
(* moving averages round down, and rates are compared exactly.             *)
(***************************************************************************)
EXTENDS Integers

CONSTANTS n_max, probe_iv, probe_n,    \* Cfg
          alpha0,                      \* in fiftieths
          alpha_decay, lat_decay,      \* rationals <<numerator, denominator>>
          kMaxN,                       \* the last latency bucket
          FastPass, SlowPass           \* what a pass may take

VARIABLES alpha_, lat_ms_, zero_streak_,
          byRate,      \* the last choice was a draft, and not a forced probe
          steady       \* from now on drafts are accepted and cost nothing extra

ctlVars == <<alpha_, lat_ms_, zero_streak_, byRate, steady>>

Unmeasured == -1
Measured(b) == lat_ms_[b] # Unmeasured
bucket(n) == IF n > kMaxN THEN kMaxN ELSE n

\* Seeded from the nearest measured bucket, the smaller one first: fifteen per
\* cent per step of distance.  A rational <<numerator, denominator>>.
lat_est(n) ==
    LET b == bucket(n)
        At(i) == i \in 0..kMaxN /\ Measured(i)
        d == CHOOSE d \in 1..kMaxN : /\ At(b - d) \/ At(b + d)
                                     /\ \A c \in 1..(d - 1) : ~At(b - c) /\ ~At(b + c)
    IN  IF Measured(b) THEN <<lat_ms_[b], 1>>
        ELSE IF At(b - d) THEN <<lat_ms_[b - d] * (20 + 3 * d), 20>>
        ELSE <<lat_ms_[b + d] * 20, 20 + 3 * d>>

\* 1 + alpha + ... + alpha^n, times 50^n_max.
expected_emitted(n) ==
    LET sum[i \in 0..n] == (alpha_ ^ i) * (50 ^ (n_max - i)) + (IF i = 0 THEN 0 ELSE sum[i - 1])
    IN  sum[n]

\* The emission rate of n exceeds that of k.
Faster(n, k) ==
    expected_emitted(n) * lat_est(n)[2] * lat_est(k)[1]
        > expected_emitted(k) * lat_est(k)[2] * lat_est(n)[1]

\* The shortest draft with the best rate.
best_n == CHOOSE n \in 0..n_max : /\ \A k \in 0..n_max : ~Faster(k, n)
                                  /\ \A k \in 0..(n - 1) : Faster(n, k)

ColdStart == ~Measured(0)
Probing == ~ColdStart /\ best_n = 0 /\ zero_streak_ + 1 >= probe_iv

choose ==
    IF ColdStart THEN n_max ELSE IF Probing THEN probe_n ELSE best_n

StreakForgotten == 0    \* faulty: every round starts a new streak
StreakAfterChoose ==
    IF ColdStart THEN zero_streak_
    ELSE IF best_n = 0 /\ ~Probing THEN zero_streak_ + 1 ELSE 0

\* decay * old + (1 - decay) * num / den, rounded down.
Ema(decay, old, num, den) ==
    (decay[1] * old * den + (decay[2] - decay[1]) * num) \div (decay[2] * den)

Clamp(a) == IF a < 1 THEN 1 ELSE IF a > 49 THEN 49 ELSE a

observe(n_drafted, n_accepted, pass_ms) ==
    LET b == bucket(n_drafted)
    IN  /\ lat_ms_' = [lat_ms_ EXCEPT ![b] = IF Measured(b) THEN Ema(lat_decay, @, pass_ms, 1)
                                             ELSE pass_ms]
        /\ alpha_' = IF n_drafted = 0 THEN alpha_
                     ELSE Clamp(Ema(alpha_decay, alpha_, 50 * n_accepted, n_drafted))

-----------------------------------------------------------------------------
CtlInit ==
    /\ alpha_ = alpha0
    /\ lat_ms_ = [b \in 0..kMaxN |-> Unmeasured]
    /\ zero_streak_ = 0
    /\ byRate = FALSE /\ steady = FALSE

Choose == /\ zero_streak_' = StreakAfterChoose
          /\ byRate' = (choose > 0 /\ ~Probing)

\* The drafter may find less than asked for, or nothing; any part is accepted.
Round ==
    /\ ~steady
    /\ Choose
    /\ \E nd \in 0..choose, pass \in {FastPass, SlowPass} :
            \E a \in 0..nd : observe(nd, a, pass)
    /\ UNCHANGED steady

\* The text turns predictable: drafts of the length asked for, all accepted, at
\* the price of a pass without.
SteadyRound ==
    /\ steady
    /\ Choose
    /\ observe(choose, choose, FastPass)
    /\ UNCHANGED steady

TurnSteady == ~steady /\ steady' = TRUE /\ UNCHANGED <<alpha_, lat_ms_, zero_streak_, byRate>>

CtlNext == Round \/ SteadyRound \/ TurnSteady

\* The generation goes on.
CtlFairness == WF_ctlVars(SteadyRound)
CtlSpec == CtlInit /\ [][CtlNext]_ctlVars /\ CtlFairness

-----------------------------------------------------------------------------
(* Properties *)

\* Whatever was observed before, bad acceptance, stale latencies or a streak of
\* rounds without drafts: once drafts are accepted and free, the controller
\* comes to draft in every round by its own estimate.  The forced probes are
\* what lets it notice.
Recovers == <>[]steady => <>[]byRate
=============================================================================
