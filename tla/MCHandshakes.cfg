\* Two workers, three runs and a stop() at any time; three probes of the clock
\* and two starts; a short controller.
CONSTANTS
    Workers = {w1, w2}
    Nobody = Nobody
    MaxRuns = 3
    MaxSpurious = 2
    n_max = 2
    probe_iv = 2
    probe_n = 2
    alpha0 = 37
    alpha_decay <- Half
    lat_decay <- Half
    kMaxN = 2
    FastPass = 2
    SlowPass = 5
    iters = 3
    TrueOffset = 7
    MaxTick = 2
    MaxStarts = 2
SPECIFICATION HandshakesSpec
INVARIANTS
    NobodySleepsThroughRun
    NobodySleepsThroughStop
    StampInWindow
PROPERTIES
    EveryoneJoins
    PoolStops
    Recovers
    CalibrationEnds
CHECK_DEADLOCK FALSE
