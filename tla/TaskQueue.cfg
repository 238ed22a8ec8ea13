\* Two pushers and two poppers on a queue of two cells; words wrap at 16, which
\* the third push passes.
SPECIFICATION FairSpec
CONSTANTS
  Pushers = {p1, p2}
  Poppers = {c1, c2}
  Capacity = 2
  Modulus = 16
  MaxBulk = 2
  Starts = {14}
  MaxPushes = 3
INVARIANT TypeOK
PROPERTY EmptyIsHonest
PROPERTY FullIsHonest
PROPERTY ImplementsFifo
PROPERTY EveryValueArrives
CHECK_DEADLOCK FALSE
