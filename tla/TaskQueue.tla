------------------------------- MODULE TaskQueue -------------------------------
(***************************************************************************)
(* The bounded MPMC ready queue (src/src/runtime/queue.h), one step per    *)
(* access to a shared word.  Memory is sequentially consistent: the        *)
(* acquire and release orders of the code are taken to be sufficient.      *)
(*                                                                         *)
(* Cursors and cell sequence numbers are machine words: they count modulo  *)
(* Modulus (2^32 in the code) and are compared by the sign of their        *)
(* difference.  A thread is assumed not to sleep between its load of a     *)
(* cursor and its look at the cell while others pass half of the words:    *)
(* the sign of the difference would be wrong.  MaxPushes is bounded        *)
(* accordingly.                                                            *)
(***************************************************************************)
EXTENDS Integers, Sequences, FiniteSets

CONSTANTS
  Pushers, Poppers,  \* threads that push, threads that pop
  Capacity,          \* cells, a power of two (mask + 1)
  Modulus,           \* range of the 32-bit words
  MaxBulk,           \* maxn of the bulk pop
  Starts,            \* positions from which the history is followed
  MaxPushes          \* bound: number of pushes

ASSUME QueueAssumption ==
  /\ Capacity \in Nat \ {0, 1} /\ Modulus \in Nat \ {0}
  /\ Modulus % Capacity = 0 /\ Modulus > 2 * Capacity
  /\ MaxBulk \in Nat \ {0}
  /\ Starts \subseteq 0 .. Modulus - 1
  /\ MaxPushes \in Nat \ {0} /\ 2 * (MaxPushes + Capacity) <= Modulus
  /\ IsFiniteSet(Pushers)

Threads == Pushers \cup Poppers

VARIABLES
  head, tail,  \* enqueue and dequeue cursors
  seq, val,    \* the cells
  light,       \* fence_light, set before the queue is used
  pc,          \* position of each thread
  pos,         \* its copy of a cursor
  m, i,        \* cells claimed by a pop, cells done with
  arg,         \* value being pushed
  out,         \* values read by a pop
  pushes,      \* number of pushes begun; the n-th push has value n
  delivered    \* history: values returned to callers of pop

words == <<head, tail, seq, val, light>>
local == <<pos, m, i, arg, out>>
vars  == <<words, pc, local, pushes, delivered>>

Wrap(x) == x % Modulus
Cell(p) == p % Capacity

(* (int32_t)(a - b)                                                        *)
Unsigned(a, b) == a - b   \* faulty: compares the numbers themselves
Diff(a, b) ==
  LET d == Wrap(a - b) IN IF 2 * d >= Modulus THEN d - Modulus ELSE d

(* A queue that has been used for s pushes and pops: as init() leaves it   *)
(* for s = 0.                                                              *)
Init ==
  /\ \E s \in Starts :
       /\ head = s /\ tail = s
       /\ seq = [c \in 0 .. Capacity - 1 |-> Wrap(s + ((c - s) % Capacity))]
  /\ val = [c \in 0 .. Capacity - 1 |-> 0]
  /\ light \in BOOLEAN
  /\ pc = [t \in Threads |-> "idle"]
  /\ pos = [t \in Threads |-> 0]
  /\ m = [t \in Threads |-> 0]
  /\ i = [t \in Threads |-> 0]
  /\ arg = [t \in Threads |-> 0]
  /\ out = [t \in Threads |-> <<>>]
  /\ pushes = 0
  /\ delivered = {}

Goto(t, l) == pc' = [pc EXCEPT ![t] = l]

--------------------------------------------------------------------------------
(* push                                                                    *)

(* The call, with its load of head.                                        *)
BeginPush(t) ==
  /\ pc[t] = "idle" /\ pushes < MaxPushes
  /\ pushes' = pushes + 1
  /\ arg' = [arg EXCEPT ![t] = pushes + 1]
  /\ pos' = [pos EXCEPT ![t] = head]
  /\ Goto(t, "pushCheck")
  /\ UNCHANGED <<words, m, i, out, delivered>>

(* The load again: after a lost race, or in the caller's spin on "full".   *)
PushReload(t) ==
  /\ pc[t] \in {"pushLoad", "full"}
  /\ pos' = [pos EXCEPT ![t] = head]
  /\ Goto(t, "pushCheck")
  /\ UNCHANGED <<words, m, i, arg, out, pushes, delivered>>

(* The cell of position p is free for it ...                               *)
FreeOrOccupied(p) == Diff(seq[Cell(p)], p) <= 0   \* faulty: never full
Free(p) == Diff(seq[Cell(p)], p) = 0

(* ... or still holds a value of the round before.                         *)
NotFree(p) == Diff(seq[Cell(p)], p) # 0   \* faulty: a lost race counts as full
CellOccupied(p) == Diff(seq[Cell(p)], p) < 0

PushCheck(t) ==
  /\ pc[t] = "pushCheck"
  /\ Goto(t, IF Free(pos[t]) THEN "pushCas"
             ELSE IF CellOccupied(pos[t]) THEN "full" ELSE "pushLoad")
  /\ UNCHANGED <<words, local, pushes, delivered>>

(* CAS on head; a failed one leaves the cursor it found in pos.            *)
PushCas(t) ==
  /\ pc[t] = "pushCas"
  /\ IF head = pos[t]
       THEN head' = Wrap(head + 1) /\ Goto(t, "write") /\ UNCHANGED pos
       ELSE pos' = [pos EXCEPT ![t] = head] /\ Goto(t, "pushCheck")
            /\ UNCHANGED head
  /\ UNCHANGED <<tail, seq, val, light, m, i, arg, out, pushes, delivered>>

PushWrite(t) ==
  /\ pc[t] = "write"
  /\ val' = [val EXCEPT ![Cell(pos[t])] = arg[t]]
  /\ Goto(t, "publish")
  /\ UNCHANGED <<head, tail, seq, light, local, pushes, delivered>>

PushPublish(t) ==
  /\ pc[t] = "publish"
  /\ seq' = [seq EXCEPT ![Cell(pos[t])] = Wrap(pos[t] + 1)]
  /\ pos' = [pos EXCEPT ![t] = 0]
  /\ arg' = [arg EXCEPT ![t] = 0]
  /\ Goto(t, "idle")
  /\ UNCHANGED <<head, tail, val, light, m, i, out, pushes, delivered>>

--------------------------------------------------------------------------------
(* pop, pop_bulk, pop_bulk_light                                           *)

(* The cell of position p holds the value pushed at p.                     *)
Published(p) == Diff(seq[Cell(p)], p + 1) = 0

(* ... or is still waiting for it.                                         *)
NotPublished(p) == Diff(seq[Cell(p)], p + 1) # 0   \* faulty: a lost race
                                                   \* counts as empty
Awaited(p) == Diff(seq[Cell(p)], p + 1) < 0

(* Load of tail: at the call, and again after a lost race.                 *)
LoadTail(t, first) ==
  /\ pos' = [pos EXCEPT ![t] = tail]
  /\ m' = [m EXCEPT ![t] = 0]
  /\ Goto(t, first)
  /\ UNCHANGED <<words, i, arg, out, pushes, delivered>>

BeginPop(t) ==
  /\ pc[t] = "idle"
  /\ LoadTail(t, "popCheck") \/ LoadTail(t, "scan")

PopReload(t) ==
  \/ pc[t] = "popLoad" /\ LoadTail(t, "popCheck")
  \/ pc[t] = "bulkLoad" /\ LoadTail(t, "scan")

(* Return with nothing: the locals of the call are gone.                   *)
ReturnEmpty(t) ==
  /\ Goto(t, "idle")
  /\ pos' = [pos EXCEPT ![t] = 0]
  /\ m' = [m EXCEPT ![t] = 0]

PopCheck(t) ==
  /\ pc[t] = "popCheck"
  /\ IF Awaited(pos[t]) THEN ReturnEmpty(t)
     ELSE /\ Goto(t, IF Published(pos[t]) THEN "popCas" ELSE "popLoad")
          /\ m' = [m EXCEPT ![t] = IF Published(pos[t]) THEN 1 ELSE 0]
          /\ UNCHANGED pos
  /\ UNCHANGED <<words, i, arg, out, pushes, delivered>>

(* The scan of pop_bulk, one cell per step; nothing ready leads to a       *)
(* second look at the first cell.                                          *)
BulkScan(t) ==
  /\ pc[t] = "scan"
  /\ IF m[t] < MaxBulk /\ Published(Wrap(pos[t] + m[t]))
       THEN m' = [m EXCEPT ![t] = @ + 1] /\ UNCHANGED pc
       ELSE Goto(t, IF m[t] = 0 THEN "recheck" ELSE "bulkCas") /\ UNCHANGED m
  /\ UNCHANGED <<words, pos, i, arg, out, pushes, delivered>>

BulkRecheck(t) ==
  /\ pc[t] = "recheck"
  /\ IF Awaited(pos[t]) THEN ReturnEmpty(t)
     ELSE Goto(t, "bulkLoad") /\ UNCHANGED <<pos, m>>
  /\ UNCHANGED <<words, i, arg, out, pushes, delivered>>

AlwaysSucceeds(t) == TRUE   \* faulty: an add instead of the CAS
TailUnchanged(t) == tail = pos[t]

(* CAS on tail: claims m cells.  After a failed one pop looks at the       *)
(* cursor it found, pop_bulk starts over.                                  *)
PopCas(t) ==
  /\ pc[t] \in {"popCas", "bulkCas"}
  /\ IF TailUnchanged(t)
       THEN tail' = Wrap(tail + m[t]) /\ Goto(t, "read")
            /\ UNCHANGED <<pos, m>>
       ELSE /\ UNCHANGED tail
            /\ m' = [m EXCEPT ![t] = 0]
            /\ IF pc[t] = "popCas"
                 THEN pos' = [pos EXCEPT ![t] = tail] /\ Goto(t, "popCheck")
                 ELSE pos' = [pos EXCEPT ![t] = 0] /\ Goto(t, "bulkLoad")
  /\ UNCHANGED <<head, seq, val, light, i, arg, out, pushes, delivered>>

(* Read of a value: fence-light reads all of them before it releases any.  *)
PopRead(t) ==
  /\ pc[t] = "read"
  /\ out' = [out EXCEPT ![t] = Append(@, val[Cell(pos[t] + i[t])])]
  /\ IF light /\ i[t] + 1 < m[t]
       THEN i' = [i EXCEPT ![t] = @ + 1] /\ UNCHANGED pc
       ELSE i' = [i EXCEPT ![t] = IF light THEN 0 ELSE @] /\ Goto(t, "release")
  /\ UNCHANGED <<words, pos, m, arg, pushes, delivered>>

(* What a consumer stores in the cell of position p for the next round.    *)
Recycled(p) == Wrap(p + Capacity)

PopRelease(t) ==
  /\ pc[t] = "release"
  /\ seq' = [seq EXCEPT ![Cell(pos[t] + i[t])] = Recycled(pos[t] + i[t])]
  /\ IF i[t] + 1 < m[t]
       THEN /\ i' = [i EXCEPT ![t] = @ + 1]
            /\ Goto(t, IF light THEN "release" ELSE "read")
            /\ UNCHANGED <<pos, m, out, delivered>>
       ELSE /\ delivered' = delivered \cup { out[t][k] : k \in DOMAIN out[t] }
            /\ out' = [out EXCEPT ![t] = <<>>]
            /\ pos' = [pos EXCEPT ![t] = 0]
            /\ m' = [m EXCEPT ![t] = 0]
            /\ i' = [i EXCEPT ![t] = 0]
            /\ Goto(t, "idle")
  /\ UNCHANGED <<head, tail, val, light, arg, pushes>>

--------------------------------------------------------------------------------

PushStep(t) == PushReload(t) \/ PushCheck(t) \/ PushCas(t) \/ PushWrite(t)
               \/ PushPublish(t)
PopStep(t) == PopReload(t) \/ PopCheck(t) \/ BulkScan(t) \/ BulkRecheck(t)
              \/ PopCas(t) \/ PopRead(t) \/ PopRelease(t)

Next ==
  \/ \E t \in Pushers : BeginPush(t) \/ PushStep(t)
  \/ \E t \in Poppers : BeginPop(t) \/ PopStep(t)

Spec == Init /\ [][Next]_vars

(* A thread inside a call keeps running; a consumer keeps polling.         *)
Fairness ==
  /\ \A t \in Pushers : WF_vars(PushStep(t))
  /\ \A t \in Poppers : WF_vars(PopStep(t)) /\ WF_vars(BeginPop(t))

FairSpec == Spec /\ Fairness

--------------------------------------------------------------------------------
(* Properties.                                                             *)

Word == 0 .. Modulus - 1
Claiming(t) == pc[t] \in {"write", "publish"}
Holding(t)  == pc[t] \in {"read", "release"}

(* Types, and the bounds between which the cursors stay: the queue never   *)
(* holds more than Capacity claimed positions (push refuses a cell whose   *)
(* value has not been released).                                           *)
TypeOK ==
  /\ head \in Word /\ tail \in Word
  /\ Wrap(head - tail) \in 0 .. Capacity
  /\ seq \in [0 .. Capacity - 1 -> Word]
  /\ val \in [0 .. Capacity - 1 -> 0 .. MaxPushes]
  /\ light \in BOOLEAN
  /\ pc \in [Threads -> {"idle", "pushLoad", "full", "pushCheck", "pushCas",
                         "write", "publish", "popLoad", "bulkLoad", "popCheck",
                         "scan", "recheck", "popCas", "bulkCas", "read",
                         "release"}]
  /\ pos \in [Threads -> Word]
  /\ m \in [Threads -> 0 .. MaxBulk] /\ i \in [Threads -> 0 .. MaxBulk]
  /\ arg \in [Threads -> 0 .. MaxPushes]
  /\ \A t \in Threads : out[t] \in Seq(1 .. MaxPushes)

(* A pop that returns empty-handed read the current tail, and the value of *)
(* that position was not there: the queue is empty or its oldest push has  *)
(* not published yet (pop and pop_bulk, the return on dif < 0).            *)
GivesUpEmpty(t) == pc[t] \in {"popCheck", "recheck"} /\ pc'[t] = "idle"
EmptyIsHonest ==
  [][\A t \in Poppers : GivesUpEmpty(t) =>
       /\ pos[t] = tail
       /\ tail = head \/ \E u \in Pushers : Claiming(u) /\ pos[u] = tail]_vars

(* Of the cells a pop has claimed, the first Released are free again.      *)
Released(t) == IF light /\ pc[t] = "read" THEN 0 ELSE i[t]

(* A push that reports "full" read the current head, and the value pushed  *)
(* Capacity positions earlier has not been released by a pop: nobody has   *)
(* claimed it yet, or it is one of those a pop still has to release (push, *)
(* the return on dif < 0).                                                 *)
FullIsHonest ==
  [][\A t \in Pushers : (pc[t] = "pushCheck" /\ pc'[t] = "full") =>
       /\ pos[t] = head
       /\ \/ Wrap(head - tail) = Capacity
          \/ \E u \in Poppers :
               /\ Holding(u)
               /\ Wrap(head - pos[u]) \in
                    Capacity + Released(u) .. Capacity + m[u] - 1]_vars

(* Every value whose push has begun is returned by some pop, however the   *)
(* races for the cursors go.                                               *)
EveryValueArrives ==
  \A v \in 1 .. MaxPushes : (pushes >= v) ~> (v \in delivered)

(* The queue is a FIFO: a push takes effect at its CAS on head, a pop at   *)
(* its CAS on tail; between the two and afterwards no cell changes under   *)
(* the hands of its owner.                                                 *)
ValueAt(p) ==
  IF \E t \in Pushers : Claiming(t) /\ pos[t] = p
    THEN arg[CHOOSE t \in Pushers : Claiming(t) /\ pos[t] = p]
    ELSE val[Cell(p)]

InHand(t) ==
  IF ~Holding(t) THEN <<>>
  ELSE out[t] \o [k \in 1 .. m[t] - Len(out[t]) |->
                    val[Cell(pos[t] + Len(out[t]) + k - 1)]]

Fifo == INSTANCE TaskFifo WITH
  Values <- 1 .. MaxPushes,
  Consumers <- Poppers,
  Bound <- Capacity,
  fifo <- [k \in 1 .. Wrap(head - tail) |-> ValueAt(Wrap(tail + k - 1))],
  hand <- [t \in Poppers |-> InHand(t)]

ImplementsFifo == Fifo!FifoSpec
================================================================================
