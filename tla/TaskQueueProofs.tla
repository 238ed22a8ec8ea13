--------------------------- MODULE TaskQueueProofs ---------------------------
(***************************************************************************)
(* The ready queue of TaskQueue is a FIFO, for any number of threads, any  *)
(* capacity, any bulk size and any word size that is large enough.         *)
(***************************************************************************)
EXTENDS TaskQueue, FiniteSetTheorems, SequenceTheorems, TLAPS

Cells == 0 .. Capacity - 1

-----------------------------------------------------------------------------
(* Arithmetic of words.                                                    *)

(* Division with remainder.                                                *)
LEMMA Division ==
  ASSUME NEW n \in Nat \ {0}, NEW a \in Int
  PROVE  /\ a % n \in 0 .. n - 1 /\ a \div n \in Int
         /\ a = n * (a \div n) + (a % n)
<1>1. a % n \in 0 .. n - 1
  OBVIOUS
<1>2. a \div n \in Int
  OBVIOUS
<1> DEFINE x == n * (a \div n)
           r == a % n
<1>3. r = a - x /\ x \in Int /\ r \in Int
  BY <1>1, <1>2
<1>4. a = x + r
  <2> HIDE DEF x, r
  <2> QED
    BY <1>3
<1> QED
  BY <1>1, <1>2, <1>4

(* Quotient and remainder are unique.                                      *)
LEMMA DivisionIsUnique ==
  ASSUME NEW n \in Nat \ {0}, NEW q \in Int, NEW r \in 0 .. n - 1
  PROVE  (n * q + r) % n = r
<1> DEFINE a == n * q + r
           k == a \div n
<1>1. a \in Int /\ n * q \in Int
  OBVIOUS
<1>2. a % n \in 0 .. n - 1 /\ k \in Int /\ a = n * k + (a % n)
  BY <1>1, Division
<1> HIDE DEF k
<1>3. n * (q - k) = (a % n) - r
  <2>1. n * q + r = n * k + (a % n)
    BY <1>2
  <2> DEFINE x == n * q
             y == n * k
             z == n * (q - k)
             s == a % n
  <2>2. z = x - y /\ x \in Int /\ y \in Int
    BY <1>2
  <2>3. x + r = y + s /\ s \in Int
    BY <1>2, <2>1
  <2> HIDE DEF a, x, y, z, s
  <2>4. z = s - r
    BY <2>2, <2>3
  <2> QED
    BY <2>4 DEF z, s
<1>4. q - k >= 1 => n * (q - k) >= n
  BY <1>2
<1>5. q - k <= -1 => n * (q - k) <= -n
  BY <1>2
<1> HIDE DEF a
<1>6. q = k
  <2>1. q - k \in Int
    BY <1>2
  <2>2. (a % n) - r < n /\ (a % n) - r > -n
    BY <1>2
  <2> QED
    BY <1>2, <1>3, <1>4, <1>5, <2>1, <2>2
<1>7. n * (q - k) = 0
  BY <1>2, <1>6
<1>8. a % n = r
  BY <1>2, <1>3, <1>7
<1> QED
  BY <1>8 DEF a

(* A multiple of n does not matter.                                        *)
LEMMA Congruent ==
  ASSUME NEW n \in Nat \ {0}, NEW a \in Int, NEW q \in Int
  PROVE  (a + n * q) % n = a % n
<1> DEFINE k == a \div n
<1>1. a % n \in 0 .. n - 1 /\ k \in Int /\ a = n * k + (a % n)
  BY Division
<1> HIDE DEF k
<1>2. n * k + n * q = n * (k + q) /\ k + q \in Int /\ n * q \in Int /\ n * k \in Int
  BY <1>1
<1>3. a + n * q = n * (k + q) + (a % n)
  <2> DEFINE x == n * q
             y == n * k
             z == n * (k + q)
             r == a % n
  <2>1. y + x = z /\ x \in Int /\ y \in Int /\ r \in Int /\ a = y + r
    BY <1>1, <1>2
  <2> HIDE DEF x, y, z, r
  <2>2. a + x = z + r
    BY <2>1
  <2> QED
    BY <2>2 DEF x, z, r
<1> QED
  BY <1>1, <1>2, <1>3, DivisionIsUnique

(* Equal remainders of numbers less than n apart.                          *)
LEMMA CloseAndCongruent ==
  ASSUME NEW n \in Nat \ {0}, NEW a \in Int, NEW b \in Int,
         a % n = b % n, a - b < n, b - a < n
  PROVE  a = b
<1> DEFINE k == a \div n
           l == b \div n
           r == a % n
<1>1. k \in Int /\ l \in Int /\ r \in 0 .. n - 1 /\ a = n * k + r /\ b = n * l + r
  BY Division
<1> HIDE DEF k, l, r
<1>2. a - b = n * (k - l) /\ k - l \in Int
  BY <1>1
<1>3. k - l >= 1 => n * (k - l) >= n
  BY <1>1
<1>4. k - l <= -1 => n * (k - l) <= -n
  BY <1>1
<1>5. k - l = 0
  BY <1>1, <1>2, <1>3, <1>4
<1> QED
  BY <1>1, <1>5

(* What is assumed of the constants.                                       *)
LEMMA Sizes ==
  /\ Capacity \in Nat \ {0} /\ Capacity >= 2
  /\ Modulus \in Nat \ {0} /\ Modulus > 2 * Capacity
  /\ MaxBulk \in Nat \ {0} /\ MaxPushes \in Nat \ {0}
  /\ 2 * (MaxPushes + Capacity) <= Modulus
  /\ IsFiniteSet(Pushers) /\ Starts \subseteq 0 .. Modulus - 1
BY QueueAssumption

(* The words divide into rounds of the cells.                              *)
LEMMA Rounds ==
  Modulus = Capacity * (Modulus \div Capacity) /\ Modulus \div Capacity \in Int
<1>1. Capacity \in Nat \ {0} /\ Modulus \in Nat \ {0} /\ Modulus % Capacity = 0
  BY QueueAssumption
<1> QED
  BY <1>1, Division

(* A word and the number it stands for lie in the same cell.               *)
LEMMA CellOfWord ==
  ASSUME NEW a \in Int, NEW j \in Int
  PROVE  Cell(Wrap(a) + j) = Cell(a + j)
<1> DEFINE q == a \div Modulus
           d == Modulus \div Capacity
<1>1. /\ Capacity \in Nat \ {0} /\ Modulus \in Nat \ {0}
      /\ Modulus = Capacity * d /\ d \in Int
  BY Sizes, Rounds
<1>2. Wrap(a) \in Int /\ q \in Int /\ a = Modulus * q + Wrap(a)
  BY <1>1, Division DEF Wrap
<1> HIDE DEF q, d
<1>3. Modulus * q = Capacity * (d * q) /\ d * q \in Int
  BY <1>1, <1>2
<1>4. a + j = (Wrap(a) + j) + Capacity * (d * q)
  BY <1>1, <1>2, <1>3
<1>5. Wrap(a) + j \in Int
  BY <1>2
<1>6. ((Wrap(a) + j) + Capacity * (d * q)) % Capacity = (Wrap(a) + j) % Capacity
  <2> DEFINE w == Wrap(a) + j
             e == d * q
  <2>1. w \in Int /\ e \in Int
    BY <1>3, <1>5
  <2> HIDE DEF w, e
  <2>2. (w + Capacity * e) % Capacity = w % Capacity
    BY <1>1, <2>1, Congruent
  <2> QED
    BY <2>2 DEF w, e
<1> QED
  BY <1>4, <1>6 DEF Cell

(* Wrapping early changes nothing.                                         *)
LEMMA WrapTwice ==
  ASSUME NEW a \in Int, NEW j \in Int
  PROVE  Wrap(Wrap(a) + j) = Wrap(a + j)
<1> DEFINE q == a \div Modulus
<1>1. Modulus \in Nat \ {0}
  BY Sizes
<1>2. Wrap(a) \in Int /\ q \in Int /\ a = Modulus * q + Wrap(a)
  BY <1>1, Division DEF Wrap
<1> HIDE DEF q
<1>3. Modulus * q \in Int
  BY <1>1, <1>2
<1>4. a + j = (Wrap(a) + j) + Modulus * q /\ Wrap(a) + j \in Int
  BY <1>2, <1>3
<1>5. ((Wrap(a) + j) + Modulus * q) % Modulus = (Wrap(a) + j) % Modulus
  <2> DEFINE w == Wrap(a) + j
  <2>1. w \in Int
    BY <1>4
  <2> HIDE DEF w
  <2>2. (w + Modulus * q) % Modulus = w % Modulus
    BY <1>1, <1>2, <2>1, Congruent
  <2> QED
    BY <2>2 DEF w
<1> QED
  BY <1>4, <1>5 DEF Wrap

(* (int32_t)(a - b) is the difference of the numbers, if these are less    *)
(* than half of the words apart; e is the offset the code adds to b.       *)
LEMMA DiffOfWords ==
  ASSUME NEW a \in Int, NEW b \in Int, NEW e \in Int,
         2 * (a - (b + e)) < Modulus, 2 * ((b + e) - a) =< Modulus
  PROVE  Diff(Wrap(a), Wrap(b) + e) = a - (b + e)
<1> DEFINE q == a \div Modulus
           r == b \div Modulus
           x == a - (b + e)
           d == Wrap(Wrap(a) - (Wrap(b) + e))
<1>1. Modulus \in Nat \ {0}
  BY Sizes
<1>2. /\ Wrap(a) \in Int /\ q \in Int /\ a = Modulus * q + Wrap(a)
      /\ Wrap(b) \in Int /\ r \in Int /\ b = Modulus * r + Wrap(b)
  BY <1>1, Division DEF Wrap
<1> HIDE DEF q, r
<1>3. Modulus * q \in Int /\ Modulus * r \in Int
      /\ Modulus * (r - q) = Modulus * r - Modulus * q /\ r - q \in Int
  BY <1>1, <1>2
<1>4. Wrap(a) - (Wrap(b) + e) = x + Modulus * (r - q) /\ x \in Int
  <2> DEFINE y == Modulus * q
             z == Modulus * r
             w == Modulus * (r - q)
             c == Wrap(a)
             f == Wrap(b)
  <2>1. /\ w = z - y /\ y \in Int /\ z \in Int /\ c \in Int /\ f \in Int
        /\ a = y + c /\ b = z + f
    BY <1>2, <1>3
  <2> HIDE DEF y, z, w, c, f
  <2>2. c - (f + e) = (a - (b + e)) + w
    BY <2>1
  <2> QED
    BY <2>2 DEF w, c, f
<1>5. d = x % Modulus
  <2> HIDE DEF x
  <2> QED
    BY <1>1, <1>3, <1>4, Congruent DEF Wrap
<1>6. CASE x >= 0
  <2>1. x \in 0 .. Modulus - 1
    BY <1>1, <1>4, <1>6
  <2>2. (Modulus * 0 + x) % Modulus = x
    BY <1>1, <2>1, DivisionIsUnique
  <2>3. Modulus * 0 + x = x
    BY <1>1, <1>4
  <2>4. d = x
    BY <1>5, <2>2, <2>3
  <2>5. ~(2 * d >= Modulus)
    BY <1>1, <1>4, <2>4
  <2> QED
    BY <2>4, <2>5 DEF Diff
<1>7. CASE x < 0
  <2>1. x + Modulus \in 0 .. Modulus - 1
    BY <1>1, <1>4, <1>7
  <2>2. (Modulus * (-1) + (x + Modulus)) % Modulus = x + Modulus
    BY <1>1, <2>1, DivisionIsUnique
  <2>3. Modulus * (-1) + (x + Modulus) = x
    BY <1>1, <1>4
  <2>4. d = x + Modulus
    BY <1>5, <2>2, <2>3
  <2>5. 2 * d >= Modulus /\ d - Modulus = x
    BY <1>1, <1>4, <2>4
  <2> QED
    BY <2>5 DEF Diff
<1> QED
  BY <1>4, <1>6, <1>7


(* Words that are equal and stand for close numbers stand for the same.    *)
LEMMA WordsApart ==
  ASSUME NEW a \in Int, NEW b \in Int,
         Wrap(a) = Wrap(b), a - b < Modulus, b - a < Modulus
  PROVE  a = b
BY Sizes, CloseAndCongruent DEF Wrap

(* A wrapped number is a word.                                             *)
LEMMA WrapType == \A a \in Int : Wrap(a) \in Word
<1> TAKE a \in Int
<1>1. Modulus \in Nat \ {0}
  BY Sizes
<1> QED
  BY <1>1, Division DEF Wrap, Word

(* A position lies in some cell.                                           *)
LEMMA CellType == \A p \in Int : Cell(p) \in Cells
<1> TAKE p \in Int
<1>1. Capacity \in Nat \ {0}
  BY Sizes
<1> QED
  BY <1>1, Division DEF Cell, Cells

(* Different positions of one round lie in different cells.                *)
LEMMA CellsApart ==
  ASSUME NEW p \in Int, NEW q \in Int,
         p # q, p - q < Capacity, q - p < Capacity
  PROVE  Cell(p) # Cell(q)
BY Sizes, CloseAndCongruent DEF Cell

(* A round later the same cell.                                            *)
LEMMA NextRound == \A p \in Int : Cell(p - Capacity) = Cell(p)
<1> TAKE p \in Int
<1>1. Capacity \in Nat \ {0} /\ -1 \in Int
  BY Sizes
<1>2. (p + Capacity * (-1)) % Capacity = p % Capacity
  BY <1>1, Congruent
<1>3. p + Capacity * (-1) = p - Capacity
  BY <1>1
<1> QED
  BY <1>2, <1>3 DEF Cell

(* Among Capacity consecutive positions there is one for each cell.        *)
LEMMA CellHasPosition ==
  ASSUME NEW h \in Int, NEW c \in Cells
  PROVE  \E p \in h - Capacity .. h - 1 : Cell(p) = c
<1> DEFINE d == c - (h - Capacity)
           k == d \div Capacity
           p == (h - Capacity) + (d % Capacity)
<1>1. Capacity \in Nat \ {0} /\ c \in Int /\ d \in Int /\ c \in 0 .. Capacity - 1
  BY Sizes DEF Cells
<1>2. d % Capacity \in 0 .. Capacity - 1 /\ k \in Int
      /\ d = Capacity * k + (d % Capacity)
  BY <1>1, Division
<1>3. p \in h - Capacity .. h - 1
  BY <1>1, <1>2
<1>4. Capacity * (-k) = -(Capacity * k) /\ Capacity * k \in Int /\ -k \in Int
  BY <1>1, <1>2
<1>5. p = Capacity * (-k) + c
  <2> DEFINE x == Capacity * k
             y == Capacity * (-k)
             r == d % Capacity
  <2>1. y = -x /\ x \in Int /\ r \in Int /\ d = x + r
    BY <1>2, <1>4
  <2> HIDE DEF x, y, r
  <2>2. (h - Capacity) + r = y + c
    BY <1>1, <2>1
  <2> QED
    BY <2>2 DEF y, r
<1>6. Cell(p) = c
  BY <1>1, <1>4, <1>5, DivisionIsUnique DEF Cell
<1> QED
  BY <1>3, <1>6

-----------------------------------------------------------------------------
(* The inductive invariant.  The words of the queue are remainders of      *)
(* numbers that only grow: H and T for the cursors, S[c] for the sequence  *)
(* number of cell c, P[t] for the cursor thread t holds; B is where the    *)
(* history begins.  The invariant says that there are such numbers, and    *)
(* relates them.                                                           *)

Labels == {"idle", "pushLoad", "full", "pushCheck", "pushCas", "write",
           "publish", "popLoad", "bulkLoad", "popCheck", "scan", "recheck",
           "popCas", "bulkCas", "read", "release"}

(* Threads with a push begun that has no position yet.                     *)
WaitingLabels == {"pushLoad", "full", "pushCheck", "pushCas"}
Waiting == {t \in Pushers : pc[t] \in WaitingLabels}

(* Types; a thread is inside the operations it may call.                   *)
Typed ==
  /\ head \in Word /\ tail \in Word
  /\ seq \in [Cells -> Word] /\ val \in [Cells -> 0 .. MaxPushes]
  /\ light \in BOOLEAN
  /\ pc \in [Threads -> Labels]
  /\ pos \in [Threads -> Word]
  /\ m \in [Threads -> 0 .. MaxBulk] /\ i \in [Threads -> 0 .. MaxBulk]
  /\ arg \in [Threads -> 0 .. MaxPushes]
  /\ out \in [Threads -> Seq(1 .. MaxPushes)]
  /\ pushes \in 0 .. MaxPushes
  /\ \A t \in Threads :
       /\ pc[t] \in WaitingLabels \cup {"write", "publish"} => t \in Pushers
       /\ pc[t] \notin WaitingLabels \cup {"idle", "write", "publish"} => t \in Poppers

(* The numbers behind the words.                                           *)
Unwrapped(H, T, S, P) ==
  /\ head = Wrap(H) /\ tail = Wrap(T)
  /\ \A c \in Cells : seq[c] = Wrap(S[c])
  /\ \A t \in Threads : pos[t] = Wrap(P[t])

(* The queue holds T .. H - 1; every position pushed at was asked for.     *)
Cursors(B, H, T) ==
  /\ B =< T /\ T =< H /\ H =< T + Capacity
  /\ (H - B) + Cardinality(Waiting) = pushes

(* The positions a pop has claimed and not released.                       *)
Rest(u, P) == P[u] + Released(u) .. P[u] + m[u] - 1

(* A push between its CAS and its publication owns a cell of the queue ... *)
ClaimOK(u, H, T, S, P) ==
  Claiming(u) =>
    /\ T =< P[u] /\ P[u] < H
    /\ S[Cell(P[u])] = P[u]
    /\ arg[u] \in 1 .. MaxPushes
    /\ pc[u] = "publish" => val[Cell(P[u])] = arg[u]

(* ... and a pop between its CAS and its last release owns a run of        *)
(* published cells before the queue, which no push can reach.              *)
HoldOK(u, B, H, T, S, P) ==
  Holding(u) =>
    /\ B =< P[u] /\ i[u] < m[u] /\ P[u] + m[u] =< T
    /\ H - Capacity =< P[u] + Released(u)
    /\ \A p \in Rest(u, P) : S[Cell(p)] = p + 1
    /\ Len(out[u]) = IF pc[u] = "read" THEN i[u]
                     ELSE IF light THEN m[u] ELSE i[u] + 1

(* No two own the same.                                                    *)
Apart(P) ==
  \A u, w \in Threads : u # w =>
    /\ Claiming(u) /\ Claiming(w) => P[u] # P[w]
    /\ Holding(u) /\ Holding(w) => P[u] + m[u] =< P[w] \/ P[w] + m[w] =< P[u]

(* The states of the cell of position p, one of the last Capacity pushed   *)
(* at: in the queue it is published, or claimed by some push; before the   *)
(* queue it is released, or in the hands of some pop.                      *)
SlotOK(p, B, H, T, S, P) ==
  /\ p >= T => \/ S[Cell(p)] = p + 1
               \/ S[Cell(p)] = p /\ \E u \in Threads : Claiming(u) /\ P[u] = p
  /\ p < T  => \/ S[Cell(p)] = p + Capacity
               \/ /\ S[Cell(p)] = p + 1
                  /\ \E u \in Threads : Holding(u) /\ p \in Rest(u, P)
  /\ (p >= B /\ S[Cell(p)] = p + 1) => val[Cell(p)] \in 1 .. MaxPushes

(* A push on its way to the CAS: what it has seen of the cell of the       *)
(* current head still holds.                                               *)
PushOK(u, B, H, S, P) ==
  /\ pc[u] \in WaitingLabels => arg[u] \in 1 .. MaxPushes
  /\ pc[u] \in {"pushCheck", "pushCas"} => B =< P[u] /\ P[u] =< H
  /\ (pc[u] = "pushCas" /\ P[u] = H) => S[Cell(H)] = H

(* The first k values of the queue can be taken.                           *)
Ready(H, T, S, k) ==
  \A j \in 0 .. k - 1 : T + j < H /\ S[Cell(T + j)] = T + j + 1

(* A pop on its way to the CAS: what it has seen of the cells from the     *)
(* current tail on still holds.                                            *)
PopOK(u, B, H, T, S, P) ==
  /\ pc[u] \in {"popCheck", "scan", "recheck", "popCas", "bulkCas"} =>
       /\ B =< P[u] /\ P[u] =< T
       /\ P[u] = T => Ready(H, T, S, m[u])
  /\ pc[u] \in {"popCheck", "recheck"} => m[u] = 0
  /\ pc[u] \in {"popCas", "bulkCas"} => m[u] >= 1
  /\ ~Holding(u) => out[u] = <<>> /\ i[u] = 0

Owners(B, H, T, S, P) ==
  /\ \A u \in Threads : ClaimOK(u, H, T, S, P) /\ HoldOK(u, B, H, T, S, P)
  /\ Apart(P)

Slots(B, H, T, S, P) ==
  \A p \in H - Capacity .. H - 1 : SlotOK(p, B, H, T, S, P)

Locals(B, H, T, S, P) ==
  \A u \in Threads : PushOK(u, B, H, S, P) /\ PopOK(u, B, H, T, S, P)

Numbered(B, H, T, S, P) ==
  /\ Unwrapped(H, T, S, P)
  /\ Cursors(B, H, T)
  /\ Owners(B, H, T, S, P)
  /\ Slots(B, H, T, S, P)
  /\ Locals(B, H, T, S, P)

QInv ==
  /\ Typed
  /\ \E B, H, T \in Int, S \in [Cells -> Int], P \in [Threads -> Int] :
       Numbered(B, H, T, S, P)

-----------------------------------------------------------------------------
(* What the numbers say about the words.                                   *)

(* No more positions than pushes.                                          *)
LEMMA Bounded ==
  ASSUME NEW B \in Int, NEW H \in Int, NEW T \in Int, Typed, Cursors(B, H, T)
  PROVE  /\ IsFiniteSet(Waiting) /\ Cardinality(Waiting) \in Nat
         /\ H - B =< MaxPushes
<1>1. IsFiniteSet(Waiting) /\ Cardinality(Waiting) \in Nat
  <2>1. Waiting \subseteq Pushers
    BY DEF Waiting
  <2> QED
    BY <2>1, Sizes, FS_Subset, FS_CardinalityType
<1>2. (H - B) + Cardinality(Waiting) = pushes /\ pushes \in 0 .. MaxPushes
  BY DEF Cursors, Typed
<1> QED
  BY <1>1, <1>2, Sizes

(* The number of a cell belongs to one of the last Capacity positions.     *)
LEMMA SlotOfCell ==
  ASSUME NEW B \in Int, NEW H \in Int, NEW T \in Int, NEW S \in [Cells -> Int],
         NEW P \in [Threads -> Int], Slots(B, H, T, S, P), NEW c \in Cells
  PROVE  \E q \in H - Capacity .. H - 1 :
           Cell(q) = c /\ S[c] \in {q, q + 1, q + Capacity} /\ (S[c] = q => q >= T)
<1>1. PICK q \in H - Capacity .. H - 1 : Cell(q) = c
  BY CellHasPosition
<1>2. SlotOK(q, B, H, T, S, P)
  BY DEF Slots
<1>3. q \in Int /\ T \in Int /\ Capacity \in Int /\ Capacity >= 2 /\ S[c] \in Int
  BY Sizes
<1>4. S[c] \in {q, q + 1, q + Capacity} /\ (S[c] = q => q >= T)
  BY <1>1, <1>2, <1>3 DEF SlotOK
<1> QED
  BY <1>1, <1>4

(* The number of a cell never lags behind a position pushed at.            *)
LEMMA CellAhead ==
  ASSUME NEW B \in Int, NEW H \in Int, NEW T \in Int, NEW S \in [Cells -> Int],
         NEW P \in [Threads -> Int], Slots(B, H, T, S, P),
         NEW p \in Int, p < H
  PROVE  \E q \in H - Capacity .. H - 1 :
           /\ p =< q /\ Cell(q) = Cell(p)
           /\ S[Cell(p)] \in {q, q + 1, q + Capacity}
           /\ (S[Cell(p)] = q => q >= T)
<1>1. PICK q \in H - Capacity .. H - 1 :
           /\ Cell(q) = Cell(p)
           /\ S[Cell(p)] \in {q, q + 1, q + Capacity}
           /\ (S[Cell(p)] = q => q >= T)
  <2>1. Cell(p) \in Cells
    BY CellType
  <2> QED
    BY <2>1, SlotOfCell
<1>2. q < p => Cell(q) # Cell(p)
  <2>1. q \in Int /\ H - Capacity =< q /\ Capacity \in Int
    BY Sizes
  <2>2. q < p => q # p /\ p - q < Capacity /\ q - p < Capacity
    BY <2>1, Sizes
  <2> QED
    BY <2>1, <2>2, CellsApart
<1>3. p =< q
  BY <1>1, <1>2, Sizes
<1> QED
  BY <1>1, <1>3

(* The comparisons of the code compare the numbers.                        *)
LEMMA Compared ==
  ASSUME NEW B \in Int, NEW H \in Int, NEW T \in Int, NEW S \in [Cells -> Int],
         NEW P \in [Threads -> Int], Typed, Numbered(B, H, T, S, P),
         NEW p \in Int, B =< p, p =< H, NEW e \in 0 .. 1
  PROVE  Diff(seq[Cell(Wrap(p))], Wrap(p) + e) = S[Cell(p)] - (p + e)
<1>1. Slots(B, H, T, S, P) /\ Cursors(B, H, T) /\ Unwrapped(H, T, S, P)
  BY DEF Numbered
<1>2. Cell(Wrap(p)) = Cell(p)
  <2>1. Wrap(p) + 0 = Wrap(p) /\ p + 0 = p
    BY WrapType, Sizes DEF Word
  <2> QED
    BY <2>1, CellOfWord
<1>3. Cell(p) \in Cells /\ S[Cell(p)] \in Int
  BY CellType
<1>4. seq[Cell(p)] = Wrap(S[Cell(p)])
  BY <1>1, <1>3 DEF Unwrapped
<1>5. PICK q \in H - Capacity .. H - 1 : S[Cell(p)] \in {q, q + 1, q + Capacity}
  BY <1>1, <1>3, SlotOfCell
<1>6. H - B =< MaxPushes
  BY <1>1, Bounded
<1> DEFINE a == S[Cell(p)]
<1>7. a \in Int /\ H - Capacity =< a /\ a =< H + Capacity - 1
  BY <1>3, <1>5, Sizes
<1> HIDE DEF a
<1>8. 2 * (a - (p + e)) < Modulus /\ 2 * ((p + e) - a) =< Modulus
  BY <1>6, <1>7, Sizes
<1>9. Diff(Wrap(a), Wrap(p) + e) = a - (p + e)
  BY <1>7, <1>8, DiffOfWords
<1> QED
  BY <1>2, <1>4, <1>9 DEF a

(* Positions of the history have different words.                          *)
LEMMA NumbersApart ==
  ASSUME NEW B \in Int, NEW H \in Int, NEW T \in Int, Typed, Cursors(B, H, T),
         NEW p \in Int, NEW q \in Int, B =< p, p =< H, B =< q, q =< H,
         Wrap(p) = Wrap(q)
  PROVE  p = q
<1>1. H - B =< MaxPushes
  BY Bounded
<1>2. p - q < Modulus /\ q - p < Modulus
  BY <1>1, Sizes
<1> QED
  BY <1>2, WordsApart

(* What a look at a cell tells.                                            *)
LEMMA Looks ==
  ASSUME NEW B \in Int, NEW H \in Int, NEW T \in Int, NEW S \in [Cells -> Int],
         NEW P \in [Threads -> Int], Typed, Numbered(B, H, T, S, P),
         NEW p \in Int, B =< p, p =< H
  PROVE  /\ Free(Wrap(p)) <=> S[Cell(p)] = p
         /\ CellOccupied(Wrap(p)) <=> S[Cell(p)] < p
         /\ Published(Wrap(p)) <=> S[Cell(p)] = p + 1
         /\ Awaited(Wrap(p)) <=> S[Cell(p)] < p + 1
<1>1. Cell(p) \in Cells /\ S[Cell(p)] \in Int
  BY CellType
<1>2. Diff(seq[Cell(Wrap(p))], Wrap(p) + 0) = S[Cell(p)] - (p + 0)
  BY Compared
<1>3. Wrap(p) + 0 = Wrap(p) /\ p + 0 = p
  BY WrapType, Sizes DEF Word
<1>4. Diff(seq[Cell(Wrap(p))], Wrap(p)) = S[Cell(p)] - p
  BY <1>2, <1>3
<1>5. Diff(seq[Cell(Wrap(p))], Wrap(p) + 1) = S[Cell(p)] - (p + 1)
  BY Compared
<1> QED
  BY <1>1, <1>4, <1>5 DEF Free, CellOccupied, Published, Awaited

(* A cell never lags behind a position the cursor has passed.              *)
LEMMA Passed ==
  ASSUME NEW B \in Int, NEW H \in Int, NEW T \in Int, NEW S \in [Cells -> Int],
         NEW P \in [Threads -> Int], Typed, Numbered(B, H, T, S, P),
         NEW p \in Int
  PROVE  /\ p < H => S[Cell(p)] >= p
         /\ p < T => S[Cell(p)] >= p + 1
<1>1. Slots(B, H, T, S, P) /\ T =< H
  BY DEF Numbered, Cursors
<1>2. SUFFICES ASSUME p < H
      PROVE  S[Cell(p)] >= p /\ (p < T => S[Cell(p)] >= p + 1)
  BY <1>1
<1>3. PICK q \in H - Capacity .. H - 1 :
           /\ p =< q /\ Cell(q) = Cell(p)
           /\ S[Cell(p)] \in {q, q + 1, q + Capacity}
           /\ (S[Cell(p)] = q => q >= T)
  BY <1>1, <1>2, CellAhead
<1> QED
  BY <1>3, Sizes

(* The cell of the next position to push at was last used a round ago.     *)
LEMMA AtHead ==
  ASSUME NEW B \in Int, NEW H \in Int, NEW T \in Int, NEW S \in [Cells -> Int],
         NEW P \in [Threads -> Int], Typed, Numbered(B, H, T, S, P)
  PROVE  /\ S[Cell(H)] \in {H - Capacity, H - Capacity + 1, H}
         /\ SlotOK(H - Capacity, B, H, T, S, P) /\ Cell(H - Capacity) = Cell(H)
<1>1. H - Capacity \in H - Capacity .. H - 1
  BY Sizes
<1>2. SlotOK(H - Capacity, B, H, T, S, P)
  BY <1>1 DEF Numbered, Slots
<1>3. Cell(H - Capacity) = Cell(H)
  BY NextRound
<1>4. Cell(H) \in Cells /\ S[Cell(H)] \in Int /\ (H - Capacity) + Capacity = H
  BY CellType, Sizes
<1>5. H - Capacity >= T \/ H - Capacity < T
  BY Sizes
<1> QED
  BY <1>2, <1>3, <1>4, <1>5 DEF SlotOK

(* A thread that owns nothing before and after a step that leaves the      *)
(* words of the queue alone disturbs only itself.                          *)
LEMMA QuietStep ==
  ASSUME NEW B \in Int, NEW H \in Int, NEW T \in Int, NEW S \in [Cells -> Int],
         NEW P \in [Threads -> Int], NEW Q \in [Threads -> Int],
         NEW t \in Threads, Typed, Numbered(B, H, T, S, P),
         UNCHANGED <<words, i, out>>, Typed',
         \A u \in Threads \ {t} :
           pc'[u] = pc[u] /\ pos'[u] = pos[u] /\ m'[u] = m[u] /\ arg'[u] = arg[u]
           /\ Q[u] = P[u],
         ~Claiming(t), ~Holding(t), ~Claiming(t)', ~Holding(t)',
         pos'[t] = Wrap(Q[t]), Cursors(B, H, T)',
         PushOK(t, B, H, S, Q)', PopOK(t, B, H, T, S, Q)'
  PROVE  Numbered(B, H, T, S, Q)'
<1>1. /\ Unwrapped(H, T, S, P) /\ Owners(B, H, T, S, P) /\ Slots(B, H, T, S, P)
      /\ Locals(B, H, T, S, P)
      /\ head' = head /\ tail' = tail /\ seq' = seq /\ val' = val /\ light' = light
      /\ i' = i /\ out' = out
  BY DEF Numbered, words
<1>2. \A u \in Threads : /\ Claiming(u)' <=> Claiming(u)
                         /\ Holding(u)' <=> Holding(u)
  BY DEF Claiming, Holding
<1>3. \A u \in Threads : Claiming(u) \/ Holding(u) => u \in Threads \ {t}
  OBVIOUS
<1>4. \A u \in Threads \ {t} : Released(u)' = Released(u) /\ Rest(u, Q)' = Rest(u, P)
  BY <1>1 DEF Released, Rest
<1>5. Unwrapped(H, T, S, Q)'
  BY <1>1 DEF Unwrapped
<1>6. Owners(B, H, T, S, Q)'
  <2>1. ASSUME NEW u \in Threads
        PROVE  ClaimOK(u, H, T, S, Q)' /\ HoldOK(u, B, H, T, S, Q)'
    <3>1. ClaimOK(u, H, T, S, P) /\ HoldOK(u, B, H, T, S, P)
      BY <1>1 DEF Owners
    <3>2. ClaimOK(u, H, T, S, Q)'
      BY <1>1, <1>2, <1>3, <3>1 DEF ClaimOK
    <3>3. HoldOK(u, B, H, T, S, Q)'
      BY <1>1, <1>2, <1>3, <1>4, <3>1 DEF HoldOK
    <3> QED
      BY <3>2, <3>3
  <2>2. Apart(Q)'
    BY <1>1, <1>2, <1>3 DEF Owners, Apart
  <2> QED
    BY <2>1, <2>2 DEF Owners
<1>7. Slots(B, H, T, S, Q)'
  <2>1. ASSUME NEW p \in H - Capacity .. H - 1
        PROVE  SlotOK(p, B, H, T, S, Q)'
    <3>1. SlotOK(p, B, H, T, S, P)
      BY <1>1 DEF Slots
    <3>2. (\E u \in Threads : Claiming(u) /\ P[u] = p)
          => \E u \in Threads : Claiming(u)' /\ Q[u] = p
      BY <1>2, <1>3
    <3>3. (\E u \in Threads : Holding(u) /\ p \in Rest(u, P))
          => \E u \in Threads : Holding(u)' /\ p \in Rest(u, Q)'
      BY <1>2, <1>3, <1>4
    <3> QED
      BY <1>1, <3>1, <3>2, <3>3 DEF SlotOK
  <2> QED
    BY <2>1 DEF Slots
<1>8. Locals(B, H, T, S, Q)'
  <2>1. ASSUME NEW u \in Threads \ {t}
        PROVE  PushOK(u, B, H, S, Q)' /\ PopOK(u, B, H, T, S, Q)'
    <3>1. PushOK(u, B, H, S, P) /\ PopOK(u, B, H, T, S, P)
      BY <1>1 DEF Locals
    <3>2. PushOK(u, B, H, S, Q)'
      BY <3>1 DEF PushOK
    <3>3. PopOK(u, B, H, T, S, Q)'
      BY <1>1, <1>2, <3>1 DEF PopOK
    <3> QED
      BY <3>2, <3>3
  <2> QED
    BY <2>1 DEF Locals
<1> QED
  BY <1>5, <1>6, <1>7, <1>8 DEF Numbered

-----------------------------------------------------------------------------
(* Steps that change nothing but the locals of a thread.                   *)

(* Zero is its own word.                                                   *)
LEMMA WrapZero == Wrap(0) = 0
<1>1. Modulus \in Nat \ {0} /\ 0 \in 0 .. Modulus - 1 /\ Modulus * 0 + 0 = 0
  BY Sizes
<1>2. (Modulus * 0 + 0) % Modulus = 0
  BY <1>1, DivisionIsUnique
<1> QED
  BY <1>1, <1>2 DEF Wrap

(* The cursors stay related while the waiting pushes are the same.         *)
LEMMA SameCursors ==
  ASSUME NEW B, NEW H, NEW T, NEW t \in Threads, Cursors(B, H, T),
         \A u \in Threads \ {t} : pc'[u] = pc[u],
         pc[t] \in WaitingLabels <=> pc'[t] \in WaitingLabels,
         pushes' = pushes
  PROVE  Cursors(B, H, T)'
<1>1. Waiting' = Waiting
  BY DEF Waiting, Threads
<1> QED
  BY <1>1 DEF Cursors

CheckLabels == {"popCheck", "scan", "recheck", "popCas", "bulkCas"}

(* A step of a thread that owns nothing, with a new number x for its       *)
(* cursor.                                                                 *)
LEMMA LocalStep ==
  ASSUME NEW B \in Int, NEW H \in Int, NEW T \in Int, NEW S \in [Cells -> Int],
         NEW P \in [Threads -> Int], NEW x \in Int, NEW t \in Threads,
         Typed, Numbered(B, H, T, S, P), Typed',
         UNCHANGED <<words, i, arg, out, pushes>>,
         \A u \in Threads \ {t} : pc'[u] = pc[u] /\ pos'[u] = pos[u] /\ m'[u] = m[u],
         ~Claiming(t), ~Holding(t), ~Claiming(t)', ~Holding(t)',
         pc[t] \in WaitingLabels <=> pc'[t] \in WaitingLabels,
         pos'[t] = Wrap(x),
         pc'[t] \in {"pushCheck", "pushCas"} => B =< x /\ x =< H,
         (pc'[t] = "pushCas" /\ x = H) => S[Cell(H)] = H,
         pc'[t] \in CheckLabels => B =< x /\ x =< T,
         (pc'[t] \in CheckLabels /\ x = T) => Ready(H, T, S, m'[t]),
         pc'[t] \in {"popCheck", "recheck"} => m'[t] = 0,
         pc'[t] \in {"popCas", "bulkCas"} => m'[t] >= 1
  PROVE  \E Q \in [Threads -> Int] : Numbered(B, H, T, S, Q)'
<1> DEFINE Q == [P EXCEPT ![t] = x]
<1>1. Cursors(B, H, T) /\ PushOK(t, B, H, S, P) /\ PopOK(t, B, H, T, S, P)
  BY DEF Numbered, Locals
<1>2. Q \in [Threads -> Int] /\ Q[t] = x /\ \A u \in Threads \ {t} : Q[u] = P[u]
  OBVIOUS
<1> HIDE DEF Q
<1>3. UNCHANGED <<words, i, out>> /\ arg' = arg /\ pushes' = pushes
      /\ out' = out /\ i' = i
  OBVIOUS
<1>4. Cursors(B, H, T)'
  BY <1>1, <1>3, SameCursors
<1>5. PushOK(t, B, H, S, Q)'
  BY <1>1, <1>2, <1>3 DEF PushOK
<1>6. PopOK(t, B, H, T, S, Q)'
  BY <1>1, <1>2, <1>3 DEF PopOK, CheckLabels
<1>7. Numbered(B, H, T, S, Q)'
  BY <1>2, <1>3, <1>4, <1>5, <1>6, QuietStep
<1> QED
  BY <1>2, <1>7

(* push reads the cursor again.                                            *)
LEMMA PushReloadStep ==
  ASSUME NEW B \in Int, NEW H \in Int, NEW T \in Int, NEW S \in [Cells -> Int],
         NEW P \in [Threads -> Int], Typed, Numbered(B, H, T, S, P),
         NEW t \in Pushers, PushReload(t)
  PROVE  Typed' /\ \E Q \in [Threads -> Int] : Numbered(B, H, T, S, Q)'
<1>1. /\ t \in Threads /\ pc[t] \in {"pushLoad", "full"}
      /\ pos' = [pos EXCEPT ![t] = head] /\ pc' = [pc EXCEPT ![t] = "pushCheck"]
      /\ UNCHANGED <<words, m, i, arg, out, pushes, delivered>>
  BY DEF PushReload, Goto, Threads
<1>2. Typed'
  BY <1>1 DEF Typed, words, Labels, WaitingLabels
<1>3. pc'[t] = "pushCheck" /\ pos'[t] = Wrap(H) /\ B =< H
  BY <1>1 DEF Typed, Numbered, Unwrapped, Cursors
<1>4. \A u \in Threads \ {t} : pc'[u] = pc[u] /\ pos'[u] = pos[u] /\ m'[u] = m[u]
  BY <1>1 DEF Typed
<1>5. ~Claiming(t) /\ ~Holding(t) /\ ~Claiming(t)' /\ ~Holding(t)'
  BY <1>1, <1>3 DEF Claiming, Holding
<1>6. UNCHANGED <<words, i, arg, out, pushes>>
  BY <1>1
<1>7. /\ pc[t] \in WaitingLabels /\ pc'[t] \in WaitingLabels
      /\ pc'[t] \notin CheckLabels /\ pc'[t] \notin {"pushCas", "popCheck", "recheck"}
      /\ pc'[t] \notin {"popCas", "bulkCas"}
  BY <1>1, <1>3 DEF WaitingLabels, CheckLabels
<1>8. B =< H /\ H =< H
  BY <1>3
<1> QED
  BY <1>1, <1>2, <1>3, <1>4, <1>5, <1>6, <1>7, <1>8, LocalStep

(* push looks at the cell: if it is that of the current head, what it sees *)
(* stays true until the head moves.                                        *)
LEMMA PushCheckStep ==
  ASSUME NEW B \in Int, NEW H \in Int, NEW T \in Int, NEW S \in [Cells -> Int],
         NEW P \in [Threads -> Int], Typed, Numbered(B, H, T, S, P),
         NEW t \in Pushers, PushCheck(t)
  PROVE  Typed' /\ \E Q \in [Threads -> Int] : Numbered(B, H, T, S, Q)'
<1> DEFINE l == IF Free(pos[t]) THEN "pushCas"
                ELSE IF CellOccupied(pos[t]) THEN "full" ELSE "pushLoad"
<1>1. /\ t \in Threads /\ pc[t] = "pushCheck" /\ pc' = [pc EXCEPT ![t] = l]
      /\ UNCHANGED <<words, local, pushes, delivered>>
  BY DEF PushCheck, Goto, Threads
<1>2. l \in {"pushCas", "full", "pushLoad"} /\ (l = "pushCas" => Free(pos[t]))
  OBVIOUS
<1> HIDE DEF l
<1>3. Typed'
  BY <1>1, <1>2 DEF Typed, words, local, Labels, WaitingLabels
<1>4. pc'[t] = l /\ pos'[t] = Wrap(P[t]) /\ P[t] \in Int /\ pos[t] = Wrap(P[t])
  BY <1>1 DEF Typed, Numbered, Unwrapped, local
<1>5. B =< P[t] /\ P[t] =< H
  BY <1>1 DEF Numbered, Locals, PushOK
<1>6. (l = "pushCas" /\ P[t] = H) => S[Cell(H)] = H
  BY <1>2, <1>4, <1>5, Looks
<1>7. \A u \in Threads \ {t} : pc'[u] = pc[u] /\ pos'[u] = pos[u] /\ m'[u] = m[u]
  BY <1>1 DEF Typed, local
<1>8. ~Claiming(t) /\ ~Holding(t) /\ ~Claiming(t)' /\ ~Holding(t)'
  BY <1>1, <1>2, <1>4 DEF Claiming, Holding
<1>9. UNCHANGED <<words, i, arg, out, pushes>>
  BY <1>1 DEF local
<1> QED
  BY <1>1, <1>2, <1>3, <1>4, <1>5, <1>6, <1>7, <1>8, <1>9, LocalStep
  DEF WaitingLabels, CheckLabels

(* The CAS of push fails.                                                  *)
LEMMA PushLostStep ==
  ASSUME NEW B \in Int, NEW H \in Int, NEW T \in Int, NEW S \in [Cells -> Int],
         NEW P \in [Threads -> Int], Typed, Numbered(B, H, T, S, P),
         NEW t \in Pushers, PushCas(t), head # pos[t]
  PROVE  Typed' /\ \E Q \in [Threads -> Int] : Numbered(B, H, T, S, Q)'
<1>1. /\ t \in Threads /\ pc[t] = "pushCas"
      /\ pos' = [pos EXCEPT ![t] = head] /\ pc' = [pc EXCEPT ![t] = "pushCheck"]
      /\ UNCHANGED <<words, m, i, arg, out, pushes, delivered>>
  BY DEF PushCas, Goto, Threads, words
<1>2. Typed'
  BY <1>1 DEF Typed, words, Labels, WaitingLabels
<1>3. pc'[t] = "pushCheck" /\ pos'[t] = Wrap(H) /\ B =< H
  BY <1>1 DEF Typed, Numbered, Unwrapped, Cursors
<1>4. \A u \in Threads \ {t} : pc'[u] = pc[u] /\ pos'[u] = pos[u] /\ m'[u] = m[u]
  BY <1>1 DEF Typed
<1>5. ~Claiming(t) /\ ~Holding(t) /\ ~Claiming(t)' /\ ~Holding(t)'
  BY <1>1, <1>3 DEF Claiming, Holding
<1>6. UNCHANGED <<words, i, arg, out, pushes>>
  BY <1>1
<1>7. /\ pc[t] \in WaitingLabels /\ pc'[t] \in WaitingLabels
      /\ pc'[t] \notin CheckLabels /\ pc'[t] \notin {"pushCas", "popCheck", "recheck"}
      /\ pc'[t] \notin {"popCas", "bulkCas"}
  BY <1>1, <1>3 DEF WaitingLabels, CheckLabels
<1>8. B =< H /\ H =< H
  BY <1>3
<1> QED
  BY <1>1, <1>2, <1>3, <1>4, <1>5, <1>6, <1>7, <1>8, LocalStep

(* pop reads the cursor.                                                   *)
LEMMA LoadTailStep ==
  ASSUME NEW B \in Int, NEW H \in Int, NEW T \in Int, NEW S \in [Cells -> Int],
         NEW P \in [Threads -> Int], Typed, Numbered(B, H, T, S, P),
         NEW t \in Poppers, NEW first \in {"popCheck", "scan"},
         pc[t] \in {"idle", "popLoad", "bulkLoad"}, LoadTail(t, first)
  PROVE  Typed' /\ \E Q \in [Threads -> Int] : Numbered(B, H, T, S, Q)'
<1>1. /\ t \in Threads
      /\ pos' = [pos EXCEPT ![t] = tail] /\ pc' = [pc EXCEPT ![t] = first]
      /\ m' = [m EXCEPT ![t] = 0]
      /\ UNCHANGED <<words, i, arg, out, pushes, delivered>>
  BY DEF LoadTail, Goto, Threads
<1>2. Typed'
  <2>1. 0 \in 0 .. MaxBulk
    BY Sizes
  <2>2. /\ pos' \in [Threads -> Word] /\ m' \in [Threads -> 0 .. MaxBulk]
        /\ pc' \in [Threads -> Labels]
    BY <1>1, <2>1 DEF Typed, Labels
  <2>3. \A u \in Threads : u # t => pc'[u] = pc[u]
    BY <1>1 DEF Typed
  <2>4. pc'[t] \notin WaitingLabels \cup {"write", "publish"}
    BY <1>1 DEF Typed, WaitingLabels
  <2> QED
    BY <1>1, <2>2, <2>3, <2>4 DEF Typed, words
<1>3. pc'[t] = first /\ pos'[t] = Wrap(T) /\ m'[t] = 0 /\ B =< T /\ T =< T
  BY <1>1 DEF Typed, Numbered, Unwrapped, Cursors
<1>4. \A u \in Threads \ {t} : pc'[u] = pc[u] /\ pos'[u] = pos[u] /\ m'[u] = m[u]
  BY <1>1 DEF Typed
<1>5. ~Claiming(t) /\ ~Holding(t) /\ ~Claiming(t)' /\ ~Holding(t)'
  BY <1>1, <1>3 DEF Claiming, Holding
<1>6. UNCHANGED <<words, i, arg, out, pushes>>
  BY <1>1
<1>7. /\ pc[t] \notin WaitingLabels /\ pc'[t] \notin WaitingLabels
      /\ pc'[t] \notin {"pushCheck", "pushCas", "popCas", "bulkCas"}
  BY <1>1, <1>3 DEF WaitingLabels
<1>8. Ready(H, T, S, m'[t])
  BY <1>3 DEF Ready
<1> QED
  BY <1>1, <1>2, <1>3, <1>4, <1>5, <1>6, <1>7, <1>8, LocalStep

(* pop returns with nothing, or pop_bulk starts over.                      *)
LEMMA PopDropStep ==
  ASSUME NEW B \in Int, NEW H \in Int, NEW T \in Int, NEW S \in [Cells -> Int],
         NEW P \in [Threads -> Int], Typed, Numbered(B, H, T, S, P),
         NEW t \in Poppers, NEW l \in {"idle", "bulkLoad"}, pc[t] \in CheckLabels,
         pos' = [pos EXCEPT ![t] = 0], pc' = [pc EXCEPT ![t] = l],
         m' = [m EXCEPT ![t] = 0],
         UNCHANGED <<words, i, arg, out, pushes>>
  PROVE  Typed' /\ \E Q \in [Threads -> Int] : Numbered(B, H, T, S, Q)'
<1>1. t \in Threads
  BY DEF Threads
<1>2. Typed'
  <2>1. 0 \in Word /\ 0 \in 0 .. MaxBulk
    BY Sizes DEF Word
  <2>2. pc[t] \notin WaitingLabels \cup {"idle", "write", "publish"}
    BY DEF CheckLabels, WaitingLabels
  <2> QED
    BY <1>1, <2>1, <2>2 DEF Typed, words, Labels, WaitingLabels
<1>3. pc'[t] = l /\ pos'[t] = Wrap(0) /\ 0 \in Int
  BY <1>1, WrapZero DEF Typed
<1>4. \A u \in Threads \ {t} : pc'[u] = pc[u] /\ pos'[u] = pos[u] /\ m'[u] = m[u]
  BY <1>1 DEF Typed
<1>5. ~Claiming(t) /\ ~Holding(t) /\ ~Claiming(t)' /\ ~Holding(t)'
  BY <1>1, <1>3 DEF Claiming, Holding, CheckLabels
<1>6. /\ pc[t] \notin WaitingLabels /\ pc'[t] \notin WaitingLabels
      /\ pc'[t] \notin CheckLabels /\ pc'[t] \notin {"pushCheck", "pushCas"}
      /\ pc'[t] \notin {"popCheck", "recheck", "popCas", "bulkCas", "pushCas"}
  BY <1>1, <1>3 DEF WaitingLabels, CheckLabels
<1> QED
  BY <1>1, <1>2, <1>3, <1>4, <1>5, <1>6, LocalStep

(* A value seen at the current tail is there: a pop can claim it.          *)
LEMMA ReadyAtTail ==
  ASSUME NEW B \in Int, NEW H \in Int, NEW T \in Int, NEW S \in [Cells -> Int],
         NEW P \in [Threads -> Int], Typed, Numbered(B, H, T, S, P),
         NEW k \in Nat, Published(Wrap(T + k)), Ready(H, T, S, k)
  PROVE  Ready(H, T, S, k + 1)
<1>1. B =< T /\ T =< H
  BY DEF Numbered, Cursors
<1>2. T + k =< H
  <2>1. CASE k = 0
    BY <1>1, <2>1
  <2>2. CASE k > 0
    <3>1. k - 1 \in 0 .. k - 1
      BY <2>2
    <3>2. T + (k - 1) < H
      BY <3>1 DEF Ready
    <3> QED
      BY <2>2, <3>2
  <2> QED
    BY <2>1, <2>2
<1>3. T + k \in Int /\ B =< T + k
  BY <1>1
<1>4. S[Cell(T + k)] = T + k + 1
  BY <1>2, <1>3, Looks
<1>5. T + k # H
  <2>1. S[Cell(H)] \in {H - Capacity, H - Capacity + 1, H}
    BY AtHead
  <2> QED
    BY <1>4, <2>1, Sizes
<1> QED
  BY <1>2, <1>4, <1>5 DEF Ready

(* pop looks at the cell: it returns, or is ready to take one value.       *)
LEMMA PopCheckStep ==
  ASSUME NEW B \in Int, NEW H \in Int, NEW T \in Int, NEW S \in [Cells -> Int],
         NEW P \in [Threads -> Int], Typed, Numbered(B, H, T, S, P),
         NEW t \in Poppers, PopCheck(t)
  PROVE  Typed' /\ \E Q \in [Threads -> Int] : Numbered(B, H, T, S, Q)'
<1>1. t \in Threads /\ pc[t] = "popCheck" /\ UNCHANGED <<words, i, arg, out, pushes>>
  BY DEF PopCheck, Threads
<1>2. CASE Awaited(pos[t])
  <2>1. /\ pos' = [pos EXCEPT ![t] = 0] /\ pc' = [pc EXCEPT ![t] = "idle"]
        /\ m' = [m EXCEPT ![t] = 0]
    BY <1>2 DEF PopCheck, ReturnEmpty, Goto
  <2>2. pc[t] \in CheckLabels
    BY <1>1 DEF CheckLabels
  <2> QED
    BY <1>1, <2>1, <2>2, PopDropStep
<1>3. CASE ~Awaited(pos[t])
  <2> DEFINE l == IF Published(pos[t]) THEN "popCas" ELSE "popLoad"
             k == IF Published(pos[t]) THEN 1 ELSE 0
  <2>1. /\ pos' = pos /\ pc' = [pc EXCEPT ![t] = l]
        /\ m' = [m EXCEPT ![t] = k]
    BY <1>3 DEF PopCheck, Goto
  <2>2. \/ l = "popCas" /\ k = 1 /\ Published(pos[t])
        \/ l = "popLoad" /\ k = 0
    OBVIOUS
  <2> HIDE DEF l, k
  <2>3. Typed'
    <3>1. 0 \in 0 .. MaxBulk /\ 1 \in 0 .. MaxBulk
      BY Sizes
    <3>2. m' \in [Threads -> 0 .. MaxBulk]
      BY <2>1, <2>2, <3>1 DEF Typed
    <3>3. pc' \in [Threads -> Labels]
      BY <2>1, <2>2 DEF Typed, Labels
    <3>4. \A u \in Threads : u # t => pc'[u] = pc[u]
      BY <2>1 DEF Typed
    <3>5. pc'[t] \notin WaitingLabels \cup {"write", "publish"}
      BY <1>1, <2>1, <2>2 DEF Typed, WaitingLabels
    <3> QED
      BY <1>1, <2>1, <3>2, <3>3, <3>4, <3>5 DEF Typed, words
  <2>4. /\ pc'[t] = l /\ m'[t] = k /\ pos'[t] = Wrap(P[t]) /\ P[t] \in Int
        /\ pos[t] = Wrap(P[t])
    BY <1>1, <2>1 DEF Typed, Numbered, Unwrapped
  <2>5. B =< P[t] /\ P[t] =< T
    BY <1>1 DEF Numbered, Locals, PopOK
  <2>6. (l = "popCas" /\ P[t] = T) => Ready(H, T, S, k)
    <3>1. SUFFICES ASSUME l = "popCas", P[t] = T
          PROVE  Ready(H, T, S, 0 + 1)
      BY <2>2
    <3>2. Published(Wrap(T + 0)) /\ 0 \in Nat
      BY <2>2, <2>4, <3>1
    <3>3. Ready(H, T, S, 0)
      BY DEF Ready
    <3> QED
      BY <3>2, <3>3, ReadyAtTail
  <2>7. \A u \in Threads \ {t} : pc'[u] = pc[u] /\ pos'[u] = pos[u] /\ m'[u] = m[u]
    BY <2>1 DEF Typed
  <2>8. ~Claiming(t) /\ ~Holding(t) /\ ~Claiming(t)' /\ ~Holding(t)'
    BY <1>1, <2>2, <2>4 DEF Claiming, Holding
  <2>9. /\ pc[t] \notin WaitingLabels /\ pc'[t] \notin WaitingLabels
        /\ pc'[t] \notin {"pushCheck", "pushCas", "popCheck", "recheck"}
        /\ (pc'[t] \in CheckLabels => l = "popCas")
        /\ (pc'[t] \in {"popCas", "bulkCas"} => m'[t] >= 1)
    BY <1>1, <2>2, <2>4 DEF WaitingLabels, CheckLabels
  <2> QED
    BY <1>1, <2>3, <2>4, <2>5, <2>6, <2>7, <2>8, <2>9, LocalStep
<1> QED
  BY <1>2, <1>3

(* The scan of pop_bulk.                                                   *)
LEMMA BulkScanStep ==
  ASSUME NEW B \in Int, NEW H \in Int, NEW T \in Int, NEW S \in [Cells -> Int],
         NEW P \in [Threads -> Int], Typed, Numbered(B, H, T, S, P),
         NEW t \in Poppers, BulkScan(t)
  PROVE  Typed' /\ \E Q \in [Threads -> Int] : Numbered(B, H, T, S, Q)'
<1>1. /\ t \in Threads /\ pc[t] = "scan"
      /\ UNCHANGED <<words, pos, i, arg, out, pushes, delivered>>
  BY DEF BulkScan, Threads
<1>2. m[t] \in 0 .. MaxBulk /\ P[t] \in Int /\ pos[t] = Wrap(P[t])
  BY <1>1 DEF Typed, Numbered, Unwrapped
<1>3. /\ B =< P[t] /\ P[t] =< T
      /\ P[t] = T => Ready(H, T, S, m[t])
  BY <1>1 DEF Numbered, Locals, PopOK
<1>4. UNCHANGED <<words, i, arg, out, pushes>> /\ pos' = pos
  BY <1>1
<1>5. CASE m[t] < MaxBulk /\ Published(Wrap(pos[t] + m[t]))
  <2>1. m' = [m EXCEPT ![t] = m[t] + 1] /\ pc' = pc
    BY <1>5 DEF BulkScan
  <2>2. m[t] + 1 \in 0 .. MaxBulk
    BY <1>2, <1>5, Sizes
  <2>3. Typed'
    BY <1>1, <2>1, <2>2 DEF Typed, words
  <2>4. m'[t] = m[t] + 1 /\ m[t] \in Nat /\ (m[t] + 1) - 1 = m[t]
    BY <1>1, <1>2, <2>1, Sizes DEF Typed
  <2>5. P[t] = T => Ready(H, T, S, m[t] + 1)
    <3>1. m[t] \in Int /\ m[t] \in Nat
      BY <1>2, Sizes
    <3>2. Wrap(Wrap(T) + m[t]) = Wrap(T + m[t])
      BY <3>1, WrapTwice
    <3>3. ASSUME P[t] = T
          PROVE  Published(Wrap(T + m[t])) /\ Ready(H, T, S, m[t])
      <4>1. Published(Wrap(Wrap(P[t]) + m[t]))
        BY <1>2, <1>5, Zenon
      <4>2. Published(Wrap(Wrap(T) + m[t]))
        BY <3>3, <4>1, Zenon
      <4> QED
        BY <1>3, <3>2, <3>3, <4>2, Zenon
    <3> QED
      BY <3>1, <3>3, ReadyAtTail
  <2>6. \A u \in Threads \ {t} : pc'[u] = pc[u] /\ pos'[u] = pos[u] /\ m'[u] = m[u]
    BY <1>1, <2>1 DEF Typed
  <2>7. ~Claiming(t) /\ ~Holding(t) /\ ~Claiming(t)' /\ ~Holding(t)'
    BY <1>1, <2>1 DEF Claiming, Holding
  <2>8. /\ pc[t] \notin WaitingLabels /\ pc'[t] \notin WaitingLabels
        /\ pc'[t] \notin {"pushCheck", "pushCas", "popCheck", "recheck"}
        /\ pc'[t] \notin {"popCas", "bulkCas"}
    BY <1>1, <2>1 DEF WaitingLabels
  <2>9. pos'[t] = Wrap(P[t])
    BY <1>2, <1>4
  <2> QED
    BY <1>1, <1>2, <1>3, <1>4, <2>3, <2>4, <2>5, <2>6, <2>7, <2>8, <2>9, LocalStep
<1>6. CASE ~(m[t] < MaxBulk /\ Published(Wrap(pos[t] + m[t])))
  <2> DEFINE l == IF m[t] = 0 THEN "recheck" ELSE "bulkCas"
  <2>1. m' = m /\ pc' = [pc EXCEPT ![t] = l]
    BY <1>6 DEF BulkScan, Goto
  <2>2. \/ l = "recheck" /\ m[t] = 0
        \/ l = "bulkCas" /\ m[t] >= 1
    BY <1>2, Sizes
  <2> HIDE DEF l
  <2>3. Typed'
    BY <1>1, <2>1, <2>2 DEF Typed, words, Labels, WaitingLabels
  <2>4. pc'[t] = l /\ m'[t] = m[t]
    BY <1>1, <2>1 DEF Typed
  <2>5. \A u \in Threads \ {t} : pc'[u] = pc[u] /\ pos'[u] = pos[u] /\ m'[u] = m[u]
    BY <1>1, <2>1 DEF Typed
  <2>6. ~Claiming(t) /\ ~Holding(t) /\ ~Claiming(t)' /\ ~Holding(t)'
    BY <1>1, <2>2, <2>4 DEF Claiming, Holding
  <2>7. /\ pc[t] \notin WaitingLabels /\ pc'[t] \notin WaitingLabels
        /\ pc'[t] \notin {"pushCheck", "pushCas"}
        /\ (pc'[t] \in {"popCheck", "recheck"} => m'[t] = 0)
        /\ (pc'[t] \in {"popCas", "bulkCas"} => m'[t] >= 1)
    BY <1>1, <2>2, <2>4 DEF WaitingLabels
  <2>8. pos'[t] = Wrap(P[t])
    BY <1>2, <1>4
  <2> QED
    BY <1>1, <1>2, <1>3, <1>4, <2>3, <2>4, <2>5, <2>6, <2>7, <2>8, LocalStep
<1> QED
  BY <1>5, <1>6

(* The second look at the first cell.                                      *)
LEMMA BulkRecheckStep ==
  ASSUME NEW B \in Int, NEW H \in Int, NEW T \in Int, NEW S \in [Cells -> Int],
         NEW P \in [Threads -> Int], Typed, Numbered(B, H, T, S, P),
         NEW t \in Poppers, BulkRecheck(t)
  PROVE  Typed' /\ \E Q \in [Threads -> Int] : Numbered(B, H, T, S, Q)'
<1>1. t \in Threads /\ pc[t] = "recheck" /\ UNCHANGED <<words, i, arg, out, pushes>>
  BY DEF BulkRecheck, Threads
<1>2. CASE Awaited(pos[t])
  <2>1. /\ pos' = [pos EXCEPT ![t] = 0] /\ pc' = [pc EXCEPT ![t] = "idle"]
        /\ m' = [m EXCEPT ![t] = 0]
    BY <1>2 DEF BulkRecheck, ReturnEmpty, Goto
  <2>2. pc[t] \in CheckLabels
    BY <1>1 DEF CheckLabels
  <2> QED
    BY <1>1, <2>1, <2>2, PopDropStep
<1>3. CASE ~Awaited(pos[t])
  <2>1. pos' = pos /\ m' = m /\ pc' = [pc EXCEPT ![t] = "bulkLoad"]
    BY <1>3 DEF BulkRecheck, Goto
  <2>2. Typed'
    BY <1>1, <2>1 DEF Typed, words, Labels, WaitingLabels
  <2>3. pc'[t] = "bulkLoad" /\ pos'[t] = Wrap(P[t]) /\ P[t] \in Int
    BY <1>1, <2>1 DEF Typed, Numbered, Unwrapped
  <2>4. \A u \in Threads \ {t} : pc'[u] = pc[u] /\ pos'[u] = pos[u] /\ m'[u] = m[u]
    BY <1>1, <2>1 DEF Typed
  <2>5. ~Claiming(t) /\ ~Holding(t) /\ ~Claiming(t)' /\ ~Holding(t)'
    BY <1>1, <2>3 DEF Claiming, Holding
  <2>6. /\ pc[t] \notin WaitingLabels /\ pc'[t] \notin WaitingLabels
        /\ pc'[t] \notin CheckLabels /\ pc'[t] \notin {"pushCheck", "pushCas"}
        /\ pc'[t] \notin {"popCheck", "recheck", "popCas", "bulkCas", "pushCas"}
    BY <1>1, <2>3 DEF WaitingLabels, CheckLabels
  <2> QED
    BY <1>1, <2>2, <2>3, <2>4, <2>5, <2>6, LocalStep
<1> QED
  BY <1>2, <1>3

(* The CAS of a pop fails.                                                 *)
LEMMA PopLostStep ==
  ASSUME NEW B \in Int, NEW H \in Int, NEW T \in Int, NEW S \in [Cells -> Int],
         NEW P \in [Threads -> Int], Typed, Numbered(B, H, T, S, P),
         NEW t \in Poppers, PopCas(t), ~TailUnchanged(t)
  PROVE  Typed' /\ \E Q \in [Threads -> Int] : Numbered(B, H, T, S, Q)'
<1>1. /\ t \in Threads /\ pc[t] \in {"popCas", "bulkCas"}
      /\ UNCHANGED <<words, i, arg, out, pushes>> /\ m' = [m EXCEPT ![t] = 0]
  BY DEF PopCas, Threads, words
<1>2. CASE pc[t] = "popCas"
  <2>1. pos' = [pos EXCEPT ![t] = tail] /\ pc' = [pc EXCEPT ![t] = "popCheck"]
    BY <1>2 DEF PopCas, Goto
  <2>2. Typed'
    BY <1>1, <2>1, Sizes DEF Typed, words, Labels, WaitingLabels
  <2>3. pc'[t] = "popCheck" /\ pos'[t] = Wrap(T) /\ m'[t] = 0 /\ B =< T /\ T =< T
    BY <1>1, <2>1 DEF Typed, Numbered, Unwrapped, Cursors
  <2>4. \A u \in Threads \ {t} : pc'[u] = pc[u] /\ pos'[u] = pos[u] /\ m'[u] = m[u]
    BY <1>1, <2>1 DEF Typed
  <2>5. ~Claiming(t) /\ ~Holding(t) /\ ~Claiming(t)' /\ ~Holding(t)'
    BY <1>2, <2>3 DEF Claiming, Holding
  <2>6. /\ pc[t] \notin WaitingLabels /\ pc'[t] \notin WaitingLabels
        /\ pc'[t] \notin {"pushCheck", "pushCas", "popCas", "bulkCas"}
    BY <1>2, <2>3 DEF WaitingLabels
  <2>7. Ready(H, T, S, m'[t])
    BY <2>3 DEF Ready
  <2> QED
    BY <1>1, <2>2, <2>3, <2>4, <2>5, <2>6, <2>7, LocalStep
<1>3. CASE pc[t] = "bulkCas"
  <2>1. pos' = [pos EXCEPT ![t] = 0] /\ pc' = [pc EXCEPT ![t] = "bulkLoad"]
    BY <1>3 DEF PopCas, Goto
  <2>2. pc[t] \in CheckLabels
    BY <1>3 DEF CheckLabels
  <2> QED
    BY <1>1, <2>1, <2>2, PopDropStep
<1> QED
  BY <1>1, <1>2, <1>3

(* A push begins: one more waits.                                          *)
LEMMA BeginPushStep ==
  ASSUME NEW B \in Int, NEW H \in Int, NEW T \in Int, NEW S \in [Cells -> Int],
         NEW P \in [Threads -> Int], Typed, Numbered(B, H, T, S, P),
         NEW t \in Pushers, BeginPush(t)
  PROVE  Typed' /\ \E Q \in [Threads -> Int] : Numbered(B, H, T, S, Q)'
<1> DEFINE Q == [P EXCEPT ![t] = H]
<1>1. /\ t \in Threads /\ pc[t] = "idle" /\ pushes < MaxPushes
      /\ pushes' = pushes + 1 /\ arg' = [arg EXCEPT ![t] = pushes + 1]
      /\ pos' = [pos EXCEPT ![t] = head] /\ pc' = [pc EXCEPT ![t] = "pushCheck"]
      /\ UNCHANGED <<words, m, i, out, delivered>>
  BY DEF BeginPush, Goto, Threads
<1>2. pushes + 1 \in 1 .. MaxPushes
  BY <1>1, Sizes DEF Typed
<1>3. Typed'
  <2>1. pos' \in [Threads -> Word] /\ arg' \in [Threads -> 0 .. MaxPushes]
    BY <1>1, <1>2, Sizes DEF Typed
  <2>2. pc' \in [Threads -> Labels] /\ pushes' \in 0 .. MaxPushes
    BY <1>1, <1>2, Sizes DEF Typed, Labels, WaitingLabels
  <2>3. \A u \in Threads : u # t => pc'[u] = pc[u]
    BY <1>1 DEF Typed
  <2>4. pc'[t] = "pushCheck" /\ "pushCheck" \in WaitingLabels
    BY <1>1 DEF Typed, WaitingLabels
  <2>5. \A u \in Threads :
          /\ pc'[u] \in WaitingLabels \cup {"write", "publish"} => u \in Pushers
          /\ pc'[u] \notin WaitingLabels \cup {"idle", "write", "publish"} => u \in Poppers
    BY <2>3, <2>4 DEF Typed
  <2>6. /\ head' \in Word /\ tail' \in Word
        /\ seq' \in [Cells -> Word] /\ val' \in [Cells -> 0 .. MaxPushes]
        /\ light' \in BOOLEAN
        /\ m' \in [Threads -> 0 .. MaxBulk] /\ i' \in [Threads -> 0 .. MaxBulk]
        /\ out' \in [Threads -> Seq(1 .. MaxPushes)]
    BY <1>1 DEF Typed, words
  <2> QED BY <2>1, <2>2, <2>5, <2>6 DEF Typed
<1>4. pc'[t] = "pushCheck" /\ pos'[t] = Wrap(H) /\ arg'[t] = pushes + 1
  BY <1>1 DEF Typed, Numbered, Unwrapped
<1>5. Cursors(B, H, T) /\ PopOK(t, B, H, T, S, P)
  BY <1>1 DEF Numbered, Locals
<1>6. Q \in [Threads -> Int] /\ Q[t] = H
  BY <1>1
<1>7. \A u \in Threads \ {t} :
           pc'[u] = pc[u] /\ pos'[u] = pos[u] /\ m'[u] = m[u] /\ arg'[u] = arg[u]
           /\ Q[u] = P[u]
  BY <1>1 DEF Typed
<1> HIDE DEF Q
<1>8. ~Claiming(t) /\ ~Holding(t) /\ ~Claiming(t)' /\ ~Holding(t)'
  BY <1>1, <1>4 DEF Claiming, Holding
<1>9. Cursors(B, H, T)'
  <2>1. Waiting' = Waiting \cup {t} /\ t \notin Waiting
    BY <1>1, <1>4, <1>7 DEF Waiting, WaitingLabels, Threads
  <2>2. IsFiniteSet(Waiting) /\ Cardinality(Waiting) \in Nat
    BY <1>5, Bounded
  <2>3. Cardinality(Waiting') = Cardinality(Waiting) + 1
    BY <2>1, <2>2, FS_AddElement
  <2>4. (H - B) + Cardinality(Waiting) = pushes /\ pushes \in Nat
    BY <1>5, Sizes DEF Cursors, Typed
  <2>5. (H - B) + (Cardinality(Waiting) + 1) = pushes + 1
    <3> DEFINE c == Cardinality(Waiting)
    <3>1. c \in Nat /\ (H - B) + c = pushes /\ pushes \in Nat
      BY <2>2, <2>4
    <3> HIDE DEF c
    <3>2. (H - B) + (c + 1) = pushes + 1
      BY <3>1
    <3> QED
      BY <3>2 DEF c
  <2> QED
    BY <1>1, <1>5, <2>3, <2>5 DEF Cursors
<1>10. PushOK(t, B, H, S, Q)'
  BY <1>2, <1>4, <1>5, <1>6 DEF PushOK, Cursors, WaitingLabels
<1>11. PopOK(t, B, H, T, S, Q)'
  BY <1>1, <1>4, <1>5, <1>8 DEF PopOK
<1>12. pos'[t] = Wrap(Q[t]) /\ UNCHANGED <<words, i, out>>
  BY <1>1, <1>4, <1>6
<1>13. Numbered(B, H, T, S, Q)'
  BY <1>1, <1>3, <1>6, <1>7, <1>8, <1>9, <1>10, <1>11, <1>12, QuietStep
<1> QED
  BY <1>3, <1>6, <1>13

-----------------------------------------------------------------------------
(* Steps that move a cursor or change a cell.                              *)

(* The CAS of push succeeds: the queue grows by the position H, whose cell *)
(* is free.                                                                *)
LEMMA PushWonStep ==
  ASSUME NEW B \in Int, NEW H \in Int, NEW T \in Int, NEW S \in [Cells -> Int],
         NEW P \in [Threads -> Int], Typed, Numbered(B, H, T, S, P),
         NEW t \in Pushers, PushCas(t), head = pos[t]
  PROVE  /\ Typed' /\ Numbered(B, H + 1, T, S, P)'
         /\ P[t] = H /\ S[Cell(H)] = H /\ H < T + Capacity
<1>1. /\ t \in Threads /\ pc[t] = "pushCas"
      /\ head' = Wrap(head + 1) /\ pc' = [pc EXCEPT ![t] = "write"]
      /\ UNCHANGED <<tail, seq, val, light, pos, m, i, arg, out, pushes, delivered>>
  BY DEF PushCas, Goto, Threads
<1>2. /\ Unwrapped(H, T, S, P) /\ Cursors(B, H, T) /\ Owners(B, H, T, S, P)
      /\ Slots(B, H, T, S, P) /\ Locals(B, H, T, S, P)
  BY DEF Numbered
<1>3. /\ pos[t] = Wrap(P[t]) /\ head = Wrap(H) /\ P[t] \in Int
      /\ PushOK(t, B, H, S, P) /\ PopOK(t, B, H, T, S, P)
  BY <1>1, <1>2 DEF Unwrapped, Locals
<1>4. B =< P[t] /\ P[t] =< H /\ B =< T /\ T =< H /\ H =< T + Capacity
  BY <1>1, <1>2, <1>3 DEF PushOK, Cursors
<1>5. P[t] = H
  <2>1. B =< H /\ H =< H /\ Wrap(P[t]) = Wrap(H)
    BY <1>3, <1>4
  <2> QED
    BY <1>2, <1>3, <1>4, <2>1, NumbersApart
<1>6. S[Cell(H)] = H /\ arg[t] \in 1 .. MaxPushes
  BY <1>1, <1>3, <1>5 DEF PushOK, WaitingLabels
<1>7. Cell(H - Capacity) = Cell(H) /\ SlotOK(H - Capacity, B, H, T, S, P)
  BY AtHead
<1>8. H < T + Capacity
  <2>1. H = T + Capacity => S[Cell(H)] = T \/ S[Cell(H)] = T + 1
    BY <1>7, Sizes DEF SlotOK
  <2> QED
    BY <1>4, <1>6, <2>1, Sizes
<1>9. pc'[t] = "write" /\ \A u \in Threads \ {t} : pc'[u] = pc[u]
  BY <1>1 DEF Typed
<1>10. Typed'
  <2>1. head' \in Word
    <3>1. Wrap(H) + 1 \in Int
      BY WrapType, Sizes DEF Word
    <3> QED
      BY <1>1, <1>3, <3>1, WrapType
  <2> QED
    BY <1>1, <2>1 DEF Typed, Labels, WaitingLabels
<1>11. /\ Claiming(t)' /\ ~Claiming(t) /\ ~Holding(t)' /\ ~Holding(t)
       /\ \A u \in Threads \ {t} : /\ Claiming(u)' <=> Claiming(u)
                                   /\ Holding(u)' <=> Holding(u)
  BY <1>1, <1>9 DEF Claiming, Holding
<1>12. \A u \in Threads \ {t} : Released(u)' = Released(u) /\ Rest(u, P)' = Rest(u, P)
  BY <1>1, <1>9 DEF Released, Rest
<1>13. Unwrapped(H + 1, T, S, P)'
  <2>1. Wrap(Wrap(H) + 1) = Wrap(H + 1)
    BY WrapTwice
  <2> QED
    BY <1>1, <1>2, <1>3, <2>1 DEF Unwrapped
<1>14. Cursors(B, H + 1, T)'
  <2>1. Waiting' = Waiting \ {t} /\ t \in Waiting
    BY <1>1, <1>9 DEF Waiting, WaitingLabels, Threads
  <2>2. IsFiniteSet(Waiting) /\ Cardinality(Waiting) \in Nat
    BY <1>2, Bounded
  <2>3. Cardinality(Waiting') = Cardinality(Waiting) - 1
    BY <2>1, <2>2, FS_RemoveElement
  <2>4. (H - B) + Cardinality(Waiting) = pushes
    BY <1>2 DEF Cursors
  <2> DEFINE k == Cardinality(Waiting)
  <2>5. k \in Int /\ Cardinality(Waiting') = k - 1 /\ (H - B) + k = pushes
    BY <2>2, <2>3, <2>4
  <2> HIDE DEF k
  <2>6. ((H + 1) - B) + (k - 1) = pushes
    BY <2>5
  <2> QED
    BY <1>1, <1>4, <1>8, <2>5, <2>6, Sizes DEF Cursors
<1>15. Owners(B, H + 1, T, S, P)'
  <2>1. ASSUME NEW u \in Threads
        PROVE  ClaimOK(u, H + 1, T, S, P)' /\ HoldOK(u, B, H + 1, T, S, P)'
    <3>1. ClaimOK(u, H, T, S, P) /\ HoldOK(u, B, H, T, S, P) /\ P[u] \in Int
      BY <1>2 DEF Owners
    <3>2. ClaimOK(u, H + 1, T, S, P)'
      <4>1. CASE u = t
        BY <1>1, <1>4, <1>5, <1>6, <1>9, <4>1 DEF ClaimOK
      <4>2. CASE u # t
        BY <1>1, <1>9, <1>11, <3>1, <4>2 DEF ClaimOK
      <4> QED
        BY <4>1, <4>2
    <3>3. HoldOK(u, B, H + 1, T, S, P)'
      <4>1. SUFFICES ASSUME u # t, Holding(u)
            PROVE  HoldOK(u, B, H + 1, T, S, P)'
        BY <1>11 DEF HoldOK
      <4>2. Rest(u, P)' = Rest(u, P) /\ Released(u)' = Released(u)
        BY <1>12, <4>1
      <4>3. Released(u) \in Int /\ m[u] \in Int /\ Released(u) < m[u]
        BY <3>1, <4>1, Sizes DEF Typed, Released, HoldOK
      <4>4. P[u] + Released(u) # H - Capacity
        <5>1. SUFFICES ASSUME P[u] + Released(u) = H - Capacity
              PROVE  FALSE
          OBVIOUS
        <5>2. H - Capacity \in Rest(u, P)
          BY <3>1, <4>3, <5>1, Sizes DEF Rest
        <5>3. S[Cell(H)] = (H - Capacity) + 1
          BY <1>7, <3>1, <4>1, <5>2 DEF HoldOK
        <5> QED
          BY <1>6, <5>3, Sizes
      <4>5. H - Capacity =< P[u] + Released(u)
        BY <3>1, <4>1 DEF HoldOK
      <4>6. (H + 1) - Capacity =< P[u] + Released(u)
        BY <3>1, <4>3, <4>4, <4>5, Sizes
      <4>7. /\ pc'[u] = pc[u] /\ m' = m /\ i' = i /\ out' = out /\ light' = light
        BY <1>1, <1>9, <4>1
      <4>8. (H + 1) - Capacity =< P[u] + Released(u)'
        BY <4>2, <4>6
      <4> QED
        BY <3>1, <4>1, <4>2, <4>7, <4>8 DEF HoldOK
    <3> QED
      BY <3>2, <3>3
  <2>2. \A u \in Threads : Claiming(u) => P[u] # H
    BY <1>2 DEF Owners, ClaimOK
  <2>3. Apart(P)'
    BY <1>1, <1>2, <1>5, <1>11, <2>2 DEF Owners, Apart
  <2> QED
    BY <2>1, <2>3 DEF Owners
<1>16. Slots(B, H + 1, T, S, P)'
  <2>1. ASSUME NEW p \in (H + 1) - Capacity .. (H + 1) - 1
        PROVE  SlotOK(p, B, H + 1, T, S, P)'
    <3>1. CASE p = H
      <4>1. \E u \in Threads : Claiming(u)' /\ P[u] = p
        BY <1>1, <1>5, <1>11, <3>1
      <4>2. S[Cell(p)] = p /\ p >= T
        BY <1>4, <1>6, <3>1
      <4>3. ~(p < T) /\ S[Cell(p)] # p + 1
        BY <4>2, Sizes
      <4> QED
        BY <4>1, <4>2, <4>3 DEF SlotOK
    <3>2. CASE p # H
      <4>1. p \in H - Capacity .. H - 1
        BY <3>2, Sizes
      <4>2. SlotOK(p, B, H, T, S, P)
        BY <1>2, <4>1 DEF Slots
      <4>3. (\E u \in Threads : Claiming(u) /\ P[u] = p)
            => \E u \in Threads : Claiming(u)' /\ P[u] = p
        BY <1>11
      <4>4. (\E u \in Threads : Holding(u) /\ p \in Rest(u, P))
            => \E u \in Threads : Holding(u)' /\ p \in Rest(u, P)'
        BY <1>11, <1>12
      <4> QED
        BY <1>1, <4>2, <4>3, <4>4 DEF SlotOK
    <3> QED
      BY <3>1, <3>2
  <2> QED
    BY <2>1 DEF Slots
<1>17. Locals(B, H + 1, T, S, P)'
  <2>1. ASSUME NEW u \in Threads
        PROVE  PushOK(u, B, H + 1, S, P)' /\ PopOK(u, B, H + 1, T, S, P)'
    <3>1. PushOK(u, B, H, S, P) /\ PopOK(u, B, H, T, S, P) /\ P[u] \in Int
      BY <1>2 DEF Locals
    <3>2. PushOK(u, B, H + 1, S, P)'
      BY <1>1, <1>9, <3>1 DEF PushOK, WaitingLabels
    <3>3. Ready(H, T, S, m[u]) => Ready(H + 1, T, S, m[u])
      BY DEF Ready
    <3>4. PopOK(u, B, H + 1, T, S, P)'
      <4>1. CASE u = t
        BY <1>1, <1>3, <1>9, <1>11, <4>1 DEF PopOK
      <4>2. CASE u # t
        BY <1>1, <1>9, <1>11, <3>1, <3>3, <4>2 DEF PopOK
      <4> QED
        BY <4>1, <4>2
    <3> QED
      BY <3>2, <3>4
  <2> QED
    BY <2>1 DEF Locals
<1> QED
  BY <1>5, <1>6, <1>8, <1>10, <1>13, <1>14, <1>15, <1>16, <1>17 DEF Numbered

(* The CAS of a pop succeeds: its values leave the queue.                  *)
LEMMA PopWonStep ==
  ASSUME NEW B \in Int, NEW H \in Int, NEW T \in Int, NEW S \in [Cells -> Int],
         NEW P \in [Threads -> Int], Typed, Numbered(B, H, T, S, P),
         NEW t \in Poppers, PopCas(t), TailUnchanged(t),
         NEW k \in Nat, m[t] = k
  PROVE  /\ Typed' /\ Numbered(B, H, T + k, S, P)'
         /\ P[t] = T /\ k >= 1 /\ T + k =< H /\ Ready(H, T, S, k)
         /\ ~Claiming(t)
<1>1. /\ t \in Threads /\ pc[t] \in {"popCas", "bulkCas"}
      /\ tail' = Wrap(tail + k) /\ pc' = [pc EXCEPT ![t] = "read"]
      /\ UNCHANGED <<head, seq, val, light, pos, m, i, arg, out, pushes, delivered>>
  BY DEF PopCas, Goto, Threads
<1>2. /\ Unwrapped(H, T, S, P) /\ Cursors(B, H, T) /\ Owners(B, H, T, S, P)
      /\ Slots(B, H, T, S, P) /\ Locals(B, H, T, S, P)
  BY DEF Numbered
<1>3. /\ pos[t] = Wrap(P[t]) /\ tail = Wrap(T) /\ P[t] \in Int /\ m[t] = k
      /\ PopOK(t, B, H, T, S, P)
  BY <1>1, <1>2, Sizes DEF Unwrapped, Locals, Typed
<1>4. ~Claiming(t) /\ ~Holding(t)
  BY <1>1 DEF Claiming, Holding
<1>5. /\ B =< P[t] /\ P[t] =< T /\ k >= 1 /\ out[t] = <<>> /\ i[t] = 0
      /\ (P[t] = T => Ready(H, T, S, k))
      /\ B =< T /\ T =< H /\ H =< T + Capacity
  BY <1>1, <1>2, <1>3, <1>4 DEF PopOK, Cursors
<1>6. P[t] = T
  <2>1. P[t] =< H /\ Wrap(P[t]) = Wrap(T)
    BY <1>3, <1>5 DEF TailUnchanged
  <2> QED
    BY <1>2, <1>3, <1>5, <2>1, NumbersApart
<1>7. Ready(H, T, S, k)
  BY <1>5, <1>6
<1>8. T + k =< H
  <2>1. k - 1 \in 0 .. k - 1
    BY <1>3, <1>5
  <2>2. T + (k - 1) < H
    BY <1>7, <2>1 DEF Ready
  <2> QED
    BY <1>3, <2>2
<1>9. \A p \in T .. T + k - 1 : S[Cell(p)] = p + 1
  <2> TAKE p \in T .. T + k - 1
  <2>1. p - T \in 0 .. k - 1 /\ T + (p - T) = p
    BY <1>3
  <2> QED
    BY <1>7, <2>1 DEF Ready
<1>10. pc'[t] = "read" /\ \A u \in Threads \ {t} : pc'[u] = pc[u]
  BY <1>1 DEF Typed
<1>11. Typed'
  <2>1. tail' \in Word
    <3>1. Wrap(T) + k \in Int
      BY <1>3, WrapType, Sizes DEF Word
    <3> QED
      BY <1>1, <1>3, <3>1, WrapType
  <2>2. pc[t] \notin WaitingLabels \cup {"idle", "write", "publish"}
    BY <1>1 DEF WaitingLabels
  <2> QED
    BY <1>1, <2>1, <2>2 DEF Typed, Labels, WaitingLabels
<1>12. /\ ~Claiming(t)' /\ Holding(t)'
       /\ \A u \in Threads \ {t} : /\ Claiming(u)' <=> Claiming(u)
                                   /\ Holding(u)' <=> Holding(u)
  BY <1>10 DEF Claiming, Holding
<1>13. \A u \in Threads \ {t} : Released(u)' = Released(u) /\ Rest(u, P)' = Rest(u, P)
  BY <1>1, <1>10 DEF Released, Rest
<1>14. Released(t)' = 0 /\ Rest(t, P)' = T .. T + k - 1
  BY <1>1, <1>3, <1>5, <1>6 DEF Released, Rest
<1>15. Unwrapped(H, T + k, S, P)'
  <2>1. Wrap(Wrap(T) + k) = Wrap(T + k)
    BY <1>3, WrapTwice
  <2> QED
    BY <1>1, <1>2, <1>3, <2>1 DEF Unwrapped
<1>16. Cursors(B, H, T + k)'
  <2>1. pc[t] \notin WaitingLabels /\ pc'[t] \notin WaitingLabels
    BY <1>1, <1>10 DEF WaitingLabels
  <2>2. Cursors(B, H, T)'
    BY <1>1, <1>2, <1>10, <2>1, SameCursors
  <2>3. B =< T + k /\ T + k =< H /\ H =< (T + k) + Capacity
    BY <1>3, <1>5, <1>8, Sizes
  <2> QED
    BY <2>2, <2>3 DEF Cursors
<1>17. Owners(B, H, T + k, S, P)'
  <2>1. ASSUME NEW u \in Threads
        PROVE  ClaimOK(u, H, T + k, S, P)' /\ HoldOK(u, B, H, T + k, S, P)'
    <3>1. ClaimOK(u, H, T, S, P) /\ HoldOK(u, B, H, T, S, P) /\ P[u] \in Int
          /\ m[u] \in Int
      BY <1>2, Sizes DEF Owners, Typed
    <3>2. ClaimOK(u, H, T + k, S, P)'
      <4>1. SUFFICES ASSUME u # t, Claiming(u)
            PROVE  ClaimOK(u, H, T + k, S, P)'
        BY <1>12 DEF ClaimOK
      <4>2. T =< P[u] /\ S[Cell(P[u])] = P[u]
        BY <3>1, <4>1 DEF ClaimOK
      <4>3. P[u] \notin T .. T + k - 1
        BY <1>9, <3>1, <4>2
      <4>4. T + k =< P[u]
        BY <1>3, <3>1, <4>2, <4>3
      <4> QED
        BY <1>1, <1>10, <3>1, <4>1, <4>4 DEF ClaimOK
    <3>3. HoldOK(u, B, H, T + k, S, P)'
      <4>1. CASE u = t
        <5>1. m'[t] = k /\ i'[t] = 0 /\ out'[t] = <<>> /\ Len(<<>>) = 0
              /\ pc'[t] = "read"
          BY <1>1, <1>5, <1>10
        <5>2. B =< P[t] /\ i'[t] < m'[t] /\ P[t] + m'[t] =< T + k
          BY <1>3, <1>5, <1>6, <5>1
        <5>3. H - Capacity =< P[t] + Released(t)'
          BY <1>5, <1>6, <1>14, Sizes
        <5>4. \A p \in Rest(t, P)' : S[Cell(p)] = p + 1
          BY <1>9, <1>14
        <5>5. Len(out'[t]) = i'[t]
          BY <5>1
        <5> QED
          BY <4>1, <5>1, <5>2, <5>3, <5>4, <5>5 DEF HoldOK
      <4>2. CASE u # t
        <5>1. SUFFICES ASSUME Holding(u)
              PROVE  HoldOK(u, B, H, T + k, S, P)'
          BY <1>12, <4>2 DEF HoldOK
        <5>2. P[u] + m[u] =< T + k
          BY <1>3, <3>1, <5>1 DEF HoldOK
        <5>3. Rest(u, P)' = Rest(u, P) /\ Released(u)' = Released(u)
          BY <1>13, <4>2
        <5> QED
          BY <1>1, <1>10, <3>1, <4>2, <5>1, <5>2, <5>3 DEF HoldOK
      <4> QED
        BY <4>1, <4>2
    <3> QED
      BY <3>2, <3>3
  <2>2. \A u \in Threads : Holding(u) => P[u] + m[u] =< T
    BY <1>2 DEF Owners, HoldOK
  <2>3. Apart(P)'
    BY <1>1, <1>2, <1>6, <1>12, <2>2 DEF Owners, Apart
  <2> QED
    BY <2>1, <2>3 DEF Owners
<1>18. Slots(B, H, T + k, S, P)'
  <2>1. ASSUME NEW p \in H - Capacity .. H - 1
        PROVE  SlotOK(p, B, H, T + k, S, P)'
    <3>1. SlotOK(p, B, H, T, S, P) /\ p \in Int
      BY <1>2, Sizes DEF Slots
    <3>2. (\E u \in Threads : Claiming(u) /\ P[u] = p)
          => \E u \in Threads : Claiming(u)' /\ P[u] = p
      BY <1>4, <1>12
    <3>3. (\E u \in Threads : Holding(u) /\ p \in Rest(u, P))
          => \E u \in Threads : Holding(u)' /\ p \in Rest(u, P)'
      BY <1>4, <1>12, <1>13
    <3>4. CASE p \in T .. T + k - 1
      <4>1. \E u \in Threads : Holding(u)' /\ p \in Rest(u, P)'
        BY <1>1, <1>12, <1>14, <3>4
      <4>2. S[Cell(p)] = p + 1 /\ ~(p >= T + k)
        BY <1>3, <1>9, <3>4
      <4> QED
        BY <1>1, <3>1, <4>1, <4>2 DEF SlotOK
    <3>5. CASE p \notin T .. T + k - 1
      <4>1. (p >= T + k <=> p >= T) /\ (p < T + k <=> p < T)
        BY <1>3, <1>5, <3>1, <3>5
      <4> QED
        BY <1>1, <3>1, <3>2, <3>3, <4>1 DEF SlotOK
    <3> QED
      BY <3>4, <3>5
  <2> QED
    BY <2>1 DEF Slots
<1>19. Locals(B, H, T + k, S, P)'
  <2>1. ASSUME NEW u \in Threads
        PROVE  PushOK(u, B, H, S, P)' /\ PopOK(u, B, H, T + k, S, P)'
    <3>1. PushOK(u, B, H, S, P) /\ PopOK(u, B, H, T, S, P) /\ P[u] \in Int
      BY <1>2 DEF Locals
    <3>2. PushOK(u, B, H, S, P)'
      BY <1>1, <1>10, <3>1 DEF PushOK, WaitingLabels
    <3>3. PopOK(u, B, H, T + k, S, P)'
      <4>1. CASE u = t
        BY <1>10, <1>12, <4>1 DEF PopOK
      <4>2. CASE u # t
        <5>1. P[u] =< T => P[u] =< T + k /\ P[u] # T + k
          BY <1>3, <1>5, <3>1
        <5> QED
          BY <1>1, <1>10, <1>12, <3>1, <4>2, <5>1 DEF PopOK
      <4> QED
        BY <4>1, <4>2
    <3> QED
      BY <3>2, <3>3
  <2> QED
    BY <2>1 DEF Locals
<1>20. Numbered(B, H, T + k, S, P)'
  BY <1>15, <1>16, <1>17, <1>18, <1>19 DEF Numbered
<1> QED
  BY <1>4, <1>5, <1>6, <1>7, <1>8, <1>11, <1>20

(* A claimed position lies in the queue, a held one just before it: both   *)
(* are among the last Capacity.                                            *)
SlotOfClaim(u, H, T, S, P) ==
  /\ P[u] \in H - Capacity .. H - 1 /\ T =< P[u]
  /\ S[Cell(P[u])] = P[u] /\ arg[u] \in 1 .. MaxPushes
  /\ (pc[u] = "publish" => val[Cell(P[u])] = arg[u])
  /\ Cell(pos[u]) = Cell(P[u])

LEMMA ClaimedSlot ==
  ASSUME NEW B \in Int, NEW H \in Int, NEW T \in Int, NEW S \in [Cells -> Int],
         NEW P \in [Threads -> Int], Typed, Numbered(B, H, T, S, P),
         NEW u \in Threads, Claiming(u)
  PROVE  SlotOfClaim(u, H, T, S, P)
<1>1. ClaimOK(u, H, T, S, P) /\ H =< T + Capacity /\ pos[u] = Wrap(P[u])
  BY DEF Numbered, Owners, Cursors, Unwrapped
<1>2. Wrap(P[u]) + 0 = Wrap(P[u]) /\ P[u] + 0 = P[u] /\ P[u] \in Int
  BY WrapType, Sizes DEF Word
<1>3. Cell(pos[u]) = Cell(P[u])
  <2>1. Cell(Wrap(P[u]) + 0) = Cell(P[u] + 0)
    BY <1>2, CellOfWord
  <2> QED
    BY <1>1, <1>2, <2>1
<1>4. P[u] \in H - Capacity .. H - 1
  BY <1>1, <1>2, Sizes DEF ClaimOK
<1> QED
  BY <1>1, <1>3, <1>4 DEF ClaimOK, SlotOfClaim

(* A position in the hands of a pop, likewise.                             *)
LEMMA HeldSlot ==
  ASSUME NEW B \in Int, NEW H \in Int, NEW T \in Int, NEW S \in [Cells -> Int],
         NEW P \in [Threads -> Int], Typed, Numbered(B, H, T, S, P),
         NEW u \in Threads, Holding(u), NEW p \in Rest(u, P)
  PROVE  /\ p \in H - Capacity .. H - 1 /\ p < T /\ B =< p
         /\ S[Cell(p)] = p + 1 /\ val[Cell(p)] \in 1 .. MaxPushes
<1>1. HoldOK(u, B, H, T, S, P) /\ T =< H /\ Slots(B, H, T, S, P)
  BY DEF Numbered, Owners, Cursors
<1>2. P[u] \in Int /\ m[u] \in Nat /\ i[u] \in Nat /\ Released(u) \in Nat
  BY Sizes DEF Typed, Released
<1>3. /\ B =< P[u] /\ P[u] + m[u] =< T
      /\ H - Capacity =< P[u] + Released(u)
      /\ S[Cell(p)] = p + 1
  BY <1>1 DEF HoldOK
<1>4. p \in Int /\ P[u] + Released(u) =< p /\ p =< P[u] + m[u] - 1
  BY <1>2 DEF Rest
<1>5. p < T /\ B =< p
  BY <1>2, <1>3, <1>4
<1>6. p \in H - Capacity .. H - 1
  BY <1>1, <1>2, <1>3, <1>4, <1>5, Sizes
<1>7. SlotOK(p, B, H, T, S, P)
  BY <1>1, <1>6 DEF Slots
<1> QED
  BY <1>3, <1>4, <1>5, <1>6, <1>7 DEF SlotOK

(* A new number for the cell of a claimed or held position disturbs no     *)
(* other position, and nobody on the way to a CAS.                         *)
LEMMA CellChange ==
  ASSUME NEW H \in Int, NEW T \in Int, NEW S \in [Cells -> Int],
         NEW p \in H - Capacity .. H - 1, NEW x \in Int,
         H - Capacity =< T,
         S[Cell(p)] = p \/ (S[Cell(p)] = p + 1 /\ p < T),
         NEW R, R = [S EXCEPT ![Cell(p)] = x]
  PROVE  /\ R \in [Cells -> Int] /\ R[Cell(p)] = x
         /\ \A q \in H - Capacity .. H - 1 : q # p => R[Cell(q)] = S[Cell(q)]
         /\ S[Cell(H)] = H => R[Cell(H)] = H
         /\ \A k \in Int : Ready(H, T, S, k) => Ready(H, T, R, k)
<1>1. p \in Int /\ Cell(p) \in Cells
  BY CellType, Sizes
<1>2. R \in [Cells -> Int] /\ R[Cell(p)] = x
      /\ \A c \in Cells : c # Cell(p) => R[c] = S[c]
  BY <1>1
<1>3. ASSUME NEW q \in H - Capacity .. H - 1, q # p
      PROVE  R[Cell(q)] = S[Cell(q)] /\ Cell(q) # Cell(p)
  <2>1. q \in Int /\ q - p < Capacity /\ p - q < Capacity
    BY <1>1, Sizes
  <2>2. Cell(q) # Cell(p) /\ Cell(q) \in Cells
    BY <1>1, <1>3, <2>1, CellsApart, CellType
  <2> QED
    BY <1>2, <2>2
<1>4. ASSUME S[Cell(H)] = H
      PROVE  R[Cell(H)] = H
  <2>1. Cell(H - Capacity) = Cell(H) /\ Cell(H) \in Cells
    BY NextRound, CellType
  <2>2. H - Capacity \in H - Capacity .. H - 1
    BY Sizes
  <2>3. H - Capacity = p => S[Cell(H)] # H
    BY <2>1, Sizes
  <2>4. Cell(H) # Cell(p)
    BY <1>3, <1>4, <2>1, <2>2, <2>3
  <2> QED
    BY <1>2, <1>4, <2>1, <2>4
<1>5. ASSUME NEW k \in Int, Ready(H, T, S, k)
      PROVE  Ready(H, T, R, k)
  <2>1. ASSUME NEW j \in 0 .. k - 1
        PROVE  T + j < H /\ R[Cell(T + j)] = T + j + 1
    <3>1. T + j < H /\ S[Cell(T + j)] = T + j + 1
      BY <1>5 DEF Ready
    <3>2. T + j \in H - Capacity .. H - 1
      BY <3>1, Sizes
    <3>3. T + j # p
      BY <1>1, <3>1
    <3> QED
      BY <1>3, <3>1, <3>2, <3>3
  <2> QED
    BY <2>1 DEF Ready
<1> QED
  BY <1>2, <1>3, <1>4, <1>5

(* A push writes its value into its cell.                                  *)
LEMMA PushWriteStep ==
  ASSUME NEW B \in Int, NEW H \in Int, NEW T \in Int, NEW S \in [Cells -> Int],
         NEW P \in [Threads -> Int], Typed, Numbered(B, H, T, S, P),
         NEW t \in Pushers, PushWrite(t)
  PROVE  Typed' /\ Numbered(B, H, T, S, P)'
<1>1. /\ t \in Threads /\ pc[t] = "write"
      /\ val' = [val EXCEPT ![Cell(pos[t])] = arg[t]]
      /\ pc' = [pc EXCEPT ![t] = "publish"]
      /\ UNCHANGED <<head, tail, seq, light, pos, m, i, arg, out, pushes, delivered>>
  BY DEF PushWrite, Goto, Threads, local
<1>2. /\ Unwrapped(H, T, S, P) /\ Cursors(B, H, T) /\ Owners(B, H, T, S, P)
      /\ Slots(B, H, T, S, P) /\ Locals(B, H, T, S, P) /\ T \in Int /\ P[t] \in Int
  BY <1>1 DEF Numbered
<1>3. Claiming(t) /\ ~Holding(t)
  BY <1>1 DEF Claiming, Holding
<1>4. /\ P[t] \in H - Capacity .. H - 1 /\ T =< P[t]
      /\ S[Cell(P[t])] = P[t] /\ arg[t] \in 1 .. MaxPushes
      /\ Cell(pos[t]) = Cell(P[t]) /\ Cell(P[t]) \in Cells
  <2>1. t \in Threads
    BY <1>1
  <2>2. Cell(P[t]) \in Cells
    BY <1>2, CellType
  <2> QED
    BY <1>3, <2>1, <2>2, ClaimedSlot DEF SlotOfClaim
<1>5. /\ val'[Cell(P[t])] = arg[t]
      /\ \A c \in Cells : c # Cell(P[t]) => val'[c] = val[c]
  BY <1>1, <1>4 DEF Typed
<1>6. pc'[t] = "publish" /\ \A u \in Threads \ {t} : pc'[u] = pc[u]
  BY <1>1 DEF Typed
<1>7. Typed'
  <2>1. arg[t] \in 0 .. MaxPushes
    BY <1>4, Sizes
  <2> QED
    BY <1>1, <1>4, <2>1 DEF Typed, Labels, WaitingLabels
<1>8. \A u \in Threads : /\ Claiming(u)' <=> Claiming(u)
                         /\ Holding(u)' <=> Holding(u)
  BY <1>1, <1>3, <1>6 DEF Claiming, Holding
<1>9. \A u \in Threads : Holding(u) => Released(u)' = Released(u) /\ Rest(u, P)' = Rest(u, P)
  BY <1>1, <1>3, <1>6 DEF Released, Rest
<1>10. ASSUME NEW q \in H - Capacity .. H - 1, q # P[t]
       PROVE  val'[Cell(q)] = val[Cell(q)]
  <2>1. q \in Int /\ q - P[t] < Capacity /\ P[t] - q < Capacity
    BY <1>4, Sizes
  <2>2. Cell(q) # Cell(P[t]) /\ Cell(q) \in Cells
    BY <1>2, <1>10, <2>1, CellsApart, CellType
  <2> QED
    BY <1>5, <2>2
<1>11. Unwrapped(H, T, S, P)'
  BY <1>1, <1>2 DEF Unwrapped
<1>12. Cursors(B, H, T)'
  BY <1>1, <1>2, <1>6, SameCursors DEF WaitingLabels
<1>13. Owners(B, H, T, S, P)'
  <2>1. ASSUME NEW u \in Threads
        PROVE  ClaimOK(u, H, T, S, P)' /\ HoldOK(u, B, H, T, S, P)'
    <3>1. ClaimOK(u, H, T, S, P) /\ HoldOK(u, B, H, T, S, P)
      BY <1>2 DEF Owners
    <3>2. ClaimOK(u, H, T, S, P)'
      <4>1. CASE u = t
        BY <1>1, <1>3, <1>4, <1>5, <3>1, <4>1 DEF ClaimOK
      <4>2. CASE u # t
        <5>1. SUFFICES ASSUME Claiming(u)
              PROVE  ClaimOK(u, H, T, S, P)'
          BY <1>8 DEF ClaimOK
        <5>2. P[u] \in H - Capacity .. H - 1
          BY <5>1, ClaimedSlot DEF SlotOfClaim
        <5>3. P[u] # P[t]
          BY <1>1, <1>2, <1>3, <4>2, <5>1 DEF Owners, Apart
        <5>4. val'[Cell(P[u])] = val[Cell(P[u])]
          BY <1>10, <5>2, <5>3
        <5> QED
          BY <1>1, <1>6, <3>1, <4>2, <5>1, <5>4 DEF ClaimOK
      <4> QED
        BY <4>1, <4>2
    <3>3. HoldOK(u, B, H, T, S, P)'
      <4>1. SUFFICES ASSUME Holding(u)
            PROVE  HoldOK(u, B, H, T, S, P)'
        BY <1>8 DEF HoldOK
      <4>2. Released(u)' = Released(u) /\ Rest(u, P)' = Rest(u, P) /\ pc'[u] = pc[u]
        BY <1>3, <1>6, <1>9, <4>1
      <4> QED
        BY <1>1, <3>1, <4>1, <4>2 DEF HoldOK
    <3> QED
      BY <3>2, <3>3
  <2>2. Apart(P)'
    BY <1>1, <1>2, <1>8 DEF Owners, Apart
  <2> QED
    BY <2>1, <2>2 DEF Owners
<1>14. Slots(B, H, T, S, P)'
  <2>1. ASSUME NEW p \in H - Capacity .. H - 1
        PROVE  SlotOK(p, B, H, T, S, P)'
    <3>1. SlotOK(p, B, H, T, S, P)
      BY <1>2 DEF Slots
    <3>2. (\E u \in Threads : Claiming(u) /\ P[u] = p)
          => \E u \in Threads : Claiming(u)' /\ P[u] = p
      BY <1>8
    <3>3. (\E u \in Threads : Holding(u) /\ p \in Rest(u, P))
          => \E u \in Threads : Holding(u)' /\ p \in Rest(u, P)'
      BY <1>8, <1>9
    <3>4. S[Cell(p)] = p + 1 => p # P[t]
      BY <1>4
    <3>5. S[Cell(p)] = p + 1 => val'[Cell(p)] = val[Cell(p)]
      BY <1>10, <3>4
    <3> QED
      BY <1>1, <3>1, <3>2, <3>3, <3>5 DEF SlotOK
  <2> QED
    BY <2>1 DEF Slots
<1>15. Locals(B, H, T, S, P)'
  <2>1. ASSUME NEW u \in Threads
        PROVE  PushOK(u, B, H, S, P)' /\ PopOK(u, B, H, T, S, P)'
    <3>1. PushOK(u, B, H, S, P) /\ PopOK(u, B, H, T, S, P)
      BY <1>2 DEF Locals
    <3>2. PushOK(u, B, H, S, P)'
      BY <1>1, <1>6, <3>1 DEF PushOK, WaitingLabels
    <3>3. PopOK(u, B, H, T, S, P)'
      BY <1>1, <1>6, <1>8, <3>1 DEF PopOK
    <3> QED
      BY <3>2, <3>3
  <2> QED
    BY <2>1 DEF Locals
<1> QED
  BY <1>7, <1>11, <1>12, <1>13, <1>14, <1>15 DEF Numbered

(* A push publishes its value.                                             *)
LEMMA PushPublishStep ==
  ASSUME NEW B \in Int, NEW H \in Int, NEW T \in Int, NEW S \in [Cells -> Int],
         NEW P \in [Threads -> Int], Typed, Numbered(B, H, T, S, P),
         NEW t \in Pushers, PushPublish(t)
  PROVE  Typed' /\ \E R \in [Cells -> Int], Q \in [Threads -> Int] :
                     Numbered(B, H, T, R, Q)'
<1>1. /\ t \in Threads /\ pc[t] = "publish"
      /\ seq' = [seq EXCEPT ![Cell(pos[t])] = Wrap(pos[t] + 1)]
      /\ pos' = [pos EXCEPT ![t] = 0] /\ arg' = [arg EXCEPT ![t] = 0]
      /\ pc' = [pc EXCEPT ![t] = "idle"]
      /\ UNCHANGED <<head, tail, val, light, m, i, out, pushes, delivered>>
  BY DEF PushPublish, Goto, Threads
<1>2. /\ Unwrapped(H, T, S, P) /\ Cursors(B, H, T) /\ Owners(B, H, T, S, P)
      /\ Slots(B, H, T, S, P) /\ Locals(B, H, T, S, P)
      /\ pos[t] = Wrap(P[t]) /\ P[t] \in Int
  BY <1>1 DEF Numbered, Unwrapped
<1>3. Claiming(t) /\ ~Holding(t)
  BY <1>1 DEF Claiming, Holding
<1> DEFINE p == P[t]
           x == P[t] + 1
           R == [S EXCEPT ![Cell(p)] = x]
           Q == [P EXCEPT ![t] = 0]
<1>4. /\ p \in H - Capacity .. H - 1 /\ T =< p
      /\ S[Cell(p)] = p /\ arg[t] \in 1 .. MaxPushes
      /\ val[Cell(p)] = arg[t]
      /\ Cell(pos[t]) = Cell(p) /\ Cell(p) \in Cells
  <2>1. t \in Threads /\ pc[t] = "publish"
    BY <1>1
  <2>2. Cell(P[t]) \in Cells
    BY <1>2, CellType
  <2>3. /\ P[t] \in H - Capacity .. H - 1 /\ T =< P[t]
        /\ S[Cell(P[t])] = P[t] /\ arg[t] \in 1 .. MaxPushes
        /\ (pc[t] = "publish" => val[Cell(P[t])] = arg[t])
        /\ Cell(pos[t]) = Cell(P[t])
    <3>1. Claiming(t)
      BY <1>3
    <3> HIDE DEF p, x, R, Q
    <3>2. SlotOfClaim(t, H, T, S, P)
      BY <2>1, <3>1, ClaimedSlot
    <3> QED
      BY <3>2 DEF SlotOfClaim
  <2> QED
    BY <2>1, <2>2, <2>3
<1>5. x \in Int /\ H - Capacity =< T
  BY <1>2, Sizes DEF Cursors
<1>6. /\ R \in [Cells -> Int] /\ R[Cell(p)] = x
      /\ \A q \in H - Capacity .. H - 1 : q # p => R[Cell(q)] = S[Cell(q)]
      /\ S[Cell(H)] = H => R[Cell(H)] = H
      /\ \A k \in Int : Ready(H, T, S, k) => Ready(H, T, R, k)
  <2> HIDE DEF p, x
  <2> QED
    BY <1>4, <1>5, CellChange
<1>7. \A c \in Cells : c # Cell(p) => R[c] = S[c]
  BY <1>4
<1>8. Q \in [Threads -> Int] /\ Q[t] = 0 /\ \A u \in Threads \ {t} : Q[u] = P[u]
  BY <1>1
<1> HIDE DEF R, Q
<1>9. pc'[t] = "idle" /\ \A u \in Threads \ {t} :
        pc'[u] = pc[u] /\ pos'[u] = pos[u] /\ arg'[u] = arg[u]
  BY <1>1 DEF Typed
<1>10. Wrap(pos[t] + 1) = Wrap(x) /\ Wrap(x) \in Word
  <2>1. P[t] \in Int /\ 1 \in Int /\ pos[t] = Wrap(P[t])
    BY <1>2
  <2>2. Wrap(Wrap(P[t]) + 1) = Wrap(P[t] + 1)
    BY <2>1, WrapTwice
  <2>3. Wrap(x) \in Word
    BY <1>5, WrapType
  <2> QED
    BY <2>1, <2>2, <2>3
<1>11. Typed'
  <2>1. 0 \in Word /\ 0 \in 0 .. MaxPushes
    BY Sizes DEF Word
  <2> QED
    BY <1>1, <1>4, <1>10, <2>1 DEF Typed, Labels, WaitingLabels
<1>12. /\ ~Claiming(t)' /\ ~Holding(t)'
       /\ \A u \in Threads \ {t} : /\ Claiming(u)' <=> Claiming(u)
                                   /\ Holding(u)' <=> Holding(u)
  BY <1>9 DEF Claiming, Holding
<1>13. \A u \in Threads \ {t} : Released(u)' = Released(u) /\ Rest(u, Q)' = Rest(u, P)
  BY <1>1, <1>8, <1>9 DEF Released, Rest
<1>14. Unwrapped(H, T, R, Q)'
  <2>1. \A c \in Cells : seq'[c] = Wrap(R[c])
    BY <1>1, <1>2, <1>4, <1>6, <1>7, <1>10 DEF Typed, Unwrapped
  <2>2. \A u \in Threads : pos'[u] = Wrap(Q[u])
    BY <1>1, <1>2, <1>8, <1>9, WrapZero DEF Typed, Unwrapped
  <2> QED
    BY <1>1, <1>2, <2>1, <2>2 DEF Unwrapped
<1>15. Cursors(B, H, T)'
  BY <1>1, <1>2, <1>9, SameCursors DEF WaitingLabels
<1>16. Owners(B, H, T, R, Q)'
  <2>1. ASSUME NEW u \in Threads
        PROVE  ClaimOK(u, H, T, R, Q)' /\ HoldOK(u, B, H, T, R, Q)'
    <3>1. ClaimOK(u, H, T, S, P) /\ HoldOK(u, B, H, T, S, P)
      BY <1>2 DEF Owners
    <3>2. ClaimOK(u, H, T, R, Q)'
      <4>1. SUFFICES ASSUME u # t, Claiming(u)
            PROVE  ClaimOK(u, H, T, R, Q)'
        BY <1>12 DEF ClaimOK
      <4>2. P[u] \in H - Capacity .. H - 1
        BY <4>1, ClaimedSlot DEF SlotOfClaim
      <4>3. P[u] # p
        BY <1>1, <1>2, <1>3, <4>1 DEF Owners, Apart
      <4>4. R[Cell(P[u])] = S[Cell(P[u])] /\ Q[u] = P[u]
        BY <1>6, <1>8, <4>1, <4>2, <4>3
      <4> QED
        BY <1>1, <1>9, <3>1, <4>1, <4>4 DEF ClaimOK
    <3>3. HoldOK(u, B, H, T, R, Q)'
      <4>1. SUFFICES ASSUME u # t, Holding(u)
            PROVE  HoldOK(u, B, H, T, R, Q)'
        BY <1>12 DEF HoldOK
      <4>2. ASSUME NEW q \in Rest(u, P)
            PROVE  R[Cell(q)] = q + 1
        <5>1. q \in H - Capacity .. H - 1 /\ q < T /\ S[Cell(q)] = q + 1
          BY <4>1, <4>2, HeldSlot
        <5>2. q # p
          BY <1>2, <1>4, <5>1
        <5> QED
          BY <1>6, <5>1, <5>2
      <4>3. Released(u)' = Released(u) /\ Rest(u, Q)' = Rest(u, P) /\ Q[u] = P[u]
        BY <1>8, <1>13, <4>1
      <4> QED
        BY <1>1, <1>9, <3>1, <4>1, <4>2, <4>3 DEF HoldOK
    <3> QED
      BY <3>2, <3>3
  <2>2. Apart(Q)'
    BY <1>1, <1>2, <1>8, <1>12 DEF Owners, Apart
  <2> QED
    BY <2>1, <2>2 DEF Owners
<1>17. Slots(B, H, T, R, Q)'
  <2>1. ASSUME NEW q \in H - Capacity .. H - 1
        PROVE  SlotOK(q, B, H, T, R, Q)'
    <3>1. SlotOK(q, B, H, T, S, P)
      BY <1>2 DEF Slots
    <3>2. CASE q = p
      <4>1. R[Cell(q)] = q + 1 /\ ~(q < T) /\ val'[Cell(q)] \in 1 .. MaxPushes
        BY <1>1, <1>2, <1>4, <1>6, <3>2
      <4> QED
        BY <4>1 DEF SlotOK
    <3>3. CASE q # p
      <4>1. (\E u \in Threads : Claiming(u) /\ P[u] = q)
            => \E u \in Threads : Claiming(u)' /\ Q[u] = q
        BY <1>8, <1>12, <3>3
      <4>2. (\E u \in Threads : Holding(u) /\ q \in Rest(u, P))
            => \E u \in Threads : Holding(u)' /\ q \in Rest(u, Q)'
        BY <1>3, <1>12, <1>13
      <4>3. R[Cell(q)] = S[Cell(q)] /\ val' = val
        BY <1>1, <1>6, <3>3
      <4> QED
        BY <3>1, <4>1, <4>2, <4>3 DEF SlotOK
    <3> QED
      BY <3>2, <3>3
  <2> QED
    BY <2>1 DEF Slots
<1>18. Locals(B, H, T, R, Q)'
  <2>1. ASSUME NEW u \in Threads
        PROVE  PushOK(u, B, H, R, Q)' /\ PopOK(u, B, H, T, R, Q)'
    <3>1. PushOK(u, B, H, S, P) /\ PopOK(u, B, H, T, S, P) /\ m[u] \in Int
      BY <1>2, Sizes DEF Locals, Typed
    <3>2. PushOK(u, B, H, R, Q)'
      BY <1>1, <1>6, <1>8, <1>9, <3>1 DEF PushOK, WaitingLabels
    <3>3. Ready(H, T, S, m[u]) => Ready(H, T, R, m[u])
      BY <1>6, <3>1
    <3>4. PopOK(u, B, H, T, R, Q)'
      <4>1. CASE u = t
        BY <1>1, <1>3, <1>9, <3>1, <4>1 DEF PopOK
      <4>2. CASE u # t
        BY <1>1, <1>8, <1>9, <1>12, <3>1, <3>3, <4>2 DEF PopOK
      <4> QED
        BY <4>1, <4>2
    <3> QED
      BY <3>2, <3>4
  <2> QED
    BY <2>1 DEF Locals
<1>19. Numbered(B, H, T, R, Q)'
  BY <1>14, <1>15, <1>16, <1>17, <1>18 DEF Numbered
<1> QED
  BY <1>6, <1>8, <1>11, <1>19

(* What a pop reads or releases next is its own.                           *)
LEMMA NextHeld ==
  ASSUME NEW B \in Int, NEW H \in Int, NEW T \in Int, NEW S \in [Cells -> Int],
         NEW P \in [Threads -> Int], Typed, Numbered(B, H, T, S, P),
         NEW u \in Threads, Holding(u)
  PROVE  /\ P[u] + i[u] \in Rest(u, P) /\ P[u] + i[u] \in Int
         /\ Cell(pos[u] + i[u]) = Cell(P[u] + i[u])
         /\ i[u] \in Nat /\ m[u] \in Nat /\ i[u] < m[u]
         /\ Released(u) \in Nat /\ Released(u) =< i[u]
<1>1. HoldOK(u, B, H, T, S, P) /\ pos[u] = Wrap(P[u])
  BY DEF Numbered, Owners, Unwrapped
<1>2. /\ P[u] \in Int /\ m[u] \in Nat /\ i[u] \in Nat
      /\ Released(u) \in Nat /\ Released(u) =< i[u] /\ i[u] < m[u]
  BY <1>1, Sizes DEF Typed, Released, HoldOK
<1>3. P[u] + i[u] \in Rest(u, P)
  BY <1>2 DEF Rest
<1>4. Cell(Wrap(P[u]) + i[u]) = Cell(P[u] + i[u])
  <2>1. P[u] \in Int /\ i[u] \in Int
    BY <1>2
  <2> QED
    BY <2>1, CellOfWord
<1> QED
  BY <1>1, <1>2, <1>3, <1>4

(* A pop reads a value.                                                    *)
LEMMA PopReadStep ==
  ASSUME NEW B \in Int, NEW H \in Int, NEW T \in Int, NEW S \in [Cells -> Int],
         NEW P \in [Threads -> Int], Typed, Numbered(B, H, T, S, P),
         NEW t \in Poppers, PopRead(t)
  PROVE  Typed' /\ Numbered(B, H, T, S, P)'
<1>1. /\ t \in Threads /\ pc[t] = "read"
      /\ out' = [out EXCEPT ![t] = Append(out[t], val[Cell(pos[t] + i[t])])]
      /\ UNCHANGED <<head, tail, seq, val, light, pos, m, arg, pushes, delivered>>
  BY DEF PopRead, Threads, words
<1>2. /\ Unwrapped(H, T, S, P) /\ Cursors(B, H, T) /\ Owners(B, H, T, S, P)
      /\ Slots(B, H, T, S, P) /\ Locals(B, H, T, S, P)
  BY DEF Numbered
<1>3. ~Claiming(t) /\ Holding(t)
  BY <1>1 DEF Claiming, Holding
<1>4. /\ P[t] + i[t] \in Rest(t, P) /\ Cell(pos[t] + i[t]) = Cell(P[t] + i[t])
      /\ i[t] \in Nat /\ m[t] \in Nat /\ i[t] < m[t]
  <2>1. t \in Threads
    BY <1>1
  <2> QED
    BY <1>3, <2>1, NextHeld
<1>5. val[Cell(pos[t] + i[t])] \in 1 .. MaxPushes
  BY <1>1, <1>3, <1>4, HeldSlot
<1>6. HoldOK(t, B, H, T, S, P) /\ out[t] \in Seq(1 .. MaxPushes) /\ Len(out[t]) = i[t]
  BY <1>1, <1>2, <1>3 DEF Owners, HoldOK, Typed
<1>7. out'[t] \in Seq(1 .. MaxPushes) /\ Len(out'[t]) = i[t] + 1
  <2> DEFINE v == val[Cell(pos[t] + i[t])]
  <2>1. out'[t] = Append(out[t], v) /\ v \in 1 .. MaxPushes
    BY <1>1, <1>5 DEF Typed
  <2> HIDE DEF v
  <2> QED
    BY <1>6, <2>1
<1> DEFINE Moves(l, k) == /\ pc' = [pc EXCEPT ![t] = l] /\ i' = [i EXCEPT ![t] = k]
                          /\ i[t] + 1 = IF l = "read" THEN k
                                        ELSE IF light THEN m[t] ELSE k + 1
<1>a. \E l \in {"read", "release"}, k \in 0 .. m[t] - 1 :
        Moves(l, k) /\ (~light => l = "release" /\ k = i[t]) /\ (light /\ l = "release" => k = 0)
  <2>1. CASE light /\ i[t] + 1 < m[t]
    <3>1. i' = [i EXCEPT ![t] = i[t] + 1] /\ pc' = [pc EXCEPT ![t] = "read"]
      BY <1>1, <2>1 DEF PopRead, Typed
    <3>2. i[t] + 1 \in 0 .. m[t] - 1
      BY <1>4, <2>1
    <3>3. Moves("read", i[t] + 1)
      BY <3>1
    <3> QED
      BY <2>1, <3>2, <3>3
  <2>2. CASE light /\ ~(i[t] + 1 < m[t])
    <3>1. i' = [i EXCEPT ![t] = 0] /\ pc' = [pc EXCEPT ![t] = "release"]
      BY <2>2 DEF PopRead, Goto
    <3>2. 0 \in 0 .. m[t] - 1 /\ i[t] + 1 = m[t]
      BY <1>4, <2>2
    <3>3. Moves("release", 0)
      BY <2>2, <3>1, <3>2
    <3> QED
      BY <2>2, <3>2, <3>3
  <2>3. CASE ~light
    <3>1. i' = [i EXCEPT ![t] = i[t]] /\ pc' = [pc EXCEPT ![t] = "release"]
      BY <2>3 DEF PopRead, Goto
    <3>2. i[t] \in 0 .. m[t] - 1
      BY <1>4
    <3>3. Moves("release", i[t])
      BY <2>3, <3>1
    <3> QED
      BY <2>3, <3>2, <3>3
  <2> QED
    BY <2>1, <2>2, <2>3
<1>b. PICK l \in {"read", "release"}, k \in 0 .. m[t] - 1 :
        Moves(l, k) /\ (~light => l = "release" /\ k = i[t]) /\ (light /\ l = "release" => k = 0)
  BY <1>a
<1>8. /\ pc'[t] = l /\ l \in {"read", "release"} /\ pc' = [pc EXCEPT ![t] = l]
      /\ i'[t] = k /\ k \in 0 .. m[t] - 1 /\ i' = [i EXCEPT ![t] = k]
      /\ i[t] + 1 = IF l = "read" THEN k ELSE IF light THEN m[t] ELSE k + 1
  BY <1>1, <1>b DEF Typed
<1>c. Released(t)' = Released(t)
  <2>1. CASE light
    BY <1>1, <1>8, <1>b, <2>1 DEF Released
  <2>2. CASE ~light
    BY <1>1, <1>8, <1>b, <2>2 DEF Released
  <2> QED
    BY <2>1, <2>2
<1>9. \A u \in Threads \ {t} : pc'[u] = pc[u] /\ i'[u] = i[u] /\ out'[u] = out[u]
  BY <1>1, <1>8 DEF Typed
<1>10. Typed'
  <2>1. m[t] \in 0 .. MaxBulk /\ k \in 0 .. MaxBulk
    BY <1>1, <1>4, <1>8, Sizes DEF Typed
  <2>2. i' \in [Threads -> 0 .. MaxBulk]
    BY <1>1, <1>8, <2>1 DEF Typed
  <2>3. out' \in [Threads -> Seq(1 .. MaxPushes)]
    BY <1>1, <1>7 DEF Typed
  <2>4. pc' \in [Threads -> Labels] /\ t \in Poppers
    BY <1>1, <1>8 DEF Typed, Labels
  <2>5. pc'[t] \notin WaitingLabels \cup {"write", "publish"}
    BY <1>8 DEF WaitingLabels
  <2> QED
    BY <1>1, <1>9, <2>2, <2>3, <2>4, <2>5 DEF Typed
<1>11. \A u \in Threads : /\ Claiming(u)' <=> Claiming(u)
                          /\ Holding(u)' <=> Holding(u)
  BY <1>3, <1>8, <1>9 DEF Claiming, Holding
<1>12. \A u \in Threads : Released(u)' = Released(u) /\ Rest(u, P)' = Rest(u, P)
  BY <1>1, <1>8, <1>9, <1>c DEF Released, Rest
<1>13. Unwrapped(H, T, S, P)'
  BY <1>1, <1>2 DEF Unwrapped
<1>14. Cursors(B, H, T)'
  BY <1>1, <1>2, <1>8, <1>9, SameCursors DEF WaitingLabels
<1>15. Owners(B, H, T, S, P)'
  <2>1. ASSUME NEW u \in Threads
        PROVE  ClaimOK(u, H, T, S, P)' /\ HoldOK(u, B, H, T, S, P)'
    <3>1. ClaimOK(u, H, T, S, P) /\ HoldOK(u, B, H, T, S, P)
      BY <1>2 DEF Owners
    <3>2. ClaimOK(u, H, T, S, P)'
      BY <1>1, <1>3, <1>9, <1>11, <3>1 DEF ClaimOK
    <3>3. HoldOK(u, B, H, T, S, P)'
      <4>1. CASE u = t
        <5>1. i'[t] < m'[t] /\ m' = m /\ light' = light
          BY <1>1, <1>4, <1>8
        <5>2. Len(out'[t]) = IF l = "read" THEN k ELSE IF light THEN m[t] ELSE k + 1
          BY <1>7, <1>8
        <5>3. Released(t)' = Released(t) /\ Rest(t, P)' = Rest(t, P)
          BY <1>1, <1>12
        <5> QED
          BY <1>3, <1>6, <1>8, <4>1, <5>1, <5>2, <5>3 DEF HoldOK
      <4>2. CASE u # t
        <5>1. Released(u)' = Released(u) /\ Rest(u, P)' = Rest(u, P)
          BY <1>12
        <5> QED
          BY <1>1, <1>9, <1>11, <3>1, <4>2, <5>1 DEF HoldOK
      <4> QED
        BY <4>1, <4>2
    <3> QED
      BY <3>2, <3>3
  <2>2. Apart(P)'
    BY <1>1, <1>2, <1>11 DEF Owners, Apart
  <2> QED
    BY <2>1, <2>2 DEF Owners
<1>16. Slots(B, H, T, S, P)'
  <2>1. ASSUME NEW p \in H - Capacity .. H - 1
        PROVE  SlotOK(p, B, H, T, S, P)'
    <3>1. SlotOK(p, B, H, T, S, P)
      BY <1>2 DEF Slots
    <3>2. (\E u \in Threads : Claiming(u) /\ P[u] = p)
          => \E u \in Threads : Claiming(u)' /\ P[u] = p
      BY <1>11
    <3>3. (\E u \in Threads : Holding(u) /\ p \in Rest(u, P))
          => \E u \in Threads : Holding(u)' /\ p \in Rest(u, P)'
      BY <1>11, <1>12
    <3> QED
      BY <1>1, <3>1, <3>2, <3>3 DEF SlotOK
  <2> QED
    BY <2>1 DEF Slots
<1>17. Locals(B, H, T, S, P)'
  <2>1. ASSUME NEW u \in Threads
        PROVE  PushOK(u, B, H, S, P)' /\ PopOK(u, B, H, T, S, P)'
    <3>1. PushOK(u, B, H, S, P) /\ PopOK(u, B, H, T, S, P)
      BY <1>2 DEF Locals
    <3>2. PushOK(u, B, H, S, P)'
      BY <1>1, <1>8, <1>9, <3>1 DEF PushOK, WaitingLabels
    <3>3. PopOK(u, B, H, T, S, P)'
      BY <1>1, <1>3, <1>8, <1>9, <1>11, <3>1 DEF PopOK
    <3> QED
      BY <3>2, <3>3
  <2> QED
    BY <2>1 DEF Locals
<1> QED
  BY <1>10, <1>13, <1>14, <1>15, <1>16, <1>17 DEF Numbered

(* A pop releases a cell; after the last one it returns.                   *)
LEMMA PopReleaseStep ==
  ASSUME NEW B \in Int, NEW H \in Int, NEW T \in Int, NEW S \in [Cells -> Int],
         NEW P \in [Threads -> Int], Typed, Numbered(B, H, T, S, P),
         NEW t \in Poppers, PopRelease(t)
  PROVE  Typed' /\ \E R \in [Cells -> Int], Q \in [Threads -> Int] :
                     /\ Numbered(B, H, T, R, Q)'
                     /\ \A u \in Threads \ {t} : Q[u] = P[u]
                     /\ i[t] + 1 < m[t] => Q = P
<1>1. /\ t \in Threads /\ pc[t] = "release"
      /\ seq' = [seq EXCEPT ![Cell(pos[t] + i[t])] = Wrap((pos[t] + i[t]) + Capacity)]
      /\ UNCHANGED <<head, tail, val, light, arg, pushes>>
  BY DEF PopRelease, Threads, Recycled
<1>2. /\ Unwrapped(H, T, S, P) /\ Cursors(B, H, T) /\ Owners(B, H, T, S, P)
      /\ Slots(B, H, T, S, P) /\ Locals(B, H, T, S, P)
      /\ pos[t] = Wrap(P[t]) /\ P[t] \in Int
  BY <1>1 DEF Numbered, Unwrapped
<1>3. ~Claiming(t) /\ Holding(t)
  BY <1>1 DEF Claiming, Holding
<1>4. PICK p \in Int :
        /\ p = P[t] + i[t]
        /\ p \in Rest(t, P) /\ Cell(pos[t] + i[t]) = Cell(p)
        /\ i[t] \in Nat /\ m[t] \in Nat /\ i[t] < m[t]
  <2>1. t \in Threads
    BY <1>1
  <2> QED
    BY <1>3, <2>1, NextHeld
<1> DEFINE x == p + Capacity
           R == [S EXCEPT ![Cell(p)] = x]
           last == ~(i[t] + 1 < m[t])
<1>a. \A q \in Rest(t, P) :
        q \in H - Capacity .. H - 1 /\ q < T /\ S[Cell(q)] = q + 1
  <2>1. t \in Threads
    BY <1>1
  <2> QED
    BY <1>3, <2>1, HeldSlot
<1>5. /\ p \in H - Capacity .. H - 1 /\ p < T /\ S[Cell(p)] = p + 1
  BY <1>4, <1>a
<1>6. /\ HoldOK(t, B, H, T, S, P) /\ Released(t) = i[t]
      /\ Rest(t, P) = p .. P[t] + m[t] - 1 /\ P[t] + m[t] =< T
      /\ out[t] \in Seq(1 .. MaxPushes) /\ Len(out[t]) = IF light THEN m[t] ELSE i[t] + 1
  BY <1>1, <1>2, <1>3, <1>4 DEF Owners, HoldOK, Released, Rest, Typed
<1>7. x \in Int /\ H - Capacity =< T /\ Cell(p) \in Cells
  BY <1>2, <1>4, CellType, Sizes DEF Cursors
<1>8. /\ R \in [Cells -> Int] /\ R[Cell(p)] = x
      /\ \A q \in H - Capacity .. H - 1 : q # p => R[Cell(q)] = S[Cell(q)]
      /\ S[Cell(H)] = H => R[Cell(H)] = H
      /\ \A k \in Int : Ready(H, T, S, k) => Ready(H, T, R, k)
  <2> HIDE DEF x
  <2> QED
    BY <1>5, <1>7, CellChange
<1>9. \A c \in Cells : c # Cell(p) => R[c] = S[c]
  BY <1>7
<1>10. PICK Q \in [Threads -> Int] :
         /\ \A u \in Threads \ {t} : Q[u] = P[u]
         /\ last => Q[t] = 0
         /\ ~last => Q = P
  <2>1. [P EXCEPT ![t] = 0] \in [Threads -> Int] /\ [P EXCEPT ![t] = 0][t] = 0
        /\ \A u \in Threads \ {t} : [P EXCEPT ![t] = 0][u] = P[u]
    BY <1>1
  <2>2. CASE last
    BY <2>1, <2>2
  <2>3. CASE ~last
    BY <2>3
  <2> QED
    BY <2>2, <2>3
<1> HIDE DEF R
<1>11. \A u \in Threads \ {t} :
         /\ pc'[u] = pc[u] /\ pos'[u] = pos[u] /\ m'[u] = m[u] /\ i'[u] = i[u]
         /\ out'[u] = out[u]
  BY <1>1 DEF PopRelease, Goto, Typed
<1>12. ~last =>
         /\ pc' = [pc EXCEPT ![t] = IF light THEN "release" ELSE "read"]
         /\ i' = [i EXCEPT ![t] = i[t] + 1]
         /\ pos' = pos /\ m' = m /\ out' = out
  BY DEF PopRelease, Goto
<1>13. last =>
         /\ pc' = [pc EXCEPT ![t] = "idle"] /\ i' = [i EXCEPT ![t] = 0]
         /\ pos' = [pos EXCEPT ![t] = 0] /\ m' = [m EXCEPT ![t] = 0]
         /\ out' = [out EXCEPT ![t] = <<>>]
  BY DEF PopRelease, Goto
<1>14. Typed'
  <2>1. 0 \in Word /\ 0 \in 0 .. MaxBulk /\ <<>> \in Seq(1 .. MaxPushes)
    BY Sizes DEF Word
  <2>2. ~last => i[t] + 1 \in 0 .. MaxBulk
    <3>1. m[t] \in 0 .. MaxBulk /\ MaxBulk \in Nat
      BY <1>1, Sizes DEF Typed
    <3> QED
      BY <1>4, <3>1
  <2> HIDE DEF last
  <2>3. seq' \in [Cells -> Word]
    <3>1. (pos[t] + i[t]) + Capacity \in Int
      <4>1. pos[t] \in Word
        BY <1>1 DEF Typed
      <4>2. pos[t] \in Int /\ Capacity \in Int
        BY <4>1, Sizes DEF Word
      <4> QED
        BY <1>4, <4>2
    <3>2. Wrap((pos[t] + i[t]) + Capacity) \in Word
      BY <3>1, WrapType
    <3> QED
      BY <1>1, <3>2 DEF Typed
  <2>4. /\ pc' \in [Threads -> Labels] /\ pos' \in [Threads -> Word]
        /\ m' \in [Threads -> 0 .. MaxBulk] /\ i' \in [Threads -> 0 .. MaxBulk]
        /\ out' \in [Threads -> Seq(1 .. MaxPushes)]
    <3>1. CASE last
      <4>1. "idle" \in Labels
        BY DEF Labels
      <4>2. m' \in [Threads -> 0 .. MaxBulk] /\ i' \in [Threads -> 0 .. MaxBulk]
        <5>1. m \in [Threads -> 0 .. MaxBulk] /\ i \in [Threads -> 0 .. MaxBulk]
          BY DEF Typed
        <5>2. m' = [m EXCEPT ![t] = 0] /\ i' = [i EXCEPT ![t] = 0]
          BY <1>13, <3>1
        <5> QED
          BY <2>1, <5>1, <5>2
      <4>3. pc' \in [Threads -> Labels] /\ pos' \in [Threads -> Word]
        <5>1. pc \in [Threads -> Labels] /\ pos \in [Threads -> Word]
          BY DEF Typed
        <5>2. pc' = [pc EXCEPT ![t] = "idle"] /\ pos' = [pos EXCEPT ![t] = 0]
          BY <1>13, <3>1
        <5> QED
          BY <2>1, <4>1, <5>1, <5>2
      <4>4. out' \in [Threads -> Seq(1 .. MaxPushes)]
        BY <1>13, <2>1, <3>1 DEF Typed
      <4> QED
        BY <4>2, <4>3, <4>4
    <3>2. CASE ~last
      BY <1>12, <2>2, <3>2 DEF Typed, Labels
    <3> QED
      BY <3>1, <3>2
  <2>5. pc'[t] \notin WaitingLabels \cup {"write", "publish"} /\ t \in Poppers
    BY <1>1, <1>12, <1>13 DEF Typed, WaitingLabels
  <2> QED
    BY <1>1, <1>11, <2>3, <2>4, <2>5 DEF Typed
<1>15. /\ \A u \in Threads : Claiming(u)' <=> Claiming(u)
       /\ \A u \in Threads \ {t} : Holding(u)' <=> Holding(u)
       /\ Holding(t)' <=> ~last
  <2>1. pc'[t] \in {"release", "read"} <=> ~last
    BY <1>1, <1>12, <1>13 DEF Typed
  <2>2. pc'[t] \notin {"write", "publish"}
    BY <1>1, <1>12, <1>13 DEF Typed
  <2> QED
    BY <1>3, <1>11, <2>1, <2>2 DEF Claiming, Holding
<1>16. \A u \in Threads \ {t} : Released(u)' = Released(u) /\ Rest(u, Q)' = Rest(u, P)
  BY <1>1, <1>10, <1>11 DEF Released, Rest
<1>17. ~last => Released(t)' = i[t] + 1 /\ Rest(t, Q)' = p + 1 .. P[t] + m[t] - 1
  <2> SUFFICES ASSUME ~last
      PROVE  Released(t)' = i[t] + 1 /\ Rest(t, Q)' = p + 1 .. P[t] + m[t] - 1
    OBVIOUS
  <2>1. i'[t] = i[t] + 1 /\ m'[t] = m[t] /\ Q[t] = P[t]
    BY <1>1, <1>10, <1>12 DEF Typed
  <2>2. light => pc'[t] = "release"
    BY <1>1, <1>12 DEF Typed
  <2>3. Released(t)' = i[t] + 1
    BY <1>1, <2>1, <2>2 DEF Released
  <2>4. P[t] + (i[t] + 1) = p + 1
    BY <1>2, <1>4
  <2> QED
    BY <2>1, <2>3, <2>4 DEF Rest
<1>18. Unwrapped(H, T, R, Q)'
  <2>1. Wrap((pos[t] + i[t]) + Capacity) = Wrap(x)
    <3>1. i[t] + Capacity \in Int
      BY <1>4, Sizes
    <3>2. Wrap(Wrap(P[t]) + (i[t] + Capacity)) = Wrap(P[t] + (i[t] + Capacity))
      BY <1>2, <3>1, WrapTwice
    <3>3. /\ P[t] + (i[t] + Capacity) = x
          /\ Wrap(P[t]) + (i[t] + Capacity) = (pos[t] + i[t]) + Capacity
      BY <1>2, <1>4, WrapType, Sizes DEF Word
    <3> QED
      BY <3>2, <3>3
  <2> HIDE DEF x
  <2>2. \A c \in Cells : seq'[c] = Wrap(R[c])
    BY <1>1, <1>2, <1>4, <1>7, <1>8, <1>9, <2>1 DEF Typed, Unwrapped
  <2>3. pos'[t] = Wrap(Q[t])
    BY <1>1, <1>2, <1>10, <1>12, <1>13, WrapZero DEF Typed
  <2>4. \A u \in Threads : pos'[u] = Wrap(Q[u])
    BY <1>2, <1>10, <1>11, <2>3 DEF Unwrapped
  <2> QED
    BY <1>1, <1>2, <2>2, <2>4 DEF Unwrapped
<1>19. Cursors(B, H, T)'
  <2>1. pc'[t] \notin WaitingLabels /\ pc[t] \notin WaitingLabels
    BY <1>1, <1>12, <1>13 DEF Typed, WaitingLabels
  <2> QED
    BY <1>1, <1>2, <1>11, <2>1, SameCursors
<1> HIDE DEF last
<1>20. Owners(B, H, T, R, Q)'
  <2>1. ASSUME NEW u \in Threads
        PROVE  ClaimOK(u, H, T, R, Q)' /\ HoldOK(u, B, H, T, R, Q)'
    <3>1. ClaimOK(u, H, T, S, P) /\ HoldOK(u, B, H, T, S, P) /\ P[u] \in Int
      BY <1>2 DEF Owners
    <3>2. ClaimOK(u, H, T, R, Q)'
      <4>1. SUFFICES ASSUME u # t, Claiming(u)
            PROVE  ClaimOK(u, H, T, R, Q)'
        BY <1>3, <1>15 DEF ClaimOK
      <4>2. P[u] \in H - Capacity .. H - 1 /\ T =< P[u]
        BY <4>1, ClaimedSlot DEF SlotOfClaim
      <4>3. P[u] # p
        BY <1>4, <1>5, <3>1, <4>2
      <4>4. R[Cell(P[u])] = S[Cell(P[u])] /\ Q[u] = P[u]
        BY <1>8, <1>10, <4>1, <4>2, <4>3
      <4> QED
        BY <1>1, <1>11, <3>1, <4>1, <4>4 DEF ClaimOK
    <3>3. CASE u # t
      <4>1. SUFFICES ASSUME Holding(u)
            PROVE  HoldOK(u, B, H, T, R, Q)'
        BY <1>15, <3>2, <3>3 DEF HoldOK
      <4>2. m[u] \in Nat /\ Released(u) \in Nat
        BY Sizes DEF Typed, Released
      <4>3. P[u] + m[u] =< P[t] \/ P[t] + m[t] =< P[u]
        BY <1>1, <1>2, <1>3, <3>3, <4>1 DEF Owners, Apart
      <4>4. ASSUME NEW q \in Rest(u, P)
            PROVE  R[Cell(q)] = q + 1
        <5>1. q \in H - Capacity .. H - 1 /\ S[Cell(q)] = q + 1
          BY <4>1, <4>4, HeldSlot
        <5>2. q # p
          BY <1>2, <1>4, <3>1, <4>2, <4>3, <4>4 DEF Rest
        <5> QED
          BY <1>8, <5>1, <5>2
      <4>5. Released(u)' = Released(u) /\ Rest(u, Q)' = Rest(u, P) /\ Q[u] = P[u]
        BY <1>10, <1>16, <3>3
      <4>6. HoldOK(u, B, H, T, R, Q)'
        BY <1>1, <1>11, <3>1, <3>3, <4>1, <4>4, <4>5 DEF HoldOK
      <4> QED
        BY <3>2, <4>6
    <3>4. CASE u = t
      <4>1. SUFFICES ASSUME ~last
            PROVE  HoldOK(t, B, H, T, R, Q)'
        BY <1>15, <3>2, <3>4 DEF HoldOK
      <4>2. /\ Released(t)' = i[t] + 1 /\ Rest(t, Q)' = p + 1 .. P[t] + m[t] - 1
            /\ Q[t] = P[t] /\ m'[t] = m[t] /\ i'[t] = i[t] + 1 /\ out'[t] = out[t]
            /\ pc'[t] = IF light THEN "release" ELSE "read"
        BY <1>1, <1>10, <1>12, <1>17, <4>1 DEF Typed
      <4>3. i[t] + 1 < m[t]
        BY <4>1 DEF last
      <4>4. H - Capacity =< P[t] + (i[t] + 1)
        BY <1>2, <1>4, <1>5, Sizes
      <4>5. ASSUME NEW q \in p + 1 .. P[t] + m[t] - 1
            PROVE  R[Cell(q)] = q + 1
        <5>1. q \in Rest(t, P) /\ q # p
          <6>1. P[t] \in Int /\ m[t] \in Nat /\ p \in Int
            BY <1>2, <1>4
          <6>2. q \in p .. P[t] + m[t] - 1 /\ q # p
            BY <4>5, <6>1
          <6> QED
            BY <1>6, <6>2
        <5>2. q \in H - Capacity .. H - 1 /\ S[Cell(q)] = q + 1
          BY <1>a, <5>1
        <5> QED
          BY <1>8, <5>1, <5>2
      <4>6. B =< P[t] /\ P[t] + m[t] =< T
        BY <1>3, <1>6 DEF HoldOK
      <4>7. Len(out'[t]) = IF pc'[t] = "read" THEN i'[t]
                           ELSE IF light THEN m[t] ELSE i'[t] + 1
        BY <1>6, <4>2
      <4> QED
        BY <1>1, <4>2, <4>3, <4>4, <4>5, <4>6, <4>7 DEF HoldOK
    <3> QED
      BY <3>2, <3>3, <3>4
  <2>2. Apart(Q)'
    <3>1. ASSUME NEW u \in Threads, Holding(u)'
          PROVE  Holding(u) /\ Q[u] = P[u] /\ m'[u] = m[u]
      <4>1. CASE u = t
        BY <1>3, <1>10, <1>12, <1>15, <3>1, <4>1
      <4>2. CASE u # t
        BY <1>10, <1>11, <1>15, <3>1, <4>2
      <4> QED
        BY <4>1, <4>2
    <3>2. ASSUME NEW u \in Threads, Claiming(u)'
          PROVE  Claiming(u) /\ Q[u] = P[u]
      BY <1>3, <1>10, <1>15, <3>2
    <3> QED
      BY <1>2, <3>1, <3>2 DEF Owners, Apart
  <2> QED
    BY <2>1, <2>2 DEF Owners
<1>21. Slots(B, H, T, R, Q)'
  <2>1. ASSUME NEW q \in H - Capacity .. H - 1
        PROVE  SlotOK(q, B, H, T, R, Q)'
    <3>1. SlotOK(q, B, H, T, S, P)
      BY <1>2 DEF Slots
    <3>2. CASE q = p
      <4>1. R[Cell(q)] = q + Capacity /\ ~(q >= T) /\ R[Cell(q)] # q + 1
        BY <1>4, <1>5, <1>8, <3>2, Sizes
      <4> QED
        BY <4>1 DEF SlotOK
    <3>3. CASE q # p
      <4>1. (\E u \in Threads : Claiming(u) /\ P[u] = q)
            => \E u \in Threads : Claiming(u)' /\ Q[u] = q
        BY <1>3, <1>10, <1>15
      <4>2. (\E u \in Threads : Holding(u) /\ q \in Rest(u, P))
            => \E u \in Threads : Holding(u)' /\ q \in Rest(u, Q)'
        <5>1. SUFFICES ASSUME NEW u \in Threads, Holding(u), q \in Rest(u, P)
              PROVE  Holding(u)' /\ q \in Rest(u, Q)'
          OBVIOUS
        <5>2. CASE u # t
          BY <1>15, <1>16, <5>1, <5>2
        <5>3. CASE u = t
          <6>1. q \in p .. P[t] + m[t] - 1
            BY <1>6, <5>1, <5>3
          <6>2. q \in p + 1 .. P[t] + m[t] - 1
            BY <1>2, <1>4, <3>3, <6>1
          <6>3. i[t] + 1 < m[t]
            BY <1>2, <1>4, <6>2
          <6>4. ~last
            BY <6>3 DEF last
          <6> QED
            BY <1>15, <1>17, <5>3, <6>2, <6>4
        <5> QED
          BY <5>2, <5>3
      <4>3. R[Cell(q)] = S[Cell(q)] /\ val' = val
        BY <1>1, <1>8, <3>3
      <4> QED
        BY <3>1, <4>1, <4>2, <4>3 DEF SlotOK
    <3> QED
      BY <3>2, <3>3
  <2> QED
    BY <2>1 DEF Slots
<1>22. Locals(B, H, T, R, Q)'
  <2>1. ASSUME NEW u \in Threads
        PROVE  PushOK(u, B, H, R, Q)' /\ PopOK(u, B, H, T, R, Q)'
    <3>1. PushOK(u, B, H, S, P) /\ PopOK(u, B, H, T, S, P) /\ m[u] \in Int
      BY <1>2, Sizes DEF Locals, Typed
    <3>2. CASE u # t
      <4>1. PushOK(u, B, H, R, Q)'
        BY <1>1, <1>8, <1>10, <1>11, <3>1, <3>2 DEF PushOK
      <4>2. Ready(H, T, S, m[u]) => Ready(H, T, R, m[u])
        BY <1>8, <3>1
      <4>3. PopOK(u, B, H, T, R, Q)'
        BY <1>10, <1>11, <1>15, <3>1, <3>2, <4>2 DEF PopOK
      <4> QED
        BY <4>1, <4>3
    <3>3. CASE u = t
      <4>1. pc'[t] \in {"idle", "release", "read"}
        BY <1>1, <1>12, <1>13 DEF Typed
      <4>2. last => out'[t] = <<>> /\ i'[t] = 0
        BY <1>1, <1>13 DEF Typed
      <4>3. PushOK(t, B, H, R, Q)'
        BY <4>1 DEF PushOK, WaitingLabels
      <4>4. PopOK(t, B, H, T, R, Q)'
        BY <1>15, <4>1, <4>2 DEF PopOK
      <4> QED
        BY <3>3, <4>3, <4>4
    <3> QED
      BY <3>2, <3>3
  <2> QED
    BY <2>1 DEF Locals
<1>23. Numbered(B, H, T, R, Q)'
  BY <1>18, <1>19, <1>20, <1>21, <1>22 DEF Numbered
<1>24. i[t] + 1 < m[t] => Q = P
  BY <1>10 DEF last
<1> QED
  BY <1>8, <1>10, <1>14, <1>23, <1>24

-----------------------------------------------------------------------------
(* The invariant holds initially, and every step preserves it.             *)

(* A word is its own number.                                               *)
LEMMA WrapSmall == \A a \in 0 .. Modulus - 1 : Wrap(a) = a
<1> TAKE a \in 0 .. Modulus - 1
<1>1. Modulus \in Nat \ {0} /\ Modulus * 0 + a = a
  BY Sizes
<1>2. (Modulus * 0 + a) % Modulus = a
  BY <1>1, DivisionIsUnique
<1> QED
  BY <1>1, <1>2 DEF Wrap

(* The number of a cell at the start.                                      *)
LEMMA FirstSlot ==
  ASSUME NEW s \in Int, NEW p \in s - Capacity .. s - 1
  PROVE  s + ((Cell(p) - s) % Capacity) = p + Capacity
<1> DEFINE k == p \div Capacity
           c == Cell(p)
           r == (p - s) + Capacity
<1>1. Capacity \in Nat \ {0} /\ p \in Int
  BY Sizes
<1>2. c \in Int /\ k \in Int /\ p = Capacity * k + c
  BY <1>1, Division DEF Cell
<1>3. r \in 0 .. Capacity - 1
  BY <1>1
<1>4. /\ Capacity * (-k - 1) = -(Capacity * k) - Capacity
      /\ Capacity * k \in Int /\ -k - 1 \in Int
  BY <1>1, <1>2
<1>5. c - s = Capacity * (-k - 1) + r
  <2> DEFINE x == Capacity * k
             y == Capacity * (-k - 1)
  <2>1. y = -x - Capacity /\ x \in Int /\ p = x + c
    BY <1>2, <1>4
  <2> HIDE DEF x, y, c
  <2>2. c - s = y + r
    BY <1>1, <1>2, <2>1
  <2> QED
    BY <2>2 DEF y
<1>6. (c - s) % Capacity = r
  <2> HIDE DEF c, r, k
  <2> QED
    BY <1>1, <1>3, <1>4, <1>5, DivisionIsUnique
<1> QED
  BY <1>1, <1>6

(* init(), and a queue used before, has such numbers.                      *)
LEMMA InitQInv == Init => QInv
<1> SUFFICES ASSUME Init
    PROVE  QInv
  OBVIOUS
<1>1. PICK s \in Starts :
        /\ head = s /\ tail = s
        /\ seq = [c \in 0 .. Capacity - 1 |-> Wrap(s + ((c - s) % Capacity))]
  BY DEF Init
<1>2. /\ val = [c \in Cells |-> 0] /\ light \in BOOLEAN
      /\ pc = [t \in Threads |-> "idle"] /\ pos = [t \in Threads |-> 0]
      /\ m = [t \in Threads |-> 0] /\ i = [t \in Threads |-> 0]
      /\ arg = [t \in Threads |-> 0] /\ out = [t \in Threads |-> <<>>]
      /\ pushes = 0
  BY DEF Init, Cells
<1>3. s \in 0 .. Modulus - 1 /\ s \in Int /\ Wrap(s) = s
  BY Sizes, WrapSmall
<1> DEFINE S == [c \in Cells |-> s + ((c - s) % Capacity)]
           P == [t \in Threads |-> 0]
<1>4. \A c \in Cells : s + ((c - s) % Capacity) \in Int
  <2> TAKE c \in Cells
  <2>1. c - s \in Int /\ Capacity \in Nat \ {0}
    BY <1>3, Sizes DEF Cells
  <2>2. (c - s) % Capacity \in 0 .. Capacity - 1
    BY <2>1, Division
  <2> QED
    BY <1>3, <2>1, <2>2
<1>5. S \in [Cells -> Int] /\ P \in [Threads -> Int]
  BY <1>4
<1>6. \A c \in Cells : seq[c] = Wrap(S[c])
  BY <1>1 DEF Cells
<1>7. Typed
  <2>1. 0 \in Word /\ 0 \in 0 .. MaxPushes /\ 0 \in 0 .. MaxBulk
        /\ <<>> \in Seq(1 .. MaxPushes) /\ "idle" \in Labels /\ s \in Word
    BY <1>3, Sizes DEF Word, Labels
  <2>2. seq \in [Cells -> Word]
    <3>1. \A c \in Cells : Wrap(s + ((c - s) % Capacity)) \in Word
      BY <1>4, WrapType
    <3> QED
      BY <1>1, <3>1 DEF Cells
  <2>3. \A t \in Threads : pc[t] \notin WaitingLabels \cup {"write", "publish"}
                           /\ pc[t] = "idle"
    BY <1>2 DEF WaitingLabels
  <2> QED
    BY <1>1, <1>2, <2>1, <2>2, <2>3 DEF Typed
<1>8. \A t \in Threads : ~Claiming(t) /\ ~Holding(t) /\ pc[t] = "idle"
  BY <1>2 DEF Claiming, Holding
<1>9. Unwrapped(s, s, S, P)
  <2> HIDE DEF S
  <2>1. \A t \in Threads : pos[t] = Wrap(P[t])
    BY <1>2, WrapZero
  <2> QED
    BY <1>1, <1>3, <1>6, <2>1 DEF Unwrapped
<1>10. Cursors(s, s, s)
  <2>1. Waiting = {}
    BY <1>2 DEF Waiting, WaitingLabels, Threads
  <2> QED
    BY <1>2, <1>3, <2>1, FS_EmptySet, Sizes DEF Cursors
<1>11. Slots(s, s, s, S, P)
  <2>1. ASSUME NEW p \in s - Capacity .. s - 1
        PROVE  SlotOK(p, s, s, s, S, P)
    <3>1. p \in Int /\ p < s
      BY <1>3, Sizes
    <3>2. S[Cell(p)] = p + Capacity
      BY <1>3, <3>1, FirstSlot, CellType
    <3> HIDE DEF S, P
    <3>3. ~(p >= s) /\ p < s
      BY <1>3, <3>1
    <3> QED
      BY <3>2, <3>3 DEF SlotOK
  <2> QED
    BY <2>1 DEF Slots
<1> HIDE DEF S, P
<1>12. Owners(s, s, s, S, P)
  BY <1>8 DEF Owners, ClaimOK, HoldOK, Apart
<1>13. Locals(s, s, s, S, P)
  BY <1>2, <1>8 DEF Locals, PushOK, PopOK, WaitingLabels
<1>14. Numbered(s, s, s, S, P)
  BY <1>9, <1>10, <1>11, <1>12, <1>13 DEF Numbered
<1> QED
  BY <1>3, <1>5, <1>7, <1>14 DEF QInv

(* What a step does to the numbers.                                        *)
LEMMA NumberedStep ==
  ASSUME NEW B \in Int, NEW H \in Int, NEW T \in Int, NEW S \in [Cells -> Int],
         NEW P \in [Threads -> Int], Typed, Numbered(B, H, T, S, P), [Next]_vars
  PROVE  Typed' /\ \E G, F \in Int, R \in [Cells -> Int], Q \in [Threads -> Int] :
                     Numbered(B, G, F, R, Q)'
<1>1. ASSUME NEW t \in Pushers, BeginPush(t)
      PROVE  Typed' /\ \E Q \in [Threads -> Int] : Numbered(B, H, T, S, Q)'
  BY <1>1, BeginPushStep
<1>2. ASSUME NEW t \in Pushers, PushReload(t)
      PROVE  Typed' /\ \E Q \in [Threads -> Int] : Numbered(B, H, T, S, Q)'
  BY <1>2, PushReloadStep
<1>3. ASSUME NEW t \in Pushers, PushCheck(t)
      PROVE  Typed' /\ \E Q \in [Threads -> Int] : Numbered(B, H, T, S, Q)'
  BY <1>3, PushCheckStep
<1>4. ASSUME NEW t \in Pushers, PushCas(t)
      PROVE  Typed' /\ \E G \in Int, Q \in [Threads -> Int] : Numbered(B, G, T, S, Q)'
  <2>1. CASE head = pos[t]
    <3>1. Typed' /\ Numbered(B, H + 1, T, S, P)'
      BY <1>4, <2>1, PushWonStep
    <3>2. H + 1 \in Int
      OBVIOUS
    <3> QED
      BY <3>1, <3>2
  <2>2. CASE head # pos[t]
    <3>1. Typed' /\ \E Q \in [Threads -> Int] : Numbered(B, H, T, S, Q)'
      BY <1>4, <2>2, PushLostStep
    <3> QED
      BY <3>1
  <2> QED
    BY <2>1, <2>2
<1>5. ASSUME NEW t \in Pushers, PushWrite(t)
      PROVE  Typed' /\ \E Q \in [Threads -> Int] : Numbered(B, H, T, S, Q)'
  BY <1>5, PushWriteStep
<1>6. ASSUME NEW t \in Pushers, PushPublish(t)
      PROVE  Typed' /\ \E R \in [Cells -> Int], Q \in [Threads -> Int] :
                         Numbered(B, H, T, R, Q)'
  BY <1>6, PushPublishStep
<1>7. ASSUME NEW t \in Poppers, BeginPop(t) \/ PopReload(t)
      PROVE  Typed' /\ \E Q \in [Threads -> Int] : Numbered(B, H, T, S, Q)'
  <2>1. PICK first \in {"popCheck", "scan"} :
          pc[t] \in {"idle", "popLoad", "bulkLoad"} /\ LoadTail(t, first)
    BY <1>7 DEF BeginPop, PopReload
  <2> QED
    BY <2>1, LoadTailStep
<1>8. ASSUME NEW t \in Poppers, PopCheck(t)
      PROVE  Typed' /\ \E Q \in [Threads -> Int] : Numbered(B, H, T, S, Q)'
  BY <1>8, PopCheckStep
<1>9. ASSUME NEW t \in Poppers, BulkScan(t)
      PROVE  Typed' /\ \E Q \in [Threads -> Int] : Numbered(B, H, T, S, Q)'
  BY <1>9, BulkScanStep
<1>10. ASSUME NEW t \in Poppers, BulkRecheck(t)
       PROVE  Typed' /\ \E Q \in [Threads -> Int] : Numbered(B, H, T, S, Q)'
  BY <1>10, BulkRecheckStep
<1>11. ASSUME NEW t \in Poppers, PopCas(t)
       PROVE  Typed' /\ \E F \in Int, Q \in [Threads -> Int] : Numbered(B, H, F, S, Q)'
  <2>1. CASE TailUnchanged(t)
    <3>1. PICK k \in Nat : m[t] = k
      BY Sizes DEF Typed, Threads
    <3>2. Typed' /\ Numbered(B, H, T + k, S, P)'
      BY <1>11, <2>1, <3>1, PopWonStep
    <3>3. T + k \in Int
      OBVIOUS
    <3> QED
      BY <3>2, <3>3
  <2>2. CASE ~TailUnchanged(t)
    <3>1. Typed' /\ \E Q \in [Threads -> Int] : Numbered(B, H, T, S, Q)'
      BY <1>11, <2>2, PopLostStep
    <3> QED
      BY <3>1
  <2> QED
    BY <2>1, <2>2
<1>12. ASSUME NEW t \in Poppers, PopRead(t)
       PROVE  Typed' /\ \E Q \in [Threads -> Int] : Numbered(B, H, T, S, Q)'
  BY <1>12, PopReadStep
<1>13. ASSUME NEW t \in Poppers, PopRelease(t)
       PROVE  Typed' /\ \E R \in [Cells -> Int], Q \in [Threads -> Int] :
                          Numbered(B, H, T, R, Q)'
  BY <1>13, PopReleaseStep
<1>14. ASSUME UNCHANGED vars
       PROVE  Typed' /\ Numbered(B, H, T, S, P)'
  <2>1. /\ head' = head /\ tail' = tail /\ seq' = seq /\ val' = val /\ light' = light
        /\ pc' = pc /\ pos' = pos /\ m' = m /\ i' = i /\ arg' = arg /\ out' = out
        /\ pushes' = pushes
    BY <1>14 DEF vars, words, local
  <2>2. Typed'
    BY <2>1 DEF Typed
  <2>3. Unwrapped(H, T, S, P)' /\ Cursors(B, H, T)'
    BY <2>1 DEF Numbered, Unwrapped, Cursors, Waiting
  <2>4. Owners(B, H, T, S, P)'
    BY <2>1 DEF Numbered, Owners, ClaimOK, HoldOK, Apart, Claiming, Holding, Rest, Released
  <2>5. Slots(B, H, T, S, P)'
    BY <2>1 DEF Numbered, Slots, SlotOK, Claiming, Holding, Rest, Released
  <2>6. Locals(B, H, T, S, P)'
    BY <2>1 DEF Numbered, Locals, PushOK, PopOK, Holding
  <2> QED
    BY <2>2, <2>3, <2>4, <2>5, <2>6 DEF Numbered
<1>15. CASE UNCHANGED vars
  BY <1>14, <1>15
<1>16. CASE \E t \in Pushers : BeginPush(t) \/ PushStep(t)
  BY <1>1, <1>2, <1>3, <1>4, <1>5, <1>6, <1>16 DEF PushStep
<1>17. CASE \E t \in Poppers : BeginPop(t) \/ PopStep(t)
  BY <1>7, <1>8, <1>9, <1>10, <1>11, <1>12, <1>13, <1>17 DEF PopStep
<1> QED
  BY <1>15, <1>16, <1>17 DEF Next

(* Every step finds the numbers and leaves new ones.                       *)
LEMMA StepQInv == QInv /\ [Next]_vars => QInv'
<1> SUFFICES ASSUME QInv, [Next]_vars
    PROVE  QInv'
  OBVIOUS
<1>1. Typed
  BY DEF QInv
<1>2. PICK B, H, T \in Int, S \in [Cells -> Int], P \in [Threads -> Int] :
        Numbered(B, H, T, S, P)
  BY DEF QInv
<1>3. Typed' /\ \E G, F \in Int, R \in [Cells -> Int], Q \in [Threads -> Int] :
                  Numbered(B, G, F, R, Q)'
  BY <1>1, <1>2, NumberedStep
<1> QED
  BY <1>3 DEF QInv

(* The numbers exist in every reachable state.                             *)
THEOREM SpecQInv == Spec => []QInv
<1> QED
  BY InitQInv, StepQInv, PTL DEF Spec

-----------------------------------------------------------------------------
(* The types and the two answers of the queue.                             *)

(* The distance of two words is that of their numbers.                     *)
LEMMA Distance ==
  ASSUME NEW a \in Int, NEW b \in Int, b =< a, a - b < Modulus
  PROVE  Wrap(Wrap(a) - Wrap(b)) = a - b
<1> DEFINE r == b \div Modulus
           y == Modulus * r
<1>1. Modulus \in Nat \ {0}
  BY Sizes
<1>2. r \in Int /\ b = y + Wrap(b) /\ y \in Int /\ Wrap(b) \in Int /\ Wrap(a) \in Int
  BY <1>1, Division DEF Wrap
<1>3. Wrap(Wrap(a) - Wrap(b)) = Wrap(a - Wrap(b))
  <2>1. -Wrap(b) \in Int
    BY <1>2
  <2>2. Wrap(Wrap(a) + (-Wrap(b))) = Wrap(a + (-Wrap(b)))
    BY <2>1, WrapTwice
  <2>3. Wrap(a) + (-Wrap(b)) = Wrap(a) - Wrap(b) /\ a + (-Wrap(b)) = a - Wrap(b)
    BY <1>2
  <2> QED
    BY <2>2, <2>3
<1>4. Wrap(a - Wrap(b)) = Wrap(a - b)
  <2> DEFINE w == Wrap(b)
             d == a - b
  <2>1. b = y + w /\ y \in Int /\ w \in Int /\ d = a - b /\ d \in Int
    BY <1>2
  <2>2. a - w = d + y
    <3> HIDE DEF w, d, y
    <3> QED
      BY <2>1
  <2>3. (d + Modulus * r) % Modulus = d % Modulus
    <3> HIDE DEF d, r
    <3> QED
      BY <1>1, <1>2, <2>1, Congruent
  <2> QED
    BY <2>2, <2>3 DEF Wrap
<1>5. a - b \in 0 .. Modulus - 1
  BY <1>1
<1> QED
  BY <1>3, <1>4, <1>5, WrapSmall

(* The number of values in the queue.                                      *)
LEMMA Length ==
  ASSUME NEW B \in Int, NEW H \in Int, NEW T \in Int, NEW S \in [Cells -> Int],
         NEW P \in [Threads -> Int], Numbered(B, H, T, S, P)
  PROVE  /\ Wrap(head - tail) = H - T /\ H - T \in 0 .. Capacity
         /\ head = tail => H = T
<1>1. head = Wrap(H) /\ tail = Wrap(T) /\ T =< H /\ H =< T + Capacity
  BY DEF Numbered, Unwrapped, Cursors
<1>2. H - T < Modulus /\ T - H < Modulus /\ H - T \in 0 .. Capacity
  BY <1>1, Sizes
<1>3. Wrap(head - tail) = H - T
  BY <1>1, <1>2, Distance
<1>4. head = tail => H = T
  BY <1>1, <1>2, WordsApart
<1> QED
  BY <1>2, <1>3, <1>4

(* The types of TaskQueue, and the bound of the queue: no more positions   *)
(* are claimed and not yet taken than there are cells (push and pop of     *)
(* queue.h, the comparisons of the cell number with the cursor).           *)
THEOREM SpecTypeOK == Spec => []TypeOK
<1>1. QInv => TypeOK
  <2> SUFFICES ASSUME QInv
      PROVE  TypeOK
    OBVIOUS
  <2>1. PICK B, H, T \in Int, S \in [Cells -> Int], P \in [Threads -> Int] :
          Numbered(B, H, T, S, P)
    BY DEF QInv
  <2>2. Wrap(head - tail) \in 0 .. Capacity
    BY <2>1, Length
  <2>3. Typed
    BY DEF QInv
  <2> QED
    BY <2>2, <2>3 DEF TypeOK, Typed, Cells, Labels
<1> QED
  BY <1>1, SpecQInv, PTL

(* A step moves one thread: a push is at one of its own labels, and so is  *)
(* a pop.                                                                  *)
LEMMA PushMoves ==
  ASSUME Typed, NEW u \in Pushers, BeginPush(u) \/ PushStep(u)
  PROVE  /\ pc[u] \in WaitingLabels \cup {"idle", "write", "publish"}
         /\ \A t \in Threads \ {u} : pc'[t] = pc[t]
         /\ (pc[u] = "pushCheck" /\ pc'[u] = "full") => CellOccupied(pos[u])
<1>1. u \in Threads /\ pc \in [Threads -> Labels]
  BY DEF Threads, Typed
<1>2. CASE BeginPush(u) \/ PushReload(u) \/ PushWrite(u) \/ PushPublish(u)
  BY <1>1, <1>2 DEF BeginPush, PushReload, PushWrite, PushPublish, Goto, WaitingLabels
<1>3. CASE PushCheck(u)
  BY <1>1, <1>3 DEF PushCheck, Goto, WaitingLabels
<1>4. CASE PushCas(u)
  BY <1>1, <1>4 DEF PushCas, Goto, WaitingLabels
<1> QED
  BY <1>2, <1>3, <1>4 DEF PushStep

(* Likewise for a pop, which gives up only over an awaited cell.           *)
LEMMA PopMoves ==
  ASSUME Typed, NEW u \in Poppers, BeginPop(u) \/ PopStep(u)
  PROVE  /\ pc[u] \notin WaitingLabels \cup {"write", "publish"}
         /\ \A t \in Threads \ {u} : pc'[t] = pc[t]
         /\ (pc[u] \in {"popCheck", "recheck"} /\ pc'[u] = "idle") => Awaited(pos[u])
<1>1. u \in Threads /\ pc \in [Threads -> Labels]
  BY DEF Threads, Typed
<1>2. CASE BeginPop(u) \/ PopReload(u)
  BY <1>1, <1>2 DEF BeginPop, PopReload, LoadTail, Goto, WaitingLabels
<1>3. CASE PopCheck(u)
  BY <1>1, <1>3 DEF PopCheck, ReturnEmpty, Goto, WaitingLabels
<1>4. CASE BulkScan(u)
  BY <1>1, <1>4 DEF BulkScan, Goto, WaitingLabels
<1>5. CASE BulkRecheck(u)
  BY <1>1, <1>5 DEF BulkRecheck, ReturnEmpty, Goto, WaitingLabels
<1>6. CASE PopCas(u)
  BY <1>1, <1>6 DEF PopCas, Goto, WaitingLabels
<1>7. CASE PopRead(u)
  BY <1>1, <1>7 DEF PopRead, Goto, WaitingLabels
<1>8. CASE PopRelease(u)
  BY <1>1, <1>8 DEF PopRelease, Goto, WaitingLabels
<1> QED
  BY <1>2, <1>3, <1>4, <1>5, <1>6, <1>7, <1>8 DEF PopStep

(* The cell of the position of a pop is awaited only if that position is   *)
(* the tail, and the queue is empty or the push there has not published.   *)
LEMMA AwaitedAtTail ==
  ASSUME NEW B \in Int, NEW H \in Int, NEW T \in Int, NEW S \in [Cells -> Int],
         NEW P \in [Threads -> Int], Typed, Numbered(B, H, T, S, P),
         NEW t \in Threads, B =< P[t], P[t] =< T, Awaited(pos[t])
  PROVE  /\ pos[t] = tail
         /\ tail = head \/ \E u \in Pushers : Claiming(u) /\ pos[u] = tail
<1>1. /\ head = Wrap(H) /\ tail = Wrap(T) /\ pos[t] = Wrap(P[t]) /\ P[t] \in Int
      /\ B =< T /\ T =< H
  BY DEF Numbered, Unwrapped, Cursors
<1>2. S[Cell(P[t])] < P[t] + 1 /\ S[Cell(P[t])] \in Int
  <2>1. P[t] =< H /\ Cell(P[t]) \in Cells
    BY <1>1, CellType
  <2> QED
    BY <1>1, <2>1, Looks
<1>3. P[t] = T
  <2>1. P[t] < T => S[Cell(P[t])] >= P[t] + 1
    BY <1>1, Passed
  <2> QED
    BY <1>1, <1>2, <2>1
<1>4. CASE T < H
  <2>1. T \in H - Capacity .. H - 1
    BY <1>1, <1>4, Sizes DEF Numbered, Cursors
  <2>2. SlotOK(T, B, H, T, S, P)
    BY <2>1 DEF Numbered, Slots
  <2>3. PICK u \in Threads : Claiming(u) /\ P[u] = T
    BY <1>2, <1>3, <2>2 DEF SlotOK
  <2>4. u \in Pushers
    BY <2>3 DEF Typed, Claiming
  <2>5. pos[u] = tail
    BY <1>1, <2>3 DEF Numbered, Unwrapped
  <2> QED
    BY <1>1, <1>3, <2>3, <2>4, <2>5
<1>5. CASE T = H
  BY <1>1, <1>3, <1>5
<1> QED
  BY <1>1, <1>4, <1>5

(* A pop that comes back empty-handed is right about the queue (pop and    *)
(* pop_bulk, the return on dif < 0).                                       *)
THEOREM SpecEmptyIsHonest == Spec => EmptyIsHonest
<1> DEFINE Honest(t) ==
      GivesUpEmpty(t) =>
        /\ pos[t] = tail
        /\ tail = head \/ \E u \in Pushers : Claiming(u) /\ pos[u] = tail
<1>1. ASSUME QInv, [Next]_vars, NEW t \in Poppers, GivesUpEmpty(t)
      PROVE  /\ pos[t] = tail
             /\ tail = head \/ \E u \in Pushers : Claiming(u) /\ pos[u] = tail
  <2>1. PICK B, H, T \in Int, S \in [Cells -> Int], P \in [Threads -> Int] :
          Numbered(B, H, T, S, P)
    BY <1>1 DEF QInv
  <2>2. Typed /\ t \in Threads
    BY <1>1 DEF QInv, Threads
  <2>3. pc[t] \in {"popCheck", "recheck"} /\ pc'[t] = "idle"
    BY <1>1 DEF GivesUpEmpty
  <2>4. Awaited(pos[t])
    <3>1. CASE UNCHANGED vars
      BY <2>3, <3>1 DEF vars
    <3>2. CASE \E u \in Pushers : BeginPush(u) \/ PushStep(u)
      <4>1. PICK u \in Pushers : BeginPush(u) \/ PushStep(u)
        BY <3>2
      <4>2. /\ pc[u] \in WaitingLabels \cup {"idle", "write", "publish"}
            /\ \A w \in Threads \ {u} : pc'[w] = pc[w]
        BY <2>2, <4>1, PushMoves
      <4> QED
        BY <2>2, <2>3, <4>2 DEF WaitingLabels
    <3>3. CASE \E u \in Poppers : BeginPop(u) \/ PopStep(u)
      <4>1. PICK u \in Poppers : BeginPop(u) \/ PopStep(u)
        BY <3>3
      <4>2. /\ \A w \in Threads \ {u} : pc'[w] = pc[w]
            /\ (pc[u] \in {"popCheck", "recheck"} /\ pc'[u] = "idle") => Awaited(pos[u])
        BY <2>2, <4>1, PopMoves
      <4>3. u = t
        BY <2>2, <2>3, <4>2
      <4> QED
        BY <2>3, <4>2, <4>3
    <3> QED
      BY <1>1, <3>1, <3>2, <3>3 DEF Next
  <2>5. B =< P[t] /\ P[t] =< T
    BY <2>1, <2>2, <2>3 DEF Numbered, Locals, PopOK
  <2> QED
    BY <2>1, <2>2, <2>4, <2>5, AwaitedAtTail
<1>2. QInv /\ [Next]_vars => [\A t \in Poppers : Honest(t)]_vars
  BY <1>1
<1>3. [][\A t \in Poppers : Honest(t)]_vars => EmptyIsHonest
  BY PTL DEF EmptyIsHonest
<1> QED
  BY <1>2, <1>3, SpecQInv, PTL DEF Spec

(* A push finds the cell of its position occupied only if that position is *)
(* the head, and the value pushed a round earlier is still in the queue or *)
(* with a pop that has it to release.                                      *)
LEMMA OccupiedAtHead ==
  ASSUME NEW B \in Int, NEW H \in Int, NEW T \in Int, NEW S \in [Cells -> Int],
         NEW P \in [Threads -> Int], Typed, Numbered(B, H, T, S, P),
         NEW t \in Threads, B =< P[t], P[t] =< H, CellOccupied(pos[t])
  PROVE  /\ pos[t] = head
         /\ \/ Wrap(head - tail) = Capacity
            \/ \E u \in Poppers :
                 /\ Holding(u)
                 /\ Wrap(head - pos[u]) \in
                      Capacity + Released(u) .. Capacity + m[u] - 1
<1>1. /\ head = Wrap(H) /\ tail = Wrap(T) /\ pos[t] = Wrap(P[t]) /\ P[t] \in Int
      /\ B =< T /\ T =< H /\ H =< T + Capacity /\ Cursors(B, H, T)
  BY DEF Numbered, Unwrapped, Cursors
<1>2. S[Cell(P[t])] < P[t] /\ S[Cell(P[t])] \in Int
  <2>1. Cell(P[t]) \in Cells
    BY <1>1, CellType
  <2> QED
    BY <1>1, <2>1, Looks
<1>3. P[t] = H
  <2>1. P[t] < H => S[Cell(P[t])] >= P[t]
    BY <1>1, Passed
  <2> QED
    BY <1>1, <1>2, <2>1
<1> DEFINE p == H - Capacity
<1>4. p \in Int /\ p + Capacity = H /\ Cell(p) = Cell(H) /\ SlotOK(p, B, H, T, S, P)
  <2>1. Cell(p) = Cell(H) /\ SlotOK(p, B, H, T, S, P)
    BY AtHead
  <2>2. p \in Int /\ p + Capacity = H
    BY Sizes
  <2> QED
    BY <2>1, <2>2
<1>5. CASE p >= T
  <2>1. Wrap(head - tail) = H - T
    BY Length
  <2>2. H - T = Capacity
    BY <1>1, <1>5, Sizes
  <2> QED
    BY <1>1, <1>3, <2>1, <2>2
<1>6. CASE p < T
  <2> HIDE DEF p
  <2>1. PICK u \in Threads : Holding(u) /\ p \in Rest(u, P)
    BY <1>2, <1>3, <1>4, <1>6 DEF SlotOK
  <2>2. u \in Poppers
    BY <2>1 DEF Typed, Holding, WaitingLabels
  <2>3. /\ P[u] \in Int /\ m[u] \in Nat /\ Released(u) \in Nat
        /\ B =< P[u] /\ P[u] + m[u] =< T /\ pos[u] = Wrap(P[u])
    <3>1. HoldOK(u, B, H, T, S, P) /\ pos[u] = Wrap(P[u])
      BY DEF Numbered, Owners, Unwrapped
    <3>2. m[u] \in Nat /\ Released(u) \in Nat
      BY <2>1, NextHeld
    <3> QED
      BY <2>1, <3>1, <3>2 DEF HoldOK
  <2>4. P[u] + Released(u) =< p /\ p =< P[u] + m[u] - 1
    BY <1>4, <2>1, <2>3 DEF Rest
  <2>5. H - P[u] \in Capacity + Released(u) .. Capacity + m[u] - 1
    BY <1>4, <2>3, <2>4, Sizes
  <2>6. P[u] =< H /\ H - P[u] < Modulus
    BY <1>1, <2>3, Bounded, Sizes
  <2>7. Wrap(head - pos[u]) = H - P[u]
    BY <1>1, <2>3, <2>6, Distance
  <2> QED
    BY <1>1, <1>3, <2>1, <2>2, <2>5, <2>7
<1> QED
  BY <1>1, <1>4, <1>5, <1>6

(* A push that reports "full" is right about the queue (push, the return   *)
(* on dif < 0).                                                            *)
THEOREM SpecFullIsHonest == Spec => FullIsHonest
<1> DEFINE Right(t) ==
      /\ pos[t] = head
      /\ \/ Wrap(head - tail) = Capacity
         \/ \E u \in Poppers :
              /\ Holding(u)
              /\ Wrap(head - pos[u]) \in
                   Capacity + Released(u) .. Capacity + m[u] - 1
           Honest(t) == (pc[t] = "pushCheck" /\ pc'[t] = "full") => Right(t)
<1>1. ASSUME QInv, [Next]_vars, NEW t \in Pushers, pc[t] = "pushCheck", pc'[t] = "full"
      PROVE  Right(t)
  <2>1. PICK B, H, T \in Int, S \in [Cells -> Int], P \in [Threads -> Int] :
          Numbered(B, H, T, S, P)
    BY <1>1 DEF QInv
  <2>2. Typed /\ t \in Threads
    BY <1>1 DEF QInv, Threads
  <2>3. CellOccupied(pos[t])
    <3>1. CASE UNCHANGED vars
      BY <1>1, <3>1 DEF vars
    <3>2. CASE \E u \in Pushers : BeginPush(u) \/ PushStep(u)
      <4>1. PICK u \in Pushers : BeginPush(u) \/ PushStep(u)
        BY <3>2
      <4>2. /\ \A w \in Threads \ {u} : pc'[w] = pc[w]
            /\ (pc[u] = "pushCheck" /\ pc'[u] = "full") => CellOccupied(pos[u])
        BY <2>2, <4>1, PushMoves
      <4>3. u = t
        BY <1>1, <2>2, <4>2
      <4> QED
        BY <1>1, <4>2, <4>3
    <3>3. CASE \E u \in Poppers : BeginPop(u) \/ PopStep(u)
      <4>1. PICK u \in Poppers : BeginPop(u) \/ PopStep(u)
        BY <3>3
      <4>2. /\ pc[u] \notin WaitingLabels
            /\ \A w \in Threads \ {u} : pc'[w] = pc[w]
        BY <2>2, <4>1, PopMoves
      <4> QED
        BY <1>1, <2>2, <4>2 DEF WaitingLabels
    <3> QED
      BY <1>1, <3>1, <3>2, <3>3 DEF Next
  <2>4. B =< P[t] /\ P[t] =< H
    BY <1>1, <2>1, <2>2 DEF Numbered, Locals, PushOK
  <2> QED
    BY <2>1, <2>2, <2>3, <2>4, OccupiedAtHead
<1>2. QInv /\ [Next]_vars => [\A t \in Pushers : Honest(t)]_vars
  BY <1>1
<1>3. [][\A t \in Pushers : Honest(t)]_vars => FullIsHonest
  BY PTL DEF FullIsHonest
<1> QED
  BY <1>2, <1>3, SpecQInv, PTL DEF Spec

-----------------------------------------------------------------------------
(* The queue is a FIFO: what the refinement mapping of TaskQueue shows.    *)

QueueValues == [k \in 1 .. Wrap(head - tail) |-> ValueAt(Wrap(tail + k - 1))]
Hands == [t \in Poppers |-> InHand(t)]
ClaimedBy(u, p) == u \in Pushers /\ Claiming(u) /\ pos[u] = p

(* No two pushes claim the same word.                                      *)
LEMMA ClaimersApart ==
  ASSUME QInv, NEW p, NEW u, NEW w, ClaimedBy(u, p), ClaimedBy(w, p)
  PROVE  u = w
<1>1. PICK B, H, T \in Int, S \in [Cells -> Int], P \in [Threads -> Int] :
        Numbered(B, H, T, S, P)
  BY DEF QInv
<1>2. /\ u \in Threads /\ w \in Threads /\ Claiming(u) /\ Claiming(w)
      /\ pos[u] = p /\ pos[w] = p
  BY DEF ClaimedBy, Threads
<1>3. /\ Typed /\ Cursors(B, H, T) /\ Apart(P) /\ B =< T
      /\ pos[u] = Wrap(P[u]) /\ pos[w] = Wrap(P[w])
      /\ ClaimOK(u, H, T, S, P) /\ ClaimOK(w, H, T, S, P)
  BY <1>1, <1>2 DEF QInv, Numbered, Owners, Unwrapped, Cursors
<1>4. /\ P[u] \in Int /\ B =< P[u] /\ P[u] =< H
      /\ P[w] \in Int /\ B =< P[w] /\ P[w] =< H
  BY <1>2, <1>3 DEF ClaimOK
<1>5. P[u] = P[w]
  BY <1>2, <1>3, <1>4, NumbersApart
<1> QED
  BY <1>2, <1>3, <1>5 DEF Apart

(* The value of a word is that of the push which has claimed it, or else   *)
(* the one in the cell.                                                    *)
Tells(p) ==
  /\ \A u \in Pushers : ClaimedBy(u, p) => ValueAt(p) = arg[u]
  /\ (\A u \in Pushers : ~ClaimedBy(u, p)) => ValueAt(p) = val[Cell(p)]
  /\ ValueAt(p) \in 0 .. MaxPushes

(* Tells holds of every word.                                              *)
LEMMA ValueOfWord == QInv => \A p \in Int : Tells(p)
<1> SUFFICES ASSUME QInv, NEW p \in Int
    PROVE  Tells(p)
  OBVIOUS
<1>1. Cell(p) \in Cells /\ val \in [Cells -> 0 .. MaxPushes]
      /\ arg \in [Threads -> 0 .. MaxPushes]
  BY CellType DEF QInv, Typed
<1>2. ASSUME NEW u \in Pushers, ClaimedBy(u, p)
      PROVE  ValueAt(p) = arg[u] /\ arg[u] \in 0 .. MaxPushes
  <2> DEFINE w == CHOOSE t \in Pushers : Claiming(t) /\ pos[t] = p
  <2>1. \E t \in Pushers : Claiming(t) /\ pos[t] = p
    BY <1>2 DEF ClaimedBy
  <2>2. w \in Pushers /\ Claiming(w) /\ pos[w] = p
    BY <2>1
  <2>3. ValueAt(p) = arg[w]
    BY <2>1 DEF ValueAt
  <2> HIDE DEF w
  <2>4. ClaimedBy(w, p)
    BY <2>2 DEF ClaimedBy
  <2>5. w = u
    BY <1>2, <2>4, ClaimersApart
  <2>6. u \in Threads
    BY DEF Threads
  <2> QED
    BY <1>1, <2>3, <2>5, <2>6
<1>3. ASSUME \A u \in Pushers : ~ClaimedBy(u, p)
      PROVE  ValueAt(p) = val[Cell(p)] /\ val[Cell(p)] \in 0 .. MaxPushes
  <2>1. ~ \E t \in Pushers : Claiming(t) /\ pos[t] = p
    BY <1>3 DEF ClaimedBy
  <2> QED
    BY <1>1, <2>1 DEF ValueAt
<1> QED
  BY <1>2, <1>3 DEF Tells

(* The same after a step.                                                  *)
LEMMA ValueOfWordNext == (QInv => \A p \in Int : Tells(p))'
BY ValueOfWord, PTL

(* A step that leaves the claims and the cell of a word alone leaves its   *)
(* value alone.                                                            *)
LEMMA SameValue ==
  ASSUME QInv, QInv', NEW p \in Int,
         \A u \in Pushers : ClaimedBy(u, p)' <=> ClaimedBy(u, p),
         \A u \in Pushers : ClaimedBy(u, p) => arg'[u] = arg[u],
         val'[Cell(p)] = val[Cell(p)]
  PROVE  ValueAt(p)' = ValueAt(p)
<1>1. Tells(p)
  BY ValueOfWord
<1>3. Tells(p)'
  BY ValueOfWordNext
<1>4. CASE \E u \in Pushers : ClaimedBy(u, p)
  <2>1. PICK u \in Pushers : ClaimedBy(u, p)
    BY <1>4
  <2>2. ValueAt(p) = arg[u]
    BY <1>1, <2>1 DEF Tells
  <2>3. ValueAt(p)' = arg'[u]
    BY <1>3, <2>1 DEF Tells
  <2> QED
    BY <2>1, <2>2, <2>3
<1>5. CASE \A u \in Pushers : ~ClaimedBy(u, p)
  <2>1. ValueAt(p) = val[Cell(p)]
    BY <1>1, <1>5 DEF Tells
  <2>2. ValueAt(p)' = val'[Cell(p)]
    BY <1>3, <1>5 DEF Tells
  <2> QED
    BY <2>1, <2>2
<1> QED
  BY <1>4, <1>5

(* The contents of the queue, by numbers.                                  *)
LEMMA QueueOf ==
  \A H, T \in Int :
    (head = Wrap(H) /\ tail = Wrap(T) /\ T =< H /\ H =< T + Capacity)
    => QueueValues = [k \in 1 .. H - T |-> ValueAt(Wrap(T + (k - 1)))]
<1> SUFFICES ASSUME NEW H \in Int, NEW T \in Int,
                    head = Wrap(H), tail = Wrap(T), T =< H, H =< T + Capacity
    PROVE  QueueValues = [k \in 1 .. H - T |-> ValueAt(Wrap(T + (k - 1)))]
  OBVIOUS
<1>1. H - T < Modulus /\ H - T \in Nat
  BY Sizes
<1>2. Wrap(head - tail) = H - T
  BY <1>1, Distance
<1>3. ASSUME NEW k \in 1 .. H - T
      PROVE  Wrap(tail + k - 1) = Wrap(T + (k - 1))
  <2>1. k - 1 \in Int /\ Wrap(T) \in Int
    BY WrapType, Sizes DEF Word
  <2>2. Wrap(Wrap(T) + (k - 1)) = Wrap(T + (k - 1))
    BY <2>1, WrapTwice
  <2>3. tail + k - 1 = Wrap(T) + (k - 1)
    BY <2>1
  <2> QED
    BY <2>2, <2>3
<1> QED
  BY <1>2, <1>3 DEF QueueValues

(* The same after a step.                                                  *)
LEMMA QueueOfNext ==
  (\A H, T \in Int :
     (head = Wrap(H) /\ tail = Wrap(T) /\ T =< H /\ H =< T + Capacity)
     => QueueValues = [k \in 1 .. H - T |-> ValueAt(Wrap(T + (k - 1)))])'
BY QueueOf, PTL

(* Every position of the queue keeps its value: the queue does not change. *)
LEMMA SameQueue ==
  ASSUME NEW B \in Int, NEW H \in Int, NEW T \in Int, NEW S \in [Cells -> Int],
         NEW P \in [Threads -> Int], Numbered(B, H, T, S, P),
         head' = head, tail' = tail,
         \A q \in T .. H - 1 : ValueAt(Wrap(q))' = ValueAt(Wrap(q))
  PROVE  QueueValues' = QueueValues
<1>1. head = Wrap(H) /\ tail = Wrap(T) /\ T =< H /\ H =< T + Capacity
  BY DEF Numbered, Unwrapped, Cursors
<1>2. QueueValues = [k \in 1 .. H - T |-> ValueAt(Wrap(T + (k - 1)))]
  BY <1>1, QueueOf
<1>3. head' = Wrap(H) /\ tail' = Wrap(T)
  BY <1>1
<1>4. QueueValues' = [k \in 1 .. H - T |-> ValueAt(Wrap(T + (k - 1)))']
  BY <1>1, <1>3, QueueOfNext
<1>5. ASSUME NEW k \in 1 .. H - T
      PROVE  ValueAt(Wrap(T + (k - 1)))' = ValueAt(Wrap(T + (k - 1)))
  <2>1. T + (k - 1) \in T .. H - 1
    OBVIOUS
  <2> QED
    BY <2>1
<1> QED
  BY <1>2, <1>4, <1>5

(* A step of a thread that claims nothing for a push, before or after.     *)
LEMMA NoClaimStep ==
  ASSUME QInv, QInv', NEW t \in Threads,
         \A u \in Threads \ {t} : pc'[u] = pc[u] /\ pos'[u] = pos[u] /\ arg'[u] = arg[u],
         ~Claiming(t), ~Claiming(t)', val' = val, NEW p \in Int
  PROVE  ValueAt(p)' = ValueAt(p)
<1>1. \A u \in Pushers : ClaimedBy(u, p)' <=> ClaimedBy(u, p)
  BY DEF ClaimedBy, Claiming, Threads
<1>2. \A u \in Pushers : ClaimedBy(u, p) => arg'[u] = arg[u]
  BY DEF ClaimedBy, Claiming, Threads
<1> QED
  BY <1>1, <1>2, SameValue

(* The hands of a thread that keeps what it has.                           *)
LEMMA SameHand ==
  ASSUME NEW u, Holding(u)' <=> Holding(u),
         Holding(u) => pos'[u] = pos[u] /\ m'[u] = m[u] /\ out'[u] = out[u],
         val' = val
  PROVE  InHand(u)' = InHand(u)
<1>1. CASE Holding(u)
  BY <1>1 DEF InHand
<1>2. CASE ~Holding(u)
  BY <1>2 DEF InHand
<1> QED
  BY <1>1, <1>2

(* A step that neither claims nor takes.                                   *)
LEMMA QuietFifo ==
  ASSUME QInv, QInv', NEW t \in Threads,
         head' = head, tail' = tail, val' = val,
         \A u \in Threads \ {t} :
           /\ pc'[u] = pc[u] /\ pos'[u] = pos[u] /\ arg'[u] = arg[u]
           /\ m'[u] = m[u] /\ out'[u] = out[u],
         ~Claiming(t), ~Claiming(t)', Holding(t)' <=> Holding(t),
         Holding(t) => pos'[t] = pos[t] /\ m'[t] = m[t] /\ out'[t] = out[t]
  PROVE  QueueValues' = QueueValues /\ Hands' = Hands
<1>1. PICK B, H, T \in Int, S \in [Cells -> Int], P \in [Threads -> Int] :
        Numbered(B, H, T, S, P)
  BY DEF QInv
<1>2. \A q \in T .. H - 1 : ValueAt(Wrap(q))' = ValueAt(Wrap(q))
  <2> TAKE q \in T .. H - 1
  <2>1. Wrap(q) \in Int
    BY WrapType, Sizes DEF Word
  <2> QED
    BY <2>1, NoClaimStep
<1>3. QueueValues' = QueueValues
  BY <1>1, <1>2, SameQueue
<1>4. ASSUME NEW u \in Poppers
      PROVE  InHand(u)' = InHand(u)
  <2>1. u \in Threads
    BY DEF Threads
  <2>2. Holding(u)' <=> Holding(u)
    BY <2>1 DEF Holding
  <2>3. Holding(u) => pos'[u] = pos[u] /\ m'[u] = m[u] /\ out'[u] = out[u]
    BY <2>1
  <2> QED
    BY <2>2, <2>3, SameHand
<1>5. Hands' = Hands
  BY <1>4 DEF Hands
<1> QED
  BY <1>3, <1>5

(* What a pop has in hand: the values read, and those in the cells left.   *)
Left(v, p, l, n) == [k \in 1 .. n |-> v[Cell(p + l + k - 1)]]

(* The hands of a pop in those terms.                                      *)
LEMMA HandOf ==
  \A u \in Poppers : Holding(u) =>
    InHand(u) = out[u] \o Left(val, pos[u], Len(out[u]), m[u] - Len(out[u]))
BY DEF InHand, Left

(* The same after a step.                                                  *)
LEMMA HandOfNext ==
  (\A u \in Poppers : Holding(u) =>
    InHand(u) = out[u] \o Left(val, pos[u], Len(out[u]), m[u] - Len(out[u])))'
BY HandOf, PTL

(* Looks at the queue, lost races and releases but the last: nothing the   *)
(* FIFO could notice.                                                      *)
LEMMA PushQuiet ==
  ASSUME QInv, QInv', NEW t \in Pushers,
         \/ BeginPush(t) \/ PushReload(t) \/ PushCheck(t)
         \/ (PushCas(t) /\ head # pos[t])
  PROVE  QueueValues' = QueueValues /\ Hands' = Hands
<1>1. /\ t \in Threads /\ pc \in [Threads -> Labels] /\ pos \in [Threads -> Word]
      /\ arg \in [Threads -> 0 .. MaxPushes]
  BY DEF Threads, QInv, Typed
<1>2. /\ head' = head /\ tail' = tail /\ val' = val /\ m' = m /\ out' = out
      /\ pc[t] \in {"idle"} \cup WaitingLabels /\ pc'[t] \in WaitingLabels
      /\ \A u \in Threads \ {t} :
           pc'[u] = pc[u] /\ pos'[u] = pos[u] /\ arg'[u] = arg[u]
  <2>1. CASE BeginPush(t)
    BY <1>1, <2>1 DEF BeginPush, Goto, words, WaitingLabels
  <2>2. CASE PushReload(t)
    BY <1>1, <2>2 DEF PushReload, Goto, words, WaitingLabels
  <2>3. CASE PushCheck(t)
    BY <1>1, <2>3 DEF PushCheck, Goto, words, local, WaitingLabels
  <2>4. CASE PushCas(t) /\ head # pos[t]
    BY <1>1, <2>4 DEF PushCas, Goto, WaitingLabels
  <2> QED
    BY <2>1, <2>2, <2>3, <2>4
<1>3. ~Claiming(t) /\ ~Holding(t) /\ ~Claiming(t)' /\ ~Holding(t)'
  BY <1>2 DEF Claiming, Holding, WaitingLabels
<1> QED
  BY <1>1, <1>2, <1>3, QuietFifo

(* A pop that looks, gives up or loses the race.                           *)
LEMMA PopQuiet ==
  ASSUME QInv, QInv', NEW t \in Poppers,
         \/ BeginPop(t) \/ PopReload(t) \/ PopCheck(t) \/ BulkScan(t) \/ BulkRecheck(t)
         \/ (PopCas(t) /\ ~TailUnchanged(t))
  PROVE  QueueValues' = QueueValues /\ Hands' = Hands
<1>1. /\ t \in Threads /\ pc \in [Threads -> Labels] /\ pos \in [Threads -> Word]
      /\ m \in [Threads -> 0 .. MaxBulk]
  BY DEF Threads, QInv, Typed
<1>2. /\ head' = head /\ tail' = tail /\ val' = val /\ arg' = arg /\ out' = out
      /\ pc[t] \notin {"write", "publish", "read", "release"}
      /\ pc'[t] \notin {"write", "publish", "read", "release"}
      /\ \A u \in Threads \ {t} :
           pc'[u] = pc[u] /\ pos'[u] = pos[u] /\ m'[u] = m[u]
  <2>1. CASE BeginPop(t) \/ PopReload(t)
    BY <1>1, <2>1 DEF BeginPop, PopReload, LoadTail, Goto, words
  <2>2. CASE PopCheck(t)
    BY <1>1, <2>2 DEF PopCheck, ReturnEmpty, Goto, words
  <2>3. CASE BulkScan(t)
    BY <1>1, <2>3 DEF BulkScan, Goto, words
  <2>4. CASE BulkRecheck(t)
    BY <1>1, <2>4 DEF BulkRecheck, ReturnEmpty, Goto, words
  <2>5. CASE PopCas(t) /\ ~TailUnchanged(t)
    BY <1>1, <2>5 DEF PopCas, Goto
  <2> QED
    BY <2>1, <2>2, <2>3, <2>4, <2>5
<1>3. ~Claiming(t) /\ ~Holding(t) /\ ~Claiming(t)' /\ ~Holding(t)'
  BY <1>2 DEF Claiming, Holding
<1> QED
  BY <1>1, <1>2, <1>3, QuietFifo

(* A pop that releases a cell and has another to release.                  *)
LEMMA ReleaseQuiet ==
  ASSUME QInv, QInv', NEW t \in Poppers, PopRelease(t), i[t] + 1 < m[t]
  PROVE  QueueValues' = QueueValues /\ Hands' = Hands
<1>1. /\ t \in Threads /\ pc \in [Threads -> Labels]
  BY DEF Threads, QInv, Typed
<1>2. /\ head' = head /\ tail' = tail /\ val' = val /\ arg' = arg /\ out' = out
      /\ pos' = pos /\ m' = m
      /\ pc[t] = "release" /\ pc'[t] \in {"read", "release"}
      /\ \A u \in Threads \ {t} : pc'[u] = pc[u]
  BY <1>1 DEF PopRelease, Goto
<1>3. ~Claiming(t) /\ Holding(t) /\ ~Claiming(t)' /\ Holding(t)'
  BY <1>2 DEF Claiming, Holding
<1> QED
  BY <1>1, <1>2, <1>3, QuietFifo

(* Writing a value and publishing it: the value of the claim becomes that  *)
(* of the cell, and no cell of another changes.                            *)
LEMMA WriteQuiet ==
  ASSUME QInv, QInv', NEW t \in Pushers, PushWrite(t)
  PROVE  QueueValues' = QueueValues /\ Hands' = Hands
<1>1. PICK B, H, T \in Int, S \in [Cells -> Int], P \in [Threads -> Int] :
        Numbered(B, H, T, S, P)
  BY DEF QInv
<1>2. /\ t \in Threads /\ pc[t] = "write"
      /\ val' = [val EXCEPT ![Cell(pos[t])] = arg[t]]
      /\ pc' = [pc EXCEPT ![t] = "publish"]
      /\ UNCHANGED <<head, tail, seq, light, pos, m, i, arg, out, pushes, delivered>>
  BY DEF PushWrite, Goto, Threads, local
<1>3. Typed /\ Claiming(t)
  BY <1>2 DEF QInv, Claiming
<1>4. /\ P[t] \in H - Capacity .. H - 1 /\ T =< P[t] /\ Cell(pos[t]) = Cell(P[t])
      /\ P[t] \in Int /\ Cell(P[t]) \in Cells /\ pos[t] = Wrap(P[t])
  <2>1. P[t] \in Int
    BY <1>2
  <2> QED
    BY <1>1, <1>2, <1>3, <2>1, ClaimedSlot, CellType DEF SlotOfClaim, Numbered, Unwrapped
<1>5. \A c \in Cells : c # Cell(P[t]) => val'[c] = val[c]
  BY <1>2, <1>3, <1>4 DEF Typed
<1>6. \A u \in Threads : /\ Claiming(u)' <=> Claiming(u)
                         /\ Holding(u)' <=> Holding(u)
  BY <1>2, <1>3 DEF Claiming, Holding, Typed
<1>7. ASSUME NEW q \in H - Capacity .. H - 1, q # P[t]
      PROVE  val'[Cell(q)] = val[Cell(q)]
  <2>1. q \in Int /\ q - P[t] < Capacity /\ P[t] - q < Capacity
    BY <1>4, Sizes
  <2>2. Cell(q) # Cell(P[t]) /\ Cell(q) \in Cells
    BY <1>4, <1>7, <2>1, CellsApart, CellType
  <2> QED
    BY <1>5, <2>2
<1>8. ASSUME NEW q \in T .. H - 1
      PROVE  ValueAt(Wrap(q))' = ValueAt(Wrap(q))
  <2> DEFINE p == Wrap(q)
  <2>1. q \in Int /\ p \in Int
    BY WrapType, Sizes DEF Word
  <2>2. Cell(p) = Cell(q)
    <3>1. q + 0 = q /\ Wrap(q) + 0 = Wrap(q) /\ 0 \in Int
      BY <2>1
    <3>2. Cell(Wrap(q) + 0) = Cell(q + 0)
      BY <2>1, <3>1, CellOfWord
    <3> QED
      BY <3>1, <3>2
  <2>3. q \in H - Capacity .. H - 1
    BY <1>1, <1>8, Sizes DEF Numbered, Cursors
  <2> HIDE DEF p
  <2>4. \A u \in Pushers : /\ ClaimedBy(u, p)' <=> ClaimedBy(u, p)
                           /\ arg'[u] = arg[u]
    BY <1>2, <1>6 DEF ClaimedBy, Threads
  <2>5. CASE q # P[t]
    <3>1. val'[Cell(p)] = val[Cell(p)]
      BY <1>7, <2>2, <2>3, <2>5
    <3>2. ValueAt(p)' = ValueAt(p)
      BY <2>1, <2>4, <3>1, SameValue
    <3> QED
      BY <3>2 DEF p
  <2>6. CASE q = P[t]
    <3>1. ClaimedBy(t, p)
      BY <1>3, <1>4, <2>6 DEF ClaimedBy, p
    <3>2. ValueAt(p) = arg[t]
      BY <2>1, <3>1, ValueOfWord DEF Tells
    <3>3. ClaimedBy(t, p)'
      BY <2>4, <3>1
    <3>4. Tells(p)'
      BY <2>1, ValueOfWordNext
    <3>5. ValueAt(p)' = arg'[t]
      BY <3>3, <3>4 DEF Tells
    <3>6. ValueAt(p)' = ValueAt(p)
      BY <2>4, <3>2, <3>5
    <3> QED
      BY <3>6 DEF p
  <2> QED
    BY <2>5, <2>6
<1>9. QueueValues' = QueueValues
  BY <1>1, <1>2, <1>8, SameQueue
<1>10. ASSUME NEW u \in Poppers
       PROVE  InHand(u)' = InHand(u)
  <2>1. u \in Threads
    BY DEF Threads
  <2>2. CASE ~Holding(u)
    BY <1>6, <2>1, <2>2 DEF InHand
  <2>3. CASE Holding(u)
    <3> DEFINE l == Len(out[u])
    <3>1. HoldOK(u, B, H, T, S, P) /\ pos[u] = Wrap(P[u]) /\ P[u] \in Int
      BY <1>1, <2>1 DEF Numbered, Owners, Unwrapped
    <3>2. /\ i[u] \in Nat /\ m[u] \in Nat /\ Released(u) \in Nat
          /\ Released(u) =< i[u] /\ i[u] < m[u]
      BY <1>1, <1>3, <2>1, <2>3, NextHeld
    <3>3. l = (IF pc[u] = "read" THEN i[u] ELSE IF light THEN m[u] ELSE i[u] + 1)
      BY <2>3, <3>1 DEF HoldOK
    <3>4. l \in Nat /\ Released(u) =< l
      BY <3>2, <3>3
    <3> HIDE DEF l
    <3>5. ASSUME NEW k \in 1 .. m[u] - l
          PROVE  val'[Cell(pos[u] + l + k - 1)] = val[Cell(pos[u] + l + k - 1)]
      <4> DEFINE q == P[u] + (l + k - 1)
      <4>1. l + k - 1 \in Int /\ q \in Int
        BY <3>1, <3>2, <3>4
      <4>2. Cell(Wrap(P[u]) + (l + k - 1)) = Cell(q)
        BY <3>1, <4>1, CellOfWord
      <4>3. pos[u] + l + k - 1 = Wrap(P[u]) + (l + k - 1)
        BY <3>1, <3>2, <3>4, WrapType, Sizes DEF Word
      <4>4. q \in Rest(u, P)
        BY <3>1, <3>2, <3>4, <3>5 DEF Rest
      <4> HIDE DEF q
      <4>5. q \in H - Capacity .. H - 1 /\ q < T
        BY <1>1, <1>3, <2>1, <2>3, <4>4, HeldSlot
      <4>6. q # P[t]
        BY <1>4, <4>1, <4>5
      <4>7. val'[Cell(q)] = val[Cell(q)]
        BY <1>7, <4>5, <4>6
      <4> QED
        BY <4>2, <4>3, <4>7
    <3>6. Left(val', pos[u], l, m[u] - l) = Left(val, pos[u], l, m[u] - l)
      BY <3>5 DEF Left
    <3>7. Holding(u)' /\ m'[u] = m[u] /\ out'[u] = out[u] /\ pos'[u] = pos[u]
      BY <1>2, <1>6, <2>1, <2>3
    <3>8. InHand(u) = out[u] \o Left(val, pos[u], l, m[u] - l)
      BY <2>3, HandOf DEF l
    <3>9. InHand(u)' = out'[u] \o Left(val', pos'[u], Len(out'[u]), m'[u] - Len(out'[u]))
      BY <3>7, HandOfNext
    <3>10. InHand(u)' = out[u] \o Left(val', pos[u], l, m[u] - l)
      BY <3>7, <3>9 DEF l
    <3> QED
      BY <3>6, <3>8, <3>10
  <2> QED
    BY <2>2, <2>3
<1>11. Hands' = Hands
  BY <1>10 DEF Hands
<1> QED
  BY <1>9, <1>11

(* A function on 1 .. n is a sequence of length n.                         *)
LEMMA FunctionIsSeq ==
  ASSUME NEW V, NEW n \in Nat, NEW f \in [1 .. n -> V]
  PROVE  f \in Seq(V) /\ Len(f) = n
OBVIOUS

(* f has n + 1 values: x, and then those of g.                             *)
Shifted(f, g, x, n) ==
  /\ f \in [1 .. n + 1 -> Nat] /\ g \in [1 .. n -> Nat]
  /\ f[1] = x /\ \A k \in 1 .. n : g[k] = f[k + 1]

(* The first value of f may as well be the last of s.                      *)
LEMMA Appended ==
  ASSUME NEW s \in Seq(Nat), NEW x \in Nat, NEW n \in Nat, NEW f, NEW g,
         Shifted(f, g, x, n)
  PROVE  Append(s, x) \o g = s \o f
<1> USE DEF Shifted
<1> DEFINE a == Append(s, x) \o g
           b == s \o f
           l == Len(s)
<1>1. f \in Seq(Nat) /\ g \in Seq(Nat) /\ Len(f) = n + 1 /\ Len(g) = n
  <2>1. n + 1 \in Nat
    OBVIOUS
  <2> QED
    BY <2>1, FunctionIsSeq
<1>2. /\ Append(s, x) \in Seq(Nat) /\ Len(Append(s, x)) = l + 1 /\ l \in Nat
      /\ \A j \in 1 .. l : Append(s, x)[j] = s[j]
      /\ Append(s, x)[l + 1] = x
  BY AppendProperties, LenProperties
<1>3. a \in Seq(Nat) /\ b \in Seq(Nat) /\ Len(a) = l + 1 + n /\ Len(b) = l + 1 + n
  <2>1. a \in Seq(Nat) /\ Len(a) = Len(Append(s, x)) + Len(g)
    BY <1>1, <1>2, ConcatProperties
  <2>2. b \in Seq(Nat) /\ Len(b) = l + Len(f)
    BY <1>1, ConcatProperties
  <2> HIDE DEF a, b, l
  <2> QED
    BY <1>1, <1>2, <2>1, <2>2
<1>4. ASSUME NEW j \in 1 .. l + 1 + n
      PROVE  a[j] = b[j]
  <2>1. a[j] = IF j =< l + 1 THEN Append(s, x)[j] ELSE g[j - (l + 1)]
    BY <1>1, <1>2, ConcatProperties
  <2>2. b[j] = IF j =< l THEN s[j] ELSE f[j - l]
    BY <1>1, <1>2, ConcatProperties
  <2>3. CASE j =< l
    BY <1>2, <2>1, <2>2, <2>3
  <2>4. CASE j = l + 1
    BY <1>2, <2>1, <2>2, <2>4
  <2>5. CASE j > l + 1
    <3> DEFINE k == j - (l + 1)
    <3>1. k \in 1 .. n /\ k + 1 = j - l /\ ~(j =< l + 1) /\ ~(j =< l)
      <4> HIDE DEF l
      <4> QED
        BY <1>2, <2>5
    <3>2. a[j] = g[k] /\ b[j] = f[j - l]
      BY <2>1, <2>2, <3>1
    <3> HIDE DEF a, b, k, l
    <3>3. g[k] = f[k + 1]
      BY <3>1
    <3> QED
      BY <3>1, <3>2, <3>3
  <2>6. j =< l \/ j = l + 1 \/ j > l + 1
    <3> HIDE DEF l, a, b
    <3> QED
      BY <1>2
  <2> QED
    BY <2>3, <2>4, <2>5, <2>6
<1> HIDE DEF a, b
<1>5. a = b
  BY <1>2, <1>3, <1>4, SeqEqual
<1> QED
  BY <1>5 DEF a, b

(* Publishing ends the claim; the cell holds the same value.               *)
LEMMA PublishQuiet ==
  ASSUME QInv, QInv', NEW t \in Pushers, PushPublish(t)
  PROVE  QueueValues' = QueueValues /\ Hands' = Hands
<1>1. PICK B, H, T \in Int, S \in [Cells -> Int], P \in [Threads -> Int] :
        Numbered(B, H, T, S, P)
  BY DEF QInv
<1>2. /\ t \in Threads /\ pc[t] = "publish"
      /\ pos' = [pos EXCEPT ![t] = 0] /\ arg' = [arg EXCEPT ![t] = 0]
      /\ pc' = [pc EXCEPT ![t] = "idle"]
      /\ UNCHANGED <<head, tail, val, light, m, i, out, pushes, delivered>>
  BY DEF PushPublish, Goto, Threads
<1>3. Typed /\ Claiming(t) /\ ~Claiming(t)' /\ ~Holding(t) /\ ~Holding(t)'
  BY <1>2 DEF QInv, Claiming, Holding, Typed
<1>4. /\ val[Cell(pos[t])] = arg[t] /\ pos[t] \in Int
  <2>1. pos[t] \in Int
    BY <1>2, <1>3, Sizes DEF Typed, Word
  <2>2. pc[t] = "publish" => val[Cell(P[t])] = arg[t]
    BY <1>1, <1>2, <1>3, ClaimedSlot DEF SlotOfClaim
  <2>3. Cell(pos[t]) = Cell(P[t])
    BY <1>1, <1>2, <1>3, ClaimedSlot DEF SlotOfClaim
  <2> QED
    BY <1>2, <2>1, <2>2, <2>3
<1>5. \A u \in Threads \ {t} : /\ pc'[u] = pc[u] /\ pos'[u] = pos[u] /\ arg'[u] = arg[u]
                               /\ Claiming(u)' <=> Claiming(u)
                               /\ Holding(u)' <=> Holding(u)
  BY <1>2, <1>3 DEF Typed, Claiming, Holding
<1>6. ASSUME NEW p \in Int
      PROVE  ValueAt(p)' = ValueAt(p)
  <2>1. \A u \in Pushers \ {t} : /\ ClaimedBy(u, p)' <=> ClaimedBy(u, p)
                                 /\ arg'[u] = arg[u]
    BY <1>5 DEF ClaimedBy, Threads
  <2>2. ~ClaimedBy(t, p)'
    BY <1>3 DEF ClaimedBy
  <2>3. CASE p = pos[t]
    <3>1. ClaimedBy(t, p)
      BY <1>3, <2>3 DEF ClaimedBy
    <3>2. ValueAt(p) = arg[t]
      BY <1>6, <3>1, ValueOfWord DEF Tells
    <3>3. \A u \in Pushers \ {t} : ~ClaimedBy(u, p)
      BY <3>1, ClaimersApart
    <3>4. \A u \in Pushers : ~ClaimedBy(u, p)'
      BY <2>1, <2>2, <3>3
    <3>5. Tells(p)'
      BY <1>6, ValueOfWordNext
    <3>6. ValueAt(p)' = val'[Cell(p)]
      BY <3>4, <3>5 DEF Tells
    <3>7. val' = val
      BY <1>2
    <3> QED
      BY <1>4, <2>3, <3>2, <3>6, <3>7
  <2>4. CASE p # pos[t]
    <3>1. ~ClaimedBy(t, p)
      BY <2>4 DEF ClaimedBy
    <3>2. \A u \in Pushers : ClaimedBy(u, p)' <=> ClaimedBy(u, p)
      BY <2>1, <2>2, <3>1
    <3>3. \A u \in Pushers : ClaimedBy(u, p) => arg'[u] = arg[u]
      BY <2>1, <3>1
    <3>4. val'[Cell(p)] = val[Cell(p)]
      BY <1>2
    <3> QED
      BY <1>6, <3>2, <3>3, <3>4, SameValue
  <2> QED
    BY <2>3, <2>4
<1>7. \A q \in T .. H - 1 : ValueAt(Wrap(q))' = ValueAt(Wrap(q))
  <2> TAKE q \in T .. H - 1
  <2>1. Wrap(q) \in Int
    BY WrapType, Sizes DEF Word
  <2> QED
    BY <1>6, <2>1
<1>8. QueueValues' = QueueValues
  BY <1>1, <1>2, <1>7, SameQueue
<1>9. ASSUME NEW u \in Poppers
      PROVE  InHand(u)' = InHand(u)
  <2>1. u \in Threads
    BY DEF Threads
  <2>2. Holding(u)' <=> Holding(u)
    BY <1>3, <1>5, <2>1
  <2>3. Holding(u) => pos'[u] = pos[u] /\ m'[u] = m[u] /\ out'[u] = out[u]
    BY <1>2, <1>3, <1>5, <2>1
  <2>4. val' = val
    BY <1>2
  <2> QED
    BY <2>2, <2>3, <2>4, SameHand
<1>10. Hands' = Hands
  BY <1>9 DEF Hands
<1> QED
  BY <1>8, <1>10

(* Reading a value: what was in the cell is now in the hand.               *)
LEMMA ReadQuiet ==
  ASSUME QInv, QInv', NEW t \in Poppers, PopRead(t)
  PROVE  QueueValues' = QueueValues /\ Hands' = Hands
<1>1. PICK B, H, T \in Int, S \in [Cells -> Int], P \in [Threads -> Int] :
        Numbered(B, H, T, S, P)
  BY DEF QInv
<1>2. /\ t \in Threads /\ pc[t] = "read"
      /\ out' = [out EXCEPT ![t] = Append(out[t], val[Cell(pos[t] + i[t])])]
      /\ UNCHANGED <<head, tail, seq, val, light, pos, m, arg, pushes, delivered>>
  BY DEF PopRead, Threads, words
<1>3. Typed
  BY DEF QInv
<1>4. pc'[t] \in {"read", "release"} /\ \A u \in Threads \ {t} : pc'[u] = pc[u]
  BY <1>2, <1>3 DEF PopRead, Goto, Typed
<1>5. ~Claiming(t) /\ Holding(t) /\ ~Claiming(t)' /\ Holding(t)'
  BY <1>2, <1>4 DEF Claiming, Holding
<1>6. \A q \in T .. H - 1 : ValueAt(Wrap(q))' = ValueAt(Wrap(q))
  <2> TAKE q \in T .. H - 1
  <2>1. Wrap(q) \in Int
    BY WrapType, Sizes DEF Word
  <2>2. \A u \in Threads \ {t} : pc'[u] = pc[u] /\ pos'[u] = pos[u] /\ arg'[u] = arg[u]
    BY <1>2, <1>4
  <2>3. val' = val
    BY <1>2
  <2> QED
    BY <1>2, <1>5, <2>1, <2>2, <2>3, NoClaimStep
<1>7. QueueValues' = QueueValues
  BY <1>1, <1>2, <1>6, SameQueue
<1>8. InHand(t)' = InHand(t)
  <2> DEFINE l == Len(out[t])
             x == val[Cell(pos[t] + i[t])]
             F == Left(val, pos[t], l, m[t] - l)
             G == Left(val, pos[t], l + 1, m[t] - (l + 1))
  <2>1. /\ out[t] \in Seq(1 .. MaxPushes) /\ pos[t] \in Int
        /\ m[t] \in Nat /\ i[t] \in Nat
    BY <1>2, <1>3, Sizes DEF Typed, Word
  <2>2. l = i[t] /\ i[t] < m[t] /\ l \in Nat
    <3>1. HoldOK(t, B, H, T, S, P)
      BY <1>1, <1>2 DEF Numbered, Owners
    <3> QED
      BY <1>2, <1>5, <2>1, <3>1 DEF HoldOK
  <2>3. InHand(t) = out[t] \o F
    BY <1>5, HandOf
  <2>4. /\ out'[t] = Append(out[t], x) /\ pos'[t] = pos[t] /\ m'[t] = m[t] /\ val' = val
    BY <1>2, <1>3 DEF Typed
  <2>5. InHand(t)' = out'[t] \o Left(val', pos'[t], Len(out'[t]), m'[t] - Len(out'[t]))
    BY <1>5, HandOfNext
  <2>6. \A c \in Cells : val[c] \in Nat
    BY <1>3, Sizes DEF Typed
  <2>7. \A z \in Int : val[Cell(z)] \in Nat
    BY <2>6, CellType
  <2>8. x \in Nat
    BY <2>1, <2>7
  <2>9. F \in [1 .. m[t] - l -> Nat] /\ \A k \in 1 .. m[t] - l : F[k] = val[Cell(pos[t] + l + k - 1)]
    BY <2>1, <2>2, <2>7 DEF Left
  <2>10. G \in [1 .. m[t] - (l + 1) -> Nat]
         /\ \A k \in 1 .. m[t] - (l + 1) : G[k] = val[Cell(pos[t] + (l + 1) + k - 1)]
    BY <2>1, <2>2, <2>7 DEF Left
  <2>11. out[t] \in Seq(Nat) /\ Len(Append(out[t], x)) = l + 1
    BY <2>1, Sizes
  <2>12. InHand(t)' = Append(out[t], x) \o G
    BY <2>4, <2>5, <2>11
  <2> DEFINE n == m[t] - (l + 1)
             p == pos[t]
  <2>13. n \in Nat /\ m[t] - l = n + 1 /\ l \in Nat /\ p \in Int
    BY <2>1, <2>2
  <2>14. F[1] = x
    <3>1. 1 \in 1 .. m[t] - l /\ pos[t] + l + 1 - 1 = pos[t] + i[t]
      BY <2>1, <2>2
    <3> QED
      BY <2>9, <3>1
  <2>15. ASSUME NEW k \in 1 .. n
         PROVE  G[k] = F[k + 1]
    <3>1. F[k + 1] = val[Cell(p + l + (k + 1) - 1)]
      <4>1. k + 1 \in 1 .. m[t] - l
        <5> HIDE DEF l, n
        <5> QED
          BY <2>13
      <4> QED
        BY <2>9, <4>1
    <3>2. G[k] = val[Cell(p + (l + 1) + k - 1)]
      BY <2>10
    <3> HIDE DEF l, p, n, F, G
    <3>3. p + (l + 1) + k - 1 = p + l + (k + 1) - 1
      BY <2>13
    <3> QED
      BY <3>1, <3>2, <3>3
  <2> HIDE DEF F, G, x, n
  <2>16. Append(out[t], x) \o G = out[t] \o F
    <3>1. F \in [1 .. n + 1 -> Nat] /\ G \in [1 .. n -> Nat]
      <4>1. F \in [1 .. m[t] - l -> Nat] /\ G \in [1 .. m[t] - (l + 1) -> Nat]
        BY <2>9, <2>10
      <4> QED
        BY <2>13, <4>1 DEF n
    <3>2. out[t] \in Seq(Nat) /\ n \in Nat
      BY <2>11, <2>13
    <3>3. Shifted(F, G, x, n)
      BY <2>14, <2>15, <3>1 DEF Shifted
    <3>4. \A s \in Seq(Nat), z \in Nat, j \in Nat : \A f, g :
            Shifted(f, g, z, j) => Append(s, z) \o g = s \o f
      BY Appended
    <3>5. x \in Nat
      BY <2>8
    <3> HIDE DEF l, p
    <3>6. \A f, g : Shifted(f, g, x, n) => Append(out[t], x) \o g = out[t] \o f
      BY <3>2, <3>4, <3>5
    <3> QED
      BY <3>3, <3>6
  <2> QED
    BY <2>3, <2>12, <2>16
<1>9. ASSUME NEW u \in Poppers, u # t
      PROVE  InHand(u)' = InHand(u)
  <2>1. u \in Threads
    BY DEF Threads
  <2>2. Holding(u)' <=> Holding(u)
    BY <1>4, <1>9, <2>1 DEF Holding
  <2>3. Holding(u) => pos'[u] = pos[u] /\ m'[u] = m[u] /\ out'[u] = out[u]
    BY <1>2, <1>3, <1>9, <2>1 DEF Typed
  <2>4. val' = val
    BY <1>2
  <2> QED
    BY <2>2, <2>3, <2>4, SameHand
<1>10. Hands' = Hands
  BY <1>8, <1>9 DEF Hands
<1> QED
  BY <1>7, <1>10

-----------------------------------------------------------------------------
(* The steps the FIFO sees.                                                *)

(* One value more at the end of a sequence.                                *)
LEMMA AppendedOne ==
  ASSUME NEW n \in Nat, NEW f \in [1 .. n -> Nat], NEW g \in [1 .. n + 1 -> Nat],
         NEW x \in Nat, g[n + 1] = x, \A k \in 1 .. n : g[k] = f[k]
  PROVE  g = Append(f, x)
<1>1. f \in Seq(Nat) /\ g \in Seq(Nat) /\ Len(f) = n /\ Len(g) = n + 1
  <2>1. n + 1 \in Nat
    OBVIOUS
  <2> QED
    BY <2>1, FunctionIsSeq
<1> DEFINE a == Append(f, x)
<1>2. /\ a \in Seq(Nat) /\ Len(a) = n + 1 /\ a[n + 1] = x
      /\ \A k \in 1 .. n : a[k] = f[k]
  BY <1>1, AppendProperties
<1> HIDE DEF a
<1>3. \A k \in 1 .. Len(g) : g[k] = a[k]
  BY <1>1, <1>2
<1>4. g = a
  BY <1>1, <1>2, <1>3, SeqEqual
<1> QED
  BY <1>4 DEF a

(* The values of words are numbers.                                        *)
LEMMA ValueType == QInv => \A q \in Int : ValueAt(Wrap(q)) \in Nat
<1> SUFFICES ASSUME QInv, NEW q \in Int
    PROVE  ValueAt(Wrap(q)) \in Nat
  OBVIOUS
<1>1. Wrap(q) \in Int
  BY WrapType, Sizes DEF Word
<1>2. ValueAt(Wrap(q)) \in 0 .. MaxPushes
  BY <1>1, ValueOfWord DEF Tells
<1> QED
  BY <1>2, Sizes

(* The same after a step.                                                  *)
LEMMA ValueTypeNext == (QInv => \A q \in Int : ValueAt(Wrap(q)) \in Nat)'
BY ValueType, PTL

(* A push that wins the CAS appends its value to the queue.                *)
LEMMA PushWonPuts ==
  ASSUME QInv, QInv', NEW t \in Pushers, PushCas(t), head = pos[t]
  PROVE  /\ arg[t] \in 1 .. MaxPushes /\ Len(QueueValues) < Capacity
         /\ QueueValues' = Append(QueueValues, arg[t]) /\ Hands' = Hands
<1>1. PICK B, H, T \in Int, S \in [Cells -> Int], P \in [Threads -> Int] :
        Numbered(B, H, T, S, P)
  BY DEF QInv
<1>2. /\ t \in Threads /\ pc[t] = "pushCas"
      /\ head' = Wrap(head + 1) /\ pc' = [pc EXCEPT ![t] = "write"]
      /\ UNCHANGED <<tail, seq, val, light, pos, m, i, arg, out, pushes, delivered>>
  BY DEF PushCas, Goto, Threads
<1>3. /\ Typed /\ Cursors(B, H, T) /\ head = Wrap(H) /\ tail = Wrap(T)
      /\ B =< T /\ T =< H /\ pos[t] = Wrap(H)
  BY <1>1 DEF QInv, Numbered, Unwrapped, Cursors
<1>4. H < T + Capacity
  BY <1>1, <1>3, PushWonStep
<1>5. arg[t] \in 1 .. MaxPushes
  BY <1>1, <1>2 DEF Numbered, Locals, PushOK, WaitingLabels
<1>6. head' = Wrap(H + 1) /\ tail' = Wrap(T)
  <2>1. Wrap(Wrap(H) + 1) = Wrap(H + 1)
    BY WrapTwice
  <2> QED
    BY <1>2, <1>3, <2>1
<1>7. \A u \in Threads \ {t} : pc'[u] = pc[u]
  BY <1>2, <1>3 DEF Typed
<1>8. ~Claiming(t) /\ Claiming(t)' /\ ~Holding(t) /\ ~Holding(t)'
  BY <1>2, <1>3 DEF Claiming, Holding, Typed
<1>9. ASSUME NEW q \in T .. H - 1
      PROVE  ValueAt(Wrap(q))' = ValueAt(Wrap(q))
  <2> DEFINE p == Wrap(q)
  <2>1. q \in Int /\ p \in Int /\ B =< q /\ q =< H /\ q # H
    BY <1>3, WrapType, Sizes DEF Word
  <2>2. p # pos[t]
    <3>1. B =< H /\ H =< H
      BY <1>3
    <3> QED
      BY <1>3, <2>1, <3>1, NumbersApart
  <2> HIDE DEF p
  <2>3. \A u \in Pushers : ClaimedBy(u, p)' <=> ClaimedBy(u, p)
    BY <1>2, <1>7, <1>8, <2>2 DEF ClaimedBy, Claiming, Threads
  <2>4. (\A u \in Pushers : ClaimedBy(u, p) => arg'[u] = arg[u])
        /\ val'[Cell(p)] = val[Cell(p)]
    BY <1>2
  <2>5. ValueAt(p)' = ValueAt(p)
    BY <2>1, <2>3, <2>4, SameValue
  <2> QED
    BY <2>5 DEF p
<1>10. ValueAt(Wrap(H))' = arg[t]
  <2> DEFINE p == Wrap(H)
  <2>1. p \in Int /\ pos'[t] = p
    BY <1>2, <1>3, WrapType, Sizes DEF Word
  <2> HIDE DEF p
  <2>2. ClaimedBy(t, p)'
    BY <1>8, <2>1 DEF ClaimedBy
  <2>3. Tells(p)'
    BY <2>1, ValueOfWordNext
  <2>4. ValueAt(p)' = arg'[t] /\ arg'[t] = arg[t]
    BY <1>2, <2>2, <2>3 DEF Tells
  <2> QED
    BY <2>4 DEF p
<1> DEFINE n == H - T
           f == [k \in 1 .. n |-> ValueAt(Wrap(T + (k - 1)))]
           g == [k \in 1 .. n + 1 |-> ValueAt(Wrap(T + (k - 1)))']
<1>11. n \in Nat /\ n < Capacity /\ T + ((n + 1) - 1) = H /\ (H + 1) - T = n + 1
  BY <1>3, <1>4, Sizes
<1>12. QueueValues = f
  <2>1. H =< T + Capacity
    BY <1>3 DEF Cursors
  <2> QED
    BY <1>3, <2>1, QueueOf
<1>13. QueueValues' = g
  <2>1. H + 1 \in Int /\ T =< H + 1 /\ H + 1 =< T + Capacity
    BY <1>3, <1>4, Sizes
  <2>2. QueueValues' = [k \in 1 .. (H + 1) - T |-> ValueAt(Wrap(T + (k - 1)))']
    BY <1>6, <2>1, QueueOfNext
  <2> QED
    BY <1>11, <2>2
<1>14. f \in [1 .. n -> Nat] /\ g \in [1 .. n + 1 -> Nat]
  <2>1. \A k \in 1 .. n + 1 : T + (k - 1) \in Int
    BY <1>11
  <2>2. \A k \in 1 .. n + 1 : ValueAt(Wrap(T + (k - 1)))' \in Nat
    BY <2>1, ValueTypeNext
  <2>3. \A k \in 1 .. n : T + (k - 1) \in Int
    BY <1>11
  <2>4. \A k \in 1 .. n : ValueAt(Wrap(T + (k - 1))) \in Nat
    BY <2>3, ValueType
  <2> QED
    BY <2>2, <2>4
<1>15. \A k \in 1 .. n : g[k] = f[k]
  <2> TAKE k \in 1 .. n
  <2>1. T + (k - 1) \in T .. H - 1 /\ k \in 1 .. n + 1
    BY <1>3, <1>11
  <2> QED
    BY <1>9, <2>1
<1>16. g[n + 1] = arg[t]
  <2>1. n + 1 \in 1 .. n + 1
    BY <1>11
  <2>2. g[n + 1] = ValueAt(Wrap(T + ((n + 1) - 1)))'
    BY <2>1
  <2> QED
    BY <1>10, <1>11, <2>2
<1> HIDE DEF f, g
<1>17. g = Append(f, arg[t]) /\ Len(f) = n
  <2>1. arg[t] \in Nat
    BY <1>5
  <2> HIDE DEF n
  <2> QED
    BY <1>11, <1>14, <1>15, <1>16, <2>1, AppendedOne, FunctionIsSeq
<1>18. ASSUME NEW u \in Poppers
       PROVE  InHand(u)' = InHand(u)
  <2>1. u \in Threads
    BY DEF Threads
  <2>2. Holding(u)' <=> Holding(u)
    BY <1>7, <1>8, <2>1 DEF Holding
  <2>3. /\ Holding(u) => pos'[u] = pos[u] /\ m'[u] = m[u] /\ out'[u] = out[u]
        /\ val' = val
    BY <1>2
  <2> QED
    BY <2>2, <2>3, SameHand
<1>19. Hands' = Hands
  BY <1>18 DEF Hands
<1> QED
  BY <1>5, <1>11, <1>12, <1>13, <1>17, <1>19

(* A sequence cut after its first k values.                                *)
LEMMA Cut ==
  ASSUME NEW n \in Nat, NEW k \in 1 .. n, NEW f \in [1 .. n -> Nat],
         NEW h \in [1 .. k -> Nat], NEW g \in [1 .. n - k -> Nat],
         \A j \in 1 .. k : h[j] = f[j], \A j \in 1 .. n - k : g[j] = f[k + j]
  PROVE  h = SubSeq(f, 1, k) /\ g = SubSeq(f, k + 1, n) /\ Len(f) = n
<1>1. /\ h \in Seq(Nat) /\ Len(h) = k /\ g \in Seq(Nat) /\ Len(g) = n - k
      /\ Len(f) = n /\ k \in Nat /\ n - k \in Nat
  <2>1. k \in Nat /\ n - k \in Nat
    OBVIOUS
  <2> QED
    BY <2>1, FunctionIsSeq
<1> DEFINE a == SubSeq(f, 1, k)
           b == SubSeq(f, k + 1, n)
<1>2. a \in Seq(Nat) /\ Len(a) = k /\ \A j \in 1 .. k : a[j] = f[j]
  <2>1. \A j \in 1 .. k : f[j] \in Nat
    OBVIOUS
  <2>2. /\ a \in Seq(Nat) /\ Len(a) = IF 1 =< k THEN (k - 1) + 1 ELSE 0
        /\ \A j \in 1 .. (k - 1) + 1 : a[j] = f[(1 + j) - 1]
    BY <2>1, SubSeqProperties
  <2> HIDE DEF a
  <2>3. (k - 1) + 1 = k /\ \A j \in 1 .. k : (1 + j) - 1 = j
    OBVIOUS
  <2> QED
    BY <2>2, <2>3
<1>3. b \in Seq(Nat) /\ Len(b) = n - k /\ \A j \in 1 .. n - k : b[j] = f[k + j]
  <2>1. \A j \in k + 1 .. n : f[j] \in Nat
    OBVIOUS
  <2>2. /\ b \in Seq(Nat) /\ Len(b) = IF k + 1 =< n THEN (n - (k + 1)) + 1 ELSE 0
        /\ \A j \in 1 .. (n - (k + 1)) + 1 : b[j] = f[((k + 1) + j) - 1]
    BY <2>1, SubSeqProperties
  <2> HIDE DEF b
  <2>3. (n - (k + 1)) + 1 = n - k /\ \A j \in 1 .. n - k : ((k + 1) + j) - 1 = k + j
    OBVIOUS
  <2>4. ~(k + 1 =< n) => n - k = 0
    OBVIOUS
  <2> QED
    BY <2>2, <2>3, <2>4
<1> HIDE DEF a, b
<1>4. h = a
  BY <1>1, <1>2, SeqEqual
<1>5. g = b
  BY <1>1, <1>3, SeqEqual
<1> QED
  BY <1>1, <1>4, <1>5 DEF a, b

(* A published value is that of its cell.                                  *)
LEMMA ValueOfCell ==
  ASSUME QInv, NEW B \in Int, NEW H \in Int, NEW T \in Int, NEW S \in [Cells -> Int],
         NEW P \in [Threads -> Int], Numbered(B, H, T, S, P),
         NEW q \in T .. H - 1, S[Cell(q)] = q + 1
  PROVE  ValueAt(Wrap(q)) = val[Cell(q)]
<1> DEFINE p == Wrap(q)
<1>1. /\ Typed /\ Cursors(B, H, T) /\ B =< T /\ T =< H
  BY DEF QInv, Numbered, Cursors
<1>2. q \in Int /\ p \in Int /\ B =< q /\ q =< H
  BY <1>1, WrapType, Sizes DEF Word
<1>3. Cell(p) = Cell(q)
  <2>1. q + 0 = q /\ p + 0 = p /\ 0 \in Int
    BY <1>2
  <2>2. Cell(Wrap(q) + 0) = Cell(q + 0)
    BY <1>2, <2>1, CellOfWord
  <2> QED
    BY <2>1, <2>2
<1>4. ASSUME NEW u \in Pushers, ClaimedBy(u, p)
      PROVE  FALSE
  <2>1. u \in Threads /\ Claiming(u) /\ pos[u] = p
    BY <1>4 DEF ClaimedBy, Threads
  <2>2. /\ pos[u] = Wrap(P[u]) /\ P[u] \in Int /\ T =< P[u] /\ P[u] < H
        /\ S[Cell(P[u])] = P[u]
    BY <2>1 DEF Numbered, Unwrapped, Owners, ClaimOK
  <2>3. P[u] = q
    <3>1. B =< P[u] /\ P[u] =< H
      BY <1>1, <2>2
    <3> QED
      BY <1>1, <1>2, <2>1, <2>2, <3>1, NumbersApart
  <2> QED
    BY <1>2, <2>2, <2>3
<1>5. Tells(p)
  BY <1>2, ValueOfWord
<1>6. ValueAt(p) = val[Cell(p)]
  BY <1>4, <1>5 DEF Tells
<1> QED
  BY <1>3, <1>6

(* A pop that wins the CAS takes the first values of the queue.            *)
LEMMA PopWonTakes ==
  ASSUME QInv, QInv', NEW t \in Poppers, PopCas(t), TailUnchanged(t)
  PROVE  \E k \in 1 .. Len(QueueValues) :
           /\ Hands[t] = <<>>
           /\ Hands' = [Hands EXCEPT ![t] = SubSeq(QueueValues, 1, k)]
           /\ QueueValues' = SubSeq(QueueValues, k + 1, Len(QueueValues))
<1>1. PICK B, H, T \in Int, S \in [Cells -> Int], P \in [Threads -> Int] :
        Numbered(B, H, T, S, P)
  BY DEF QInv
<1>2. t \in Threads /\ Typed
  BY DEF QInv, Threads
<1>3. PICK k \in Nat : m[t] = k
  BY <1>2, Sizes DEF Typed
<1>4. P[t] = T /\ k >= 1 /\ T + k =< H /\ Ready(H, T, S, k) /\ ~Claiming(t)
  BY <1>1, <1>2, <1>3, PopWonStep
<1>5. /\ pc[t] \in {"popCas", "bulkCas"}
      /\ tail' = Wrap(tail + k) /\ pc' = [pc EXCEPT ![t] = "read"]
      /\ UNCHANGED <<head, seq, val, light, pos, m, i, arg, out, pushes, delivered>>
  BY <1>3 DEF PopCas, Goto
<1>6. /\ head = Wrap(H) /\ tail = Wrap(T) /\ B =< T /\ T =< H /\ H =< T + Capacity
      /\ pos[t] = Wrap(T)
  BY <1>1, <1>2, <1>4 DEF Numbered, Unwrapped, Cursors
<1>7. head' = Wrap(H) /\ tail' = Wrap(T + k)
  <2>1. Wrap(Wrap(T) + k) = Wrap(T + k)
    BY WrapTwice
  <2> QED
    BY <1>5, <1>6, <2>1
<1>8. \A u \in Threads \ {t} : pc'[u] = pc[u]
  BY <1>2, <1>5 DEF Typed
<1>9. ~Claiming(t)' /\ ~Holding(t) /\ Holding(t)'
  BY <1>2, <1>5 DEF Claiming, Holding, Typed
<1>10. out[t] = <<>>
  BY <1>1, <1>2, <1>9 DEF Numbered, Locals, PopOK
<1> DEFINE n == H - T
           f == [j \in 1 .. n |-> ValueAt(Wrap(T + (j - 1)))]
           g == [j \in 1 .. n - k |-> ValueAt(Wrap((T + k) + (j - 1)))]
           h == [j \in 1 .. k |-> val[Cell(T + (j - 1))]]
<1>11. n \in Nat /\ k \in 1 .. n /\ H - (T + k) = n - k /\ n - k \in Nat
  BY <1>4, <1>6
<1>12. QueueValues = f
  BY <1>6, QueueOf
<1>13. QueueValues' = g
  <2>1. T + k \in Int /\ T + k =< H /\ H =< (T + k) + Capacity
    BY <1>4, <1>6, Sizes
  <2>2. QueueValues'
        = [j \in 1 .. H - (T + k) |-> ValueAt(Wrap((T + k) + (j - 1)))']
    BY <1>7, <2>1, QueueOfNext
  <2>3. ASSUME NEW j \in 1 .. n - k
        PROVE  ValueAt(Wrap((T + k) + (j - 1)))' = ValueAt(Wrap((T + k) + (j - 1)))
    <3>1. (T + k) + (j - 1) \in Int
      BY <1>11
    <3>2. Wrap((T + k) + (j - 1)) \in Int
      BY <3>1, WrapType, Sizes DEF Word
    <3>3. /\ \A u \in Threads \ {t} :
               pc'[u] = pc[u] /\ pos'[u] = pos[u] /\ arg'[u] = arg[u]
          /\ val' = val
      BY <1>5, <1>8
    <3> QED
      BY <1>2, <1>4, <1>9, <3>2, <3>3, NoClaimStep
  <2> QED
    BY <1>11, <2>2, <2>3
<1>14. f \in [1 .. n -> Nat] /\ g \in [1 .. n - k -> Nat]
  <2>1. \A j \in 1 .. n : T + (j - 1) \in Int
    BY <1>11
  <2>2. \A j \in 1 .. n : ValueAt(Wrap(T + (j - 1))) \in Nat
    BY <2>1, ValueType
  <2>3. \A j \in 1 .. n - k : (T + k) + (j - 1) \in Int
    BY <1>11
  <2>4. \A j \in 1 .. n - k : ValueAt(Wrap((T + k) + (j - 1))) \in Nat
    BY <2>3, ValueType
  <2> QED
    BY <2>2, <2>4
<1>15. \A j \in 1 .. n - k : g[j] = f[k + j]
  <2> TAKE j \in 1 .. n - k
  <2>1. k + j \in 1 .. n /\ (T + k) + (j - 1) = T + ((k + j) - 1)
    BY <1>11
  <2> QED
    BY <2>1
<1>16. ASSUME NEW j \in 1 .. k
       PROVE  h[j] = f[j]
  <2>1. j - 1 \in 0 .. k - 1 /\ j \in 1 .. n /\ T + (j - 1) \in Int
    BY <1>11
  <2>2. T + (j - 1) < H /\ S[Cell(T + (j - 1))] = T + (j - 1) + 1
    BY <1>4, <2>1 DEF Ready
  <2>3. T + (j - 1) \in T .. H - 1
    BY <1>6, <2>1, <2>2
  <2>4. ValueAt(Wrap(T + (j - 1))) = val[Cell(T + (j - 1))]
    BY <1>1, <2>2, <2>3, ValueOfCell
  <2> QED
    BY <2>1, <2>4
<1>17. InHand(t)' = h
  <2>1. InHand(t)' = out'[t] \o Left(val', pos'[t], Len(out'[t]), m'[t] - Len(out'[t]))
    BY <1>9, HandOfNext
  <2>2. out'[t] = <<>> /\ val' = val /\ pos'[t] = Wrap(T) /\ m'[t] = k
    BY <1>3, <1>5, <1>6, <1>10
  <2>3. Len(<<>>) = 0 /\ k - 0 = k
    OBVIOUS
  <2>4. InHand(t)' = <<>> \o Left(val, Wrap(T), 0, k)
    BY <2>1, <2>2, <2>3
  <2>5. ASSUME NEW j \in 1 .. k
        PROVE  val[Cell(Wrap(T) + 0 + j - 1)] = val[Cell(T + (j - 1))]
    <3>1. j - 1 \in Int /\ Wrap(T) \in Int
      BY WrapType, Sizes DEF Word
    <3>2. Wrap(T) + 0 + j - 1 = Wrap(T) + (j - 1)
      BY <3>1
    <3>3. Cell(Wrap(T) + (j - 1)) = Cell(T + (j - 1))
      BY <3>1, CellOfWord
    <3> QED
      BY <3>2, <3>3
  <2>6. Left(val, Wrap(T), 0, k) = h
    <3>1. Left(val, Wrap(T), 0, k) = [j \in 1 .. k |-> val[Cell(Wrap(T) + 0 + j - 1)]]
      BY DEF Left
    <3>2. [j \in 1 .. k |-> val[Cell(Wrap(T) + 0 + j - 1)]] = h
      BY <2>5
    <3> HIDE DEF h
    <3> QED
      BY <3>1, <3>2, Zenon
  <2>7. \A j \in 1 .. k : f[j] \in Nat
    <3> HIDE DEF f, g, h, n
    <3> QED
      BY <1>11, <1>14
  <2>8. h \in [1 .. k -> Nat]
    <3>1. \A j \in 1 .. k : h[j] \in Nat
      BY <1>16, <2>7
    <3> QED
      BY <3>1
  <2> HIDE DEF h
  <2>9. h \in Seq(Nat)
    BY <2>8, FunctionIsSeq
  <2>10. <<>> \o h = h
    BY <2>9, ConcatEmptySeq
  <2> QED
    BY <2>4, <2>6, <2>10
<1> HIDE DEF f, g, h
<1>18. h \in [1 .. k -> Nat]
  <2>1. \A j \in 1 .. k : f[j] \in Nat
    BY <1>11, <1>14
  <2>2. \A j \in 1 .. k : h[j] \in Nat
    BY <1>16, <2>1
  <2> QED
    BY <2>2 DEF h
<1> HIDE DEF n
<1>19. h = SubSeq(f, 1, k) /\ g = SubSeq(f, k + 1, n) /\ Len(f) = n
  BY <1>11, <1>14, <1>15, <1>16, <1>18, Cut
<1>20. ASSUME NEW u \in Poppers, u # t
       PROVE  InHand(u)' = InHand(u)
  <2>1. u \in Threads
    BY DEF Threads
  <2>2. Holding(u)' <=> Holding(u)
    BY <1>8, <1>20, <2>1 DEF Holding
  <2>3. /\ Holding(u) => pos'[u] = pos[u] /\ m'[u] = m[u] /\ out'[u] = out[u]
        /\ val' = val
    BY <1>5
  <2> QED
    BY <2>2, <2>3, SameHand
<1>21. Hands' = [Hands EXCEPT ![t] = h]
  BY <1>17, <1>20 DEF Hands
<1>22. Hands[t] = <<>>
  BY <1>9 DEF Hands, InHand
<1>23. k \in 1 .. Len(f)
  BY <1>11, <1>19
<1> QED
  BY <1>12, <1>13, <1>19, <1>21, <1>22, <1>23

(* The last release of a pop hands the values over.                        *)
LEMMA LastReleaseHands ==
  ASSUME QInv, QInv', NEW t \in Poppers, PopRelease(t), ~(i[t] + 1 < m[t])
  PROVE  /\ QueueValues' = QueueValues
         /\ Hands[t] # <<>> /\ Hands' = [Hands EXCEPT ![t] = <<>>]
<1>1. PICK B, H, T \in Int, S \in [Cells -> Int], P \in [Threads -> Int] :
        Numbered(B, H, T, S, P)
  BY DEF QInv
<1>2. /\ t \in Threads /\ pc[t] = "release"
      /\ pc' = [pc EXCEPT ![t] = "idle"]
      /\ out' = [out EXCEPT ![t] = <<>>] /\ pos' = [pos EXCEPT ![t] = 0]
      /\ m' = [m EXCEPT ![t] = 0]
      /\ UNCHANGED <<head, tail, val, light, arg, pushes>>
  BY DEF PopRelease, Goto, Threads
<1>3. Typed
  BY DEF QInv
<1>4. /\ ~Claiming(t) /\ Holding(t) /\ ~Claiming(t)' /\ ~Holding(t)'
      /\ \A u \in Threads \ {t} : /\ pc'[u] = pc[u] /\ pos'[u] = pos[u]
                                  /\ m'[u] = m[u] /\ out'[u] = out[u]
  BY <1>2, <1>3 DEF Claiming, Holding, Typed
<1>5. \A q \in T .. H - 1 : ValueAt(Wrap(q))' = ValueAt(Wrap(q))
  <2> TAKE q \in T .. H - 1
  <2>1. Wrap(q) \in Int
    BY WrapType, Sizes DEF Word
  <2>2. /\ \A u \in Threads \ {t} : pc'[u] = pc[u] /\ pos'[u] = pos[u] /\ arg'[u] = arg[u]
        /\ val' = val
    BY <1>2, <1>4
  <2> QED
    BY <1>2, <1>4, <2>1, <2>2, NoClaimStep
<1>6. QueueValues' = QueueValues
  BY <1>1, <1>2, <1>5, SameQueue
<1>7. InHand(t) # <<>>
  <2> DEFINE l == Len(out[t])
             f == Left(val, pos[t], l, m[t] - l)
  <2>1. out[t] \in Seq(1 .. MaxPushes) /\ pos[t] \in Int /\ m[t] \in Nat /\ i[t] \in Nat
    BY <1>2, <1>3, Sizes DEF Typed, Word
  <2>2. i[t] < m[t] /\ l = IF light THEN m[t] ELSE i[t] + 1
    <3>1. HoldOK(t, B, H, T, S, P)
      BY <1>1, <1>2 DEF Numbered, Owners
    <3> QED
      BY <1>2, <1>4, <3>1 DEF HoldOK
  <2>3. l = m[t] /\ l >= 1
    BY <2>1, <2>2
  <2>4. f = <<>>
    BY <2>1, <2>3 DEF Left
  <2>5. InHand(t) = out[t] \o f
    BY <1>4, HandOf
  <2>6. InHand(t) = out[t]
    BY <2>1, <2>4, <2>5, ConcatEmptySeq
  <2> QED
    BY <2>3, <2>6
<1>8. InHand(t)' = <<>>
  BY <1>4 DEF InHand
<1>9. ASSUME NEW u \in Poppers, u # t
      PROVE  InHand(u)' = InHand(u)
  <2>1. u \in Threads
    BY DEF Threads
  <2>2. Holding(u)' <=> Holding(u)
    BY <1>4, <1>9, <2>1 DEF Holding
  <2>3. /\ Holding(u) => pos'[u] = pos[u] /\ m'[u] = m[u] /\ out'[u] = out[u]
        /\ val' = val
    BY <1>2, <1>4, <1>9, <2>1
  <2> QED
    BY <2>2, <2>3, SameHand
<1>10. Hands' = [Hands EXCEPT ![t] = <<>>] /\ Hands[t] # <<>>
  BY <1>7, <1>8, <1>9 DEF Hands
<1> QED
  BY <1>6, <1>10

(* The queue starts as an empty FIFO.                                      *)
LEMMA InitFifo == Init => Fifo!FifoInit
<1> SUFFICES ASSUME Init
    PROVE  Fifo!FifoInit
  OBVIOUS
<1>1. head = tail /\ head \in Int
  <2>1. PICK s \in Starts : head = s /\ tail = s
    BY DEF Init
  <2> QED
    BY <2>1, Sizes
<1>2. Wrap(head - tail) = 0
  BY <1>1, WrapZero
<1>3. \A t \in Poppers : InHand(t) = <<>>
  BY DEF Init, InHand, Holding, Threads
<1> QED
  BY <1>2, <1>3 DEF Fifo!FifoInit

(* Every step of the queue is one of the FIFO, or none.                    *)
LEMMA StepFifo ==
  ASSUME QInv, QInv', [Next]_vars
  PROVE  [Fifo!FifoNext]_(Fifo!fifoVars)
<1>1. ASSUME QueueValues' = QueueValues, Hands' = Hands
      PROVE  UNCHANGED Fifo!fifoVars
  BY <1>1 DEF Fifo!fifoVars, QueueValues, Hands
<1>2. ASSUME UNCHANGED vars
      PROVE  UNCHANGED Fifo!fifoVars
  <2>1. PICK B, H, T \in Int, S \in [Cells -> Int], P \in [Threads -> Int] :
          Numbered(B, H, T, S, P)
    BY DEF QInv
  <2>2. /\ head' = head /\ tail' = tail /\ val' = val /\ pc' = pc /\ pos' = pos
        /\ arg' = arg /\ m' = m /\ out' = out
    BY <1>2 DEF vars, words, local
  <2>3. ASSUME NEW p \in Int
        PROVE  ValueAt(p)' = ValueAt(p)
    BY <2>2, SameValue DEF ClaimedBy, Claiming
  <2>4. \A q \in T .. H - 1 : ValueAt(Wrap(q))' = ValueAt(Wrap(q))
    <3> TAKE q \in T .. H - 1
    <3>1. Wrap(q) \in Int
      BY WrapType, Sizes DEF Word
    <3> QED
      BY <2>3, <3>1
  <2>5. QueueValues' = QueueValues
    BY <2>1, <2>2, <2>4, SameQueue
  <2>6. \A u \in Poppers : InHand(u)' = InHand(u)
    BY <2>2, SameHand DEF Holding
  <2>7. Hands' = Hands
    BY <2>6 DEF Hands
  <2> QED
    BY <1>1, <2>5, <2>7
<1>3. ASSUME NEW t \in Pushers, BeginPush(t) \/ PushStep(t)
      PROVE  [Fifo!FifoNext]_(Fifo!fifoVars)
  <2>1. CASE \/ BeginPush(t) \/ PushReload(t) \/ PushCheck(t)
             \/ (PushCas(t) /\ head # pos[t])
    <3>1. QueueValues' = QueueValues /\ Hands' = Hands
      BY <2>1, PushQuiet
    <3> QED
      BY <1>1, <3>1
  <2>2. CASE PushCas(t) /\ head = pos[t]
    <3>1. /\ arg[t] \in 1 .. MaxPushes /\ Len(QueueValues) < Capacity
          /\ QueueValues' = Append(QueueValues, arg[t]) /\ Hands' = Hands
      BY <2>2, PushWonPuts
    <3>2. Fifo!Put(arg[t])
      BY <3>1 DEF Fifo!Put, QueueValues, Hands
    <3> QED
      BY <3>1, <3>2 DEF Fifo!FifoNext
  <2>3. CASE PushWrite(t)
    <3>1. QueueValues' = QueueValues /\ Hands' = Hands
      BY <2>3, WriteQuiet
    <3> QED
      BY <1>1, <3>1
  <2>4. CASE PushPublish(t)
    <3>1. QueueValues' = QueueValues /\ Hands' = Hands
      BY <2>4, PublishQuiet
    <3> QED
      BY <1>1, <3>1
  <2> QED
    BY <1>3, <2>1, <2>2, <2>3, <2>4 DEF PushStep
<1>4. ASSUME NEW t \in Poppers, BeginPop(t) \/ PopStep(t)
      PROVE  [Fifo!FifoNext]_(Fifo!fifoVars)
  <2>1. CASE \/ BeginPop(t) \/ PopReload(t) \/ PopCheck(t) \/ BulkScan(t)
             \/ BulkRecheck(t) \/ (PopCas(t) /\ ~TailUnchanged(t))
    <3>1. QueueValues' = QueueValues /\ Hands' = Hands
      BY <2>1, PopQuiet
    <3> QED
      BY <1>1, <3>1
  <2>2. CASE PopCas(t) /\ TailUnchanged(t)
    <3>1. PICK k \in 1 .. Len(QueueValues) :
            /\ Hands[t] = <<>>
            /\ Hands' = [Hands EXCEPT ![t] = SubSeq(QueueValues, 1, k)]
            /\ QueueValues' = SubSeq(QueueValues, k + 1, Len(QueueValues))
      BY <2>2, PopWonTakes
    <3>2. Fifo!Take(t, k)
      BY <3>1 DEF Fifo!Take, QueueValues, Hands
    <3>3. \E j \in 1 .. Len(QueueValues) : Fifo!Take(t, j)
      BY <3>1, <3>2
    <3> QED
      BY <3>3 DEF Fifo!FifoNext, QueueValues
  <2>3. CASE PopRead(t)
    <3>1. QueueValues' = QueueValues /\ Hands' = Hands
      BY <2>3, ReadQuiet
    <3> QED
      BY <1>1, <3>1
  <2>4. CASE PopRelease(t) /\ i[t] + 1 < m[t]
    <3>1. QueueValues' = QueueValues /\ Hands' = Hands
      BY <2>4, ReleaseQuiet
    <3> QED
      BY <1>1, <3>1
  <2>5. CASE PopRelease(t) /\ ~(i[t] + 1 < m[t])
    <3>1. /\ QueueValues' = QueueValues
          /\ Hands[t] # <<>> /\ Hands' = [Hands EXCEPT ![t] = <<>>]
      BY <2>5, LastReleaseHands
    <3>2. Fifo!HandOver(t)
      BY <3>1 DEF Fifo!HandOver, QueueValues, Hands
    <3> QED
      BY <3>2 DEF Fifo!FifoNext
  <2> QED
    BY <1>4, <2>1, <2>2, <2>3, <2>4, <2>5 DEF PopStep
<1> QED
  BY <1>2, <1>3, <1>4 DEF Next

(* The ready queue is a bounded FIFO (queue.h as a whole): values leave it *)
(* in the order of the pushes' CASes, each to one consumer, for every      *)
(* interleaving of any number of pushes and pops.                          *)
THEOREM SpecImplementsFifo == Spec => ImplementsFifo
<1>1. Init => Fifo!FifoInit
  BY InitFifo
<1>2. QInv /\ QInv' /\ [Next]_vars => [Fifo!FifoNext]_(Fifo!fifoVars)
  BY StepFifo
<1> QED
  BY <1>1, <1>2, SpecQInv, PTL DEF Spec, ImplementsFifo, Fifo!FifoSpec
=============================================================================
