-------------------------- MODULE DraftAndHeadProofs ---------------------------
(***************************************************************************)
(* Two algorithms of the decode loop: the certified argmax of the head,    *)
(* and the draft of the suffix index.                                      *)
(*                                                                         *)
(* The certified argmax is the argmax of the whole head, for every head,   *)
(* activation, hint, number of anchors and segments, and any rounding      *)
(* within the margin.  The argument: in each segment the dot of a row is   *)
(* at most the product of the norms (Cauchy and Schwarz), norms are        *)
(* rounded up, and the segments cover the row; so the logit of a row that  *)
(* was skipped is below the anchor's.  The scan keeps the best row it has  *)
(* seen, the smaller id of equals, whatever the order of the rows.         *)
(*                                                                         *)
(* A draft continues the longest earlier occurrence of the stream's tail,  *)
(* for every stream, hash function, cap on the walk and least match.  The  *)
(* argument: the chain of a hash links its ends in falling order, none     *)
(* left out, so the walk visits them from the latest on, and its i-th step *)
(* is at the end with i - 1 later ones.  A match of the tail that is long  *)
(* enough ends with the tail's gram, hence at an end of the chain; of the  *)
(* candidates the longest is kept, the first met of several, which is the  *)
(* latest.                                                                 *)
(***************************************************************************)
EXTENDS HeadCert, SuffixDraft, FiniteSetTheorems, SequenceTheorems,
        WellFoundedInduction, TLAPS

(* A set of numbers has a least one.                                       *)
LEMMA LeastNumber ==
  ASSUME NEW T, T \subseteq Nat, T # {}
  PROVE  \E x \in T : \A y \in T : x <= y
<1>1. PICK x \in T : \A y \in T : ~(<<y, x>> \in OpToRel(<, Nat))
  BY NatLessThanWellFounded, WFMin, Zenon
<1>2. \A y \in T : ~(y < x)
  BY <1>1 DEF OpToRel
<1> QED
  BY <1>2

(* Induction, for a set of numbers: what holds of 0 and of every successor *)
(* holds of all.                                                           *)
LEMMA Induction ==
  ASSUME NEW T, 0 \in T, \A n \in Nat : n \in T => n + 1 \in T
  PROVE  \A n \in Nat : n \in T
<1> SUFFICES ASSUME Nat \ T # {}  PROVE FALSE
  OBVIOUS
<1>1. PICK x \in Nat \ T : \A y \in Nat \ T : x <= y
  BY LeastNumber
<1>2. x - 1 \in Nat /\ x - 1 \notin Nat \ T
  BY <1>1
<1> QED
  BY <1>1, <1>2

(* Induction, for finite sets: among finite sets there is a minimal one.   *)
LEMMA MinimalSet ==
  ASSUME NEW B, B # {}, \A s \in B : IsFiniteSet(s)
  PROVE  \E s \in B : \A u \in SUBSET s : u # s => u \notin B
<1> DEFINE Sizes == { Cardinality(s) : s \in B }
<1>1. Sizes \subseteq Nat /\ Sizes # {}
  BY FS_CardinalityType
<1>2. PICK n \in Sizes : \A m \in Sizes : n <= m
  BY <1>1, LeastNumber
<1>3. PICK s \in B : Cardinality(s) = n
  BY <1>2
<1>4. ASSUME NEW u \in SUBSET s, u # s, u \in B  PROVE FALSE
  <2>1. Cardinality(u) \in Nat /\ Cardinality(s) \in Nat /\ Cardinality(s) <= Cardinality(u)
    BY <1>1, <1>2, <1>3, <1>4
  <2>2. Cardinality(u) <= Cardinality(s) /\ (Cardinality(s) = Cardinality(u) => s = u)
    BY <1>4, FS_Subset
  <2> QED
    BY <2>1, <2>2, <1>4
<1> QED
  BY <1>4

--------------------------------------------------------------------------------
(* Sums.                                                                   *)

Pick(s) == CHOOSE x \in s : TRUE
(* What the recursion of a sum says of the partial sums.                   *)
SumStep(f, S, iter) ==
  [s \in SUBSET S |-> IF s = {} THEN 0 ELSE f[Pick(s)] + iter[s \ {Pick(s)}]]
Sum(f, S) == SumFunctionOnSet(f, S)

(* The library's sum is defined by that recursion.                         *)
LEMMA SumIsChosen ==
  ASSUME NEW f, NEW S
  PROVE  Sum(f, S) = (CHOOSE iter : iter = SumStep(f, S, iter))[S]
  BY DEF Sum, SumFunctionOnSet, FoldFunctionOnSet, MapThenFoldSet, SumStep, Pick

(* What is picked belongs to the set.                                      *)
LEMMA PickIsMember ==
  ASSUME NEW s, s # {}
  PROVE  Pick(s) \in s /\ s \ {Pick(s)} \subseteq s /\ s \ {Pick(s)} # s
  BY DEF Pick

(* The recursion has one solution at most.                                 *)
LEMMA SumIsUnique ==
  ASSUME NEW f, NEW S, IsFiniteSet(S),
         NEW a, a = SumStep(f, S, a), NEW b, b = SumStep(f, S, b)
  PROVE  \A s \in SUBSET S : a[s] = b[s]
<1> DEFINE B == { s \in SUBSET S : a[s] # b[s] }
<1> SUFFICES ASSUME B # {}  PROVE FALSE
  OBVIOUS
<1>1. \A s \in B : IsFiniteSet(s)
  BY FS_Subset
<1>2. PICK s \in B : \A u \in SUBSET s : u # s => u \notin B
  <2> HIDE DEF B
  <2> QED BY <1>1, MinimalSet
<1>3. \A t \in SUBSET S : /\ a[t] = IF t = {} THEN 0 ELSE f[Pick(t)] + a[t \ {Pick(t)}]
                          /\ b[t] = IF t = {} THEN 0 ELSE f[Pick(t)] + b[t \ {Pick(t)}]
  BY DEF SumStep
<1>4. s # {}
  BY <1>2, <1>3
<1>5. a[s \ {Pick(s)}] = b[s \ {Pick(s)}]
  BY <1>2, <1>4, PickIsMember
<1> QED
  BY <1>2, <1>3, <1>4, <1>5

(* A solution for a set gives the sums of its subsets.                     *)
LEMMA SolutionIsSum ==
  ASSUME NEW f, NEW S, IsFiniteSet(S), NEW a, a = SumStep(f, S, a)
  PROVE  \A v \in SUBSET S : Sum(f, v) = a[v]
<1> SUFFICES ASSUME NEW v \in SUBSET S  PROVE Sum(f, v) = a[v]
  OBVIOUS
<1> DEFINE r == [s \in SUBSET v |-> a[s]]
           c == CHOOSE iter : iter = SumStep(f, v, iter)
<1>1. r = SumStep(f, v, r)
  <2>1. \A s \in SUBSET v : a[s] = IF s = {} THEN 0 ELSE f[Pick(s)] + a[s \ {Pick(s)}]
    BY DEF SumStep
  <2>2. ASSUME NEW s \in SUBSET v
        PROVE  r[s] = IF s = {} THEN 0 ELSE f[Pick(s)] + r[s \ {Pick(s)}]
    BY <2>1
  <2>3. r = [s \in SUBSET v |-> r[s]]
    OBVIOUS
  <2> HIDE DEF r
  <2> QED
    BY <2>2, <2>3 DEF SumStep
<1>2. c = SumStep(f, v, c)
  <2> HIDE DEF r
  <2> QED BY <1>1
<1>3. c[v] = r[v]
  <2> HIDE DEF r, c
  <2> QED BY <1>1, <1>2, SumIsUnique, FS_Subset
<1> QED
  BY <1>3, SumIsChosen

(* It has one: the sums of the proper subsets, continued by one step.      *)
LEMMA SolutionExists ==
  ASSUME NEW f, NEW S, IsFiniteSet(S)
  PROVE  \E a : a = SumStep(f, S, a)
<1> DEFINE B == { u \in SUBSET S : ~ \E a : a = SumStep(f, u, a) }
<1> SUFFICES ASSUME B # {}  PROVE FALSE
  OBVIOUS
<1>1. \A s \in B : IsFiniteSet(s)
  BY FS_Subset
<1>2. PICK u \in B : \A v \in SUBSET u : v # u => v \notin B
  <2> HIDE DEF B
  <2> QED BY <1>1, MinimalSet
<1>3. \A v \in SUBSET u : v # u => \E a : a = SumStep(f, v, a)
  BY <1>2
<1> DEFINE g == [s \in SUBSET u |-> IF s = {} THEN 0 ELSE f[Pick(s)] + Sum(f, s \ {Pick(s)})]
<1>4. ASSUME NEW v \in SUBSET u, v # u  PROVE Sum(f, v) = g[v]
  <2>1. PICK a : a = SumStep(f, v, a)
    BY <1>3, <1>4
  <2>2. IsFiniteSet(v)
    BY <1>1, <1>2, FS_Subset
  <2>3. \A w \in SUBSET v : Sum(f, w) = a[w]
    BY <2>1, <2>2, SolutionIsSum
  <2>4. a[v] = IF v = {} THEN 0 ELSE f[Pick(v)] + a[v \ {Pick(v)}]
    BY <2>1 DEF SumStep
  <2>5. v # {} => a[v \ {Pick(v)}] = Sum(f, v \ {Pick(v)})
    BY <2>3
  <2> QED
    BY <2>3, <2>4, <2>5
<1>5. \A s \in SUBSET u : s # {} => Sum(f, s \ {Pick(s)}) = g[s \ {Pick(s)}]
  <2> HIDE DEF g
  <2> QED BY <1>4, PickIsMember
<1>6. g = SumStep(f, u, g)
  <2>1. \A s \in SUBSET u : g[s] = IF s = {} THEN 0 ELSE f[Pick(s)] + g[s \ {Pick(s)}]
    BY <1>5
  <2>2. g = [s \in SUBSET u |-> g[s]]
    OBVIOUS
  <2> HIDE DEF g
  <2> QED BY <2>1, <2>2 DEF SumStep
<1> QED
  <2> HIDE DEF g
  <2> QED BY <1>2, <1>6

(* So the recursion may be unfolded.                                       *)
LEMMA SumUnfolds ==
  ASSUME NEW f, NEW S, IsFiniteSet(S)
  PROVE  Sum(f, S) = IF S = {} THEN 0 ELSE f[Pick(S)] + Sum(f, S \ {Pick(S)})
<1>1. PICK a : a = SumStep(f, S, a)
  BY SolutionExists
<1>2. \A v \in SUBSET S : Sum(f, v) = a[v]
  BY <1>1, SolutionIsSum
<1>3. a[S] = IF S = {} THEN 0 ELSE f[Pick(S)] + a[S \ {Pick(S)}]
  BY <1>1 DEF SumStep
<1> QED
  BY <1>2, <1>3

(* A sum of integers is one.                                               *)
LEMMA SumIsInt ==
  ASSUME NEW f, NEW S, IsFiniteSet(S), \A x \in S : f[x] \in Int
  PROVE  Sum(f, S) \in Int
<1> DEFINE B == { u \in SUBSET S : Sum(f, u) \notin Int }
<1> SUFFICES ASSUME B # {}  PROVE FALSE
  OBVIOUS
<1>1. \A s \in B : IsFiniteSet(s)
  BY FS_Subset
<1>2. PICK u \in B : \A v \in SUBSET u : v # u => v \notin B
  <2> HIDE DEF B
  <2> QED BY <1>1, MinimalSet
<1>3. Sum(f, u) = IF u = {} THEN 0 ELSE f[Pick(u)] + Sum(f, u \ {Pick(u)})
  BY <1>1, <1>2, SumUnfolds
<1>4. u # {}
  BY <1>2, <1>3
<1>5. f[Pick(u)] \in Int /\ Sum(f, u \ {Pick(u)}) \in Int
  BY <1>2, <1>4, PickIsMember
<1> QED
  BY <1>2, <1>3, <1>4, <1>5

(* Any member may be added first.                                          *)
LEMMA SumRemove ==
  ASSUME NEW f, NEW S, IsFiniteSet(S), \A x \in S : f[x] \in Int
  PROVE  \A x \in S : Sum(f, S) = f[x] + Sum(f, S \ {x})
<1> DEFINE B == { u \in SUBSET S : ~ \A x \in u : Sum(f, u) = f[x] + Sum(f, u \ {x}) }
<1> SUFFICES ASSUME B # {}  PROVE FALSE
  OBVIOUS
<1>1. \A s \in SUBSET S : IsFiniteSet(s) /\ Sum(f, s) \in Int
  BY FS_Subset, SumIsInt
<1>2. PICK u \in B : \A v \in SUBSET u : v # u => v \notin B
  <2>1. \A s \in B : IsFiniteSet(s)
    BY <1>1
  <2> HIDE DEF B
  <2> QED BY <2>1, MinimalSet
<1>3. PICK x \in u : Sum(f, u) # f[x] + Sum(f, u \ {x})
  BY <1>2
<1> DEFINE y == Pick(u)
<1>4. y \in u /\ Sum(f, u) = f[y] + Sum(f, u \ {y})
  BY <1>1, <1>2, <1>3, SumUnfolds, PickIsMember
<1>5. x # y
  BY <1>3, <1>4
<1>6. Sum(f, u \ {y}) = f[x] + Sum(f, (u \ {y}) \ {x})
  BY <1>2, <1>3, <1>4, <1>5
<1>7. Sum(f, u \ {x}) = f[y] + Sum(f, (u \ {x}) \ {y})
  BY <1>2, <1>3, <1>4, <1>5
<1>8. (u \ {y}) \ {x} = (u \ {x}) \ {y}
  OBVIOUS
<1>9. f[x] \in Int /\ f[y] \in Int /\ Sum(f, (u \ {x}) \ {y}) \in Int
  BY <1>1, <1>2, <1>3, <1>4
<1>10. Sum(f, u) = f[x] + Sum(f, u \ {x})
  <2> DEFINE r == Sum(f, (u \ {x}) \ {y})
  <2>1. Sum(f, u) = f[y] + (f[x] + r)
    BY <1>4, <1>6, <1>8
  <2>2. Sum(f, u \ {x}) = f[y] + r
    BY <1>7
  <2>3. f[x] \in Int /\ f[y] \in Int /\ r \in Int
    BY <1>9
  <2> HIDE DEF y, r
  <2>4. f[y] + (f[x] + r) = f[x] + (f[y] + r)
    BY <2>3
  <2> QED BY <2>1, <2>2, <2>4
<1> QED
  BY <1>3, <1>10

(* The empty sum.                                                          *)
LEMMA SumOfNone ==
  ASSUME NEW f
  PROVE  Sum(f, {}) = 0
  BY SumUnfolds, FS_EmptySet

(* Scaled by c, the terms of f are at most those of g: so are the sums.    *)
LEMMA SumScaled ==
  ASSUME NEW f, NEW g, NEW S, IsFiniteSet(S), NEW c \in Int,
         \A x \in S : f[x] \in Int /\ g[x] \in Int /\ c * f[x] <= g[x]
  PROVE  c * Sum(f, S) <= Sum(g, S)
<1> DEFINE B == { u \in SUBSET S : ~(c * Sum(f, u) <= Sum(g, u)) }
<1> SUFFICES ASSUME B # {}  PROVE FALSE
  OBVIOUS
<1>1. \A s \in SUBSET S : IsFiniteSet(s) /\ Sum(f, s) \in Int /\ Sum(g, s) \in Int
  BY FS_Subset, SumIsInt
<1>2. PICK u \in B : \A v \in SUBSET u : v # u => v \notin B
  <2>1. \A s \in B : IsFiniteSet(s)
    BY <1>1
  <2> HIDE DEF B
  <2> QED BY <2>1, MinimalSet
<1>3. u # {}
  <2>1. c * Sum(f, {}) <= Sum(g, {})
    BY SumOfNone
  <2> QED BY <2>1, <1>2
<1>4. PICK x \in u : TRUE
  BY <1>3
<1> DEFINE r == Sum(f, u \ {x})
           t == Sum(g, u \ {x})
           p == f[x]
           q == g[x]
<1>5. Sum(f, u) = p + r /\ Sum(g, u) = q + t
  BY <1>1, <1>2, SumRemove
<1>6. c * r <= t
  BY <1>2, <1>4
<1>7. r \in Int /\ t \in Int /\ p \in Int /\ q \in Int /\ c * p <= q
  BY <1>1, <1>2
<1>8. c * (p + r) <= q + t
  <2> HIDE DEF r, t, p, q
  <2>1. c * (p + r) = c * p + c * r /\ c * p \in Int /\ c * r \in Int
    BY <1>7
  <2> QED BY <1>6, <1>7, <2>1
<1> QED
  BY <1>2, <1>5, <1>8

(* The same summands have the same sum.                                    *)
LEMMA SumAgrees ==
  ASSUME NEW f, NEW g, NEW S, IsFiniteSet(S), \A x \in S : f[x] \in Int /\ f[x] = g[x]
  PROVE  Sum(f, S) = Sum(g, S)
<1>1. 1 * Sum(f, S) <= Sum(g, S)
  BY SumScaled
<1>2. 1 * Sum(g, S) <= Sum(f, S)
  BY SumScaled
<1> QED
  BY <1>1, <1>2, SumIsInt

(* The sums of two parts.                                                  *)
LEMMA SumOfParts ==
  ASSUME NEW f, NEW S, NEW T, IsFiniteSet(S), IsFiniteSet(T), S \cap T = {},
         \A x \in S \cup T : f[x] \in Int
  PROVE  Sum(f, S \cup T) = Sum(f, S) + Sum(f, T)
<1> DEFINE B == { u \in SUBSET T : Sum(f, S \cup u) # Sum(f, S) + Sum(f, u) }
<1> SUFFICES ASSUME B # {}  PROVE FALSE
  OBVIOUS
<1>0. IsFiniteSet(S \cup T)
  BY FS_Union
<1>1. \A s \in SUBSET (S \cup T) : IsFiniteSet(s) /\ Sum(f, s) \in Int
  BY <1>0, FS_Subset, SumIsInt
<1>2. PICK u \in B : \A v \in SUBSET u : v # u => v \notin B
  <2>1. \A s \in B : IsFiniteSet(s)
    BY <1>1
  <2> HIDE DEF B
  <2> QED BY <2>1, MinimalSet
<1>3. u # {}
  <2>1. Sum(f, S \cup {}) = Sum(f, S) + Sum(f, {})
    BY <1>1, SumOfNone
  <2> QED BY <2>1, <1>2
<1>4. PICK x \in u : TRUE
  BY <1>3
<1>5. Sum(f, u) = f[x] + Sum(f, u \ {x})
  BY <1>1, <1>2, SumRemove
<1>6. Sum(f, S \cup u) = f[x] + Sum(f, (S \cup u) \ {x})
  <2>1. S \cup u \in SUBSET (S \cup T) /\ x \in S \cup u
    BY <1>2
  <2> QED BY <1>1, <2>1, SumRemove
<1>7. (S \cup u) \ {x} = S \cup (u \ {x})
  BY <1>2
<1>8. Sum(f, S \cup (u \ {x})) = Sum(f, S) + Sum(f, u \ {x})
  BY <1>2, <1>4
<1>9. Sum(f, S) \in Int /\ Sum(f, u \ {x}) \in Int /\ f[x] \in Int
  BY <1>1, <1>2
<1> QED
  BY <1>2, <1>5, <1>6, <1>7, <1>8, <1>9

--------------------------------------------------------------------------------
(* The inequality of Cauchy and Schwarz.                                   *)

(* A square is not negative.                                               *)
LEMMA SquareIsNonnegative ==
  ASSUME NEW x \in Int
  PROVE  x * x \in Nat
<1>1. CASE x >= 0
  BY <1>1
<1>2. CASE x < 0
  BY <1>2
<1> QED
  BY <1>1, <1>2

(* Squares are ordered as the numbers are.                                 *)
LEMMA SquaresOrderNumbers ==
  ASSUME NEW x \in Int, NEW y \in Nat, x * x <= y * y
  PROVE  x <= y
<1> SUFFICES ASSUME x > y  PROVE FALSE
  OBVIOUS
<1> DEFINE d == x - y
<1>1. d \in Nat /\ d >= 1 /\ x = y + d
  OBVIOUS
<1>2. x * x = y * y + 2 * (y * d) + d * d
  <2> HIDE DEF d
  <2> QED BY <1>1
<1>3. d * d >= 1 /\ y * d >= 0
  <2> HIDE DEF d
  <2> QED BY <1>1
<1>4. x * x \in Int /\ y * y \in Int /\ y * d \in Int /\ d * d \in Int
  BY <1>1
<1> QED
  BY <1>2, <1>3, <1>4

(* A product of bounds bounds the product.                                 *)
LEMMA ProductsOfBounds ==
  ASSUME NEW a \in Nat, NEW b \in Nat, NEW c \in Nat, NEW d \in Nat, a <= c, b <= d
  PROVE  a * b <= c * d
<1>1. a * b <= c * b
  <2>1. PICK k \in Nat : c = a + k
    <3>1. c - a \in Nat /\ c = a + (c - a)
      OBVIOUS
    <3> QED BY <3>1
  <2>2. c * b = a * b + k * b
    BY <2>1
  <2>3. k * b \in Nat /\ a * b \in Nat
    OBVIOUS
  <2> QED BY <2>2, <2>3
<1>2. c * b <= c * d
  <2>1. PICK k \in Nat : d = b + k
    <3>1. d - b \in Nat /\ d = b + (d - b)
      OBVIOUS
    <3> QED BY <3>1
  <2>2. c * d = c * b + c * k
    BY <2>1
  <2>3. c * k \in Nat /\ c * b \in Nat
    OBVIOUS
  <2> QED BY <2>2, <2>3
<1>3. a * b \in Int /\ c * b \in Int /\ c * d \in Int
  OBVIOUS
<1> QED
  BY <1>1, <1>2, <1>3

(* The induction step: one more coordinate, p and q.                       *)
LEMMA CauchyStep ==
  ASSUME NEW A \in Nat, NEW B \in Nat, NEW C \in Int, NEW p \in Int, NEW q \in Int,
         C * C <= A * B
  PROVE  (C + p * q) * (C + p * q) <= (A + p * p) * (B + q * q)
<1> DEFINE P == p * p
           Q == q * q
           m == A * Q
           n == B * P
           t == C * (p * q)
<1>1. P \in Nat /\ Q \in Nat /\ t \in Int
  BY SquareIsNonnegative
<1>2. m \in Nat /\ n \in Nat
  <2> HIDE DEF P, Q
  <2> QED BY <1>1
<1>3. t * t = (C * C) * (P * Q)
  OBVIOUS
<1>4. (C * C) * (P * Q) <= (A * B) * (P * Q)
  <2>1. C * C \in Nat /\ A * B \in Nat /\ P * Q \in Nat
    <3> HIDE DEF P, Q
    <3> QED BY <1>1, SquareIsNonnegative
  <2> HIDE DEF P, Q
  <2> QED BY <2>1, ProductsOfBounds
<1>5. (A * B) * (P * Q) = m * n
  <2> HIDE DEF P, Q
  <2> QED BY <1>1
<1>6. t * t <= m * n
  BY <1>3, <1>4, <1>5
<1>7. (2 * t) * (2 * t) <= (m + n) * (m + n)
  <2> HIDE DEF m, n, t
  <2>1. (m - n) * (m - n) \in Nat
    BY <1>2, SquareIsNonnegative
  <2>2. (m + n) * (m + n) = (m - n) * (m - n) + 4 * (m * n)
    BY <1>2
  <2>3. (2 * t) * (2 * t) = 4 * (t * t)
    BY <1>1
  <2>4. m * n \in Int /\ t * t \in Int
    BY <1>1, <1>2
  <2> QED BY <1>6, <2>1, <2>2, <2>3, <2>4
<1>8. 2 * t <= m + n
  <2>1. 2 * t \in Int /\ m + n \in Nat
    <3> HIDE DEF m, n, t
    <3> QED BY <1>1, <1>2
  <2> HIDE DEF m, n, t
  <2> QED BY <1>7, <2>1, SquaresOrderNumbers
<1>9. (C + p * q) * (C + p * q) = C * C + 2 * t + P * Q
  OBVIOUS
<1>10. (A + P) * (B + Q) = A * B + m + n + P * Q
  <2> HIDE DEF P, Q
  <2> QED BY <1>1
<1>11. C * C \in Int /\ A * B \in Int /\ P * Q \in Int
  <2> HIDE DEF P, Q
  <2> QED BY <1>1
<1>12. C * C + 2 * t + P * Q <= A * B + m + n + P * Q
  <2> DEFINE cc == C * C
             ab == A * B
             pq == P * Q
  <2> HIDE DEF P, Q, m, n, t
  <2>1. cc <= ab /\ cc \in Int /\ ab \in Int /\ pq \in Int
    BY <1>11
  <2> HIDE DEF cc, ab, pq
  <2>2. cc + 2 * t + pq <= ab + m + n + pq
    BY <2>1, <1>1, <1>2, <1>8
  <2> QED BY <2>2 DEF cc, ab, pq
<1> QED
  BY <1>9, <1>10, <1>12

Dot(x, y, S) == Sum([i \in S |-> x[i] * y[i]], S)

(* Any coordinate may be added first.                                      *)
LEMMA DotRemove ==
  ASSUME NEW x, NEW y, NEW S, IsFiniteSet(S),
         \A i \in S : x[i] \in Int /\ y[i] \in Int, NEW k \in S
  PROVE  /\ Dot(x, y, S) = x[k] * y[k] + Dot(x, y, S \ {k})
         /\ Dot(x, y, S) \in Int /\ Dot(x, y, S \ {k}) \in Int
<1> DEFINE f == [i \in S |-> x[i] * y[i]]
           g == [i \in S \ {k} |-> x[i] * y[i]]
<1>1. IsFiniteSet(S \ {k})
  BY FS_Subset
<1>2. \A i \in S : f[i] \in Int
  OBVIOUS
<1>3. \A i \in S \ {k} : g[i] \in Int /\ g[i] = f[i]
  OBVIOUS
<1>4. f[k] = x[k] * y[k]
  OBVIOUS
<1>5. Dot(x, y, S) = Sum(f, S) /\ Dot(x, y, S \ {k}) = Sum(g, S \ {k})
  BY DEF Dot
<1> HIDE DEF f, g
<1>6. Sum(g, S \ {k}) = Sum(f, S \ {k})
  BY <1>1, <1>3, SumAgrees
<1> QED
  BY <1>1, <1>2, <1>4, <1>5, <1>6, SumRemove, SumIsInt

(* The empty dot.                                                          *)
LEMMA DotOfNone ==
  ASSUME NEW x, NEW y
  PROVE  Dot(x, y, {}) = 0
  BY SumOfNone DEF Dot

(* A dot is at most the product of the norms.                              *)
LEMMA CauchySchwarz ==
  ASSUME NEW x, NEW y, NEW S, IsFiniteSet(S),
         \A i \in S : x[i] \in Int /\ y[i] \in Int
  PROVE  /\ Dot(x, y, S) \in Int /\ Dot(x, x, S) \in Nat /\ Dot(y, y, S) \in Nat
         /\ Dot(x, y, S) * Dot(x, y, S) <= Dot(x, x, S) * Dot(y, y, S)
<1> DEFINE Good(u) == /\ Dot(x, y, u) \in Int /\ Dot(x, x, u) \in Nat /\ Dot(y, y, u) \in Nat
                      /\ Dot(x, y, u) * Dot(x, y, u) <= Dot(x, x, u) * Dot(y, y, u)
           B == { u \in SUBSET S : ~Good(u) }
<1> SUFFICES ASSUME B # {}  PROVE FALSE
  OBVIOUS
<1>1. \A s \in B : IsFiniteSet(s)
  BY FS_Subset
<1>2. PICK u \in B : \A v \in SUBSET u : v # u => v \notin B
  <2> HIDE DEF B
  <2> QED BY <1>1, MinimalSet
<1>3. u # {}
  <2>1. Good({})
    BY DotOfNone
  <2> QED BY <2>1, <1>2
<1>4. PICK k \in u : TRUE
  BY <1>3
<1>5. Good(u \ {k})
  BY <1>2, <1>4
<1>6. IsFiniteSet(u) /\ (\A i \in u : x[i] \in Int /\ y[i] \in Int) /\ k \in u
  BY <1>1, <1>2, <1>4
<1>7. /\ Dot(x, y, u) = x[k] * y[k] + Dot(x, y, u \ {k})
      /\ Dot(x, x, u) = x[k] * x[k] + Dot(x, x, u \ {k})
      /\ Dot(y, y, u) = y[k] * y[k] + Dot(y, y, u \ {k})
  BY <1>6, DotRemove
<1> DEFINE a == Dot(x, x, u \ {k})
           b == Dot(y, y, u \ {k})
           c == Dot(x, y, u \ {k})
           p == x[k]
           q == y[k]
<1>8. a \in Nat /\ b \in Nat /\ c \in Int /\ p \in Int /\ q \in Int /\ c * c <= a * b
  BY <1>5, <1>6
<1>9. ~Good(u)
  BY <1>2
<1>10. p * p \in Nat /\ q * q \in Nat /\ p * q \in Int
  <2> HIDE DEF p, q
  <2> QED BY <1>8, SquareIsNonnegative
<1>11. (c + p * q) * (c + p * q) <= (a + p * p) * (b + q * q)
  <2> HIDE DEF a, b, c, p, q
  <2> QED BY <1>8, CauchyStep
<1>12. Dot(x, y, u) = c + p * q /\ Dot(x, x, u) = a + p * p /\ Dot(y, y, u) = b + q * q
  <2>1. Dot(x, y, u) = p * q + c /\ Dot(x, x, u) = p * p + a /\ Dot(y, y, u) = q * q + b
    BY <1>7
  <2> HIDE DEF a, b, c, p, q
  <2> QED BY <2>1, <1>8, <1>10
<1>13. a + p * p \in Nat /\ b + q * q \in Nat /\ c + p * q \in Int
  <2> HIDE DEF a, b, c, p, q
  <2> QED BY <1>8, <1>10
<1> QED
  BY <1>9, <1>11, <1>12, <1>13

--------------------------------------------------------------------------------
(* Segments.                                                               *)

(* Division leaves a remainder.                                            *)
LEMMA Division ==
  ASSUME NEW a \in Nat, NEW d \in Nat \ {0}
  PROVE  /\ a \div d \in Nat /\ a % d \in Nat /\ a % d < d
         /\ a = d * (a \div d) + (a % d)
<1>1. a \div d \in Nat /\ a % d \in Nat /\ a % d < d
  OBVIOUS
<1> DEFINE x == d * (a \div d)
           r == a % d
<1>2. r = a - x /\ x \in Int /\ r \in Int
  BY <1>1
<1>3. a = x + r
  <2> HIDE DEF x, r
  <2> QED BY <1>2
<1> QED
  BY <1>1, <1>3

(* Multiples have no remainder, nor has the difference of two.             *)
LEMMA MultiplesDivide ==
  ASSUME NEW k \in Nat, NEW d \in Nat \ {0}
  PROVE  (d * k) % d = 0
<1> DEFINE r == (d * k) % d
           q == (d * k) \div d
<1>1. d * k \in Nat
  OBVIOUS
<1>2. q \in Nat /\ r \in Nat /\ r < d /\ d * k = d * q + r
  BY <1>1, Division
<1>3. r = d * (k - q)
  <2> HIDE DEF q, r
  <2> QED BY <1>2
<1>4. k - q < 1
  <2> SUFFICES ASSUME k - q >= 1  PROVE FALSE
    <3> HIDE DEF q, r
    <3> QED BY <1>2
  <2>1. PICK e \in Nat : k - q = 1 + e
    <3>1. k - q - 1 \in Nat /\ k - q = 1 + (k - q - 1)
      <4> HIDE DEF q, r
      <4> QED BY <1>2
    <3> QED BY <3>1
  <2>2. r = d + d * e
    <3> HIDE DEF q, r
    <3> QED BY <2>1, <1>3
  <2>3. d * e \in Nat
    OBVIOUS
  <2> HIDE DEF q, r
  <2> QED BY <2>2, <2>3, <1>2
<1>5. k - q > -1
  <2> SUFFICES ASSUME k - q <= -1  PROVE FALSE
    <3> HIDE DEF q, r
    <3> QED BY <1>2
  <2>1. PICK e \in Nat : q - k = 1 + e
    <3>1. q - k - 1 \in Nat /\ q - k = 1 + (q - k - 1)
      <4> HIDE DEF q, r
      <4> QED BY <1>2
    <3> QED BY <3>1
  <2>2. r = -(d + d * e)
    <3> HIDE DEF q, r
    <3> QED BY <2>1, <1>2, <1>3
  <2>3. d * e \in Nat
    OBVIOUS
  <2> HIDE DEF q, r
  <2> QED BY <2>2, <2>3, <1>2
<1>6. k - q = 0
  <2> HIDE DEF q, r
  <2> QED BY <1>2, <1>4, <1>5
<1> HIDE DEF q, r
<1>7. r = 0
  BY <1>3, <1>6
<1> QED
  BY <1>7 DEF r

Ready == CertConstants /\ problem \in Problems

(* The width of a segment divides the row.                                 *)
LEMMA SegmentsFit ==
  ASSUME Ready
  PROVE  /\ segw_ \in Nat \ {0} /\ nseg_ \in Nat
         /\ NE \in Nat \ {0} /\ NE = nseg_ * segw_
<1> DEFINE e == NE \div SEGS
           start == IF e < BlockElems THEN BlockElems ELSE (e \div BlockElems) * BlockElems
           Fits(n) == (n - start) % BlockElems = 0 /\ NE % n = 0
           B == { n \in start .. NE : Fits(n) }
<1>1. /\ SEGS \in Nat \ {0} /\ BlockElems \in Nat \ {0} /\ NE \in Nat \ {0}
      /\ NE % BlockElems = 0
  BY DEF Ready, CertConstants, IsProblem, NE
<1>2. PICK k \in Nat : NE = BlockElems * k /\ k >= 1
  <2>1. NE = BlockElems * (NE \div BlockElems) + 0 /\ NE \div BlockElems \in Nat
    BY <1>1, Division
  <2>2. NE = BlockElems * (NE \div BlockElems)
    BY <2>1, <1>1
  <2>3. NE \div BlockElems # 0
    BY <1>1, <2>2
  <2> QED BY <2>1, <2>2, <2>3
<1>3. PICK m \in Nat : start = BlockElems * m /\ m >= 1 /\ m <= k
  <2>1. CASE e < BlockElems
    BY <1>1, <1>2, <2>1
  <2>2. CASE ~(e < BlockElems)
    <3> DEFINE m == e \div BlockElems
    <3>1. e \in Nat /\ NE = SEGS * e + (NE % SEGS) /\ NE % SEGS \in Nat
      BY <1>1, Division
    <3>2. m \in Nat /\ e = BlockElems * m + (e % BlockElems) /\ e % BlockElems \in Nat
          /\ e % BlockElems < BlockElems
      BY <1>1, <3>1, Division
    <3>3. m # 0
      <4> HIDE DEF e
      <4>1. m = 0 => e = e % BlockElems
        BY <3>1, <3>2, <1>1
      <4> QED BY <4>1, <3>1, <3>2, <2>2, <1>1
    <3>4. e <= NE
      <4>1. 1 * e <= SEGS * e
        <5> HIDE DEF e
        <5> QED BY <3>1, <1>1, ProductsOfBounds
      <4>2. SEGS * e \in Nat
        <5> HIDE DEF e
        <5> QED BY <3>1, <1>1
      <4> HIDE DEF e
      <4> QED BY <4>1, <4>2, <3>1, <1>1
    <3>5. BlockElems * m <= BlockElems * k
      <4>1. BlockElems * m \in Nat
        <5> HIDE DEF m
        <5> QED BY <3>2, <1>1
      <4> HIDE DEF m, e
      <4> QED BY <4>1, <3>1, <3>2, <3>4, <1>1, <1>2
    <3>6. m <= k
      <4> HIDE DEF m
      <4> SUFFICES ASSUME m > k  PROVE FALSE
        BY <3>2
      <4>1. PICK d \in Nat : m = k + 1 + d
        <5>1. m - k - 1 \in Nat /\ m = k + 1 + (m - k - 1)
          BY <3>2
        <5> QED BY <5>1
      <4>2. BlockElems * m = BlockElems * k + BlockElems + BlockElems * d
        BY <4>1, <1>1
      <4>3. BlockElems * d \in Nat /\ BlockElems * k \in Nat
        BY <1>1
      <4> QED BY <4>2, <4>3, <3>5, <1>1
    <3>7. start = BlockElems * m
      BY <2>2, <3>2, <1>1
    <3> HIDE DEF m, start
    <3> QED BY <3>2, <3>3, <3>6, <3>7
  <2> QED BY <2>1, <2>2
<1>4. start \in Nat \ {0} /\ start <= NE
  <2>1. 1 * 1 <= BlockElems * m /\ BlockElems * m <= BlockElems * k
    BY <1>1, <1>2, <1>3, ProductsOfBounds
  <2>2. BlockElems * m \in Nat /\ BlockElems * k \in Nat
    BY <1>1
  <2> HIDE DEF start
  <2> QED BY <2>1, <2>2, <1>2, <1>3
<1>5. NE \in B
  <2>1. NE - start = BlockElems * (k - m) /\ k - m \in Nat
    <3> HIDE DEF start
    <3> QED BY <1>1, <1>2, <1>3
  <2>2. (NE - start) % BlockElems = 0
    <3> HIDE DEF start
    <3> QED BY <2>1, <1>1, MultiplesDivide
  <2>3. NE % NE = 0
    <3>1. (NE * 1) % NE = 0 /\ NE * 1 = NE
      BY <1>1, MultiplesDivide
    <3> QED BY <3>1
  <2> HIDE DEF start
  <2> QED BY <2>2, <2>3, <1>1, <1>4
<1>6. B \subseteq Nat
  <2> HIDE DEF start
  <2> QED BY <1>4
<1>7. PICK n \in B : \A x \in B : n <= x
  <2> HIDE DEF B
  <2> QED BY <1>5, <1>6, LeastNumber
<1>8. /\ n \in start .. NE /\ Fits(n)
      /\ \A x \in start .. n - 1 : (x - start) % BlockElems = 0 => NE % x # 0
  <2>1. ASSUME NEW x \in start .. n - 1, (x - start) % BlockElems = 0, NE % x = 0
        PROVE  FALSE
    <3> HIDE DEF start
    <3>1. x \in start .. NE /\ x < n
      BY <2>1, <1>4, <1>6, <1>7, <1>1
    <3>2. x \in B
      BY <3>1, <2>1
    <3> QED BY <3>1, <3>2, <1>4, <1>6, <1>7
  <2> HIDE DEF start
  <2> QED BY <2>1, <1>7
<1>9. segw_ \in start .. NE /\ NE % segw_ = 0
  <2>1. segw_ = CHOOSE x \in start .. NE :
                   /\ (x - start) % BlockElems = 0 /\ NE % x = 0
                   /\ \A y \in start .. x - 1 : (y - start) % BlockElems = 0 => NE % y # 0
    BY DEF segw_
  <2> HIDE DEF start
  <2> QED BY <2>1, <1>8
<1>10. segw_ \in Nat \ {0}
  <2> HIDE DEF start
  <2> QED BY <1>9, <1>4
<1>11. NE = segw_ * (NE \div segw_) + 0 /\ NE \div segw_ \in Nat
  BY <1>1, <1>9, <1>10, Division
<1> QED
  BY <1>1, <1>10, <1>11 DEF nseg_

(* Segments are disjoint and cover the row.                                *)
LEMMA SegmentsCover ==
  ASSUME Ready
  PROVE  /\ \A s \in Segments : Segment(s) \subseteq 1 .. NE /\ IsFiniteSet(Segment(s))
         /\ \A n \in 0 .. nseg_ - 1 :
              /\ 1 .. (n + 1) * segw_ = (1 .. n * segw_) \cup Segment(n)
              /\ (1 .. n * segw_) \cap Segment(n) = {}
              /\ 1 .. n * segw_ \subseteq 1 .. NE
<1>1. /\ segw_ \in Nat \ {0} /\ nseg_ \in Nat
      /\ NE \in Nat \ {0} /\ NE = nseg_ * segw_
  BY SegmentsFit
<1>2. ASSUME NEW s \in 0 .. nseg_ - 1
      PROVE  /\ s * segw_ \in Nat /\ (s + 1) * segw_ = s * segw_ + segw_
             /\ (s + 1) * segw_ <= NE
  <2>1. s * segw_ \in Nat /\ (s + 1) * segw_ = s * segw_ + segw_
    BY <1>1, <1>2
  <2>2. (s + 1) * segw_ <= nseg_ * segw_
    BY <1>1, <1>2, ProductsOfBounds
  <2> QED BY <2>1, <2>2, <1>1
<1>3. ASSUME NEW s \in 0 .. nseg_ - 1
      PROVE  /\ Segment(s) \subseteq 1 .. NE /\ IsFiniteSet(Segment(s))
             /\ 1 .. (s + 1) * segw_ = (1 .. s * segw_) \cup Segment(s)
             /\ (1 .. s * segw_) \cap Segment(s) = {}
             /\ 1 .. s * segw_ \subseteq 1 .. NE
  <2> DEFINE lo == s * segw_
             hi == (s + 1) * segw_
  <2>1. lo \in Nat /\ hi = lo + segw_ /\ hi <= NE /\ hi \in Nat
    BY <1>1, <1>2
  <2>2. Segment(s) = (lo + 1) .. hi
    BY DEF Segment
  <2> HIDE DEF lo, hi
  <2>3. IsFiniteSet((lo + 1) .. hi)
    BY <2>1, FS_Interval
  <2>4. /\ (lo + 1) .. hi \subseteq 1 .. NE
        /\ 1 .. hi = (1 .. lo) \cup ((lo + 1) .. hi)
        /\ (1 .. lo) \cap ((lo + 1) .. hi) = {}
        /\ 1 .. lo \subseteq 1 .. NE
    BY <2>1, <1>1
  <2> QED BY <2>2, <2>3, <2>4 DEF lo, hi
<1> QED
  BY <1>3 DEF Segments

(* The two sums of the library.                                            *)
LEMMA SumFunctionIsSum ==
  ASSUME NEW f, NEW S, DOMAIN f = S
  PROVE  SumFunction(f) = Sum(f, S)
  BY DEF SumFunction, Sum

(* Adding up segment by segment gives the sum of the row.                  *)
LEMMA SumBySegments ==
  ASSUME Ready, NEW f, \A i \in 1 .. NE : f[i] \in Int
  PROVE  Sum(f, 1 .. NE) = Sum([s \in Segments |-> Sum(f, Segment(s))], Segments)
<1> DEFINE g == [s \in Segments |-> Sum(f, Segment(s))]
           T == { n \in Nat : n <= nseg_ => Sum(f, 1 .. n * segw_) = Sum(g, 0 .. n - 1) }
<1>1. /\ segw_ \in Nat \ {0} /\ nseg_ \in Nat
      /\ NE \in Nat \ {0} /\ NE = nseg_ * segw_
  BY SegmentsFit
<1>2. \A s \in Segments : g[s] \in Int /\ g[s] = Sum(f, Segment(s))
  BY SegmentsCover, SumIsInt
<1>3. 0 \in T
  <2>1. 1 .. 0 * segw_ = {} /\ 0 .. 0 - 1 = {}
    BY <1>1
  <2> HIDE DEF g
  <2> QED BY <2>1, SumOfNone
<1>4. ASSUME NEW n \in Nat, n \in T  PROVE n + 1 \in T
  <2> SUFFICES ASSUME n + 1 <= nseg_
               PROVE  Sum(f, 1 .. (n + 1) * segw_) = Sum(g, 0 .. n)
    <3>1. (n + 1) - 1 = n
      OBVIOUS
    <3> HIDE DEF g
    <3> QED BY <3>1
  <2>1. n \in 0 .. nseg_ - 1 /\ n \in Segments
    BY <1>1 DEF Segments
  <2>2. Sum(f, 1 .. n * segw_) = Sum(g, 0 .. n - 1)
    BY <1>4, <2>1, <1>1
  <2>3. Sum(f, 1 .. (n + 1) * segw_) = Sum(f, 1 .. n * segw_) + Sum(f, Segment(n))
    <3>1. IsFiniteSet(1 .. n * segw_) /\ IsFiniteSet(Segment(n))
      <4>1. n * segw_ \in Nat
        BY <1>1
      <4> QED BY <2>1, <4>1, FS_Interval, SegmentsCover
    <3>2. /\ 1 .. (n + 1) * segw_ = (1 .. n * segw_) \cup Segment(n)
          /\ (1 .. n * segw_) \cap Segment(n) = {}
          /\ (1 .. n * segw_) \cup Segment(n) \subseteq 1 .. NE
      BY <2>1, SegmentsCover
    <3>3. \A i \in (1 .. n * segw_) \cup Segment(n) : f[i] \in Int
      <4> DEFINE U == (1 .. n * segw_) \cup Segment(n)
      <4>1. \A i \in U : i \in 1 .. NE
        BY <3>2
      <4> HIDE DEF U, T, g
      <4>2. \A i \in U : f[i] \in Int
        BY <4>1
      <4> QED BY <4>2 DEF U
    <3> DEFINE X == 1 .. n * segw_
               Y == Segment(n)
    <3>4. /\ IsFiniteSet(X) /\ IsFiniteSet(Y) /\ X \cap Y = {}
          /\ \A i \in X \cup Y : f[i] \in Int
      BY <3>1, <3>2, <3>3
    <3>5. 1 .. (n + 1) * segw_ = X \cup Y
      BY <3>2
    <3> HIDE DEF X, Y, T, g
    <3>6. Sum(f, X \cup Y) = Sum(f, X) + Sum(f, Y)
      BY <3>4, SumOfParts
    <3> QED BY <3>5, <3>6 DEF X, Y
  <2>4. Sum(g, 0 .. n) = g[n] + Sum(g, 0 .. n - 1)
    <3>1. 0 .. n \subseteq Segments /\ IsFiniteSet(0 .. n)
      BY <2>1, <1>1, FS_Interval DEF Segments
    <3>2. (0 .. n) \ {n} = 0 .. n - 1 /\ n \in 0 .. n
      OBVIOUS
    <3>3. \A s \in 0 .. n : g[s] \in Int
      BY <1>2, <3>1
    <3> HIDE DEF g
    <3> QED BY <3>1, <3>2, <3>3, SumRemove
  <2>5. Sum(g, 0 .. n - 1) \in Int
    <3>1. 0 .. n - 1 \subseteq Segments /\ IsFiniteSet(0 .. n - 1)
      BY <2>1, <1>1, FS_Interval DEF Segments
    <3> HIDE DEF g
    <3> QED BY <3>1, <1>2, SumIsInt
  <2>6. g[n] \in Int /\ g[n] = Sum(f, Segment(n))
    BY <1>2, <2>1
  <2> HIDE DEF g
  <2> QED BY <2>2, <2>3, <2>4, <2>5, <2>6
<1>5. nseg_ \in T
  <2> HIDE DEF T
  <2> QED BY <1>1, <1>3, <1>4, Induction
<1> HIDE DEF g
<1>6. Sum(f, 1 .. nseg_ * segw_) = Sum(g, 0 .. nseg_ - 1)
  BY <1>1, <1>5
<1> QED
  BY <1>1, <1>6 DEF g, Segments

--------------------------------------------------------------------------------
(* The bound.                                                              *)

(* The root is rounded up.                                                 *)
LEMMA RootIsAbove ==
  ASSUME NEW n \in Nat
  PROVE  RootUp(n) \in Nat /\ n <= RootUp(n) * RootUp(n)
<1> DEFINE B == { r \in 0 .. n : r * r >= n }
<1>1. n \in B
  <2>1. CASE n = 0
    BY <2>1
  <2>2. CASE n >= 1
    <3>1. n * 1 <= n * n
      BY <2>2, ProductsOfBounds
    <3> QED BY <3>1
  <2> QED BY <2>1, <2>2
<1>2. PICK r \in B : \A x \in B : r <= x
  <2>1. B \subseteq Nat /\ B # {}
    BY <1>1
  <2> HIDE DEF B
  <2> QED BY <2>1, LeastNumber
<1>3. r = 0 \/ (r - 1) * (r - 1) < n
  <2> SUFFICES ASSUME r # 0, ~((r - 1) * (r - 1) < n)  PROVE FALSE
    OBVIOUS
  <2>1. r - 1 \in 0 .. n /\ (r - 1) * (r - 1) \in Int
    BY <1>2
  <2>2. r - 1 \in B
    BY <2>1
  <2> QED BY <1>2, <2>1, <2>2
<1>4. RootUp(n) \in 0 .. n /\ RootUp(n) * RootUp(n) >= n
  BY <1>2, <1>3 DEF RootUp
<1> QED
  BY <1>4

(* Rounded up and scaled, the roots keep the inequality.                   *)
LEMMA ScaledRoots ==
  ASSUME NEW a \in Nat, NEW b \in Nat, NEW c \in Int, c * c <= a * b
  PROVE  /\ RootUp(Unit * Unit * a) \in Nat /\ RootUp(Unit * Unit * b) \in Nat
         /\ Unit * Unit * c <= RootUp(Unit * Unit * a) * RootUp(Unit * Unit * b)
<1> DEFINE x == RootUp(Unit * Unit * a)
           y == RootUp(Unit * Unit * b)
<1>1. Unit * Unit = 64
  BY DEF Unit
<1>2. x \in Nat /\ y \in Nat /\ 64 * a <= x * x /\ 64 * b <= y * y
  <2>1. 64 * a \in Nat /\ 64 * b \in Nat
    OBVIOUS
  <2> QED BY <1>1, <2>1, RootIsAbove
<1> HIDE DEF x, y
<1>3. (64 * a) * (64 * b) <= (x * x) * (y * y)
  <2>1. 64 * a \in Nat /\ 64 * b \in Nat /\ x * x \in Nat /\ y * y \in Nat
    BY <1>2
  <2> QED BY <1>2, <2>1, ProductsOfBounds
<1>4. (64 * a) * (64 * b) = 4096 * (a * b)
  OBVIOUS
<1>5. (x * x) * (y * y) = (x * y) * (x * y)
  BY <1>2
<1>6. (64 * c) * (64 * c) = 4096 * (c * c)
  OBVIOUS
<1>7. c * c \in Int /\ a * b \in Int /\ x * y \in Nat
  BY <1>2
<1>8. (64 * c) * (64 * c) <= (x * y) * (x * y)
  <2>1. 4096 * (c * c) <= 4096 * (a * b)
    BY <1>7
  <2>2. (x * y) * (x * y) \in Int
    BY <1>7
  <2> QED BY <1>3, <1>4, <1>5, <1>6, <1>7, <2>1, <2>2
<1>9. 64 * c <= x * y
  BY <1>7, <1>8, SquaresOrderNumbers
<1> QED
  BY <1>1, <1>2, <1>9 DEF x, y

Row(j) == problem.w[j + 1]

(* What the assumption says of the current head.                           *)
LEMMA RowsAreTyped ==
  ASSUME Ready
  PROVE  /\ V \in Nat \ {0} /\ NE \in Nat \ {0} /\ margin_ \in Nat /\ problem.hint \in Int
         /\ \A i \in 1 .. NE : problem.h[i] \in Int
         /\ \A j \in RowIds : /\ \A i \in 1 .. NE : Row(j)[i] \in Int
                              /\ problem.round[j + 1] \in Int
                              /\ problem.round[j + 1] <= margin_
                              /\ -margin_ <= problem.round[j + 1]
<1>1. IsProblem(problem) /\ margin_ \in Nat
  BY DEF Ready, CertConstants
<1>2. V \in Nat \ {0} /\ NE \in Nat \ {0} /\ problem.hint \in Int
      /\ \A i \in 1 .. NE : problem.h[i] \in Int
  BY <1>1 DEF IsProblem, V, NE
<1>3. ASSUME NEW j \in RowIds
      PROVE  /\ \A i \in 1 .. NE : Row(j)[i] \in Int
             /\ problem.round[j + 1] \in -margin_ .. margin_
  <2>1. j + 1 \in 1 .. Len(problem.w)
    BY <1>2, <1>3 DEF RowIds, V
  <2> QED BY <1>1, <2>1 DEF IsProblem, NE, Row
<1> QED
  BY <1>1, <1>2, <1>3

(* The bound of a row is above its dot.                                    *)
LEMMA BoundIsAbove ==
  ASSUME Ready, NEW j \in RowIds
  PROVE  /\ TrueDot(j) \in Int /\ UpperBound(j) \in Int
         /\ Unit * Unit * TrueDot(j) <= UpperBound(j)
<1> DEFINE w == Row(j)
           h == problem.h
           f == [i \in 1 .. NE |-> w[i] * h[i]]
           d == [s \in Segments |-> Sum(f, Segment(s))]
           b == [s \in Segments |-> wn_(j, s) * hn(s)]
<1>1. \A i \in 1 .. NE : w[i] \in Int /\ h[i] \in Int /\ f[i] \in Int /\ f[i] = w[i] * h[i]
  <2>1. \A i \in 1 .. NE : w[i] \in Int /\ h[i] \in Int
    BY RowsAreTyped
  <2> HIDE DEF w, h
  <2> QED BY <2>1
<1>2. IsFiniteSet(Segments) /\ IsFiniteSet(1 .. NE)
  <2>1. nseg_ - 1 \in Int /\ NE \in Int
    BY SegmentsFit
  <2>2. \A lo, hi \in Int : IsFiniteSet(lo .. hi)
    BY FS_Interval
  <2> QED BY <2>1, <2>2 DEF Segments
<1>3. TrueDot(j) = Sum(f, 1 .. NE)
  <2>1. TrueDot(j) = SumFunction(f)
    BY DEF TrueDot, Row
  <2>2. DOMAIN f = 1 .. NE
    OBVIOUS
  <2> HIDE DEF f
  <2> QED BY <2>1, <2>2, SumFunctionIsSum
<1>4. UpperBound(j) = Sum(b, Segments)
  <2>1. UpperBound(j) = SumFunction(b)
    BY DEF UpperBound
  <2>2. DOMAIN b = Segments
    OBVIOUS
  <2> HIDE DEF b
  <2> QED BY <2>1, <2>2, SumFunctionIsSum
<1>5. Sum(f, 1 .. NE) = Sum(d, Segments)
  <2> HIDE DEF f
  <2> QED BY <1>1, SumBySegments
<1>6. ASSUME NEW s \in Segments
      PROVE  d[s] \in Int /\ b[s] \in Int /\ 64 * d[s] <= b[s]
  <2> DEFINE S == Segment(s)
  <2>1. S \subseteq 1 .. NE /\ IsFiniteSet(S)
    BY SegmentsCover
  <2>2. \A i \in S : w[i] \in Int /\ h[i] \in Int
    BY <1>1, <2>1
  <2>3. /\ Dot(w, h, S) \in Int /\ Dot(w, w, S) \in Nat /\ Dot(h, h, S) \in Nat
        /\ Dot(w, h, S) * Dot(w, h, S) <= Dot(w, w, S) * Dot(h, h, S)
    <3> HIDE DEF w, h, S
    <3> QED BY <2>1, <2>2, CauchySchwarz
  <2>4. d[s] = Dot(w, h, S)
    <3> DEFINE g == [i \in S |-> w[i] * h[i]]
    <3>1. \A i \in S : g[i] \in Int /\ g[i] = f[i]
      <4> HIDE DEF w, h, S
      <4> QED BY <1>1, <2>1, <2>2
    <3>2. Dot(w, h, S) = Sum(g, S) /\ d[s] = Sum(f, S)
      BY DEF Dot
    <3> HIDE DEF f, g, S, w, h, d
    <3> QED BY <2>1, <3>1, <3>2, SumAgrees
  <2>5. wn_(j, s) = RootUp(Unit * Unit * Dot(w, w, S))
    <3>1. SumOfSquares(problem.w[j + 1], s) = Dot(w, w, S)
      BY SumFunctionIsSum DEF SumOfSquares, Dot, Row
    <3> QED BY <3>1 DEF wn_
  <2>6. hn(s) = RootUp(Unit * Unit * Dot(h, h, S))
    <3>1. SumOfSquares(problem.h, s) = Dot(h, h, S)
      BY SumFunctionIsSum DEF SumOfSquares, Dot
    <3> QED BY <3>1 DEF hn
  <2>7. /\ wn_(j, s) \in Nat /\ hn(s) \in Nat
        /\ Unit * Unit * Dot(w, h, S) <= wn_(j, s) * hn(s)
    <3> HIDE DEF w, h, S
    <3> QED BY <2>3, <2>5, <2>6, ScaledRoots
  <2>8. b[s] = wn_(j, s) * hn(s)
    OBVIOUS
  <2>9. Unit * Unit = 64
    BY DEF Unit
  <2> HIDE DEF w, h, S, b, d
  <2> QED BY <2>3, <2>4, <2>7, <2>8, <2>9
<1> HIDE DEF b, d, f
<1>7. Sum(d, Segments) \in Int /\ Sum(b, Segments) \in Int
  BY <1>2, <1>6, SumIsInt
<1>8. 64 * Sum(d, Segments) <= Sum(b, Segments)
  BY <1>2, <1>6, SumScaled
<1> QED
  BY <1>3, <1>4, <1>5, <1>7, <1>8 DEF Unit

--------------------------------------------------------------------------------
(* The scan.                                                               *)

(* Row r wins against row k.                                               *)
Leads(r, k) == r = k \/ Logit(r) > Logit(k) \/ (Logit(r) = Logit(k) /\ r < k)
IsBest(r, S) == r \in S /\ \A k \in S : Leads(r, k)

(* Logits and ids can be compared.                                         *)
LEMMA LogitIsInt ==
  ASSUME Ready
  PROVE  \A j \in RowIds : Logit(j) \in Int /\ j \in Nat
<1>1. \A j \in RowIds : TrueDot(j) \in Int /\ problem.round[j + 1] \in Int
  BY BoundIsAbove, RowsAreTyped
<1>2. RowIds \subseteq Nat
  BY RowsAreTyped DEF RowIds
<1> QED
  BY <1>1, <1>2 DEF Logit

(* Winning is transitive.                                                  *)
LEMMA LeadsIsTransitive ==
  ASSUME Ready, NEW a \in RowIds, NEW b \in RowIds, NEW c \in RowIds,
         Leads(a, b), Leads(b, c)
  PROVE  Leads(a, c)
  BY LogitIsInt DEF Leads

(* One row of the scan.                                                    *)
EvalOne(rows, S, best, i) ==
  IF rows[i] \in S /\ Beats(rows[i], best) THEN rows[i] ELSE best
(* What the recursion of EvalAll says of the best row after i rows.        *)
EvalStep(rows, S, b, n, a) ==
  [i \in 0 .. n |-> IF i = 0 THEN b ELSE EvalOne(rows, S, a[i - 1], i)]

(* EvalAll is defined by that recursion.                                   *)
LEMMA EvalIsChosen ==
  ASSUME NEW rows, NEW S, NEW b
  PROVE  EvalAll(rows, S, b) =
           (CHOOSE a : a = EvalStep(rows, S, b, Len(rows), a))[Len(rows)]
  BY DEF EvalAll, EvalStep, EvalOne

(* The recursion has a solution, built row by row.                         *)
LEMMA EvalExists ==
  ASSUME NEW rows, NEW S, NEW b, NEW n \in Nat
  PROVE  \E a : a = EvalStep(rows, S, b, n, a)
<1> DEFINE T == { m \in Nat : \E a : a = EvalStep(rows, S, b, m, a) }
<1>1. 0 \in T
  <2> DEFINE a == [i \in 0 .. 0 |-> b]
  <2>1. a = EvalStep(rows, S, b, 0, a)
    BY DEF EvalStep
  <2> HIDE DEF a
  <2> QED BY <2>1
<1>2. ASSUME NEW m \in Nat, m \in T  PROVE m + 1 \in T
  <2>1. PICK a : a = EvalStep(rows, S, b, m, a)
    BY <1>2
  <2> DEFINE c == [i \in 0 .. m + 1 |-> IF i = m + 1 THEN EvalOne(rows, S, a[m], i) ELSE a[i]]
  <2>2. \A i \in 0 .. m : a[i] = IF i = 0 THEN b ELSE EvalOne(rows, S, a[i - 1], i)
    BY <2>1 DEF EvalStep
  <2>3. ASSUME NEW i \in 0 .. m + 1
        PROVE  c[i] = IF i = 0 THEN b ELSE EvalOne(rows, S, c[i - 1], i)
    <3>1. CASE i = m + 1
      <4>1. c[i - 1] = a[m]
        BY <3>1
      <4> QED BY <3>1, <4>1
    <3>2. CASE i = 0
      BY <3>2, <2>2
    <3>3. CASE i \in 1 .. m
      <4>1. c[i - 1] = a[i - 1] /\ c[i] = a[i]
        BY <3>3
      <4> HIDE DEF c
      <4> QED BY <3>3, <4>1, <2>2
    <3> QED BY <3>1, <3>2, <3>3
  <2>4. c = [i \in 0 .. m + 1 |-> c[i]]
    OBVIOUS
  <2>5. c = EvalStep(rows, S, b, m + 1, c)
    <3> HIDE DEF c
    <3> QED BY <2>3, <2>4 DEF EvalStep
  <2> HIDE DEF c
  <2> QED BY <2>5
<1>3. n \in T
  <2> HIDE DEF T
  <2> QED BY <1>1, <1>2, Induction
<1> QED
  BY <1>3

(* The scan returns the best of what it looks at and what it starts from.  *)
LEMMA EvalAllIsBest ==
  ASSUME Ready, NEW rows, Len(rows) \in Nat, NEW S, S \subseteq RowIds,
         NEW b \in RowIds \cup {-1}
  PROVE  LET E == ({ rows[i] : i \in 1 .. Len(rows) } \cap S) \cup ({b} \ {-1})
         IN  IF E = {} THEN EvalAll(rows, S, b) = -1 ELSE IsBest(EvalAll(rows, S, b), E)
<1> DEFINE n == Len(rows)
           F(i) == ({ rows[k] : k \in 1 .. i } \cap S) \cup ({b} \ {-1})
           Good(x, E) == IF E = {} THEN x = -1 ELSE IsBest(x, E)
<1>1. PICK a : a = EvalStep(rows, S, b, n, a) /\ EvalAll(rows, S, b) = a[n]
  <2> DEFINE a == CHOOSE x : x = EvalStep(rows, S, b, n, x)
  <2>1. a = EvalStep(rows, S, b, n, a)
    BY EvalExists
  <2>2. EvalAll(rows, S, b) = a[n]
    BY EvalIsChosen
  <2> HIDE DEF a
  <2> QED BY <2>1, <2>2
<1>2. \A i \in 0 .. n : a[i] = IF i = 0 THEN b ELSE EvalOne(rows, S, a[i - 1], i)
  BY <1>1 DEF EvalStep
<1>3. \A i \in Nat : F(i) \subseteq RowIds
  OBVIOUS
<1> DEFINE T == { i \in Nat : i <= n => Good(a[i], F(i)) }
<1>4. 0 \in T
  <2>1. a[0] = b
    BY <1>2
  <2>2. F(0) = {b} \ {-1}
    OBVIOUS
  <2> QED BY <2>1, <2>2 DEF IsBest, Leads
<1>5. ASSUME NEW i \in Nat, i \in T  PROVE i + 1 \in T
  <2> SUFFICES ASSUME i + 1 <= n  PROVE Good(a[i + 1], F(i + 1))
    OBVIOUS
  <2> DEFINE x == a[i]
             r == rows[i + 1]
  <2>1. Good(x, F(i))
    BY <1>5
  <2>2. a[i + 1] = EvalOne(rows, S, x, i + 1)
    BY <1>2
  <2>3. a[i + 1] = IF r \in S /\ Beats(r, x) THEN r ELSE x
    BY <2>2 DEF EvalOne
  <2>4. F(i + 1) = IF r \in S THEN F(i) \cup {r} ELSE F(i)
    OBVIOUS
  <2>5. F(i) \subseteq RowIds /\ (r \in S => r \in RowIds)
    BY <1>3
  <2> DEFINE G == F(i)
  <2> HIDE DEF x, r, F, G
  <2>6. CASE r \notin S
    BY <2>1, <2>3, <2>4, <2>6 DEF G
  <2>7. CASE r \in S /\ G = {}
    <3>1. x = -1
      BY <2>1, <2>7 DEF G
    <3>2. a[i + 1] = r /\ F(i + 1) = {r}
      BY <2>3, <2>4, <2>7, <3>1 DEF Beats, G
    <3> QED BY <3>2 DEF IsBest, Leads
  <2>8. CASE r \in S /\ G # {}
    <3>1. x \in G /\ (\A k \in G : Leads(x, k)) /\ x \in RowIds /\ r \in RowIds
      BY <2>1, <2>5, <2>8 DEF G, IsBest
    <3>2. Beats(r, x) => Leads(r, x)
      BY <3>1, LogitIsInt DEF Beats, Leads
    <3>3. ~Beats(r, x) => Leads(x, r)
      BY <3>1, LogitIsInt DEF Beats, Leads
    <3>4. F(i + 1) = G \cup {r}
      BY <2>4, <2>8 DEF G
    <3>5. CASE Beats(r, x)
      <4>1. a[i + 1] = r
        BY <2>3, <2>8, <3>5
      <4>2. \A k \in G : Leads(r, k)
        BY <3>1, <3>2, <3>5, <2>5, LeadsIsTransitive DEF G
      <4>3. Leads(r, r)
        BY DEF Leads
      <4> QED BY <3>4, <4>1, <4>2, <4>3 DEF IsBest
    <3>6. CASE ~Beats(r, x)
      <4>1. a[i + 1] = x
        BY <2>3, <2>8, <3>6
      <4> QED BY <3>1, <3>3, <3>4, <3>6, <4>1 DEF IsBest
    <3> QED BY <3>5, <3>6
  <2> QED BY <2>6, <2>7, <2>8
<1>6. n \in T
  <2> HIDE DEF T
  <2> QED BY <1>4, <1>5, Induction
<1>7. Good(a[n], F(n))
  BY <1>6
<1> QED
  BY <1>1, <1>7

(* Rows that are neither looked at nor anchors lose to the best anchor.    *)
LEMMA SkippedRowsLose ==
  ASSUME Ready, NEW anchor \in RowIds, NEW k \in NotHint, ~IsAnchor(k),
         k \notin Contenders(Unit * Unit * (Logit(anchor) - margin_))
  PROVE  Leads(anchor, k)
<1>1. k \in RowIds
  BY DEF NotHint
<1>2. /\ TrueDot(k) \in Int /\ UpperBound(k) \in Int
      /\ 64 * TrueDot(k) <= UpperBound(k)
  BY <1>1, BoundIsAbove DEF Unit
<1>3. Logit(anchor) \in Int /\ Logit(k) \in Int
  BY <1>1, LogitIsInt
<1>4. problem.round[k + 1] \in Int /\ problem.round[k + 1] <= margin_ /\ margin_ \in Nat
  BY <1>1, RowsAreTyped
<1>5. Logit(k) = TrueDot(k) + problem.round[k + 1]
  BY DEF Logit
<1>6. ~(UpperBound(k) >= Unit * Unit * (Logit(anchor) - margin_))
  BY DEF Contenders
<1>7. UpperBound(k) < 64 * (Logit(anchor) - margin_)
  BY <1>2, <1>3, <1>4, <1>6 DEF Unit
<1>8. Logit(k) < Logit(anchor)
  BY <1>2, <1>3, <1>4, <1>5, <1>7
<1> QED
  BY <1>3, <1>8 DEF Leads

BestRow == CHOOSE j \in RowIds : /\ \A k \in RowIds : Logit(j) >= Logit(k)
                                 /\ \A k \in 0 .. j - 1 : Logit(j) > Logit(k)

(* The row that wins against all others is the one the property names.     *)
LEMMA LeaderIsBestRow ==
  ASSUME Ready, NEW r \in RowIds, \A k \in RowIds : Leads(r, k)
  PROVE  r = BestRow
<1> DEFINE Wins(j) == /\ \A k \in RowIds : Logit(j) >= Logit(k)
                      /\ \A k \in 0 .. j - 1 : Logit(j) > Logit(k)
<1>1. \A j \in RowIds : Logit(j) \in Int /\ j \in Nat /\ 0 .. j - 1 \subseteq RowIds
  <2>1. V \in Nat
    BY RowsAreTyped
  <2> QED BY <2>1, LogitIsInt DEF RowIds
<1>2. Wins(r)
  <2>1. \A k \in RowIds : Logit(r) >= Logit(k)
    BY <1>1 DEF Leads
  <2>2. ASSUME NEW k \in 0 .. r - 1  PROVE Logit(r) > Logit(k)
    <3>1. k \in RowIds /\ k < r /\ r \in Int /\ k \in Int
      BY <1>1, <2>2
    <3> QED BY <1>1, <3>1 DEF Leads
  <2> QED BY <2>1, <2>2
<1>3. ASSUME NEW j \in RowIds, Wins(j)  PROVE j = r
  <2>1. Logit(j) = Logit(r)
    BY <1>1, <1>2, <1>3
  <2>2. ~(j < r)
    <3> SUFFICES ASSUME j < r  PROVE FALSE
      OBVIOUS
    <3>1. j \in 0 .. r - 1
      BY <1>1
    <3> QED BY <1>1, <1>2, <2>1, <3>1
  <2>3. ~(r < j)
    <3> SUFFICES ASSUME r < j  PROVE FALSE
      OBVIOUS
    <3>1. r \in 0 .. j - 1
      BY <1>1
    <3> QED BY <1>1, <1>3, <2>1, <3>1
  <2> QED BY <1>1, <2>2, <2>3
<1>4. BestRow = CHOOSE j \in RowIds : Wins(j)
  BY DEF BestRow
<1> HIDE DEF Wins
<1> QED
  BY <1>2, <1>3, <1>4

Anchored == topn_ = <<>> \/ (topn_ \in Seq(RowIds) /\ Len(topn_) >= 1)

(* argmax returns the row the whole head would.                            *)
LEMMA CertArgmaxIsRight ==
  ASSUME Ready, Anchored, CertArgmax
  PROVE  winner' \in RowIds /\ winner' = BestRow
<1> DEFINE hint == problem.hint
           hinted == IF hint \in RowIds THEN hint ELSE -1
           anchor == EvalAll(topn_, NotHint, hinted)
           C == Contenders(Unit * Unit * (Logit(anchor) - margin_))
           ids == [i \in 1 .. V |-> i - 1]
<1>1. winner' = EvalAll(ids, C, anchor)
  BY DEF CertArgmax
<1>2. topn_ \in Seq(RowIds) /\ Len(topn_) \in Nat \ {0} /\ V \in Nat \ {0}
      /\ NotHint \subseteq RowIds
  BY RowsAreTyped DEF Anchored, CertArgmax, NotHint
<1>3. \A i \in 1 .. Len(topn_) : topn_[i] \in RowIds
  BY <1>2
<1> DEFINE E1 == ({ topn_[i] : i \in 1 .. Len(topn_) } \cap NotHint) \cup ({hinted} \ {-1})
<1>4. hinted \in RowIds \cup {-1} /\ (hint \in RowIds => hinted = hint /\ hint # -1)
  <2>1. -1 \notin RowIds
    BY DEF RowIds
  <2> QED BY <2>1
<1>5. E1 # {} /\ E1 \subseteq RowIds
  <2>1. topn_[1] \in RowIds /\ 1 \in 1 .. Len(topn_)
    BY <1>2, <1>3
  <2>2. CASE topn_[1] = hint
    BY <2>1, <2>2, <1>2, <1>4
  <2>3. CASE topn_[1] # hint
    <3>1. topn_[1] \in NotHint
      BY <2>1, <2>3 DEF NotHint
    <3>2. topn_[1] \in E1
      BY <2>1, <3>1
    <3> HIDE DEF hinted
    <3> QED BY <3>2, <1>2, <1>4
  <2> QED BY <2>2, <2>3
<1>6. IsBest(anchor, E1)
  <2> HIDE DEF hinted
  <2> QED BY <1>2, <1>4, <1>5, EvalAllIsBest
<1> HIDE DEF anchor
<1>7. anchor \in RowIds /\ \A k \in E1 : Leads(anchor, k)
  BY <1>5, <1>6 DEF IsBest
<1>8. C \subseteq RowIds
  BY <1>2 DEF Contenders
<1> DEFINE E2 == ({ ids[i] : i \in 1 .. Len(ids) } \cap C) \cup ({anchor} \ {-1})
<1>9. Len(ids) = V /\ \A i \in 1 .. V : ids[i] = i - 1
  BY <1>2
<1>10. \A k \in RowIds : k \in { ids[i] : i \in 1 .. Len(ids) }
  <2>1. ASSUME NEW k \in RowIds  PROVE k + 1 \in 1 .. V /\ ids[k + 1] = k
    BY <1>2 DEF RowIds
  <2> HIDE DEF ids
  <2> QED BY <2>1, <1>9
<1>11. anchor \in E2 /\ C \subseteq E2 /\ E2 \subseteq RowIds
  <2>1. anchor # -1
    BY <1>7 DEF RowIds
  <2> HIDE DEF ids, C
  <2> QED BY <2>1, <1>7, <1>8, <1>10
<1>12. IsBest(winner', E2)
  <2>1. Len(ids) \in Nat
    BY <1>2, <1>9
  <2> HIDE DEF ids, C
  <2> QED BY <1>1, <1>7, <1>8, <1>11, <2>1, EvalAllIsBest
<1> HIDE DEF ids, E2
<1>13. winner' \in RowIds /\ Leads(winner', anchor) /\ \A k \in C : Leads(winner', k)
  <2> HIDE DEF C
  <2> QED BY <1>11, <1>12 DEF IsBest
<1>14. ASSUME NEW k \in RowIds  PROVE Leads(winner', k)
  <2>1. CASE k \in E1
    <3> HIDE DEF E1
    <3> QED BY <1>7, <1>13, <2>1, LeadsIsTransitive
  <2>2. CASE k \in C
    BY <1>13, <2>2
  <2>3. CASE k \notin E1 /\ k \notin C
    <3>1. k # hint
      BY <1>4, <2>3
    <3>2. k \in NotHint
      BY <3>1 DEF NotHint
    <3>3. ~IsAnchor(k)
      <4>1. \A i \in 1 .. Len(topn_) : topn_[i] # k
        BY <2>3, <3>2
      <4>2. DOMAIN topn_ = 1 .. Len(topn_)
        BY <1>2
      <4> QED BY <4>1, <4>2 DEF IsAnchor
    <3>4. Leads(anchor, k)
      BY <1>7, <2>3, <3>2, <3>3, SkippedRowsLose
    <3> QED BY <1>7, <1>13, <3>4, LeadsIsTransitive
  <2> QED BY <2>1, <2>2, <2>3
<1> QED
  BY <1>13, <1>14, LeaderIsBestRow

--------------------------------------------------------------------------------
(* The invariant of the argmax.                                            *)
CertInv ==
  /\ problem \in Problems
  /\ Anchored
  /\ winner \in RowIds \cup {-1}
  /\ winner # -1 => winner = BestRow

(* The initial states satisfy the invariant.                               *)
LEMMA InitCertInv ==
  ASSUME CertInit
  PROVE  CertInv
  BY DEF CertInit, CertInv, Anchored

(* The head stays the same, and with it the answer.                        *)
LEMMA CertInvUnchanged ==
  ASSUME CertInv, UNCHANGED problem
  PROVE  RowIds' = RowIds /\ BestRow' = BestRow
  BY DEF BestRow, RowIds, V, NE, Logit, TrueDot

(* Every step keeps the invariant.                                         *)
LEMMA NextCertInv ==
  ASSUME CertConstants, CertInv, [CertNext]_certVars
  PROVE  CertInv'
<1>1. Ready
  BY DEF Ready, CertInv
<1>2. UNCHANGED problem
  BY DEF CertNext, CertPrepare, CertArgmax, certVars
<1>3. RowIds' = RowIds /\ BestRow' = BestRow /\ problem' \in Problems
  BY <1>2, CertInvUnchanged DEF CertInv
<1>4. CASE CertPrepare
  <2>1. PICK n \in Nat : n >= 1 /\ topn_' \in [1 .. n -> RowIds]
    <3>1. V \in Nat \ {0} /\ problem.topk \in Nat \ {0}
      BY <1>1, RowsAreTyped DEF Ready, CertConstants, IsProblem
    <3> QED BY <1>4, <3>1 DEF CertPrepare
  <2>2. topn_' \in Seq(RowIds) /\ Len(topn_') = n
    BY <2>1
  <2>3. Anchored'
    BY <1>3, <2>1, <2>2 DEF Anchored
  <2>4. UNCHANGED winner
    BY <1>4 DEF CertPrepare
  <2> QED BY <1>3, <2>3, <2>4 DEF CertInv
<1>5. CASE CertArgmax
  <2>1. winner' \in RowIds /\ winner' = BestRow
    BY <1>1, <1>5, CertArgmaxIsRight DEF CertInv
  <2>2. UNCHANGED topn_
    BY <1>5 DEF CertArgmax
  <2> QED BY <1>3, <2>1, <2>2 DEF CertInv, Anchored
<1>6. CASE UNCHANGED certVars
  <2>1. UNCHANGED <<topn_, winner>>
    BY <1>6 DEF certVars
  <2> QED BY <1>3, <2>1 DEF CertInv, Anchored
<1> QED
  BY <1>4, <1>5, <1>6 DEF CertNext

(* Whatever argmax skips, it returns the largest logit of the whole head,  *)
(* and of equal ones the smallest id (HeadCert::argmax).                   *)
THEOREM HeadIsCertified == CertSpec => []CertIsArgmax
<1>1. CertInit => CertInv
  BY InitCertInv
<1>2. CertInv /\ [CertNext]_certVars => CertInv'
  BY CertAssumption, NextCertInv
<1>3. CertInv => CertIsArgmax
  BY DEF CertInv, CertIsArgmax, BestRow
<1> QED
  BY <1>1, <1>2, <1>3, PTL DEF CertSpec

--------------------------------------------------------------------------------
(* The index.                                                              *)

(* The positions at which a gram ends, and those of one hash.              *)
GramEnds == (H - 1) .. (Len(toks_) - 1)
HashAt(e) == gram_hash(e + 1 - H)
EndsOf(h) == { e \in GramEnds : HashAt(e) = h }

StreamInv ==
  /\ toks_ \in Seq(DraftTokens)
  /\ prev_ \in Seq(Int) /\ Len(prev_) = Len(toks_)

(* The table has the latest end of every hash.                             *)
HeadInv ==
  /\ DOMAIN head_ = { HashAt(e) : e \in GramEnds }
  /\ \A h \in DOMAIN head_ : /\ head_[h] \in EndsOf(h)
                             /\ \A e \in EndsOf(h) : e <= head_[h]

(* p is the latest of the ends E before e, or -1 if there is none.         *)
IsPrevious(p, e, E) ==
  \/ p = -1 /\ \A f \in E : ~(f < e)
  \/ p \in E /\ p < e /\ \A f \in E : f < e => f <= p

(* Each end is linked to the one before.                                   *)
ChainInv ==
  \A e \in GramEnds : IsPrevious(prev_[e + 1], e, EndsOf(HashAt(e)))

IndexInv == StreamInv /\ HeadInv /\ ChainInv

(* The empty index is complete.                                            *)
LEMMA InitIndexInv ==
  ASSUME DraftInit
  PROVE  IndexInv
<1>1. GramEnds = {}
  BY DEF DraftInit, GramEnds, H
<1> QED
  BY <1>1 DEF DraftInit, IndexInv, StreamInv, HeadInv, ChainInv

(* So is one that has been reset.                                          *)
LEMMA ResetKeepsIndexInv ==
  ASSUME reset
  PROVE  IndexInv'
<1>1. GramEnds' = {}
  BY DEF reset, GramEnds, H
<1> QED
  BY <1>1 DEF reset, IndexInv, StreamInv, HeadInv, ChainInv

(* A push changes no earlier gram.                                         *)
LEMMA PushKeepsGrams ==
  ASSUME StreamInv, NEW t \in DraftTokens, push(t)
  PROVE  /\ Len(toks_') = Len(toks_) + 1
         /\ Len(toks_) \in Nat
         /\ \A i \in 1 .. Len(toks_) : toks_'[i] = toks_[i]
         /\ \A e \in GramEnds : HashAt(e)' = HashAt(e)
         /\ Len(toks_') >= H => GramEnds' = GramEnds \cup {Len(toks_)}
         /\ Len(toks_') < H => GramEnds' = {} /\ GramEnds = {}
<1>1. toks_' = Append(toks_, t) /\ toks_ \in Seq(DraftTokens)
  BY DEF push, StreamInv
<1>2. Len(toks_') = Len(toks_) + 1 /\ Len(toks_) \in Nat
  BY <1>1
<1>3. \A i \in 1 .. Len(toks_) : toks_'[i] = toks_[i]
  BY <1>1
<1>4. ASSUME NEW e \in GramEnds  PROVE HashAt(e)' = HashAt(e)
  <2>1. \A i \in 1 .. H : (e + 1 - H) + i \in 1 .. Len(toks_)
    BY <1>2, <1>4 DEF GramEnds, H
  <2>2. Gram(e + 1 - H)' = Gram(e + 1 - H)
    BY <1>3, <2>1 DEF Gram
  <2> QED BY <2>2 DEF HashAt, gram_hash
<1>5. /\ Len(toks_') >= H => GramEnds' = GramEnds \cup {Len(toks_)}
      /\ Len(toks_') < H => GramEnds' = {} /\ GramEnds = {}
  BY <1>2 DEF GramEnds, H
<1> QED
  BY <1>2, <1>3, <1>4, <1>5

(* A push links the new end to the one the table had, the latest so far,   *)
(* and leaves the chains of other hashes alone.                            *)
LEMMA PushKeepsIndexInv ==
  ASSUME IndexInv, NEW t \in DraftTokens, push(t)
  PROVE  IndexInv'
<1>0. PICK n \in Nat : n = Len(toks_)
  <2>1. Len(toks_) \in Nat
    BY PushKeepsGrams DEF IndexInv
  <2> QED BY <2>1
<1> DEFINE h == HashAt(n)'
           last == IF h \in DOMAIN head_ THEN head_[h] ELSE -1
<1> USE DEF IndexInv
<1>1. /\ Len(toks_') = n + 1 /\ n \in Nat
      /\ \A e \in GramEnds : HashAt(e)' = HashAt(e)
      /\ n + 1 >= H => GramEnds' = GramEnds \cup {n}
      /\ n + 1 < H => GramEnds' = {} /\ GramEnds = {}
  BY <1>0, PushKeepsGrams
<1>2. GramEnds \subseteq Nat /\ n \notin GramEnds /\ \A e \in GramEnds : e < n
  BY <1>0, <1>1 DEF GramEnds, H
<1>3. toks_' = Append(toks_, t) /\ toks_' \in Seq(DraftTokens)
  BY DEF push, StreamInv
<1>4. CASE n + 1 < H
  <2>1. prev_' = Append(prev_, -1) /\ head_' = head_
    BY <1>0, <1>1, <1>4 DEF push
  <2>2. StreamInv'
    BY <1>1, <1>3, <2>1 DEF StreamInv
  <2> QED BY <1>1, <1>4, <2>1, <2>2 DEF HeadInv, ChainInv
<1>5. CASE n + 1 >= H
  <2>1. h = GramHash[[i \in 1 .. H |-> Append(toks_, t)[(n + 1) - H + i]]]
    <3>1. Gram(n + 1 - H)' = [i \in 1 .. H |-> Append(toks_, t)[(n + 1) - H + i]]
      <4>1. Gram(n + 1 - H)' = [i \in 1 .. H |-> Append(toks_, t)[(n + 1 - H) + i]]
        BY <1>3 DEF Gram
      <4>2. \A i \in 1 .. H : (n + 1 - H) + i = (n + 1) - H + i
        BY <1>0 DEF H
      <4> QED BY <4>1, <4>2
    <3> QED BY <3>1 DEF HashAt, gram_hash
  <2>2. /\ prev_' = Append(prev_, last)
        /\ head_' = [k \in DOMAIN head_ \cup {h} |-> IF k = h THEN n ELSE head_[k]]
    <3> DEFINE new == Append(toks_, t)
               g == GramHash[[i \in 1 .. H |-> new[(n + 1) - H + i]]]
    <3>1. /\ prev_' = Append(prev_, IF g \in DOMAIN head_ THEN head_[g] ELSE -1)
          /\ head_' = [k \in DOMAIN head_ \cup {g} |-> IF k = g THEN (n + 1) - 1 ELSE head_[k]]
      BY <1>0, <1>1, <1>5 DEF push
    <3>2. g = h
      BY <2>1
    <3>3. (n + 1) - 1 = n
      BY <1>1
    <3> HIDE DEF g, h
    <3> QED BY <3>1, <3>2, <3>3
  <2>3. \A k : EndsOf(k)' = IF k = h THEN EndsOf(k) \cup {n} ELSE EndsOf(k)
    <3>1. GramEnds' = GramEnds \cup {n}
      BY <1>1, <1>5
    <3>2. ASSUME NEW k
          PROVE  EndsOf(k)' = { e \in GramEnds \cup {n} : HashAt(e)' = k }
      BY <3>1 DEF EndsOf
    <3>3. ASSUME NEW k
          PROVE  { e \in GramEnds \cup {n} : HashAt(e)' = k }
                   = IF k = h THEN EndsOf(k) \cup {n} ELSE EndsOf(k)
      BY <1>1, <1>2 DEF EndsOf
    <3> QED BY <3>2, <3>3
  <2>4. h \notin DOMAIN head_ => EndsOf(h) = {}
    BY DEF HeadInv, EndsOf
  <2>5. \A e \in EndsOf(h) : e < n
    BY <1>2 DEF EndsOf
  <2>6. last \in Int /\ IsPrevious(last, n, EndsOf(h))
    <3>1. CASE h \in DOMAIN head_
      <4>1. last \in EndsOf(h) /\ \A e \in EndsOf(h) : e <= last
        BY <3>1 DEF HeadInv
      <4>2. EndsOf(h) \subseteq Nat
        BY <1>2 DEF EndsOf
      <4> HIDE DEF last, h
      <4> QED BY <4>1, <4>2, <2>5 DEF IsPrevious
    <3>2. CASE h \notin DOMAIN head_
      BY <3>2, <2>4 DEF IsPrevious
    <3> QED BY <3>1, <3>2
  <2>7. StreamInv'
    <3> HIDE DEF last
    <3> QED BY <1>1, <1>3, <2>2, <2>6 DEF StreamInv
  <2> HIDE DEF last, h
  <2>8. HeadInv'
    <3>1. DOMAIN head_' = { HashAt(e)' : e \in GramEnds' }
      <4>1. DOMAIN head_' = DOMAIN head_ \cup {h}
        BY <2>2
      <4>2. GramEnds' = GramEnds \cup {n}
        BY <1>1, <1>5
      <4>3. { HashAt(e)' : e \in GramEnds \cup {n} } = { HashAt(e) : e \in GramEnds } \cup {h}
        BY <1>1 DEF h
      <4> QED BY <4>1, <4>2, <4>3 DEF HeadInv
    <3>2. ASSUME NEW k \in DOMAIN head_'
          PROVE  head_'[k] \in EndsOf(k)' /\ \A e \in EndsOf(k)' : e <= head_'[k]
      <4>1. CASE k = h
        <5>1. head_'[k] = n
          BY <2>2, <4>1
        <5>2. EndsOf(k)' = EndsOf(h) \cup {n} /\ EndsOf(h) \subseteq Nat
          <6>1. EndsOf(h) \subseteq Nat
            BY <1>2 DEF EndsOf
          <6> QED BY <4>1, <6>1, <2>3
        <5> QED BY <5>1, <5>2, <2>5
      <4>2. CASE k # h
        <5>1. head_'[k] = head_[k] /\ k \in DOMAIN head_
          BY <2>2, <4>2
        <5> QED BY <4>2, <5>1, <2>3 DEF HeadInv
      <4> QED BY <4>1, <4>2
    <3> QED BY <3>1, <3>2 DEF HeadInv
  <2>9. ChainInv'
    <3> SUFFICES ASSUME NEW e \in GramEnds'
                 PROVE  IsPrevious(prev_[e + 1], e, EndsOf(HashAt(e)))'
      BY DEF ChainInv
    <3>1. PICK k : k = HashAt(e)'
      OBVIOUS
    <3>2. EndsOf(HashAt(e))' = EndsOf(k)'
      BY <3>1 DEF EndsOf
    <3>3. IsPrevious(prev_'[e + 1], e, EndsOf(k)')
      <4>1. CASE e = n
        <5>1. k = h
          BY <3>1, <4>1 DEF h
        <5>2. prev_'[e + 1] = last
          BY <2>2, <4>1, <1>0, <1>1 DEF StreamInv
        <5>3. EndsOf(k)' = EndsOf(h) \cup {n}
          BY <2>3, <5>1
        <5> QED BY <2>6, <4>1, <5>2, <5>3, <1>1, <2>5 DEF IsPrevious
      <4>2. CASE e \in GramEnds
        <5>1. k = HashAt(e)
          BY <1>1, <3>1, <4>2
        <5>2. e + 1 \in 1 .. Len(prev_)
          BY <1>0, <1>1, <4>2 DEF StreamInv, GramEnds, H
        <5>3. prev_'[e + 1] = prev_[e + 1]
          <6> QED BY <2>2, <5>2 DEF StreamInv
        <5>4. IsPrevious(prev_[e + 1], e, EndsOf(k))
          BY <4>2, <5>1 DEF ChainInv
        <5>5. e < n /\ e \in Int
          BY <1>2, <4>2
        <5>6. EndsOf(k)' = EndsOf(k) \/ EndsOf(k)' = EndsOf(k) \cup {n}
          BY <2>3
        <5> QED BY <1>1, <5>3, <5>4, <5>5, <5>6 DEF IsPrevious
      <4> QED BY <1>1, <1>5, <4>1, <4>2
    <3> QED BY <3>2, <3>3 DEF IsPrevious
  <2> QED BY <2>7, <2>8, <2>9
<1> QED
  BY <1>1, <1>4, <1>5 DEF H

--------------------------------------------------------------------------------
(* The walk.                                                               *)

TailHash == gram_hash(Len(toks_) - H)
Latest == IF TailHash \in DOMAIN head_ THEN head_[TailHash] ELSE -1
(* What the recursion of Visits says of its first m steps.                 *)
VisitStep(m, a) ==
  [i \in 1 .. m |-> IF i = 1 THEN Latest
                    ELSE IF a[i - 1] < 0 THEN -1 ELSE prev_[a[i - 1] + 1]]

(* A sequence that satisfies the recursion exists, for every length,       *)
LEMMA VisitsExist ==
  ASSUME NEW m \in Nat
  PROVE  \E a : a = VisitStep(m, a)
<1> DEFINE After(a, i) == IF i = 1 THEN Latest
                          ELSE IF a[i - 1] < 0 THEN -1 ELSE prev_[a[i - 1] + 1]
           T == { k \in Nat : \E a : a = VisitStep(k, a) }
<1>1. 0 \in T
  <2> DEFINE a == [i \in 1 .. 0 |-> 0]
  <2>1. a = VisitStep(0, a)
    BY DEF VisitStep
  <2> HIDE DEF a
  <2> QED BY <2>1
<1>2. ASSUME NEW k \in Nat, k \in T  PROVE k + 1 \in T
  <2>1. PICK a : a = VisitStep(k, a)
    BY <1>2
  <2> DEFINE c == [i \in 1 .. k + 1 |-> IF i = k + 1 THEN After(a, i) ELSE a[i]]
  <2>2. \A i \in 1 .. k : a[i] = After(a, i)
    BY <2>1 DEF VisitStep
  <2>3. ASSUME NEW i \in 1 .. k + 1  PROVE c[i] = After(c, i)
    <3>1. i # 1 => c[i - 1] = a[i - 1]
      OBVIOUS
    <3>2. After(c, i) = After(a, i)
      <4> HIDE DEF c
      <4> QED BY <3>1
    <3>3. c[i] = IF i = k + 1 THEN After(a, i) ELSE a[i]
      OBVIOUS
    <3> HIDE DEF c, After
    <3> QED BY <2>2, <3>2, <3>3
  <2>4. c = [i \in 1 .. k + 1 |-> c[i]]
    OBVIOUS
  <2>5. c = VisitStep(k + 1, c)
    <3> HIDE DEF c
    <3> QED BY <2>3, <2>4 DEF VisitStep
  <2> HIDE DEF c
  <2> QED BY <2>5
<1>3. m \in T
  <2> HIDE DEF T
  <2> QED BY <1>1, <1>2, Induction
<1> QED
  BY <1>3

(* so Visits does.                                                         *)
LEMMA VisitsUnfold ==
  \A i \in 1 .. chain_cap_ :
    Visits[i] = IF i = 1 THEN Latest
                ELSE IF Visits[i - 1] < 0 THEN -1 ELSE prev_[Visits[i - 1] + 1]
<1>1. Visits = CHOOSE a : a = VisitStep(chain_cap_, a)
  BY DEF Visits, VisitStep, Latest, TailHash
<1>2. \E a : a = VisitStep(chain_cap_, a)
  BY VisitsExist, DraftAssumption
<1>3. Visits = VisitStep(chain_cap_, Visits)
  BY <1>1, <1>2
<1> QED
  BY <1>3 DEF VisitStep

Later(e) == { f \in SameHash : f > e }
Rank(e) == Cardinality(Later(e))

(* The ends with the tail's hash are its chain, and the tail ends one.     *)
LEMMA SameHashIsChain ==
  ASSUME IndexInv, Len(toks_) >= H
  PROVE  /\ Len(toks_) \in Nat /\ IsFiniteSet(SameHash)
         /\ \A e \in SameHash : e \in Nat
         /\ SameHash \subseteq H - 1 .. Len(toks_) - 1 /\ Len(toks_) - 1 \in SameHash
         /\ Latest \in SameHash /\ \A e \in SameHash : e <= Latest
         /\ \A e \in SameHash : IsPrevious(prev_[e + 1], e, SameHash)
<1>1. Len(toks_) \in Nat
  BY DEF IndexInv, StreamInv
<1>2. GramEnds \subseteq Nat /\ IsFiniteSet(GramEnds) /\ Len(toks_) - 1 \in GramEnds
  <2>1. H - 1 \in Int /\ Len(toks_) - 1 \in Int
    BY <1>1 DEF H
  <2> QED BY <1>1, <2>1, FS_Interval DEF GramEnds, H
<1>3. SameHash = EndsOf(TailHash)
  BY DEF SameHash, EndsOf, HashAt, TailHash, GramEnds
<1>4. IsFiniteSet(SameHash) /\ SameHash \subseteq GramEnds
  BY <1>2, <1>3, FS_Subset DEF EndsOf
<1>5. HashAt(Len(toks_) - 1) = TailHash
  <2>1. Len(toks_) - 1 + 1 - H = Len(toks_) - H
    BY <1>1 DEF H
  <2> QED BY <2>1 DEF HashAt, TailHash
<1>6. Len(toks_) - 1 \in SameHash /\ TailHash \in DOMAIN head_
  BY <1>2, <1>3, <1>5 DEF EndsOf, IndexInv, HeadInv
<1>7. Latest \in SameHash /\ \A e \in SameHash : e <= Latest
  BY <1>3, <1>6 DEF Latest, IndexInv, HeadInv
<1>8. ASSUME NEW e \in SameHash  PROVE IsPrevious(prev_[e + 1], e, SameHash)
  <2>1. e \in GramEnds /\ HashAt(e) = TailHash
    BY <1>3 DEF EndsOf
  <2> QED BY <1>3, <2>1 DEF IndexInv, ChainInv
<1>9. \A e \in SameHash : e \in Nat
  BY <1>2, <1>4
<1> QED
  BY <1>1, <1>4, <1>6, <1>7, <1>8, <1>9 DEF GramEnds

(* An end has more later ones the earlier it is.                           *)
LEMMA RankFalls ==
  ASSUME IndexInv, Len(toks_) >= H
  PROVE  /\ \A e \in SameHash : Rank(e) \in Nat
         /\ \A e, f \in SameHash : e < f => Rank(f) < Rank(e)
<1>1. IsFiniteSet(SameHash) /\ \A e \in SameHash : e \in Int
  BY SameHashIsChain
<1>2. ASSUME NEW e \in SameHash  PROVE IsFiniteSet(Later(e)) /\ Rank(e) \in Nat
  <2>1. IsFiniteSet(Later(e))
    BY <1>1, FS_Subset DEF Later
  <2> QED BY <2>1, FS_CardinalityType DEF Rank
<1>3. ASSUME NEW e \in SameHash, NEW f \in SameHash, e < f  PROVE Rank(f) < Rank(e)
  <2>1. Later(f) \subseteq Later(e) /\ f \in Later(e) /\ f \notin Later(f)
    <3>1. \A x \in SameHash : x > f => x > e
      BY <1>1, <1>3
    <3>2. f > e /\ ~(f > f)
      BY <1>1, <1>3
    <3> QED BY <1>3, <3>1, <3>2 DEF Later
  <2>2. Cardinality(Later(f)) <= Cardinality(Later(e))
        /\ (Cardinality(Later(e)) = Cardinality(Later(f)) => Later(e) = Later(f))
    BY <1>2, <2>1, FS_Subset
  <2> QED BY <1>2, <2>1, <2>2 DEF Rank
<1> QED
  BY <1>2, <1>3

(* The i-th step of the walk is at the end that has i - 1 later ones.      *)
WalkIsAt(i) ==
  \/ Visits[i] = -1 /\ Cardinality(SameHash) < i
  \/ Visits[i] \in SameHash /\ Rank(Visits[i]) = i - 1

(* By induction on the steps: the previous end has one more later end.     *)
LEMMA WalkGoesByRank ==
  ASSUME IndexInv, Len(toks_) >= H
  PROVE  \A i \in 1 .. chain_cap_ : WalkIsAt(i)
<1>1. chain_cap_ \in Nat
  BY DraftAssumption
<1>2. (\A x \in SameHash : x \in Nat) /\ IsFiniteSet(SameHash)
  BY SameHashIsChain
<1> DEFINE T == { i \in Nat : i + 1 <= chain_cap_ => WalkIsAt(i + 1) }
<1>3. 0 \in T
  <2> SUFFICES ASSUME 1 <= chain_cap_  PROVE WalkIsAt(1)
    OBVIOUS
  <2>1. Visits[1] = Latest
    BY <1>1, VisitsUnfold
  <2>2. Latest \in SameHash /\ \A e \in SameHash : e <= Latest
    BY SameHashIsChain
  <2>3. Later(Latest) = {}
    <3>1. \A x \in SameHash : ~(x > Latest)
      BY <1>2, <2>2
    <3> QED BY <3>1 DEF Later
  <2> QED BY <2>1, <2>2, <2>3, FS_EmptySet DEF WalkIsAt, Rank
<1>4. ASSUME NEW k \in Nat, k \in T  PROVE k + 1 \in T
  <2> DEFINE i == k + 1
  <2> SUFFICES ASSUME i + 1 <= chain_cap_  PROVE WalkIsAt(i + 1)
    OBVIOUS
  <2>1. WalkIsAt(i)
    BY <1>1, <1>4
  <2>2. Visits[i + 1] = IF Visits[i] < 0 THEN -1 ELSE prev_[Visits[i] + 1]
    <3>1. i + 1 \in 1 .. chain_cap_ /\ (i + 1) - 1 = i /\ i + 1 # 1
      BY <1>1
    <3> HIDE DEF i
    <3> QED BY <3>1, VisitsUnfold
  <2>3. i \in Nat
    OBVIOUS
  <2> HIDE DEF i
  <2>4. Cardinality(SameHash) \in Nat
    BY <1>2, FS_CardinalityType
  <2>5. CASE Visits[i] = -1 /\ Cardinality(SameHash) < i
    BY <2>2, <2>3, <2>4, <2>5 DEF WalkIsAt
  <2>6. CASE Visits[i] \in SameHash /\ Rank(Visits[i]) = i - 1
    <3> DEFINE e == Visits[i]
               p == prev_[e + 1]
    <3>1. e \in SameHash /\ e \in Nat /\ Visits[i + 1] = p /\ Rank(e) = i - 1
      <4>1. e \in SameHash /\ e \in Nat /\ Rank(e) = i - 1
        BY <1>2, <2>6
      <4>2. ~(e < 0)
        <5> HIDE DEF e
        <5> QED BY <4>1
      <4> QED BY <2>2, <4>1, <4>2
    <3>2. IsPrevious(p, e, SameHash)
      BY <3>1, SameHashIsChain
    <3>3. IsFiniteSet(Later(e)) /\ e \notin Later(e)
      <4> HIDE DEF e, p
      <4>1. Later(e) \subseteq SameHash /\ ~(e > e)
        BY <3>1 DEF Later
      <4> QED BY <1>2, <4>1, FS_Subset DEF Later
    <3>4. /\ IsFiniteSet(Later(e) \cup {e})
          /\ Cardinality(Later(e) \cup {e}) = i
      <4>1. Cardinality(Later(e) \cup {e}) = Cardinality(Later(e)) + 1
            /\ IsFiniteSet(Later(e) \cup {e})
        <5> HIDE DEF e
        <5> QED BY <3>3, FS_AddElement
      <4> QED BY <2>3, <3>1, <4>1 DEF Rank
    <3> HIDE DEF e, p
    <3>5. CASE p = -1 /\ \A f \in SameHash : ~(f < e)
      <4>1. SameHash = Later(e) \cup {e}
        <5>1. \A x \in SameHash : x > e \/ x = e
          BY <1>2, <3>1, <3>5
        <5> QED BY <3>1, <5>1 DEF Later
      <4> QED BY <2>3, <3>1, <3>4, <3>5, <4>1 DEF WalkIsAt
    <3>6. CASE p \in SameHash /\ p < e /\ \A f \in SameHash : f < e => f <= p
      <4>1. Later(p) = Later(e) \cup {e}
        <5>1. \A x \in SameHash : x > p <=> (x > e \/ x = e)
          BY <1>2, <3>1, <3>6
        <5> QED BY <3>1, <5>1 DEF Later
      <4>2. Rank(p) = (i + 1) - 1
        BY <2>3, <3>4, <4>1 DEF Rank
      <4> QED BY <3>1, <3>6, <4>2 DEF WalkIsAt
    <3> QED BY <3>2, <3>5, <3>6 DEF IsPrevious
  <2> QED BY <2>1, <2>5, <2>6 DEF WalkIsAt
<1>5. \A k \in Nat : k \in T
  <2> HIDE DEF T
  <2> QED BY <1>3, <1>4, Induction
<1>6. ASSUME NEW i \in 1 .. chain_cap_  PROVE WalkIsAt(i)
  <2>1. i - 1 \in Nat /\ (i - 1) + 1 = i /\ i <= chain_cap_
    BY <1>1
  <2>2. i - 1 \in T
    <3> HIDE DEF T
    <3> QED BY <1>5, <2>1
  <2> QED BY <2>1, <2>2
<1> QED
  BY <1>6

(* So it reaches every end within reach.                                   *)
LEMMA WalkReaches ==
  ASSUME IndexInv, Len(toks_) >= H, NEW e \in SameHash, Rank(e) < chain_cap_
  PROVE  \E i \in 1 .. chain_cap_ : Visits[i] = e
<1> DEFINE i == Rank(e) + 1
<1>1. (\A x \in SameHash : x \in Nat) /\ IsFiniteSet(SameHash) /\ chain_cap_ \in Nat
  BY SameHashIsChain, DraftAssumption
<1>2. Rank(e) \in Nat
  BY RankFalls
<1>3. i \in 1 .. chain_cap_
  BY <1>1, <1>2
<1>4. WalkIsAt(i)
  <2> HIDE DEF i
  <2> QED BY <1>3, WalkGoesByRank
<1>5. i <= Cardinality(SameHash)
  <2>1. Later(e) \subseteq SameHash /\ e \notin Later(e)
    BY <1>1 DEF Later
  <2>2. /\ Cardinality(Later(e)) <= Cardinality(SameHash)
        /\ Cardinality(SameHash) = Cardinality(Later(e)) => SameHash = Later(e)
    BY <1>1, <2>1, FS_Subset
  <2>3. Cardinality(SameHash) \in Nat
    BY <1>1, FS_CardinalityType
  <2> QED BY <1>2, <2>1, <2>2, <2>3 DEF Rank
<1>6. Cardinality(SameHash) \in Nat
  BY <1>1, FS_CardinalityType
<1>7. Visits[i] \in SameHash /\ Rank(Visits[i]) = i - 1
  <2>1. i \in Int
    BY <1>2
  <2> HIDE DEF i
  <2> QED BY <1>4, <1>5, <1>6, <2>1 DEF WalkIsAt
<1>8. Rank(Visits[i]) = Rank(e)
  BY <1>2, <1>7
<1>9. Visits[i] = e
  <2> DEFINE f == Visits[i]
  <2>1. f \in SameHash /\ Rank(f) = Rank(e) /\ f \in Nat /\ e \in Nat
    BY <1>1, <1>7, <1>8
  <2> HIDE DEF f, i
  <2>2. ~(f < e) /\ ~(e < f)
    BY <1>2, <2>1, RankFalls
  <2>3. f = e
    BY <2>1, <2>2
  <2> QED BY <2>3 DEF f
<1> QED
  BY <1>3, <1>9

--------------------------------------------------------------------------------
(* Matches.                                                                *)

N == Len(toks_)
(* The last len tokens are those up to position e.                         *)
Matches(e, len) == \A k \in 0 .. len - 1 : toks_[e - k + 1] = toks_[N - k]

(* MatchLen is the length of the longest of them.                          *)
LEMMA MatchLenIsLongest ==
  ASSUME N \in Nat, NEW e \in H - 1 .. N - 2, Matches(e, H)
  PROVE  /\ MatchLen(e) \in H .. e + 1
         /\ \A l \in 1 .. e + 1 : Matches(e, l) <=> l <= MatchLen(e)
<1> DEFINE B == { d \in 0 .. e + 1 - H : Matches(e, e + 1 - d) }
<1>0. e \in Nat /\ H \in Nat /\ H >= 1 /\ H <= e + 1
  BY DEF H
<1>1. \A l, m \in Nat : Matches(e, m) /\ l <= m => Matches(e, l)
  <2> SUFFICES ASSUME NEW l \in Nat, NEW m \in Nat, Matches(e, m), l <= m
               PROVE  Matches(e, l)
    OBVIOUS
  <2>1. \A k \in 0 .. l - 1 : k \in 0 .. m - 1
    OBVIOUS
  <2> QED BY <2>1 DEF Matches
<1>2. e + 1 - H \in B
  <2>1. e + 1 - (e + 1 - H) = H /\ e + 1 - H \in 0 .. e + 1 - H
    BY <1>0
  <2> QED BY <2>1
<1>3. PICK d \in B : \A x \in B : d <= x
  <2>1. B \subseteq 0 .. e + 1 - H
    OBVIOUS
  <2>2. 0 .. e + 1 - H \subseteq Nat
    OBVIOUS
  <2> HIDE DEF B
  <2> QED BY <1>2, <2>1, <2>2, LeastNumber
<1> DEFINE len == e + 1 - d
<1>4. len \in H .. e + 1 /\ Matches(e, len) /\ (len = e + 1 \/ ~Matches(e, len + 1))
  <2>1. d \in 0 .. e + 1 - H /\ Matches(e, len)
    BY <1>3
  <2>2. ASSUME d # 0, Matches(e, len + 1)  PROVE FALSE
    <3>1. e + 1 - (d - 1) = len + 1 /\ d - 1 \in 0 .. e + 1 - H
      BY <1>0, <2>1, <2>2
    <3>2. d - 1 \in B
      BY <3>1, <2>2
    <3> HIDE DEF B
    <3> QED BY <1>0, <2>1, <3>2, <1>3
  <2> QED BY <1>0, <2>1, <2>2
<1>5. /\ MatchLen(e) \in H .. e + 1 /\ Matches(e, MatchLen(e))
      /\ MatchLen(e) = e + 1 \/ ~Matches(e, MatchLen(e) + 1)
  <2>1. MatchLen(e) = CHOOSE l \in H .. e + 1 :
                        Matches(e, l) /\ (l = e + 1 \/ ~Matches(e, l + 1))
    BY DEF MatchLen, Matches, N
  <2> HIDE DEF len
  <2> QED BY <1>4, <2>1
<1>6. ASSUME NEW l \in 1 .. e + 1  PROVE Matches(e, l) <=> l <= MatchLen(e)
  <2>1. MatchLen(e) \in Nat
    BY <1>0, <1>5
  <2>2. l <= MatchLen(e) => Matches(e, l)
    BY <1>1, <1>5, <2>1
  <2>3. ASSUME l > MatchLen(e), Matches(e, l)  PROVE FALSE
    <3>1. MatchLen(e) # e + 1 /\ MatchLen(e) + 1 <= l /\ MatchLen(e) + 1 \in Nat
      BY <1>0, <2>1, <2>3
    <3>2. Matches(e, MatchLen(e) + 1)
      BY <1>1, <2>3, <3>1
    <3> QED BY <1>5, <3>1, <3>2
  <2> QED BY <2>1, <2>2, <2>3
<1> QED
  BY <1>5, <1>6

(* Equal subsequences match token by token.                                *)
LEMMA TailMatchesAreMatches ==
  ASSUME StreamInv, NEW e \in 0 .. N - 2, NEW l \in 1 .. e + 1
  PROVE  l \in TailMatches(e) <=> Matches(e, l)
<1>1. N \in Nat /\ toks_ \in Seq(DraftTokens) /\ e \in Nat /\ l \in Nat /\ l >= 1
  BY DEF StreamInv, N
<1> DEFINE a == SubSeq(toks_, e + 2 - l, e + 1)
           b == SubSeq(toks_, N - l + 1, N)
<1>2. /\ a \in Seq(DraftTokens) /\ Len(a) = l
      /\ \A i \in 1 .. l : a[i] = toks_[e + 1 - (l - i)]
  <2>1. e + 2 - l \in Int /\ e + 1 \in Int /\ e + 2 - l <= e + 1
        /\ (e + 1) - (e + 2 - l) + 1 = l
    BY <1>1
  <2>2. \A i \in e + 2 - l .. e + 1 : toks_[i] \in DraftTokens
    BY <1>1 DEF N
  <2>3. /\ a \in Seq(DraftTokens) /\ Len(a) = l
        /\ \A i \in 1 .. l : a[i] = toks_[(e + 2 - l) + i - 1]
    BY <2>1, <2>2, SubSeqProperties
  <2>4. \A i \in 1 .. l : (e + 2 - l) + i - 1 = e + 1 - (l - i)
    BY <1>1
  <2> HIDE DEF a
  <2> QED BY <2>3, <2>4
<1>3. /\ b \in Seq(DraftTokens) /\ Len(b) = l
      /\ \A i \in 1 .. l : b[i] = toks_[N - (l - i)]
  <2>1. N - l + 1 \in Int /\ N \in Int /\ N - l + 1 <= N /\ N - (N - l + 1) + 1 = l
    BY <1>1
  <2>2. \A i \in N - l + 1 .. N : toks_[i] \in DraftTokens
    BY <1>1 DEF N
  <2>3. /\ b \in Seq(DraftTokens) /\ Len(b) = l
        /\ \A i \in 1 .. l : b[i] = toks_[(N - l + 1) + i - 1]
    BY <2>1, <2>2, SubSeqProperties
  <2>4. \A i \in 1 .. l : (N - l + 1) + i - 1 = N - (l - i)
    BY <1>1
  <2> HIDE DEF b
  <2> QED BY <2>3, <2>4
<1>4. l \in TailMatches(e) <=> a = b
  BY <1>1 DEF TailMatches, N
<1>5. a = b <=> \A i \in 1 .. l : a[i] = b[i]
  <2> HIDE DEF a, b
  <2>1. ASSUME \A i \in 1 .. l : a[i] = b[i]  PROVE a = b
    BY <1>2, <1>3, <2>1, SeqEqual
  <2> QED BY <2>1
<1>6. (\A i \in 1 .. l : a[i] = b[i]) <=> Matches(e, l)
  <2> HIDE DEF a, b
  <2>1. ASSUME Matches(e, l), NEW i \in 1 .. l  PROVE a[i] = b[i]
    <3>1. l - i \in 0 .. l - 1 /\ e + 1 - (l - i) = e - (l - i) + 1
      BY <1>1
    <3>2. toks_[e - (l - i) + 1] = toks_[N - (l - i)]
      BY <2>1, <3>1 DEF Matches
    <3> QED BY <1>2, <1>3, <3>1, <3>2
  <2>2. ASSUME \A i \in 1 .. l : a[i] = b[i], NEW k \in 0 .. l - 1
        PROVE  toks_[e - k + 1] = toks_[N - k]
    <3>1. l - k \in 1 .. l /\ l - (l - k) = k /\ e + 1 - k = e - k + 1
      BY <1>1
    <3>2. a[l - k] = b[l - k]
      BY <2>2, <3>1
    <3>3. a[l - k] = toks_[e + 1 - k] /\ b[l - k] = toks_[N - k]
      BY <1>2, <1>3, <3>1
    <3> QED BY <3>1, <3>2, <3>3
  <2> QED BY <2>1, <2>2 DEF Matches
<1> QED
  BY <1>4, <1>5, <1>6

(* The tail's gram is a match of length H.                                 *)
LEMMA GramsAreMatches ==
  ASSUME N \in Nat, N >= H, NEW e \in H - 1 .. N - 2
  PROVE  Gram(e + 1 - H) = Gram(N - H) <=> Matches(e, H)
<1>1. e \in Nat
  BY DEF H
<1>2. Gram(e + 1 - H) = Gram(N - H)
        <=> \A i \in 1 .. H : toks_[(e + 1 - H) + i] = toks_[(N - H) + i]
  <2> DEFINE a == Gram(e + 1 - H)
             b == Gram(N - H)
  <2>1. a = [i \in 1 .. H |-> toks_[(e + 1 - H) + i]]
        /\ b = [i \in 1 .. H |-> toks_[(N - H) + i]]
    BY DEF Gram
  <2>2. ASSUME a = b, NEW i \in 1 .. H
        PROVE  toks_[(e + 1 - H) + i] = toks_[(N - H) + i]
    <3>1. a[i] = b[i]
      BY <2>2
    <3> HIDE DEF a, b
    <3> QED BY <2>1, <3>1
  <2>3. ASSUME \A i \in 1 .. H : toks_[(e + 1 - H) + i] = toks_[(N - H) + i]
        PROVE  a = b
    <3> HIDE DEF a, b
    <3> QED BY <2>1, <2>3
  <2> QED BY <2>2, <2>3
<1>3. Matches(e, 3) <=> /\ toks_[e + 1] = toks_[N]
                        /\ toks_[e] = toks_[N - 1]
                        /\ toks_[e - 1] = toks_[N - 2]
  <2>1. 0 .. 3 - 1 = {0, 1, 2}
    OBVIOUS
  <2>2. e - 0 + 1 = e + 1 /\ e - 1 + 1 = e /\ e - 2 + 1 = e - 1 /\ N - 0 = N
    BY <1>1
  <2> QED BY <2>1, <2>2 DEF Matches
<1>4. (\A i \in 1 .. 3 : toks_[(e + 1 - 3) + i] = toks_[(N - 3) + i])
        <=> /\ toks_[e + 1] = toks_[N]
            /\ toks_[e] = toks_[N - 1]
            /\ toks_[e - 1] = toks_[N - 2]
  <2>1. 1 .. 3 = {1, 2, 3}
    OBVIOUS
  <2>2. /\ (e + 1 - 3) + 1 = e - 1 /\ (e + 1 - 3) + 2 = e /\ (e + 1 - 3) + 3 = e + 1
        /\ (N - 3) + 1 = N - 2 /\ (N - 3) + 2 = N - 1 /\ (N - 3) + 3 = N
    BY <1>1
  <2> QED BY <2>1, <2>2
<1> QED
  BY <1>2, <1>3, <1>4 DEF H

(* What the walk takes for candidates are the ends within reach at which a *)
(* match of length H ends.                                                 *)
Found == { e \in WithinReach : e >= H - 1 /\ Matches(e, H) }

(* Neither a hash collision nor the tail itself is among them.             *)
LEMMA CandidatesAreFound ==
  ASSUME IndexInv, N >= H
  PROVE  /\ \A i \in Candidates : /\ i \in 1 .. chain_cap_ /\ Visits[i] \in Found
                                  /\ Visits[i] \in SameHash /\ Rank(Visits[i]) = i - 1
         /\ \A e \in Found : \E i \in Candidates : Visits[i] = e
<1>1. N \in Nat /\ chain_cap_ \in Nat
  BY DraftAssumption DEF N, IndexInv, StreamInv
<1>2. SameHash \subseteq H - 1 .. N - 1 /\ \A e \in SameHash : e \in Nat
  BY SameHashIsChain DEF N
<1>3. ASSUME NEW i \in Candidates
      PROVE  /\ i \in 1 .. chain_cap_ /\ Visits[i] \in Found
             /\ Visits[i] \in SameHash /\ Rank(Visits[i]) = i - 1
  <2> DEFINE e == Visits[i]
  <2>1. i \in 1 .. chain_cap_ /\ e >= 0 /\ e # N - 1 /\ Gram(e + 1 - H) = Gram(N - H)
    BY <1>3 DEF Candidates, IsCandidate, N
  <2>2. WalkIsAt(i)
    BY <2>1, WalkGoesByRank DEF N
  <2>3. e \in SameHash /\ Rank(e) = i - 1
    BY <2>1, <2>2 DEF WalkIsAt
  <2> HIDE DEF e
  <2>4. e \in H - 1 .. N - 2 /\ e \in 0 .. N - 2
    BY <1>1, <1>2, <2>1, <2>3 DEF H
  <2>5. Rank(e) < chain_cap_
    BY <1>1, <2>1, <2>3
  <2>6. e \in WithinReach
    BY <2>4, <2>5 DEF WithinReach, Rank, Later, N
  <2>7. Matches(e, H)
    BY <1>1, <2>1, <2>4, GramsAreMatches
  <2>8. e \in Found
    BY <2>4, <2>6, <2>7 DEF Found, H
  <2> QED BY <2>1, <2>3, <2>8 DEF e
<1>4. ASSUME NEW e \in Found  PROVE \E i \in Candidates : Visits[i] = e
  <2>1. e \in 0 .. N - 2 /\ e >= H - 1 /\ Matches(e, H) /\ Rank(e) < chain_cap_
    BY <1>4 DEF Found, WithinReach, Rank, Later, N
  <2>2. e \in H - 1 .. N - 2
    BY <1>1, <2>1 DEF H
  <2>3. Gram(e + 1 - H) = Gram(N - H)
    BY <1>1, <2>1, <2>2, GramsAreMatches
  <2>4. e \in SameHash
    BY <1>1, <2>2, <2>3 DEF SameHash, gram_hash, N, H
  <2>5. PICK i \in 1 .. chain_cap_ : Visits[i] = e
    BY <2>1, <2>4, WalkReaches DEF N
  <2>6. e >= 0 /\ e # N - 1
    BY <1>1, <2>1
  <2>7. i \in Candidates
    BY <2>3, <2>5, <2>6 DEF Candidates, IsCandidate, N
  <2> QED BY <2>5, <2>7
<1> QED
  BY <1>3, <1>4

(* The long enough matches that end within reach: those no longer than the *)
(* longest at an end found.                                                *)
Long == { el \in LongEnough : el[1] \in WithinReach }

(* A match as long as H has the tail's gram at its end.                    *)
LEMMA LongAtFound ==
  ASSUME IndexInv, N >= H
  PROVE  /\ \A el \in Long : el = <<el[1], el[2]>>
         /\ \A e, l : <<e, l>> \in Long <=> /\ e \in Found /\ l \in Nat
                                          /\ l >= H /\ l >= min_match_
                                          /\ l <= MatchLen(e)
         /\ \A e \in Found : e \in Nat /\ MatchLen(e) \in Nat /\ MatchLen(e) >= H
<1>1. N \in Nat /\ min_match_ \in Nat /\ StreamInv
  BY DraftAssumption DEF N, IndexInv, StreamInv
<1>2. ASSUME NEW e \in Found
      PROVE  /\ e \in H - 1 .. N - 2 /\ e \in 0 .. N - 2 /\ e \in WithinReach
             /\ e \in Nat /\ MatchLen(e) \in Nat /\ MatchLen(e) >= H
             /\ MatchLen(e) <= e + 1
             /\ \A l \in 1 .. e + 1 : Matches(e, l) <=> l <= MatchLen(e)
  <2>1. e \in 0 .. N - 2 /\ e >= H - 1 /\ Matches(e, H) /\ e \in WithinReach
    BY <1>2 DEF Found, WithinReach, N
  <2>2. e \in H - 1 .. N - 2 /\ e \in Nat
    BY <1>1, <2>1 DEF H
  <2>3. /\ MatchLen(e) \in H .. e + 1
        /\ \A l \in 1 .. e + 1 : Matches(e, l) <=> l <= MatchLen(e)
    BY <1>1, <2>1, <2>2, MatchLenIsLongest
  <2> QED BY <2>1, <2>2, <2>3 DEF H
<1>3. \A el \in Long : el = <<el[1], el[2]>>
  BY DEF Long, LongEnough
<1>4. ASSUME NEW e, NEW l, <<e, l>> \in Long
      PROVE  e \in Found /\ l \in Nat /\ l >= H /\ l >= min_match_ /\ l <= MatchLen(e)
  <2>1. /\ e \in 0 .. N - 2 /\ l \in 1 .. N /\ l \in TailMatches(e)
        /\ l >= min_match_ /\ l >= H /\ e \in WithinReach
    BY <1>4 DEF Long, LongEnough, N
  <2>2. l \in 1 .. e + 1 /\ e \in Nat /\ l \in Nat
    BY <2>1, <1>1 DEF TailMatches
  <2>3. Matches(e, l)
    BY <1>1, <2>1, <2>2, TailMatchesAreMatches
  <2>4. Matches(e, H)
    <3>1. \A k \in 0 .. H - 1 : k \in 0 .. l - 1
      BY <2>1, <2>2 DEF H
    <3> QED BY <2>3, <3>1 DEF Matches
  <2>5. e \in Found
    BY <2>1, <2>2, <2>4 DEF Found, H
  <2> QED BY <1>2, <2>1, <2>2, <2>3, <2>5
<1>5. ASSUME NEW e \in Found, NEW l \in Nat, l >= H, l >= min_match_, l <= MatchLen(e)
      PROVE  <<e, l>> \in Long
  <2>1. l \in 1 .. e + 1 /\ l \in 1 .. N
    BY <1>1, <1>2, <1>5 DEF H
  <2>2. l \in TailMatches(e)
    BY <1>1, <1>2, <1>5, <2>1, TailMatchesAreMatches
  <2> QED BY <1>2, <1>5, <2>1, <2>2 DEF Long, LongEnough, N
<1> QED
  BY <1>2, <1>3, <1>4, <1>5

(* The draft's choice: the longest match found, the latest of several.     *)
LEMMA BestIsFound ==
  ASSUME IndexInv, N >= H, Candidates # {}
  PROVE  /\ Visits[BestCandidate] \in Found
         /\ \A f \in Found :
              \/ MatchLen(Visits[BestCandidate]) > MatchLen(f)
              \/ /\ MatchLen(Visits[BestCandidate]) = MatchLen(f)
                 /\ Visits[BestCandidate] >= f
<1> DEFINE M(i) == MatchLen(Visits[i])
           Better(i, j) == M(i) > M(j) \/ (M(i) = M(j) /\ i <= j)
<1>0. \A i \in Candidates : /\ i \in Nat /\ M(i) \in Nat /\ M(i) <= N
                            /\ Visits[i] \in Found
  <2> SUFFICES ASSUME NEW i \in Candidates
               PROVE  i \in Nat /\ M(i) \in Nat /\ M(i) <= N /\ Visits[i] \in Found
    OBVIOUS
  <2>1. i \in Nat /\ Visits[i] \in Found
    BY CandidatesAreFound, DraftAssumption
  <2>2. N \in Nat
    BY DEF N, IndexInv, StreamInv
  <2> DEFINE e == Visits[i]
  <2>3. e \in Found
    BY <2>1
  <2> HIDE DEF e
  <2>4. e \in H - 1 .. N - 2 /\ Matches(e, H)
    BY <2>2, <2>3 DEF Found, WithinReach, N, H
  <2>5. MatchLen(e) \in H .. e + 1
    BY <2>2, <2>4, MatchLenIsLongest
  <2>6. MatchLen(e) \in Nat /\ MatchLen(e) <= N
    BY <2>2, <2>4, <2>5 DEF H
  <2> QED BY <2>1, <2>6 DEF e
<1> HIDE DEF M
<1>1. \E i \in Candidates : \A j \in Candidates : Better(i, j)
  <2>1. N \in Nat
    BY DEF N, IndexInv, StreamInv
  <2> DEFINE S == { N - M(i) : i \in Candidates }
  <2>2. S \subseteq Nat /\ S # {}
    BY <1>0, <2>1
  <2>3. PICK s \in S : \A t \in S : s <= t
    <3> HIDE DEF S
    <3> QED BY <2>2, LeastNumber
  <2>4. PICK c \in Candidates : s = N - M(c)
    BY <2>3
  <2>5. \A j \in Candidates : M(c) >= M(j)
    <3> SUFFICES ASSUME NEW j \in Candidates  PROVE M(c) >= M(j)
      OBVIOUS
    <3>1. s <= N - M(j)
      BY <2>3
    <3> QED BY <1>0, <2>1, <2>4, <3>1
  <2> DEFINE R == { i \in Candidates : M(i) = M(c) }
  <2>6. R \subseteq Nat /\ c \in R
    BY <1>0
  <2>7. PICK i \in R : \A j \in R : i <= j
    <3> HIDE DEF R
    <3> QED BY <2>6, LeastNumber
  <2>8. ASSUME NEW j \in Candidates  PROVE Better(i, j)
    <3>1. M(i) = M(c) /\ i \in Candidates
      BY <2>7
    <3>2. CASE M(j) = M(c)
      BY <2>7, <3>1, <3>2
    <3>3. CASE M(j) # M(c)
      BY <1>0, <2>5, <3>1, <3>3
    <3> QED BY <3>2, <3>3
  <2> QED BY <2>7, <2>8
<1>2. BestCandidate \in Candidates /\ \A j \in Candidates : Better(BestCandidate, j)
  <2>1. BestCandidate = CHOOSE i \in Candidates : \A j \in Candidates : Better(i, j)
    BY DEF BestCandidate, M
  <2> HIDE DEF Better
  <2> QED BY <1>1, <2>1
<1>3. ASSUME NEW f \in Found
      PROVE  \/ M(BestCandidate) > MatchLen(f)
             \/ M(BestCandidate) = MatchLen(f) /\ Visits[BestCandidate] >= f
  <2>0. PICK b \in Candidates : b = BestCandidate
    BY <1>2
  <2>1. PICK j \in Candidates : Visits[j] = f
    BY CandidatesAreFound
  <2>2. M(j) = MatchLen(f) /\ Better(b, j)
    BY <1>2, <2>0, <2>1 DEF M
  <2>3. ASSUME b <= j  PROVE Visits[b] >= f
    <3> DEFINE e == Visits[b]
    <3>1. /\ e \in SameHash /\ Rank(e) = b - 1 /\ b \in Nat /\ j \in Nat
          /\ f \in SameHash /\ Rank(f) = j - 1
      BY <1>0, <2>1, CandidatesAreFound
    <3>2. e \in Nat /\ f \in Nat
      BY <3>1, SameHashIsChain DEF N
    <3> HIDE DEF e
    <3>3. ~(e < f)
      BY <2>3, <3>1, RankFalls DEF N
    <3>4. e >= f
      BY <3>2, <3>3
    <3> QED BY <3>4 DEF e
  <2>4. M(b) > MatchLen(f) \/ (M(b) = MatchLen(f) /\ Visits[b] >= f)
    BY <2>2, <2>3
  <2> QED BY <2>0, <2>4
<1> QED
  BY <1>0, <1>2, <1>3 DEF M

(* What follows position e: at most n tokens, the stream's end permitting. *)
LEMMA Continuation ==
  ASSUME StreamInv, NEW e \in 0 .. N - 2, NEW n \in Nat, n > 0
  PROVE  SubSeq(toks_, e + 2, IF e + 1 + n <= N THEN e + 1 + n ELSE N)
           = [i \in { i \in 1 .. n : e + 1 + i <= N } |-> toks_[e + 1 + i]]
<1>1. N \in Nat /\ toks_ \in Seq(DraftTokens) /\ e \in Nat
  BY DEF StreamInv, N
<1> DEFINE last == IF e + 1 + n <= N THEN e + 1 + n ELSE N
<1>2. last \in Nat /\ e + 2 <= last /\ last <= N
  BY <1>1
<1>3. { i \in 1 .. n : e + 1 + i <= N } = 1 .. last - (e + 1)
  BY <1>1
<1> HIDE DEF last
<1> DEFINE a == SubSeq(toks_, e + 2, last)
           b == [i \in 1 .. last - (e + 1) |-> toks_[e + 1 + i]]
<1>4. e + 2 \in Int /\ last \in Int /\ last - (e + 2) + 1 = last - (e + 1)
  BY <1>1, <1>2
<1>5. \A i \in e + 2 .. last : toks_[i] \in DraftTokens
  BY <1>1, <1>2 DEF N
<1>6. /\ a \in Seq(DraftTokens) /\ Len(a) = last - (e + 1)
      /\ \A i \in 1 .. last - (e + 1) : a[i] = toks_[(e + 2) + i - 1]
  BY <1>2, <1>4, <1>5, SubSeqProperties
<1>7. a = [i \in 1 .. last - (e + 1) |-> a[i]]
  <2> HIDE DEF a
  <2> QED BY <1>6
<1>8. \A i \in 1 .. last - (e + 1) : a[i] = toks_[e + 1 + i]
  <2>1. \A i \in 1 .. last - (e + 1) : (e + 2) + i - 1 = e + 1 + i
    BY <1>1
  <2> HIDE DEF a
  <2> QED BY <1>6, <2>1
<1>9. a = b
  <2> HIDE DEF a
  <2> QED BY <1>7, <1>8
<1> QED
  BY <1>3, <1>9 DEF last

(* With its index, the draft is what the promise says.                     *)
LEMMA DraftIsRight ==
  ASSUME IndexInv
  PROVE  DraftIsLongestMatch
<1> SUFFICES ASSUME NEW n_max \in 0 .. MaxStream
             PROVE  draft(n_max) = LongestMatchDraft(WithinReach, n_max)
  BY DEF DraftIsLongestMatch
<1>1. N \in Nat /\ n_max \in Nat /\ StreamInv
  BY DraftAssumption DEF N, IndexInv, StreamInv
<1> DEFINE Wins(el) == \A o \in Long : el[2] > o[2] \/ (el[2] = o[2] /\ el[1] >= o[1])
           best == CHOOSE el \in Long : Wins(el)
           Follow(e) == [i \in { i \in 1 .. n_max : e + 1 + i <= N } |-> toks_[e + 1 + i]]
<1>2. LongestMatchDraft(WithinReach, n_max)
        = IF Long = {} THEN <<>> ELSE Follow(best[1])
  BY DEF LongestMatchDraft, Long, N
<1>3. CASE N < H
  <2>1. Long = {}
    BY <1>1, <1>3 DEF Long, LongEnough, N, H
  <2> QED BY <1>2, <1>3, <2>1 DEF draft, N
<1>4. CASE n_max = 0
  <2>1. Follow(best[1]) = <<>>
    <3>1. 1 .. 0 = {}
      OBVIOUS
    <3> HIDE DEF best
    <3> QED BY <1>4, <3>1
  <2>2. draft(n_max) = <<>>
    BY <1>4 DEF draft
  <2> QED BY <1>2, <2>1, <2>2
<1>5. CASE N >= H /\ n_max > 0 /\ Candidates = {}
  <2>1. Found = {}
    BY <1>5, CandidatesAreFound
  <2>2. Long = {}
    BY <1>5, <2>1, LongAtFound
  <2> QED BY <1>2, <1>5, <2>2 DEF draft, N
<1>6. CASE N >= H /\ n_max > 0 /\ Candidates # {}
  <2> DEFINE e == Visits[BestCandidate]
  <2>1. /\ e \in Found
        /\ \A f \in Found : MatchLen(e) > MatchLen(f) \/ (MatchLen(e) = MatchLen(f) /\ e >= f)
    BY <1>6, BestIsFound
  <2>2. draft(n_max) = IF MatchLen(e) < min_match_ THEN <<>>
                       ELSE SubSeq(toks_, e + 2, IF e + 1 + n_max <= N THEN e + 1 + n_max ELSE N)
    <3>1. ~(Len(toks_) < H \/ n_max <= 0 \/ Candidates = {})
      BY <1>1, <1>6 DEF N, H
    <3> QED BY <3>1 DEF draft, N
  <2> HIDE DEF e
  <2>3. \A f \in Found : f \in Nat /\ MatchLen(f) \in Nat /\ MatchLen(f) >= H
    BY <1>6, LongAtFound
  <2>4. \A el \in Long : /\ el = <<el[1], el[2]>> /\ el[1] \in Found /\ el[2] \in Nat
                         /\ el[2] >= min_match_ /\ el[2] <= MatchLen(el[1])
    BY <1>6, LongAtFound
  <2>5. min_match_ \in Nat
    BY DraftAssumption
  <2>6. CASE MatchLen(e) < min_match_
    <3>1. Long = {}
      <4> SUFFICES ASSUME NEW el \in Long  PROVE FALSE
        OBVIOUS
      <4>1. MatchLen(el[1]) <= MatchLen(e)
        BY <2>1, <2>3, <2>4
      <4> QED BY <2>1, <2>3, <2>4, <2>5, <2>6, <4>1
    <3> QED BY <1>2, <2>2, <2>6, <3>1
  <2>7. CASE MatchLen(e) >= min_match_
    <3> DEFINE top == <<e, MatchLen(e)>>
    <3>1. top \in Long
      BY <1>6, <2>1, <2>3, <2>7, LongAtFound
    <3>2. top[1] = e /\ top[2] = MatchLen(e)
      OBVIOUS
    <3> HIDE DEF top
    <3>3. Wins(top)
      <4> SUFFICES ASSUME NEW o \in Long
                   PROVE  top[2] > o[2] \/ (top[2] = o[2] /\ top[1] >= o[1])
        OBVIOUS
      <4>1. /\ MatchLen(e) > MatchLen(o[1]) \/ (MatchLen(e) = MatchLen(o[1]) /\ e >= o[1])
            /\ o[2] <= MatchLen(o[1]) /\ o[2] \in Nat /\ MatchLen(o[1]) \in Nat
            /\ MatchLen(e) \in Nat
        BY <2>1, <2>3, <2>4
      <4> QED BY <3>2, <4>1
    <3>4. best \in Long /\ Wins(best)
      <4> HIDE DEF Wins
      <4> QED BY <3>1, <3>3
    <3>5. best[1] = e
      <4> HIDE DEF best
      <4>1. top[2] > best[2] \/ (top[2] = best[2] /\ top[1] >= best[1])
        BY <3>3, <3>4
      <4>2. best[2] > top[2] \/ (best[2] = top[2] /\ best[1] >= top[1])
        BY <3>1, <3>4
      <4>3. best[1] \in Nat /\ top[1] \in Nat /\ best[2] \in Nat /\ top[2] \in Nat
        BY <2>1, <2>3, <2>4, <3>2, <3>4
      <4> QED BY <3>2, <4>1, <4>2, <4>3
    <3>6. e \in 0 .. N - 2
      BY <2>1 DEF Found, WithinReach, N
    <3>7. SubSeq(toks_, e + 2, IF e + 1 + n_max <= N THEN e + 1 + n_max ELSE N) = Follow(e)
      BY <1>1, <1>6, <3>6, Continuation
    <3>8. ~(MatchLen(e) < min_match_) /\ Long # {}
      BY <2>1, <2>3, <2>5, <2>7, <3>1
    <3> HIDE DEF best, Follow
    <3> QED BY <1>2, <2>2, <3>5, <3>7, <3>8
  <2> QED BY <2>1, <2>3, <2>5, <2>6, <2>7
<1> QED
  BY <1>1, <1>3, <1>4, <1>5, <1>6 DEF H

(* A step keeps the index.                                                 *)
LEMMA StepKeepsIndexInv ==
  ASSUME IndexInv, [DraftNext]_draftVars
  PROVE  IndexInv'
<1>1. ASSUME NEW t \in DraftTokens, push(t)  PROVE IndexInv'
  BY <1>1, PushKeepsIndexInv
<1>2. CASE reset
  BY <1>2, ResetKeepsIndexInv
<1>3. CASE UNCHANGED draftVars
  <2>1. toks_' = toks_ /\ prev_' = prev_ /\ head_' = head_
    BY <1>3 DEF draftVars
  <2>2. GramEnds' = GramEnds /\ \A e : HashAt(e)' = HashAt(e)
    BY <2>1 DEF GramEnds, HashAt, gram_hash, Gram
  <2>3. \A h : EndsOf(h)' = EndsOf(h)
    BY <2>2 DEF EndsOf
  <2>4. StreamInv' /\ HeadInv'
    BY <2>1, <2>2, <2>3 DEF IndexInv, StreamInv, HeadInv
  <2>5. ChainInv'
    <3> SUFFICES ASSUME NEW e \in GramEnds
                 PROVE  IsPrevious(prev_[e + 1], e, EndsOf(HashAt(e)))'
      BY <2>2 DEF ChainInv
    <3>1. EndsOf(HashAt(e))' = EndsOf(HashAt(e))
      BY <2>2 DEF EndsOf
    <3> QED BY <2>1, <3>1 DEF IndexInv, ChainInv, IsPrevious
  <2> QED BY <2>4, <2>5 DEF IndexInv
<1> QED
  BY <1>1, <1>2, <1>3 DEF DraftNext

(* The index holds every gram of the stream: the table the latest end of   *)
(* each hash, the chain from each end the one before (SuffixIndex::push).  *)
THEOREM IndexIsComplete == DraftSpec => []IndexInv
<1>1. DraftInit => IndexInv
  BY InitIndexInv
<1>2. IndexInv /\ [DraftNext]_draftVars => IndexInv'
  BY StepKeepsIndexInv
<1> QED
  BY <1>1, <1>2, PTL DEF DraftSpec

(* A draft continues the longest earlier occurrence of the stream's tail   *)
(* that the walk can reach, the most recent of several, whatever collides  *)
(* (SuffixIndex::draft).                                                   *)
THEOREM DraftIsTheLongestMatch == DraftSpec => []DraftIsLongestMatch
<1>1. IndexInv => DraftIsLongestMatch
  BY DraftIsRight
<1> QED
  BY <1>1, IndexIsComplete, PTL
================================================================================
