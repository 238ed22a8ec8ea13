------------------------------ MODULE HeadCert ------------------------------
(***************************************************************************)
(* The certified argmax of the vocabulary head (src/src/model/head_cert.h):*)
(* rows whose upper bound cannot reach an anchor are skipped, the others   *)
(* are computed as the engine computes them.                               *)
(*                                                                         *)
(* Weights and activations are small integers.  A problem is a record: w,  *)
(* the rows; h, the activations; hint, a row or -1; round, what the        *)
(* engine's int8 arithmetic adds to the true dot of each row, at most      *)
(* margin_ either way; topk, the size of the anchor set.                   *)
(***************************************************************************)
EXTENDS Integers, Sequences, FiniteSets, FiniteSetsExt

CONSTANTS SEGS, BlockElems,  \* segments asked for, elements of a format block
          margin_,           \* margin of the bound, in logits
          Problems

\* Rows of equal width and as wide as the activations, a whole number of blocks.
IsProblem(p) ==
    /\ Len(p.w) \in Nat \ {0} /\ Len(p.h) \in Nat \ {0} /\ Len(p.h) % BlockElems = 0
    /\ \A i \in 1..Len(p.h) : p.h[i] \in Int /\ \A j \in 1..Len(p.w) : p.w[j][i] \in Int
    /\ \A j \in 1..Len(p.w) : p.round[j] \in -margin_..margin_
    /\ p.hint \in Int /\ p.topk \in Nat \ {0}
CertConstants == /\ SEGS \in Nat \ {0} /\ BlockElems \in Nat \ {0} /\ margin_ \in Nat
                 /\ \A p \in Problems : IsProblem(p)
ASSUME CertAssumption == CertConstants

VARIABLES problem, topn_,    \* topn_: the anchor rows, <<>> before init
          winner               \* the certified argmax, -1 before

certVars == <<problem, topn_, winner>>

V == Len(problem.w)
NE == Len(problem.h)
RowIds == 0..(V - 1)

-----------------------------------------------------------------------------
(* init: segments, norms, anchors *)

\* A multiple of the block that divides the row, from NE / SEGS upwards.
segw_ ==
    LET start == IF NE \div SEGS < BlockElems THEN BlockElems
                 ELSE ((NE \div SEGS) \div BlockElems) * BlockElems
    IN  CHOOSE n \in start..NE : /\ (n - start) % BlockElems = 0 /\ NE % n = 0
                                 /\ \A k \in start..(n - 1) :
                                        (k - start) % BlockElems = 0 => NE % k # 0
nseg_ == NE \div segw_

\* The square of the norm of segment s of a vector; norms are kept in eighths.
Segment(s) == (s * segw_ + 1)..((s + 1) * segw_)
SumOfSquares(x, s) == SumFunction([i \in Segment(s) |-> x[i] * x[i]])
Unit == 8
RootUp(n) == CHOOSE r \in 0..n : r * r >= n /\ (r = 0 \/ (r - 1) * (r - 1) < n)

\* wn_ is rounded up one ulp; so are the activation's norms, exact in the code.
wn_(j, s) == RootUp(Unit * Unit * SumOfSquares(problem.w[j + 1], s))
hn(s) == RootUp(Unit * Unit * SumOfSquares(problem.h, s))

Segments == 0..(nseg_ - 1)
whole(j) == SumFunction([s \in Segments |-> SumOfSquares(problem.w[j + 1], s)])

\* A partial sort: the topk rows of largest norm in order; rows of equal norm
\* come in any order.
IsAnchors(top) ==
    IF problem.topk >= V THEN top = [i \in 1..V |-> i - 1]
    ELSE /\ Cardinality({top[i] : i \in DOMAIN top}) = problem.topk
         /\ \A i \in DOMAIN top : \A j \in RowIds \ {top[k] : k \in 1..i} :
                whole(top[i]) >= whole(j)

CertInit == problem \in Problems /\ topn_ = <<>> /\ winner = -1

CertPrepare ==
    /\ topn_ = <<>>
    /\ \E top \in [1..(IF problem.topk < V THEN problem.topk ELSE V) -> RowIds] :
            IsAnchors(top) /\ topn_' = top
    /\ UNCHANGED <<problem, winner>>

-----------------------------------------------------------------------------
(* argmax *)

\* The logit of the engine, and of dot_exact: the true dot as rounded.
TrueDot(j) == SumFunction([i \in 1..NE |-> problem.w[j + 1][i] * problem.h[i]])
Logit(j) == TrueDot(j) + problem.round[j + 1]

\* faulty: a tie is the first evaluated's
BeatsStrictly(j, b) == b = -1 \/ Logit(j) > Logit(b)

\* Row j replaces row b (-1: none yet) as the best: a larger logit, or the same
\* and a smaller id.
Beats(j, b) == b = -1 \/ Logit(j) > Logit(b) \/ (Logit(j) = Logit(b) /\ j < b)

\* The best of b and the rows of a sequence, those outside the set S skipped.
EvalAll(rows, S, b) ==
    LET after[i \in 0..Len(rows)] ==
            IF i = 0 THEN b
            ELSE IF rows[i] \in S /\ Beats(rows[i], after[i - 1]) THEN rows[i] ELSE after[i - 1]
    IN  after[Len(rows)]

\* Upper bound of a logit, in Unit * Unit.
UpperBound(j) == SumFunction([s \in Segments |-> wn_(j, s) * hn(s)])

IsAnchor(j) == \E i \in DOMAIN topn_ : topn_[i] = j
NotHint == RowIds \ {problem.hint}

\* The rows the scan evaluates, T being the anchors' threshold.
Contenders(T) == {j \in NotHint : UpperBound(j) >= T /\ ~IsAnchor(j)}

\* The hint, the anchors, and in ascending order the contenders.
CertArgmax ==
    LET hinted == IF problem.hint \in RowIds THEN problem.hint ELSE -1
        anchor == EvalAll(topn_, NotHint, hinted)
        T == Unit * Unit * (Logit(anchor) - margin_)
    IN  /\ topn_ # <<>> /\ winner = -1
        /\ nseg_ <= SEGS      \* the norms are on the stack, hn[SEGS]
        /\ winner' = EvalAll([i \in 1..V |-> i - 1], Contenders(T), anchor)
        /\ UNCHANGED <<problem, topn_>>

CertNext == CertPrepare \/ CertArgmax
CertSpec == CertInit /\ [][CertNext]_certVars

-----------------------------------------------------------------------------
\* The argmax over the rows that were not skipped is that of the whole head,
\* the smallest id of equal logits: whatever the hint, however the anchors are
\* ordered, and with logits that the int8 arithmetic moved by up to margin_.
CertIsArgmax ==
    winner # -1 =>
        winner = CHOOSE j \in RowIds : /\ \A k \in RowIds : Logit(j) >= Logit(k)
                                     /\ \A k \in 0..(j - 1) : Logit(j) > Logit(k)
=============================================================================
