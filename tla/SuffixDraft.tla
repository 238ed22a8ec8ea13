---------------------------- MODULE SuffixDraft ----------------------------
(***************************************************************************)
(* The draft source of speculative decoding (src/src/spec/suffix_index.h): *)
(* an index of the token stream by the hash of every H consecutive tokens, *)
(* and the draft, the continuation of the longest earlier match of the     *)
(* stream's tail.  Positions count from 0, as in the code.                 *)
(***************************************************************************)
EXTENDS Integers, Sequences, FiniteSets

CONSTANTS DraftTokens,      \* the vocabulary
          GramHash,         \* a function from H-token grams, not injective
          chain_cap_, min_match_,
          MaxStream         \* bound on the stream

ASSUME DraftAssumption == chain_cap_ \in Nat /\ min_match_ \in Nat /\ MaxStream \in Nat

H == 3

VARIABLES toks_,            \* the stream
          prev_,            \* per end of a gram, the previous end in its chain
          head_             \* gram hash -> latest end

draftVars == <<toks_, prev_, head_>>

Grams == [1..H -> DraftTokens]
Gram(start) == [i \in 1..H |-> toks_[start + i]]
gram_hash(start) == GramHash[Gram(start)]

DraftInit == toks_ = <<>> /\ prev_ = <<>> /\ head_ = <<>>

\* Append a token, and index the gram that ends at it.
push(t) ==
    LET n == Len(toks_) + 1
        new == Append(toks_, t)
        h == GramHash[[i \in 1..H |-> new[n - H + i]]]
    IN  /\ n <= MaxStream
        /\ toks_' = new
        /\ IF n < H
           THEN prev_' = Append(prev_, -1) /\ UNCHANGED head_
           ELSE /\ prev_' = Append(prev_, IF h \in DOMAIN head_ THEN head_[h] ELSE -1)
                /\ head_' = [k \in (DOMAIN head_) \cup {h} |-> IF k = h THEN n - 1 ELSE head_[k]]

reset == toks_' = <<>> /\ prev_' = <<>> /\ head_' = <<>>

DraftNext == (\E t \in DraftTokens : push(t)) \/ reset
DraftSpec == DraftInit /\ [][DraftNext]_draftVars

-----------------------------------------------------------------------------
(* The draft *)

\* The ends the walk visits: from the latest down the chain, at most chain_cap_
\* of them, the tail itself and hash collisions included; -1 after the last.
Visits ==
    LET h == gram_hash(Len(toks_) - H)
        latest == IF h \in DOMAIN head_ THEN head_[h] ELSE -1
        e[i \in 1..chain_cap_] == IF i = 1 THEN latest
                                  ELSE IF e[i - 1] < 0 THEN -1 ELSE prev_[e[i - 1] + 1]
    IN  e

\* Those whose gram is the tail's, the tail itself left out.
IsCandidate(e) == e >= 0 /\ e # Len(toks_) - 1 /\ Gram(e + 1 - H) = Gram(Len(toks_) - H)
Candidates == {i \in 1..chain_cap_ : IsCandidate(Visits[i])}

\* How far the match that ends at e extends towards the start.
MatchLen(e) ==
    LET n == Len(toks_)
        matches(len) == \A k \in 0..(len - 1) : toks_[e - k + 1] = toks_[n - k]
    IN  CHOOSE len \in H..(e + 1) : matches(len) /\ (len = e + 1 \/ ~matches(len + 1))

\* faulty: of ties the last found
BestCandidateOldest ==
    CHOOSE i \in Candidates : \A j \in Candidates :
        \/ MatchLen(Visits[i]) > MatchLen(Visits[j])
        \/ MatchLen(Visits[i]) = MatchLen(Visits[j]) /\ i >= j

\* The step at which the best is found: the longest match, the first of ties.
BestCandidate ==
    CHOOSE i \in Candidates : \A j \in Candidates :
        \/ MatchLen(Visits[i]) > MatchLen(Visits[j])
        \/ MatchLen(Visits[i]) = MatchLen(Visits[j]) /\ i <= j

draft(n_max) ==
    IF Len(toks_) < H \/ n_max <= 0 \/ Candidates = {} THEN <<>>
    ELSE LET e == Visits[BestCandidate]
             last == IF e + 1 + n_max <= Len(toks_) THEN e + 1 + n_max ELSE Len(toks_)
         IN  IF MatchLen(e) < min_match_ THEN <<>> ELSE SubSeq(toks_, e + 2, last)

-----------------------------------------------------------------------------
(* The promise *)

\* The lengths of the matches of the stream's tail that end at e, by definition.
TailMatches(e) ==
    {len \in 1..(e + 1) : SubSeq(toks_, e + 2 - len, e + 1)
                            = SubSeq(toks_, Len(toks_) - len + 1, Len(toks_))}
LongEnough == {el \in (0..(Len(toks_) - 2)) \X (1..Len(toks_)) :
                 el[2] \in TailMatches(el[1]) /\ el[2] >= min_match_ /\ el[2] >= H}

\* What follows the longest match that ends at one of the ends E, the latest of
\* several; empty if no match is long enough.
LongestMatchDraft(E, n_max) ==
    LET L == {el \in LongEnough : el[1] \in E}
    IN  IF L = {} THEN <<>>
        ELSE LET best == CHOOSE el \in L : \A o \in L :
                             el[2] > o[2] \/ (el[2] = o[2] /\ el[1] >= o[1])
             IN  [i \in {i \in 1..n_max : best[1] + 1 + i <= Len(toks_)} |-> toks_[best[1] + 1 + i]]

\* Where the tail's hash has been seen, the tail itself included.
SameHash == {e \in (H - 1)..(Len(toks_) - 1) : gram_hash(e + 1 - H) = gram_hash(Len(toks_) - H)}
WithinReach == {e \in 0..(Len(toks_) - 2) : Cardinality({f \in SameHash : f > e}) < chain_cap_}

\* The draft continues the longest earlier occurrence of the stream's tail, the
\* most recent of several, for as many tokens as are known and asked for; hash
\* collisions and the walk from the end towards the start change nothing, except
\* that an occurrence is not found behind chain_cap_ later grams of the same hash.
DraftIsLongestMatch ==
    \A n_max \in 0..MaxStream : draft(n_max) = LongestMatchDraft(WithinReach, n_max)
=============================================================================
