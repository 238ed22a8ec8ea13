------------------------------ MODULE SpecDecode ------------------------------
(***************************************************************************)
(* Generation: prompt prefill, the plain loop and the speculative loop of  *)
(* src/tools/decode_main.cpp over the KV cache of DecoderImpl              *)
(* (step_batch, rewind_to and reset of src/src/model/decoder.cpp).         *)
(*                                                                         *)
(* A KV row is represented by the tokens it was computed from.  A row is   *)
(* never cleared: what lies at or above nPast is left from rejected drafts *)
(* or from an earlier generation.  The answer at a position depends on     *)
(* every row up to it; if these rows do not belong together the answer is  *)
(* Garbage.  The in-pass order of appends and attention is the subject of  *)
(* the decode graph, here a pass is one step.                              *)
(*                                                                         *)
(* The drafter is abstracted to any sequence of at most SpecMax tokens,    *)
(* which covers every suffix match and every length a controller chooses.  *)
(***************************************************************************)
EXTENDS Integers, Sequences, FiniteSets

CONSTANTS
  Tokens,
  Answer(_),       \* greedy answer of the model to a sequence of tokens
  Garbage,         \* answer computed from rows that do not belong together
  Prompts,         \* token sequences given by --ids
  NGen,            \* -n
  SpecMax,         \* --spec-max
  KvSizes,         \* values of --kv-max considered
  Modes,           \* "plain", "spec": --spec off, on
  ApproxSettings,  \* whether FASTLLM_APPROX_K truncates the routed experts
  GateSettings,    \* whether --approx-verify-tau is positive
  MaxReps          \* bound: number of generations (--bench, --reps)

DecodeAssumption ==
  /\ 0 \in Tokens /\ Garbage \notin Tokens
  /\ \A size \in KvSizes : \A n \in 1 .. size :
       \A c \in [1 .. n -> Tokens] : Answer(c) \in Tokens
  /\ \A c \in Prompts : c \in Seq(Tokens) /\ c # <<>>
  /\ NGen \in Nat /\ SpecMax \in 1 .. 15 /\ MaxReps \in Nat
  /\ KvSizes \subseteq Nat
  /\ Modes \subseteq {"plain", "spec"}
  /\ ApproxSettings \subseteq BOOLEAN /\ GateSettings \subseteq BOOLEAN

ASSUME DecodeIsValid == DecodeAssumption

VARIABLES
  prompt, mode, maxKv, approx, gated,  \* fixed by the command line
  kv,       \* KV rows of the decoder
  blurred,  \* rows computed with truncated experts
  nPast,    \* DecoderImpl::n_past_
  pc,       \* position in run_once
  nextTok,  \* next_tok: decided, not yet emitted at the loop head
  draft, outs, low,  \* the verify pass: draft, answers, low margins but the first
  base,     \* n_past before that pass
  acc, k,   \* accepted drafts, of which k are emitted
  trunc,    \* the margin gate fired
  out,      \* tokens emitted
  stream,   \* tokens pushed into the suffix index
  reps

config == <<prompt, mode, maxKv, approx, gated>>
cache  == <<kv, blurred, nPast>>
pass   == <<draft, outs, low, base>>
vars   == <<config, cache, pass, pc, nextTok, acc, k, trunc, out, stream, reps>>

--------------------------------------------------------------------------------
(* The decoder.                                                            *)

(* The tokens behind the rows below n, if these rows belong together.      *)
Context(n) == IF n = 0 THEN <<>> ELSE kv[n - 1]
Coherent(n) == \A i \in 0 .. n - 1 : kv[i] = SubSeq(Context(n), 1, i + 1)

(* Positions that may run fewer experts: all but the first and the last.   *)
Intermediate(m) == IF m > 2 THEN 1 .. m - 2 ELSE {}

Blurred(m) == (blurred \ (nPast .. nPast + m - 1))
  \cup IF approx THEN { nPast + i : i \in Intermediate(m) } ELSE {}

(* Answers of a pass over ts, one per position.                            *)
AnswersTo(ts) ==
  LET possible(p) ==
        IF ~Coherent(nPast) THEN {Garbage}
        ELSE IF \E r \in Blurred(Len(ts)) : r < nPast + p THEN Tokens
        ELSE { Answer(Context(nPast) \o SubSeq(ts, 1, p)) }
      allowed == [p \in DOMAIN ts |-> possible(p)]
  IN  { a \in [DOMAIN ts -> UNION { allowed[p] : p \in DOMAIN ts }] :
          \A p \in DOMAIN ts : a[p] \in allowed[p] }

(* step_batch with the tokens ts writes rows nPast .. nPast + Len(ts) - 1. *)
MaxBatch == IF mode = "spec" THEN SpecMax + 1 ELSE 1
Fits(m) == m \in 1 .. MaxBatch /\ nPast + m <= maxKv
StepBatch(ts) ==
  LET written == nPast .. nPast + Len(ts) - 1
      before  == Context(nPast)
  IN  /\ Fits(Len(ts))
      /\ kv' = [r \in DOMAIN kv |->
                  IF r \in written THEN before \o SubSeq(ts, 1, r - nPast + 1)
                                   ELSE kv[r]]
      /\ blurred' = Blurred(Len(ts))
      /\ nPast' = nPast + Len(ts)

(* A pass that does not fit: step_batch aborts the process.                *)
Abort(m) ==
  /\ ~Fits(m)
  /\ pc' = "aborted"
  /\ UNCHANGED <<config, cache, pass, nextTok, acc, k, trunc, out, stream, reps>>

--------------------------------------------------------------------------------
(* run_once.                                                               *)

Init ==
  /\ prompt \in Prompts /\ mode \in Modes /\ maxKv \in KvSizes
  /\ approx \in ApproxSettings /\ gated \in GateSettings
  /\ kv = [r \in 0 .. maxKv - 1 |-> <<>>]
  /\ blurred = {} /\ nPast = 0
  /\ pc = "prefill"
  /\ nextTok = 0
  /\ draft = <<>> /\ outs = <<>> /\ low = {} /\ base = 0
  /\ acc = 0 /\ k = 0 /\ trunc = FALSE
  /\ out = <<>> /\ stream = <<>>
  /\ reps = 1

(* Chunks of the largest batch, the last one shorter.                      *)
ChunkSize ==
  LET left == Len(prompt) - nPast
  IN  IF left < MaxBatch THEN left ELSE MaxBatch

Prefill ==
  /\ pc = "prefill" /\ nPast < Len(prompt)
  /\ \/ LET chunk == SubSeq(prompt, nPast + 1, nPast + ChunkSize)
        IN  /\ StepBatch(chunk)
            /\ \E answers \in AnswersTo(chunk) : nextTok' = answers[ChunkSize]
            /\ UNCHANGED <<config, pass, pc, acc, k, trunc, out, stream, reps>>
     \/ Abort(ChunkSize)

PrefillDone ==
  /\ pc = "prefill" /\ nPast = Len(prompt)
  /\ pc' = "emit"
  /\ stream' = IF mode = "spec" THEN prompt ELSE <<>>
  /\ UNCHANGED <<config, cache, pass, nextTok, acc, k, trunc, out, reps>>

(* Plain loop: emit, feed.  The last token is fed as well.                 *)
PlainStep ==
  /\ pc = "emit" /\ mode = "plain" /\ Len(out) < NGen
  /\ \/ /\ StepBatch(<<nextTok>>)
        /\ \E answers \in AnswersTo(<<nextTok>>) : nextTok' = answers[1]
        /\ out' = Append(out, nextTok)
        /\ UNCHANGED <<config, pass, pc, acc, k, trunc, stream, reps>>
     \/ Abort(1)

(* Speculative loop head: next_tok is emitted but not yet fed.             *)
Emit ==
  /\ pc = "emit" /\ mode = "spec" /\ Len(out) < NGen
  /\ out' = Append(out, nextTok)
  /\ IF Len(out) + 1 >= NGen
       THEN pc' = "done" /\ UNCHANGED stream
       ELSE pc' = "verify" /\ stream' = Append(stream, nextTok)
  /\ UNCHANGED <<config, cache, pass, nextTok, acc, k, trunc, reps>>

Drafts == UNION { [1 .. n -> Tokens] : n \in 0 .. SpecMax }

(* Verify pass over next_tok and the draft.                                *)
Verify ==
  /\ pc = "verify"
  /\ \E d \in Drafts :
       \/ /\ StepBatch(<<nextTok>> \o d)
          /\ outs' \in AnswersTo(<<nextTok>> \o d)
          /\ low' \in IF gated THEN SUBSET (1 .. Len(d)) ELSE {{}}
          /\ draft' = d /\ base' = nPast
          /\ pc' = "judge"
          /\ UNCHANGED <<config, nextTok, acc, k, trunc, out, stream, reps>>
       \/ Abort(Len(d) + 1)

(* a: drafts that agree with the answers, up to the first that does not.   *)
MatchedNext == CHOOSE a \in 0 .. Len(draft) :   \* faulty: shifted answers
  /\ \A i \in 1 .. a : outs[i + 1] = draft[i]
  /\ a < Len(draft) => outs[a + 2] # draft[a + 1]
Matched == CHOOSE a \in 0 .. Len(draft) :
  /\ \A i \in 1 .. a : outs[i] = draft[i]
  /\ a < Len(draft) => outs[a + 1] # draft[a + 1]

(* Margin gate: accepted positions after the first that were near-ties.    *)
Distrusted == IF gated THEN { p \in low : p \in 1 .. Matched - 1 } ELSE {}

Judge ==
  /\ pc = "judge"
  /\ acc' = IF Distrusted = {} THEN Matched
            ELSE CHOOSE p \in Distrusted : \A o \in Distrusted : p <= o
  /\ trunc' = (Distrusted # {})
  /\ k' = 0
  /\ pc' = "accept"
  /\ UNCHANGED <<config, cache, pass, nextTok, out, stream, reps>>

(* Accepted drafts are emitted, NGen permitting.                           *)
AcceptAll ==   \* faulty: also beyond NGen
  /\ pc = "accept" /\ k < acc
  /\ out' = Append(out, draft[k + 1])
  /\ stream' = Append(stream, draft[k + 1])
  /\ k' = k + 1
  /\ UNCHANGED <<config, cache, pass, pc, nextTok, acc, trunc, reps>>
Accept ==
  /\ pc = "accept" /\ k < acc /\ Len(out) < NGen
  /\ out' = Append(out, draft[k + 1])
  /\ stream' = Append(stream, draft[k + 1])
  /\ k' = k + 1
  /\ UNCHANGED <<config, cache, pass, pc, nextTok, acc, trunc, reps>>

(* Where the next pass starts: behind the last token that was right.       *)
KeepRejected == base + Len(draft) + 1   \* faulty: no rewind
ForgetPrevious == base + acc            \* faulty: t_prev is not counted
RewindTo == IF trunc THEN base + acc ELSE base + acc + 1

(* The correction is next; a distrusted position is decided again.         *)
(* rewind_to refuses to go forward.  The locals of the loop body go out of *)
(* scope.                                                                  *)
Settle ==
  /\ pc = "accept" /\ (k = acc \/ Len(out) >= NGen)
  /\ nextTok' = IF trunc THEN draft[acc] ELSE outs[acc + 1]
  /\ IF RewindTo \in 0 .. nPast
       THEN nPast' = RewindTo /\ pc' = "emit"
       ELSE pc' = "aborted" /\ UNCHANGED nPast
  /\ draft' = <<>> /\ outs' = <<>> /\ low' = {} /\ base' = 0
  /\ acc' = 0 /\ k' = 0 /\ trunc' = FALSE
  /\ UNCHANGED <<config, kv, blurred, out, stream, reps>>

Finish ==
  /\ pc = "emit" /\ Len(out) >= NGen
  /\ pc' = "done"
  /\ UNCHANGED <<config, cache, pass, nextTok, acc, k, trunc, out, stream, reps>>

(* The next generation: reset() keeps the rows.                            *)
ResetTo == 0
Again ==
  /\ pc = "done" /\ reps < MaxReps
  /\ nPast' = ResetTo
  /\ pc' = "prefill"
  /\ out' = <<>> /\ stream' = <<>>
  /\ reps' = reps + 1
  /\ UNCHANGED <<config, kv, blurred, pass, nextTok, acc, k, trunc>>

Next ==
  \/ Prefill \/ PrefillDone \/ PlainStep
  \/ Emit \/ Verify \/ Judge \/ Accept \/ Settle \/ Finish
  \/ Again

Spec == Init /\ [][Next]_vars
FairSpec == Spec /\ WF_vars(Next)

--------------------------------------------------------------------------------
(* Properties.                                                             *)

(* Types; never more than NGen tokens, although a pass may accept beyond.  *)
TypeOK ==
  /\ prompt \in Prompts /\ mode \in Modes /\ maxKv \in KvSizes
  /\ approx \in BOOLEAN /\ gated \in BOOLEAN
  /\ DOMAIN kv = 0 .. maxKv - 1 /\ \A r \in DOMAIN kv : kv[r] \in Seq(Tokens)
  /\ blurred \subseteq 0 .. maxKv - 1
  /\ nPast \in 0 .. maxKv
  /\ pc \in {"prefill", "emit", "verify", "judge", "accept", "done", "aborted"}
  /\ nextTok \in Tokens
  /\ draft \in Seq(Tokens) /\ outs \in Seq(Tokens) /\ low \subseteq 1 .. SpecMax
  /\ base \in 0 .. maxKv
  /\ acc \in 0 .. SpecMax /\ k \in 0 .. acc /\ trunc \in BOOLEAN
  /\ out \in Seq(Tokens) /\ Len(out) <= NGen
  /\ stream \in Seq(Tokens)
  /\ reps \in Nat

(* At the loop head the KV rows in use hold the prompt and the emitted     *)
(* tokens, each at its position and computed from its predecessors, and    *)
(* the suffix index has seen the same stream ("next_tok is emitted but not *)
(* yet fed"; "stale KV rows beyond n_past are overwritten by later passes  *)
(* before any attention can read them", decoder.h).                        *)
EmittedAsFed ==
  pc = "emit" /\ Len(out) < NGen =>
    /\ Context(nPast) = prompt \o out
    /\ Coherent(nPast)
    /\ mode = "spec" => stream = prompt \o out

(* The same as long as the margin gate is off.                             *)
EmittedAsFedUngated == ~gated => EmittedAsFed

(* A generation that fits into the cache without speculation fits with it  *)
(* ("--spec on output is token-identical to --spec off").                  *)
SpecFitsWherePlainDoes == Len(prompt) + NGen <= maxKv => pc # "aborted"

(* A generation that leaves room for SpecMax - 1 rejected drafts comes to  *)
(* its end: the verify pass never overruns the cache and each pass emits a *)
(* token, whatever is rejected or distrusted.                              *)
Room == Len(prompt) + NGen + SpecMax - 1
GenerationEnds == (pc = "prefill" /\ Room <= maxKv) ~> (pc = "done")

(* Greedy decoding is what is emitted, with and without speculation and    *)
(* over the KV rows of an earlier generation.                              *)
Greedy == INSTANCE GreedyDecode WITH
  exact <- mode = "plain" \/ (~approx /\ ~gated)

ImplementsGreedyDecode == Greedy!GreedySpec
================================================================================
