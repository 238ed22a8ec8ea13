----------------------------- MODULE DecodeScript -----------------------------
(***************************************************************************)
(* The calls build_graph_m of src/src/model/decoder.cpp makes for a batch  *)
(* of c.m positions, in their order.  A call is a record                   *)
(*    names  |-> under which later calls refer to its signal               *)
(*    kind   |-> "op", "dot", "signal" (fan_in) or "terminal"              *)
(*    deps   |-> names of the calls it waits for                           *)
(*    reads, writes |-> buffers; pos |-> position of the batch             *)
(* A configuration c is a record [m, layers, tiles, heads, used, approxK,  *)
(* multicol, barrier, cert]: batch size, "dense" or "moe" per layer, tiles *)
(* per weight, attention heads, experts per token and the options          *)
(* FASTLLM_APPROX_K, FASTLLM_MULTICOL, FASTLLM_FFN_BARRIER, --head-cert on.*)
(* Names and buffers are tuples <<what, layer, position, ...>>; positions  *)
(* and layers count from 1 here.                                           *)
(***************************************************************************)
EXTENDS Integers, Sequences, SequencesExt

Call(names, kind, deps, reads, writes, pos) ==
  << [names |-> names, kind |-> kind, deps |-> deps,
      reads |-> reads, writes |-> writes, pos |-> pos] >>

Op(name, deps, reads, writes) ==
  Call({name}, "op", deps, reads, writes, name[3])
Dot(name, deps, reads, writes) ==
  Call({name}, "dot", deps, reads, writes, name[3])
FanInOf(name, deps) == Call({name}, "signal", deps, {}, {}, name[3])

(* The quantized copy ACT_Q8 makes of a buffer (fl_xq_of); dots read both. *)
Q8(b) == <<"q8", b>>
Quantize(name, dep, bufs) == Op(name, <<dep>>, bufs, { Q8(b) : b \in bufs })
WithQ8(bufs) == bufs \cup { Q8(b) : b \in bufs }

ForEach(n, Calls(_)) == FlattenSeq([i \in 1 .. n |-> Calls(i)])

(* One buffer per position.                                                *)
Columns(c, what, l) == [p \in 1 .. c.m |-> {<<what, l, p>>}]

JoinedAlways(c) == c.m > 1   \* faulty: the option is not looked at
Joined(c) == c.multicol /\ c.m > 1

(* stage_dot: a weight all positions share.  X[p], Y[p] are the buffers of *)
(* position p.                                                             *)
StageDot(c, w, l, dep, X, Y) ==
  LET ps == 1 .. c.m
  IN  IF Joined(c)
        THEN Call({ <<w, l, p>> : p \in ps }, "dot",
                  [p \in ps |-> <<dep, l, p>>],
                  UNION { WithQ8(X[p]) : p \in ps }, UNION { Y[p] : p \in ps }, 0)
        ELSE ForEach(c.m, LAMBDA p :
               Dot(<<w, l, p>>, << <<dep, l, p>> >>, WithQ8(X[p]), Y[p]))

(* The residual stream into layer l, and who wrote it.                     *)
Res(l, p) == IF l = 1 THEN <<"x", 0, p>> ELSE <<"xo", l - 1, p>>
ResDep(l, p) == IF l = 1 THEN <<>> ELSE << <<"out", l - 1, p>> >>

--------------------------------------------------------------------------------
(* Attention: stages A to F.                                               *)

StageA(c, l) == ForEach(c.m, LAMBDA p :
  Op(<<"an", l, p>>, ResDep(l, p), {Res(l, p)}, {<<"xn", l, p>>})
  \o Quantize(<<"aq", l, p>>, <<"an", l, p>>, {<<"xn", l, p>>}))

StageB(c, l) ==
  StageDot(c, "q", l, "aq", Columns(c, "xn", l), Columns(c, "qb", l))
  \o StageDot(c, "kva", l, "aq", Columns(c, "xn", l),
         [p \in 1 .. c.m |-> {<<"kva", l, p>>, <<"kpe", l, p>>}])

StageC(c, l) == ForEach(c.m, LAMBDA p :
  Op(<<"kn", l, p>>, << <<"kva", l, p>> >>, {<<"kva", l, p>>}, {<<"ckv", l, p>>})
  \o Quantize(<<"kq8", l, p>>, <<"kn", l, p>>, {<<"ckv", l, p>>}))

StageD(c, l) ==
  StageDot(c, "kvb", l, "kq8", Columns(c, "ckv", l), Columns(c, "kvb", l))

KvRows(l, p) == { <<"kv", l, i>> : i \in 1 .. p }
Contexts(c, l, p) == { <<"ctx", l, p, h>> : h \in 1 .. c.heads }

(* app_cum: what stands for the appends of the positions 1 .. p.           *)
AppCum(l, p) == IF p = 1 THEN <<"app", l, 1>> ELSE <<"cum", l, p>>
OwnAppend(l, p) == << <<"app", l, p>> >>   \* faulty: the chain is cut
CumDeps(l, p) == <<AppCum(l, p - 1), <<"app", l, p>> >>

StageE(c, l) == ForEach(c.m, LAMBDA p :
  Op(<<"rq", l, p>>, << <<"q", l, p>> >>, {<<"qb", l, p>>}, {<<"qb", l, p>>})
  \o Op(<<"rk", l, p>>, << <<"kva", l, p>> >>,
        {<<"kpe", l, p>>}, {<<"kpe", l, p>>})
  \o Op(<<"app", l, p>>, << <<"kvb", l, p>>, <<"rk", l, p>> >>,
        {<<"kvb", l, p>>, <<"kpe", l, p>>}, {<<"kv", l, p>>})
  \o (IF p = 1 THEN <<>>
      ELSE FanInOf(<<"cum", l, p>>, CumDeps(l, p)))
  \o ForEach(c.heads, LAMBDA h :
       Op(<<"attn", l, p, h>>, << <<"rq", l, p>>, AppCum(l, p) >>,
          {<<"qb", l, p>>} \cup KvRows(l, p), {<<"ctx", l, p, h>>}))
  \o FanInOf(<<"heads", l, p>>, [h \in 1 .. c.heads |-> <<"attn", l, p, h>>])
  \o Quantize(<<"cq8", l, p>>, <<"heads", l, p>>, Contexts(c, l, p)))

StageF(c, l) ==
  StageDot(c, "ao", l, "cq8", [p \in 1 .. c.m |-> Contexts(c, l, p)],
           Columns(c, "ao", l))

--------------------------------------------------------------------------------
(* Feed-forward: stages G and H.                                           *)

StageG(c, l) == ForEach(c.m, LAMBDA p :
  Op(<<"x2", l, p>>, << <<"ao", l, p>> >> \o ResDep(l, p),
     {Res(l, p), <<"ao", l, p>>}, {<<"x2", l, p>>})
  \o Op(<<"fn", l, p>>, << <<"x2", l, p>> >>, {<<"x2", l, p>>}, {<<"xf", l, p>>})
  \o Quantize(<<"fq8", l, p>>, <<"fn", l, p>>, {<<"xf", l, p>>}))

(* gate and up, silu, down: the dense layer and the shared expert.         *)
SharedFfn(c, l) ==
  StageDot(c, "gate", l, "fq8", Columns(c, "xf", l), Columns(c, "g", l))
  \o StageDot(c, "up", l, "fq8", Columns(c, "xf", l), Columns(c, "u", l))
  \o ForEach(c.m, LAMBDA p :
       Op(<<"silu", l, p>>, << <<"gate", l, p>>, <<"up", l, p>> >>,
          {<<"g", l, p>>, <<"u", l, p>>}, {<<"h", l, p>>})
       \o Quantize(<<"hq8", l, p>>, <<"silu", l, p>>, {<<"h", l, p>>}))
  \o StageDot(c, "down", l, "hq8", Columns(c, "h", l), Columns(c, "d", l))

DenseMerge(c, l) == ForEach(c.m, LAMBDA p :
  Op(<<"out", l, p>>, << <<"down", l, p>>, <<"x2", l, p>> >>,
     {<<"d", l, p>>, <<"x2", l, p>>}, {<<"xo", l, p>>}))

(* The router's weight is not quantized: its dot does not read Q8.         *)
Routers(c, l) == ForEach(c.m, LAMBDA p :
  Dot(<<"rl", l, p>>, << <<"fn", l, p>> >>, {<<"xf", l, p>>}, {<<"rlog", l, p>>})
  \o Op(<<"rt", l, p>>, << <<"rl", l, p>> >>, {<<"rlog", l, p>>},
        {<<"ids", l, p>>}))

Barrier(c, l) ==
  IF c.barrier THEN FanInOf(<<"rtAll", l, 0>>, [p \in 1 .. c.m |-> <<"rt", l, p>>])
               ELSE <<>>
RouterDep(c, l, p) == IF c.barrier THEN <<"rtAll", l, 0>> ELSE <<"rt", l, p>>

(* Experts position p runs: fewer at the intermediate ones.                *)
Experts(c, p) ==
  IF c.approxK # 0 /\ c.m > 2 /\ p > 1 /\ p < c.m /\ c.approxK < c.used
    THEN c.approxK ELSE c.used

ExpertParts(c, l, p) == { <<"de", l, p, s>> : s \in 1 .. Experts(c, p) }

RoutedExperts(c, l) == ForEach(c.m, LAMBDA p :
  ForEach(Experts(c, p), LAMBDA s :
    LET routed == << <<"fq8", l, p>>, RouterDep(c, l, p) >>
        inputs == WithQ8({<<"xf", l, p>>}) \cup {<<"ids", l, p>>}
    IN  Dot(<<"ge", l, p, s>>, routed, inputs, {<<"geb", l, p, s>>})
        \o Dot(<<"ue", l, p, s>>, routed, inputs, {<<"ueb", l, p, s>>})
        \o Op(<<"se", l, p, s>>, << <<"ge", l, p, s>>, <<"ue", l, p, s>> >>,
              {<<"geb", l, p, s>>, <<"ueb", l, p, s>>}, {<<"he", l, p, s>>})
        \o Quantize(<<"eq8", l, p, s>>, <<"se", l, p, s>>, {<<"he", l, p, s>>})
        \o Dot(<<"downE", l, p, s>>, << <<"eq8", l, p, s>> >>,
               WithQ8({<<"he", l, p, s>>}) \cup {<<"ids", l, p>>},
               {<<"de", l, p, s>>}))
  \o FanInOf(<<"downs", l, p>>,
             [s \in 1 .. Experts(c, p) |-> <<"downE", l, p, s>>]))

MoeMerge(c, l) == ForEach(c.m, LAMBDA p :
  Op(<<"out", l, p>>,
     << <<"downs", l, p>>, <<"down", l, p>>, <<"x2", l, p>> >>,
     ExpertParts(c, l, p)
       \cup {<<"ids", l, p>>, <<"d", l, p>>, <<"x2", l, p>>},
     {<<"xo", l, p>>}))

StageH(c, l) ==
  IF c.layers[l] = "dense"
    THEN SharedFfn(c, l) \o DenseMerge(c, l)
    ELSE Routers(c, l) \o Barrier(c, l) \o RoutedExperts(c, l)
           \o SharedFfn(c, l) \o MoeMerge(c, l)

--------------------------------------------------------------------------------
(* Final norm, head and terminal.                                          *)

FinalNorm(c) ==
  LET last == Len(c.layers) + 1
  IN  ForEach(c.m, LAMBDA p :
        Op(<<"fnorm", last, p>>, ResDep(last, p), {Res(last, p)},
           {<<"xF", last, p>>})
        \o Quantize(<<"Fq8", last, p>>, <<"fnorm", last, p>>, {<<"xF", last, p>>}))

HeadDeps(c) == [p \in 1 .. c.m |-> <<"Fq8", Len(c.layers) + 1, p>>]

(* add_dot_m: unlike in stage_dot, each column waits for all positions.    *)
HeadDot(c) ==
  LET last == Len(c.layers) + 1
      X(p) == WithQ8({<<"xF", last, p>>})
  IN  IF c.multicol
        THEN Call({<<"head", last, 0>>}, "dot", HeadDeps(c),
                  UNION { X(p) : p \in 1 .. c.m },
                  { <<"lg", last, p>> : p \in 1 .. c.m }, 0)
        ELSE ForEach(c.m, LAMBDA p :
               Call({<<"headCol", last, p>>}, "dot", HeadDeps(c), X(p),
                    {<<"lg", last, p>>}, 0))
             \o FanInOf(<<"head", last, 0>>,
                        [p \in 1 .. c.m |-> <<"headCol", last, p>>])

TerminalCall(c) ==
  LET deps == IF c.cert THEN HeadDeps(c)
                        ELSE << <<"head", Len(c.layers) + 1, 0>> >>
  IN  Call({<<"done", 0, 0>>}, "terminal", deps, {}, {}, 0)

Layer(c, l) ==
  StageA(c, l) \o StageB(c, l) \o StageC(c, l) \o StageD(c, l) \o StageE(c, l)
    \o StageF(c, l) \o StageG(c, l) \o StageH(c, l)

Script(c) ==
  ForEach(Len(c.layers), LAMBDA l : Layer(c, l))
    \o FinalNorm(c)
    \o (IF c.cert THEN <<>> ELSE HeadDot(c))
    \o TerminalCall(c)

(* Buffers of the region that step_batch clears before each pass; the      *)
(* others are written in full by one task.                                 *)
UnclearedSlots ==   \* faulty: the shared projections of attention left out
  {"g", "u", "d", "rlog", "de", "geb", "ueb", "lg"}
Slots == {"qb", "kva", "kpe", "kvb", "ao", "g", "u", "d",
          "rlog", "de", "geb", "ueb", "lg"}
================================================================================
