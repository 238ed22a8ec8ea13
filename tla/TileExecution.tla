--------------------------- MODULE TileExecution ---------------------------
(***************************************************************************)
(* How a tile of a matrix is executed: the dispatch of exec_task_cpu       *)
(* (src/src/runtime/kernels.h), of exec_task_block (gpu_exec.cu) and of    *)
(* exec_task_scalar (runtime_internal.h) over the kernels of CpuDot and    *)
(* GpuDot.  A matrix of env.rows rows, or one expert of several, times     *)
(* env.nx activation columns is cut into tiles of any size, executed one   *)
(* by one; every tile takes the path its environment selects.              *)
(***************************************************************************)
EXTENDS CpuDot, GpuDot

CONSTANTS kMaxActBlocks,         \* blocks whose sums fit the v2 arrays
          kSmmlaScratchBytes,    \* bytes of interleaved activations
          BlockDim,              \* threads of a device block
          TileEnvs               \* the environments explored, a set of records

(***************************************************************************)
(* An environment: what was configured when the process started, the       *)
(* matrix and the activations.                                             *)
(*                                                                         *)
(*   engine, gpu_enabled, isa, fast, i8, i8k  the engine and its kernels   *)
(*   legacy, smmla                            FASTLLM_MC_LEGACY, _SMMLA    *)
(*   shadow                                   "off", or the layout asked   *)
(*   nt                                       threads that built it        *)
(*   f, cols, rows, experts, id, nx           the dot                      *)
(*   tiles                                    the tile sizes               *)
(***************************************************************************)
VARIABLES env, done, y

tvars == <<env, done, y>>

\* Which engine may take a dot tile: codebook tiles are the device's alone
\* where there is one, and the CPU's where there is none; others are stolen.
fl_task_queue(f, gpu_enabled) ==
    IF fl_fmt_is_codebook(f) THEN IF gpu_enabled THEN 3 ELSE 1
    ELSE IF gpu_enabled THEN 0 ELSE 1
Executors(f, gpu_enabled) ==
    CASE fl_task_queue(f, gpu_enabled) = 3 -> {"gpu"}
      [] gpu_enabled -> {"cpu", "gpu"}
      [] OTHER -> {"cpu"}

-----------------------------------------------------------------------------
(* Kernels, by name; hp, the row of a pair and the column, or a width *)

K(e, name, hp) == [name |-> name, engine |-> e.engine, isa |-> e.isa, f |-> e.f, cols |-> e.cols, hp |-> hp]

Kernel(k) ==
    CASE k.name = "canonical" -> fl_dot_row_any(k.f, k.cols)
      [] k.name = "fast" ->
           CASE k.f = "F32" -> dot_row_fast(k.isa, dequant_chunk("F32", 0, k.cols), 0, k.cols)
             [] k.f = "Q8_0" -> dot_row_fast_q8_0(k.isa, k.cols)
             [] OTHER -> dot_row_fast_dequant(k.isa, k.f, k.cols)
      [] k.name = "i8" -> dot_row_i8(k.isa, k.f, k.cols)
      [] k.name = "i8_q4_K_v2" -> dot_i8_q4_K_neon_v2(k.cols)
      [] k.name = "i8_q8_0_mc" -> dot_i8_q8_0_neon_mc(k.cols)
      [] k.name = "i8_q5_0_shadow" -> dot_i8_q5_0_shadow(k.cols)
      [] k.name = "i8k" -> dot_row_i8k(k.isa, k.f, k.cols)
      [] k.name = "i8k_mc" -> IF k.f = "Q4_K" THEN dot_i8k_q4_K_neon_mc(k.cols)
                              ELSE dot_i8k_q6_K_neon_mc(k.cols)
      [] k.name = "i8k_smmla" -> dot_i8k_q4_K_neon_mc_smmla(k.cols, k.hp[1], k.hp[2])
      [] k.name = "i8k_shadow" -> dot_i8k_q4_K_shadow(k.isa, k.cols)
      [] k.name = "i8k_shadow_pair" -> dot2_i8k_q4_K_shadow_smmla(k.cols, k.hp[1])
      [] k.name = "gdot_i8" -> gdot_i8(k.f, k.cols, FALSE, 1)
      [] k.name = "gdot_i8k" -> gdot_i8(k.f, k.cols, TRUE, 1)
      [] k.name = "gdot_i8k_unrolled" -> gdot_i8(k.f, k.cols, TRUE, 2)
      [] k.name = "gdot_i8k_q4_K_mc" -> gdot_i8k_q4_K_mc(k.cols)
      [] k.name = "gdot_fast" -> gdot_fast(k.f, k.cols)
      [] k.name = "colsplit" -> stream_dot_colsplit(k.cols, k.hp[1])

-----------------------------------------------------------------------------
(***************************************************************************)
(* A tile t = [w, rows]: its first row in the tensor and how many.  What   *)
(* an executor adds to y[r, p] is [k, row, col]: the kernel, the row of    *)
(* the tensor it reads and the activation column.                          *)
(***************************************************************************)
RowDot(k, row, col) == [k |-> k, row |-> row, col |-> col]

\* The shadow of the tensor, between the shadows of its neighbours in memory.
RowsTotal(e) == e.rows * e.experts
fl_shadow_layout_smmla(e) ==
    e.shadow = "smmla" /\ e.isa = "i8mm" /\ e.f = "Q4_K" /\ RowsTotal(e) % 2 = 0
TensorBase(e) == 2 * fl_row_bytes(e.f, e.cols)
Spans(e) ==
    LET prb == fl_row_bytes(e.f, e.cols)
        span(base, n) == [base |-> base, end |-> base + n * prb, packed_row_bytes |-> prb,
                          fmt |-> e.f, smmla |-> fl_shadow_layout_smmla(e)]
    IN  IF e.shadow = "off" THEN <<>>
        ELSE <<span(0, 2), span(TensorBase(e), RowsTotal(e)),
               span(TensorBase(e) + RowsTotal(e) * prb, 2)>>
Address(e, row) == TensorBase(e) + row * fl_row_bytes(e.f, e.cols)

\* The row whose shadow stands in slot u of span sp; -1 where it is another
\* tensor's or the middle of a pair.
ShadowRow(e, sp, u) ==
    IF sp.base # TensorBase(e) THEN -1
    ELSE RowInSlot(build_parallel(RowsTotal(e), e.nt, sp.smmla), u)

\* q8_K appendix: unpack-sharing kernels, then shadows, then packed rows.
exec_cpu_i8k(e, t, r, p) ==
    LET own(name, hp) == RowDot(K(e, name, hp), t.w + r, p)
        inPair == r < 2 * (t.rows \div 2)
        smmla == /\ e.f = "Q4_K" /\ e.isa = "i8mm" /\ e.smmla /\ e.nx % 2 = 0
                 /\ t.rows >= 2 /\ e.cols % 256 = 0 /\ e.nx * e.cols <= kSmmlaScratchBytes
        sp == fl_shadow_find(Spans(e), Address(e, t.w))
        r0i == fl_shadow_row_index(sp, Address(e, t.w))
    IN  IF Sdot(e.isa) /\ e.nx > 1 /\ ~e.legacy
        THEN IF smmla /\ inPair THEN own("i8k_smmla", <<r % 2, p>>) ELSE own("i8k_mc", <<>>)
        ELSE IF e.f # "Q4_K" \/ sp = NoSpan THEN own("i8k", <<>>)
        ELSE IF ~sp.smmla THEN RowDot(K(e, "i8k_shadow", <<>>), ShadowRow(e, sp, r0i + r), p)
        ELSE IF r0i % 2 = 0 /\ inPair
        THEN RowDot(K(e, "i8k_shadow_pair", <<r % 2>>),
                 ShadowRow(e, sp, fl_shadow_pair(r0i + r)) + (r % 2), p)
        ELSE own("i8k", <<>>)

\* q8_1 appendix.
exec_cpu_i8(e, t, r, p) ==
    LET own(name) == RowDot(K(e, name, <<>>), t.w + r, p)
        sp == fl_shadow_find(Spans(e), Address(e, t.w))
        v2 == e.f = "Q4_K" /\ e.cols \div 32 <= kMaxActBlocks
        shared == e.f = "Q8_0" /\ e.nx > 1 /\ ~e.legacy
    IN  IF Sdot(e.isa) /\ v2 THEN own("i8_q4_K_v2")
        ELSE IF Sdot(e.isa) /\ shared THEN own("i8_q8_0_mc")
        ELSE IF e.f = "Q5_0" /\ sp # NoSpan
        THEN RowDot(K(e, "i8_q5_0_shadow", <<>>),
                 ShadowRow(e, sp, fl_shadow_row(sp, Address(e, t.w)) + r), p)
        ELSE own("i8")

\* The codebook bits are cleared from the CPU's mask when the runtime starts.
CpuMask(e) == e.i8 /\ ~fl_fmt_is_codebook(e.f)

exec_task_cpu(e, t, r, p) ==
    IF ~e.fast THEN RowDot(K(e, "canonical", <<>>), t.w + r, p)
    ELSE IF e.f \in KFormats /\ e.i8k THEN exec_cpu_i8k(e, t, r, p)
    ELSE IF e.f # "F32" /\ CpuMask(e) THEN exec_cpu_i8(e, t, r, p)
    ELSE RowDot(K(e, "fast", <<>>), t.w + r, p)

\* A block of the device.
exec_task_block(e, t, r, p) ==
    LET own(name, hp) == RowDot(K(e, name, hp), t.w + r, p)
        k8 == e.f \in KFormats /\ e.i8k
        split == t.rows <= 64 /\ BlockDim \div t.rows >= 2
    IN  IF e.fast /\ e.nx > 1 /\ ~e.legacy /\ e.f = "Q4_K" /\ k8 THEN own("gdot_i8k_q4_K_mc", <<>>)
        ELSE IF e.fast /\ e.f # "F32" /\ (e.i8 \/ e.i8k)
        THEN own(IF k8 THEN "gdot_i8k" ELSE "gdot_i8", <<>>)
        ELSE IF e.fast /\ e.f = "F32" /\ split
        THEN own("colsplit", <<ColsplitThreads(BlockDim, t.rows)>>)
        ELSE IF e.fast /\ (e.f # "F32" \/ e.cols % 4 = 0) THEN own("gdot_fast", <<>>)
        ELSE own("canonical", <<>>)

exec_task(e, t, r, p) ==
    IF e.engine = "cpu" THEN exec_task_cpu(e, t, r, p) ELSE exec_task_block(e, t, r, p)

\* A row of the certified head: the kernel HeadCert calls in the decoder's
\* process.  With int8 dots and a head in another format it is switched off.
HeadCertRuns(e) == e.i8 \/ e.i8k => e.f \in KFormats
HeadDotMode(e) == IF e.i8 \/ e.i8k THEN "I8K" ELSE IF e.fast THEN "FAST_DEQ" ELSE "CANON"
dot_exact(e) ==
    CASE HeadDotMode(e) = "I8K" -> K(e, "i8k", <<>>)
      [] HeadDotMode(e) = "CANON" /\ e.f \in {"Q4_K", "Q6_K", "Q8_0"} -> K(e, "canonical", <<>>)
      [] OTHER -> K(e, "fast", <<>>)

-----------------------------------------------------------------------------
\* The weights of an indirect tile are those of the expert the router chose.
fl_idx_w(e, row) == e.id * e.rows + row

TileInit == env \in TileEnvs /\ done = 0 /\ y = <<>>

\* The next `size` rows, every column.
ExecuteTile(size) ==
    LET t == [w |-> fl_idx_w(env, done), rows |-> size]
        new == [rp \in (done..(done + size - 1)) \X (0..(env.nx - 1)) |->
                    exec_task(env, t, rp[1] - done, rp[2])]
    IN  /\ done + size <= env.rows
        /\ done' = done + size
        /\ y' = [rp \in (DOMAIN y) \cup (DOMAIN new) |->
                    IF rp \in DOMAIN new THEN new[rp] ELSE y[rp]]
        /\ UNCHANGED env

TileNext == \E size \in env.tiles : ExecuteTile(size)
TileSpec == TileInit /\ [][TileNext]_tvars

-----------------------------------------------------------------------------
(* What the kernels of the explored environments compute, tabulated once *)

\* The activations a dot reads: floats of the canonical or the fast kernels, or
\* blocks of one of the two appendices.
Path(e) ==
    IF ~e.fast THEN "canonical"
    ELSE IF e.f \in KFormats /\ e.i8k THEN "q8_K"
    ELSE IF e.f # "F32" /\ (IF e.engine = "cpu" THEN CpuMask(e) ELSE e.i8 \/ e.i8k) THEN "q8_1"
    ELSE "float"
BlockOf(path) == CASE path = "q8_1" -> 32 [] path = "q8_K" -> 256 [] OTHER -> 1

\* The kernel that defines the bits of a path: for the appendices the scalar
\* int8 reference on the CPU, and the single-column kernel on the device.
Reference(e) ==
    LET path == Path(e)  cpu == e.engine = "cpu"
    IN  CASE path = "canonical" -> K(e, "canonical", <<>>)
          [] path = "float" -> K(e, IF cpu THEN "fast" ELSE "gdot_fast", <<>>)
          [] path = "q8_1" -> K([e EXCEPT !.isa = "generic"], IF cpu THEN "i8" ELSE "gdot_i8", <<>>)
          [] path = "q8_K" -> K([e EXCEPT !.isa = "generic"],
                                IF cpu THEN "i8k" ELSE "gdot_i8k_unrolled", <<>>)

\* The kernels an engine has for a format, <<path, name, hp>>.
CpuKernels(f, isa) ==
    {<<"canonical", "canonical", <<>>>>, <<"float", "fast", <<>>>>}
    \cup (IF f = "F32" THEN {} ELSE {<<"q8_1", "i8", <<>>>>})
    \cup (IF f \in KFormats THEN {<<"q8_K", "i8k", <<>>>>} ELSE {})
    \cup (IF f \in KFormats /\ Sdot(isa) THEN {<<"q8_K", "i8k_mc", <<>>>>} ELSE {})
    \cup (IF f = "Q5_0" THEN {<<"q8_1", "i8_q5_0_shadow", <<>>>>} ELSE {})
    \cup (IF f = "Q8_0" /\ Sdot(isa) THEN {<<"q8_1", "i8_q8_0_mc", <<>>>>} ELSE {})
    \cup (IF f = "Q4_K" THEN {<<"q8_K", "i8k_shadow", <<>>>>} ELSE {})
    \cup (IF f = "Q4_K" /\ Sdot(isa) THEN {<<"q8_1", "i8_q4_K_v2", <<>>>>} ELSE {})
    \cup (IF f = "Q4_K" /\ isa = "i8mm"
          THEN {<<"q8_K", "i8k_smmla", <<h, p>>>> : h \in 0..1, p \in 0..3}
               \cup {<<"q8_K", "i8k_shadow_pair", <<h>>>> : h \in 0..1} ELSE {})
GpuKernels(f, widths) ==
    {<<"canonical", "canonical", <<>>>>, <<"float", "gdot_fast", <<>>>>}
    \cup (IF f = "F32" THEN {<<"float", "colsplit", <<n>>>> : n \in widths}
                             \cup {<<"float", "canonical", <<>>>>}
          ELSE {<<"q8_1", "gdot_i8", <<>>>>})
    \cup (IF f \in KFormats THEN {<<"q8_K", "gdot_i8k", <<>>>>} ELSE {})
    \cup (IF f = "Q4_K" THEN {<<"q8_K", "gdot_i8k_unrolled", <<>>>>,
                               <<"q8_K", "gdot_i8k_q4_K_mc", <<>>>>} ELSE {})

\* Those of the explored environments, <<kernel, path>>.
Kernels ==
    LET Widths == {ColsplitThreads(BlockDim, n) : n \in UNION {e.tiles : e \in TileEnvs}}
        Kinds == {[engine |-> e.engine, isa |-> e.isa, f |-> e.f, cols |-> e.cols] : e \in TileEnvs}
    IN  UNION {{<<K(s, n[2], n[3]), n[1]>> :
                    n \in IF s.engine = "cpu" THEN CpuKernels(s.f, s.isa) ELSE GpuKernels(s.f, Widths)}
                 : s \in Kinds}

ExactKernels ==
    {kp \in Kernels : Exact(Kernel(kp[1]), kp[1].f, kp[1].cols, BlockOf(kp[2]))}

\* The column split of the device depends on the rows of the tile, and its
\* float4 loop on the width: no two of its f32 kernels have the same bits.
Tolerant(e) == e.engine = "gpu" /\ e.f = "F32" /\ Path(e) = "float"

\* <<kernel, reference>> where the kernel has the bits of the reference.
BitwiseEqual ==
    UNION {LET ref == rp[1]
               v == Kernel(ref)
               Same == {kp \in Kernels : /\ kp[2] = rp[2]
                                         /\ <<kp[1].engine, kp[1].f, kp[1].cols>>
                                              = <<ref.engine, ref.f, ref.cols>>}
           IN  {<<kp[1], ref>> : kp \in {kp \in Same : Kernel(kp[1]) = v}}
             : rp \in {<<Reference(e), Path(e)>> : e \in {e \in TileEnvs : ~Tolerant(e)}}}

\* The formats, at the widths explored, whose layouts are sound; and the
\* instruction sets whose attention head has the bits of the canonical one.
SoundLayouts ==
    {fc \in {<<e.f, e.cols>> : e \in TileEnvs} :
        CanonicalIsAPacking(fc[1], fc[2]) /\ ScaleDecodersAgree /\ AppendicesFit(fc[2])}
SoundHeads ==
    {isa \in Isas : \A dk \in {12, 16, 24}, dv \in {6, 8} :
        exec_attn_head(isa, dk, dv, 2) = fl_op_attn_head(dk, dv, 2)}

-----------------------------------------------------------------------------
(* Properties *)

\* A codebook tile on the CPU's fast kernels: dequant_chunk has no codebook
\* case and fills its buffer with zeros.
FastCodebookOnCpu == env.engine = "cpu" /\ env.fast /\ fl_fmt_is_codebook(env.f)

\* Whatever the tiles, every element of the result is the dot of its own row
\* and its own activation column, and each product of that dot is added exactly
\* once: no tail row, half of a pair, misaligned expert, lane or chunk is lost
\* or taken from a neighbour.
TilesExact ==
    ~FastCodebookOnCpu =>
        \A rp \in (0..(done - 1)) \X (0..(env.nx - 1)) :
            /\ y[rp].row = fl_idx_w(env, rp[1])
            /\ y[rp].col = rp[2]
            /\ <<y[rp].k, Path(env)>> \in ExactKernels

\* Where PathsBitwise speaks of the certified head.
HeadRowsComparable ==
    /\ env.engine = "cpu" /\ HeadCertRuns(env) /\ ~fl_fmt_is_codebook(env.f)
    /\ CASE HeadDotMode(env) = "I8K" -> env.i8k
         [] HeadDotMode(env) = "CANON" -> env.f \in {"Q4_K", "Q6_K", "Q8_0"}
         [] OTHER -> TRUE

\* The optimised kernels keep the bits of the plain ones: over the int8
\* appendices the CPU's result is the scalar reference's whatever the
\* instruction set, the number of columns, the tile, SMMLA, legacy mode or
\* shadow; over floats it does not depend on tile or columns; the device's
\* multi-column kernel and its unrolled loop match the single-column loop.
\* The device's f32 tiles are exempt: their column split depends on the rows.
\* The vector attention head keeps the bits of the canonical one.  A row of the
\* certified head has the bits of the CPU's tile of that row; exempt are the
\* canonical mode over f32 and q5_0, where the tile is canonical and the row is
\* not, and a q8_K appendix switched off for the tiles alone.
PathsBitwise ==
    /\ \A rp \in DOMAIN y :
            Tolerant(env) \/ <<y[rp].k, Reference(env)>> \in BitwiseEqual
    /\ env.isa \in SoundHeads
    /\ HeadRowsComparable => <<dot_exact(env), Reference(env)>> \in BitwiseEqual

\* The layouts the dots and the builders share: a format gives every column one
\* code of its own, the two decoders of q4_K scales agree and use every bit,
\* and what ACT_Q8 appends fits its buffer.
FormatsUnpack == <<env.f, env.cols>> \in SoundLayouts

\* "With gpu_enabled == 0 they fall back to q[1]: the CPU's CANONICAL path
\* (fl_dot_row_any) does implement IQ2/IQ3 at ~5.5 Gw/s, so cpu-only runs stay
\* correct" (runtime_internal.h:159-161).
CodebookCpuOnlyExact ==
    fl_fmt_is_codebook(env.f) /\ ~env.gpu_enabled =>
        \A rp \in DOMAIN y : <<y[rp].k, Path(env)>> \in ExactKernels
=============================================================================
