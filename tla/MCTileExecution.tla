-------------------------- MODULE MCTileExecution --------------------------
(***************************************************************************)
(* TileExecution for TLC: the environments.  Rows are few and odd, so that *)
(* tails, half pairs and odd experts occur; columns are the fewest that    *)
(* have several blocks, a partial chunk and, for floats, a tail.           *)
(***************************************************************************)
EXTENDS TileExecution

Plain == [engine |-> "cpu", gpu_enabled |-> TRUE, isa |-> "generic", fast |-> TRUE,
          i8 |-> FALSE, i8k |-> FALSE, legacy |-> FALSE, smmla |-> FALSE, shadow |-> "off",
          nt |-> 1, f |-> "F32", cols |-> 37, rows |-> 5, experts |-> 1, id |-> 0, nx |-> 1,
          tiles |-> {1, 2, 3}]

\* Widths: floats with and without a multiple of four, nine blocks of 32, and
\* two or three superblocks of 256.
Widths(f) == CASE f = "F32" -> {36, 37}
               [] f \in {"Q8_0", "Q5_0"} -> {288}
               [] f = "Q4_K" -> {512, 768}
               [] OTHER -> {512}

Canonical1 == {[Plain EXCEPT !.fast = FALSE, !.f = f, !.cols = c, !.nx = nx] :
                 f \in Formats, c \in {288, 512}, nx \in 1..2}
CanonicalEnvs == {e \in Canonical1 : e.cols \in Widths(e.f) \/ (e.f = "F32" /\ e.cols = 288)}

CpuFloats ==
    {[Plain EXCEPT !.isa = isa, !.f = f, !.cols = c, !.nx = nx, !.legacy = lg] :
        isa \in {"generic", "avx2", "neon"}, f \in {"F32", "Q8_0", "Q5_0", "Q4_K", "Q6_K"},
        c \in {36, 37, 288, 512}, nx \in 1..2, lg \in BOOLEAN}
CpuFloatEnvs == {e \in CpuFloats : e.cols \in Widths(e.f)}

\* A cpu-only runtime may be handed codebook rows.
CodebookEnvs == {[Plain EXCEPT !.gpu_enabled = FALSE, !.f = f, !.cols = 512, !.fast = fast, !.i8 = i8] :
                   f \in {"IQ2_XXS", "IQ3_XXS"}, fast \in BOOLEAN, i8 \in BOOLEAN}

Cpu32Envs ==
    {[Plain EXCEPT !.isa = isa, !.f = f, !.cols = 288, !.i8 = TRUE, !.nx = nx, !.legacy = lg,
                   !.shadow = sh, !.nt = nt] :
        isa \in {"generic", "dotprod"}, f \in {"Q8_0", "Q5_0"}, nx \in {1, 3}, lg \in BOOLEAN,
        sh \in {"off", "plain"}, nt \in {1, 2}}

\* Experts of odd height start in the middle of a pair; a single one of odd
\* height keeps the plain layout.
CpuK ==
    {[Plain EXCEPT !.isa = isa, !.f = f, !.cols = c, !.i8 = i8, !.i8k = i8k, !.nx = nx,
                   !.legacy = lg, !.smmla = sm, !.shadow = sh, !.nt = nt, !.experts = x[1], !.id = x[2]] :
        isa \in {"generic", "dotprod", "i8mm"}, f \in KFormats, c \in {512, 768},
        i8 \in BOOLEAN, i8k \in BOOLEAN, nx \in {1, 2, 3, 4}, lg \in BOOLEAN, sm \in BOOLEAN,
        sh \in {"off", "plain", "smmla"}, nt \in {1, 2}, x \in {<<1, 0>>, <<2, 0>>, <<2, 1>>}}
CpuKEnvs == {e \in CpuK : /\ e.cols \in Widths(e.f)
                          /\ e.i8 \/ e.i8k
                          /\ e.smmla => e.isa = "i8mm" /\ e.nx > 1 /\ e.i8k
                          /\ e.shadow = "smmla" => e.isa = "i8mm"
                          /\ e.shadow # "off" => e.f = "Q4_K" /\ e.i8k /\ e.nx \in {1, 2}
                          /\ e.shadow = "off" => e.nt = 1 /\ e.experts = 1
                          /\ e.nx = 1 => ~e.legacy}

Gpu ==
    {[Plain EXCEPT !.engine = "gpu", !.f = f, !.cols = c, !.fast = fast, !.i8 = i8, !.i8k = i8k,
                   !.nx = nx, !.legacy = lg] :
        f \in Formats, c \in {36, 37, 288, 512, 768}, fast \in BOOLEAN, i8 \in BOOLEAN,
        i8k \in BOOLEAN, nx \in {1, 2}, lg \in BOOLEAN}
GpuSmall == {e \in Gpu : e.cols \in Widths(e.f) /\ (e.i8k => e.f \in KFormats)}
\* Tiles too high for the column split.
GpuEnvs == GpuSmall \cup {[e EXCEPT !.rows = 70, !.tiles = {6, 64, 70}] :
                            e \in {e \in GpuSmall : e.f = "F32" /\ e.nx = 1 /\ ~e.legacy /\ ~e.i8}}

MCTileEnvs == {e \in CanonicalEnvs \cup CpuFloatEnvs \cup CodebookEnvs \cup Cpu32Envs \cup CpuKEnvs \cup GpuEnvs :
                 e.engine \in Executors(e.f, e.gpu_enabled)}
=============================================================================
