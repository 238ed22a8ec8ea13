------------------------------- MODULE GpuDot -------------------------------
(***************************************************************************)
(* The device kernels of src/src/runtime/kernels_gpu.h and the column      *)
(* split of gpu_exec.cu.  A warp of 32 lanes computes the dot of one row:  *)
(* every lane runs its own steps, and a shuffle tree adds the lanes.  The  *)
(* terms are those of QuantLayout; accumulator <<i, a>> is accumulator a   *)
(* of the lane that is the i-th leaf of the tree.                          *)
(***************************************************************************)
EXTENDS QuantLayout

Warp == 0..31

\* A halving tree over n threads, n a power of two: for off = n/2, ..., 1 thread
\* l adds the value of thread l + off.  The threads whose values reach thread 0,
\* in the order they are added.
HalvingTree(n) ==
    LET v[off \in {2 ^ i : i \in 0..10}] ==
            IF off >= n THEN [l \in 0..(n - 1) |-> <<l>>]
            ELSE [l \in 0..(off - 1) |-> v[2 * off][l] \o v[2 * off][l + off]]
    IN  v[1][0]

\* Shuffles down by 16, 8, 4, 2, 1; lane 0 has the sum.
warp_reduce_add == HalvingTree(32)

\* The value of a row: the tree `name` of each lane's accumulators `accs`, the
\* lanes added as warp_reduce_add does.
WarpTree(name, accs, laneSteps) ==
    [tree |-> <<"warp", name, warp_reduce_add>>,
     chain |-> [ia \in (DOMAIN warp_reduce_add) \X accs |->
                    Chain(laneSteps[warp_reduce_add[ia[1]]], ia[2])]]

\* How many of lane, lane + n, lane + 2n, ... are below limit.
Strided(lane, n, limit) == IF lane < limit THEN (limit - lane + n - 1) \div n ELSE 0

-----------------------------------------------------------------------------
(* Float kernels, one accumulator per lane *)

\* Lane l takes every 32nd group of four columns; a remainder of cols is left.
gdot_f32(cols) ==
    WarpTree(<<"0">>, {0}, [lane \in Warp |->
        [t \in 1..(4 * Strided(lane, 32, cols \div 4)) |->
            LET e == 4 * (lane + 32 * ((t - 1) \div 4)) + ((t - 1) % 4)
            IN  Step(0, "w*x", {<<<<"one", 0, 0>>, <<"w", e>>, XF(e)>>})]])

gdot_q8_0(cols) ==
    WarpTree(<<"0">>, {0}, [lane \in Warp |->
        [t \in 1..(cols \div 32) |->
            LET b == t - 1
            IN  Step(0, "(d*q)*x", {<<<<"d", b, 0>>, <<"q8", b, lane>>, XF(32 * b + lane)>>})]])

gdot_q5_0(cols) ==
    WarpTree(<<"0">>, {0}, [lane \in Warp |->
        [t \in 1..(cols \div 32) |->
            LET b == t - 1  j == lane % 16  high == lane >= 16
                x == XF(32 * b + j + (IF high THEN 16 ELSE 0))
            IN  Step(0, "(d*v)*x", {<<<<"d", b, 0>>, Code5(b, j, high), x>>,
                                    <<<<"-16d", b, 0>>, One, x>>})]])

\* Per chunk of 64 columns lane l takes columns l and 32 + l.
gdot_q4_K(cols) ==
    WarpTree(<<"0">>, {0}, [lane \in Warp |->
        [t \in 1..(cols \div 32) |->
            LET sb == (t - 1) \div 8  c == ((t - 1) % 8) \div 2  hi == (t - 1) % 2
                x == XF(256 * sb + 64 * c + 32 * hi + lane)
            IN  Step(0, "(d*q-m)*x",
                     {<<<<"d", sb, 2 * c + hi>>, Code4(sb, 32 * c + lane, 4 * hi), x>>,
                      <<<<"-dmin", sb, 2 * c + hi>>, One, x>>})]])

\* Per half of 128 columns lane l takes columns l, l + 32, l + 64, l + 96.
gdot_q6_K(cols) ==
    WarpTree(<<"0">>, {0}, [lane \in Warp |->
        [t \in 1..(cols \div 32) |->
            LET sb == (t - 1) \div 8  h == ((t - 1) % 8) \div 4  s == (t - 1) % 4
                sc == 8 * h + (lane \div 16) + 2 * s
                x == XF(256 * sb + 128 * h + 32 * s + lane)
            IN  Step(0, "(d*sc*(q-32))*x",
                     {<<<<"d", sb, sc>>,
                        Code6(sb, 64 * h + lane + (IF s % 2 = 1 THEN 32 ELSE 0),
                              IF s < 2 THEN 0 ELSE 4, 32 * h + lane, 2 * s), x>>,
                      <<<<"-32d", sb, sc>>, One, x>>})]])

\* One column of a chunk of 32 per lane.
gdot_iq2_xxs(cols) ==
    WarpTree(<<"0">>, {0}, [lane \in Warp |->
        [t \in 1..(cols \div 32) |->
            LET sb == (t - 1) \div 8  ib32 == (t - 1) % 8  l == lane \div 8  jj == lane % 8
            IN  Step(0, "(db*v)*x",
                     {<<<<"d", sb, ib32>>, CodeIq("iq2", sb, 8 * ib32 + l, jj, ib32, l, jj),
                        XF(256 * sb + 32 * ib32 + lane)>>})]])

gdot_iq3_xxs(cols) ==
    WarpTree(<<"0">>, {0}, [lane \in Warp |->
        [t \in 1..(cols \div 32) |->
            LET sb == (t - 1) \div 8  ib32 == (t - 1) % 8  quad == lane \div 4  jj == lane % 4
            IN  Step(0, "(db*v)*x",
                     {<<<<"d", sb, ib32>>,
                        CodeIq("iq3", sb, 8 * ib32 + quad, jj, ib32, quad \div 2, 4 * (quad % 2) + jj),
                        XF(256 * sb + 32 * ib32 + lane)>>})]])

gdot_fast(f, cols) ==
    CASE f = "F32" -> gdot_f32(cols)
      [] f = "Q8_0" -> gdot_q8_0(cols)
      [] f = "Q5_0" -> gdot_q5_0(cols)
      [] f = "Q4_K" -> gdot_q4_K(cols)
      [] f = "Q6_K" -> gdot_q6_K(cols)
      [] f = "IQ2_XXS" -> gdot_iq2_xxs(cols)
      [] f = "IQ3_XXS" -> gdot_iq3_xxs(cols)

-----------------------------------------------------------------------------
(***************************************************************************)
(* dp4a kernels.  A lane multiplies quads: four weights w[0..3] by the     *)
(* activations x[0..3], all under scale k.                                 *)
(***************************************************************************)
Quad == 0..3
dp4a(k, w, x) == {<<k, w[i], x[i]>> : i \in Quad}
QuadXQ(b, k) == [i \in Quad |-> XQ(b, 4 * k + i)]
QuadXK(sb, at, k) == [i \in Quad |-> XK(sb, at + 4 * k + i)]
SumOf(x) == {x[i] : i \in Quad}

\* Four blocks of eight quads per iteration, whose number selects the
\* accumulator.
gdot_i8_q8_0(cols) ==
    WarpTree(<<"(0+1)+(2+3)">>, 0..3, [lane \in Warp |->
        LET bg == lane \div 8  k == lane % 8
        IN  [t \in 1..Strided(bg, 4, cols \div 32) |->
                LET it == t - 1  b == 4 * it + bg
                IN  Step(it % 4, "dw*dx",
                         dp4a(<<"d", b, 0>>, [i \in Quad |-> <<"q8", b, 4 * k + i>>], QuadXQ(b, k)))]])

\* Eight blocks of four quads, low nibbles with the block's first sixteen
\* activations and high nibbles with the others; the fifth bits are spread.
gdot_i8_q5_0(cols) ==
    WarpTree(<<"0+1">>, 0..1, [lane \in Warp |->
        LET bg == lane \div 4  k == lane % 4
        IN  [t \in 1..Strided(bg, 8, cols \div 32) |->
                LET it == t - 1  b == 8 * it + bg
                    wlo == [i \in Quad |-> <<"q5", b, 4 * k + i, 0, 4 * k + i>>]
                    whi == [i \in Quad |-> <<"q5", b, 4 * k + i, 4, 16 + 4 * k + i>>]
                    xlo == QuadXQ(b, k)  xhi == QuadXQ(b, 4 + k)
                IN  Step(it % 2, "dw*dx",
                         dp4a(<<"d", b, 0>>, wlo, xlo) \cup dp4a(<<"d", b, 0>>, whi, xhi)
                         \cup Times(<<"-16d", b, 0>>, SumOf(xlo) \cup SumOf(xhi)))]])

\* Quad k of chunk c of a q4_K payload: the low or the high nibbles.
Quad4(sb, c, k, shift) == [i \in Quad |-> Code4(sb, 32 * c + 4 * k + i, shift)]

\* A lane is a quad of a chunk; its four terms go to four accumulators.
gdot_i8_q4_K_v1(cols) ==
    WarpTree(<<"(0+1)+(2+3)">>, 0..3, [lane \in Warp |->
        LET c == lane \div 8  k == lane % 8
        IN  [t \in 1..(cols \div 64) |->
                LET sb == (t - 1) \div 4  a == (t - 1) % 4  g == 2 * c + a \div 2
                    x == QuadXQ(8 * sb + g, k)
                IN  IF a % 2 = 0
                    THEN Step(a, "d*sc*dx", dp4a(<<"d", sb, g>>, Quad4(sb, c, k, 4 * (a \div 2)), x))
                    ELSE Step(a, "-(dmin*mn)*dx", Times(<<"-dmin", sb, g>>, SumOf(x)))]])

\* The leader of each eight lanes decodes the scales for all and adds both
\* minima, from the block sum s = d * sum of the appendix.
gdot_i8_q4_K(cols) ==
    WarpTree(<<"0">>, {0}, [lane \in Warp |->
        LET c == lane \div 8  k == lane % 8  perSb == IF k = 0 THEN 4 ELSE 2
        IN  [t \in 1..(perSb * (cols \div 256)) |->
                LET sb == (t - 1) \div perSb  u == (t - 1) % perSb  g == 2 * c + (u % 2)
                    b == 8 * sb + g
                IN  IF u < 2
                    THEN Step(0, "d*sc*dx",
                              dp4a(<<"d", sb, g>>, Quad4(sb, c, k, 4 * u), QuadXQ(b, k)))
                    ELSE Step(0, "-(dmin*mn)*s", Times(<<"-dmin", sb, g>>, {XQ(b, i) : i \in 0..31}))]])

\* Quad k of span s in half h of a q6_K payload, and the index of its scale.
Quad6(sb, h, s, k) ==
    [i \in Quad |-> Code6(sb, 64 * h + 32 * (s % 2) + 4 * k + i, IF s < 2 THEN 0 ELSE 4,
                          32 * h + 4 * k + i, 2 * s)]
Scale6(h, s, k) == 8 * h + 2 * s + (IF k >= 4 THEN 1 ELSE 0)

gdot_i8_q6_K(cols) ==
    WarpTree(<<"(0+1)+(2+3)">>, 0..3, [lane \in Warp |->
        LET s == lane \div 8  k == lane % 8
        IN  [t \in 1..(cols \div 128) |->
                LET sb == (t - 1) \div 2  h == (t - 1) % 2  sc == Scale6(h, s, k)
                    x == QuadXQ(8 * sb + 4 * h + s, k)
                IN  Step((2 * sb + h) % 4, "dw*dx",
                         dp4a(<<"d", sb, sc>>, Quad6(sb, h, s, k), x)
                         \cup Times(<<"-32d", sb, sc>>, SumOf(x)))]])

-----------------------------------------------------------------------------
(* q8_K kernels *)

\* The steps of lane <<c, k>> for superblock sb; the minima are the leader's.
Dots4K(sb, c, k) ==
    Step(0, "d*dk", dp4a(<<"d", sb, 2 * c>>, Quad4(sb, c, k, 0), QuadXK(sb, 64 * c, k))
                    \cup dp4a(<<"d", sb, 2 * c + 1>>, Quad4(sb, c, k, 4), QuadXK(sb, 64 * c + 32, k)))
Mins4K(sb, c) ==
    Step(1, "-(dmin*dk)",
         Times(<<"-dmin", sb, 2 * c>>, bsums(sb, 4 * c) \cup bsums(sb, 4 * c + 1))
         \cup Times(<<"-dmin", sb, 2 * c + 1>>, bsums(sb, 4 * c + 2) \cup bsums(sb, 4 * c + 3)))

\* Superblocks are taken U at a time (FASTLLM_Q4K_UNROLL), their payload loaded
\* before any is folded, and the rest one at a time.
gdot_i8k_q4_K(cols, U) ==
    LET nsb == cols \div 256
        full == U * (nsb \div U)
        order == [t \in 1..nsb |-> IF t <= full THEN U * ((t - 1) \div U) + ((t - 1) % U) ELSE t - 1]
    IN  WarpTree(<<"0+1">>, 0..1, [lane \in Warp |->
            LET c == lane \div 8  k == lane % 8
            IN  IF k = 0
                THEN [t \in 1..(2 * nsb) |->
                        LET sb == order[(t + 1) \div 2]
                        IN  IF t % 2 = 1 THEN Dots4K(sb, c, k) ELSE Mins4K(sb, c)]
                ELSE [t \in 1..nsb |-> Dots4K(order[t], c, k)]])

\* The lane adds both halves of a superblock in one integer; the first lane of
\* each scale group of sixteen subtracts the offset of the group.
gdot_i8k_q6_K(cols) ==
    WarpTree(<<"0">>, {0}, [lane \in Warp |->
        LET s == lane \div 8  k == lane % 8
        IN  [t \in 1..(cols \div 256) |->
                LET sb == t - 1
                    part(h) ==
                        LET sc == Scale6(h, s, k)
                        IN  dp4a(<<"d", sb, sc>>, Quad6(sb, h, s, k), QuadXK(sb, 32 * (4 * h + s), k))
                            \cup (IF k % 4 = 0
                                  THEN Times(<<"-32d", sb, sc>>, bsums(sb, 2 * (4 * h + s) + k \div 4))
                                  ELSE {})
                IN  Step(0, "dw*dk", part(0) \cup part(1))]])

\* Column p: columns run in chunks of four, accumulators a0[pp] and a1[pp].
\* The tree of column p uses the pair pp = p % 4 of the chunk.
gdot_i8k_q4_K_mc(cols) ==
    WarpTree(<<"0+1">>, 0..1, [lane \in Warp |->
        LET c == lane \div 8  k == lane % 8
            steps[n \in 0..(cols \div 256)] ==
                IF n = 0 THEN <<>>
                ELSE steps[n - 1] \o <<Dots4K(n - 1, c, k)>>
                                  \o (IF k = 0 THEN <<Mins4K(n - 1, c)>> ELSE <<>>)
        IN  steps[cols \div 256]])

-----------------------------------------------------------------------------
(* Codebook kernels: four chunks of eight quads, twice per superblock *)

gdot_i8_iq2_xxs(cols) ==
    WarpTree(<<"0+1">>, 0..1, [lane \in Warp |->
        LET ib == lane \div 8  k == lane % 8  l == k \div 2  sel == k % 2
        IN  [t \in 1..(cols \div 128) |->
                LET sb == (t - 1) \div 2  half == (t - 1) % 2  ib32 == 4 * half + ib
                    w == [i \in Quad |->
                            CodeIq("iq2", sb, 8 * ib32 + l, 4 * sel + i, ib32, l, 4 * sel + i)]
                IN  Step(half, "db*dx", dp4a(<<"d", sb, ib32>>, w, QuadXQ(8 * sb + ib32, k)))]])

gdot_i8_iq3_xxs(cols) ==
    WarpTree(<<"0+1">>, 0..1, [lane \in Warp |->
        LET ib == lane \div 8  k == lane % 8
        IN  [t \in 1..(cols \div 128) |->
                LET sb == (t - 1) \div 2  half == (t - 1) % 2  ib32 == 4 * half + ib
                    w == [i \in Quad |->
                            CodeIq("iq3", sb, 8 * ib32 + k, i, ib32, k \div 2, 4 * (k % 2) + i)]
                IN  Step(half, "db*dx", dp4a(<<"d", sb, ib32>>, w, QuadXQ(8 * sb + ib32, k)))]])

gdot_i8(f, cols, i8k, U) ==
    CASE f = "Q4_K" /\ i8k -> gdot_i8k_q4_K(cols, U)
      [] f = "Q6_K" /\ i8k -> gdot_i8k_q6_K(cols)
      [] f = "Q8_0" -> gdot_i8_q8_0(cols)
      [] f = "Q5_0" -> gdot_i8_q5_0(cols)
      [] f = "Q4_K" /\ ~i8k -> gdot_i8_q4_K_v1(cols)
      [] f = "Q6_K" /\ ~i8k -> gdot_i8_q6_K(cols)
      [] f = "IQ2_XXS" -> gdot_i8_iq2_xxs(cols)
      [] f = "IQ3_XXS" -> gdot_i8_iq3_xxs(cols)
      [] f = "F32" -> gdot_f32(cols)

-----------------------------------------------------------------------------
(***************************************************************************)
(* stream_dot_colsplit: tpr threads per row, each a stripe of columns, then *)
(* a tree in shared memory.  rows must not exceed blockDim.                *)
(***************************************************************************)
ColsplitThreads(blockDim, rows) ==
    CHOOSE p \in {2 ^ n : n \in 0..10} : p <= blockDim \div rows /\ 2 * p > blockDim \div rows

stream_dot_colsplit(cols, tpr) ==
    LET order == HalvingTree(tpr)
    IN  [tree |-> <<"block", order>>,
         chain |-> [i \in DOMAIN order |->
            [t \in 1..Strided(order[i], tpr, cols) |->
                LET e == order[i] + tpr * (t - 1)
                IN  Step(i, "w*x", {<<<<"one", 0, 0>>, <<"w", e>>, XF(e)>>})]]]
=============================================================================
