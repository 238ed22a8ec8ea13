------------------------------- MODULE CpuDot -------------------------------
(***************************************************************************)
(* The CPU kernels of src/src/runtime/kernels.h: the 16-lane float dots,   *)
(* the SDOT kernels against both activation appendices, the kernels that   *)
(* share one unpacked row among activation columns, the SMMLA kernels over *)
(* row pairs, and the kernels that read int8 shadows.  The terms are those *)
(* of QuantLayout.                                                         *)
(***************************************************************************)
EXTENDS ShadowLayout

\* What the build targets: SDOT needs the dot product extension, SMMLA i8mm.
Isas == {"generic", "avx2", "neon", "dotprod", "i8mm"}
Neon(isa) == isa \in {"neon", "dotprod", "i8mm"}
Sdot(isa) == isa \in {"dotprod", "i8mm"}

\* A vector register is a function from its lanes.  Loads of consecutive
\* bytes, and the widening dot of two registers under a scale.
Load(at, n) == [i \in 0..(n - 1) |-> at + i]
VDot(k, w, x) == {<<k, w[i], x[i]>> : i \in DOMAIN w}
Lanes(x) == {x[i] : i \in DOMAIN x}

\* Sixteen activations of a q8_1 block, of a q8_K superblock.
VXQ(b, off) == [i \in 0..15 |-> XQ(b, off + i)]
VXK(sb, off) == [i \in 0..15 |-> XK(sb, off + i)]

-----------------------------------------------------------------------------
(* Float kernels *)

Add(a, b) == <<a, b>>

\* The final tree over sixteen lanes, per instruction set: from four registers
\* of four lanes, from two of eight, or from the array L.
HeadTree(isa) ==
    CASE Neon(isa) ->
           LET a == [q \in 0..3 |-> Load(4 * q, 4)]
               s == [j \in 0..3 |-> Add(Add(a[0][j], a[1][j]), Add(a[2][j], a[3][j]))]
           IN  Add(Add(s[0], s[1]), Add(s[2], s[3]))
      [] isa = "avx2" ->
           LET a01 == Load(0, 8)  a23 == Load(8, 8)
               t0 == [j \in 0..3 |-> Add(a01[j], a01[4 + j])]
               t1 == [j \in 0..3 |-> Add(a23[j], a23[4 + j])]
               s == [j \in 0..3 |-> Add(t0[j], t1[j])]
           IN  Add(Add(s[0], s[1]), Add(s[2], s[3]))
      [] OTHER ->
           LET s == [j \in 0..3 |-> Add(Add(j, 4 + j), Add(8 + j, 12 + j))]
           IN  Add(Add(s[0], s[1]), Add(s[2], s[3]))

\* Step t of the dot of n weights w[0..n-1] (each a set of <<scale, code>>)
\* with the activations from x0 on: sixteen lanes, and accumulator 16 for the
\* tail.  Dot c of a row has accumulators of its own.
FastStep(isa, c, w, x0, n, t) ==
    LET head == t <= 16 * (n \div 16)
    IN  Step(<<c, IF head THEN (t - 1) % 16 ELSE 16>>,
             IF head /\ isa # "generic" THEN "fma" ELSE "w*x,add",
             {<<p[1], p[2], XF(x0 + t - 1)>> : p \in w[t - 1]})

dot_row_fast(isa, w, x0, n) ==
    Tree(<<"head,tail", HeadTree(isa)>>, {0} \X (0..16),
         [t \in 1..n |-> FastStep(isa, 0, w, x0, n, t)])

\* Eight groups of four elements; group g feeds lanes 4 * (g % 4) ..
dot_row_fast_q8_0(isa, cols) ==
    Tree(<<"head", HeadTree(isa)>>, 0..15,
         [t \in 1..cols |->
            LET e == t - 1  b == e \div 32  g == (e % 32) \div 4  j == e % 4
            IN  Step(4 * (g % 4) + j, IF Neon(isa) THEN "fma(d*q)" ELSE "(d*q)*x,add",
                     {<<<<"d", b, 0>>, <<"q8", b, e % 32>>, XF(e)>>})])

\* Weights elem0 .. elem0 + n - 1, as dequantized into the buffer.  A codebook
\* row fills it with zeros.
dequant_chunk(f, elem0, n) ==
    LET b0 == elem0 \div fl_blk_elems(f)
    IN  [i \in 0..(n - 1) |->
          CASE f = "F32" -> {<<<<"one", 0, 0>>, <<"w", elem0 + i>>>>}
            [] f = "Q8_0" -> LET b == b0 + i \div 32 IN {<<<<"d", b, 0>>, <<"q8", b, i % 32>>>>}
            [] f = "Q5_0" ->
                 LET b == b0 + i \div 32  j == i % 16
                 IN  {<<<<"d", b, 0>>, Code5(b, j, i % 32 >= 16)>>, <<<<"-16d", b, 0>>, One>>}
            [] f = "Q4_K" ->
                 LET sb == b0 + i \div 256  j == (i % 256) \div 64  l == i % 32
                     hi == IF i % 64 < 32 THEN 0 ELSE 1
                 IN  {<<<<"d", sb, 2 * j + hi>>, Code4(sb, 32 * j + l, 4 * hi)>>,
                      <<<<"-dmin", sb, 2 * j + hi>>, One>>}
            [] f = "Q6_K" ->
                 LET sb == b0 + i \div 256  nn == (i % 256) \div 128
                     quarter == (i % 128) \div 32  l == i % 32
                     sc == 8 * nn + l \div 16 + 2 * quarter
                     lbyte == 64 * nn + l + (IF quarter % 2 = 1 THEN 32 ELSE 0)
                 IN  {<<<<"d", sb, sc>>,
                        Code6(sb, lbyte, IF quarter \in {0, 1} THEN 0 ELSE 4,
                              32 * nn + l, 2 * quarter)>>,
                      <<<<"-32d", sb, sc>>, One>>}
            [] OTHER -> {}]

\* Chunks of 256 columns, ascending, each a dot_row_fast of the buffer.
dot_row_fast_dequant(isa, f, cols) ==
    LET chunks == 0..((cols - 1) \div 256)
        n(c) == AtMost(256, cols - 256 * c)
        buf == [c \in chunks |-> dequant_chunk(f, 256 * c, n(c))]
    IN  Tree(<<"chunks", HeadTree(isa)>>, chunks \X (0..16),
             [u \in 1..cols |->
                LET c == (u - 1) \div 256
                IN  FastStep(isa, c, buf[c], 256 * c, n(c), u - 256 * c)])

-----------------------------------------------------------------------------
(* SDOT kernels, one column *)

VQ8(b, off) == [i \in 0..15 |-> <<"q8", b, off + i>>]

dot_i8_q8_0_neon(cols) ==
    fl_fold4([t \in 1..(cols \div 32) |->
        LET b == t - 1  d == <<"d", b, 0>>
        IN  Step(b % 4, "dw*dx", VDot(d, VQ8(b, 0), VXQ(b, 0)) \cup VDot(d, VQ8(b, 16), VXQ(b, 16)))])

\* Sixteen bytes of q4_K payload from byte at: low nibbles, high nibbles.
VLo(sb, at) == [i \in 0..15 |-> Code4(sb, at + i, 0)]
VHi(sb, at) == [i \in 0..15 |-> Code4(sb, at + i, 4)]

dot_i8_q4_K_neon_v1(cols) ==
    fl_fold4([t \in 1..(cols \div 16) |->
        LET b == (t - 1) \div 2  sb == b \div 8  g == b % 8  q == 32 * (g \div 2)
            w0 == IF g % 2 = 1 THEN VHi(sb, q) ELSE VLo(sb, q)
            w1 == IF g % 2 = 1 THEN VHi(sb, q + 16) ELSE VLo(sb, q + 16)
            x0 == VXQ(b, 0)  x1 == VXQ(b, 16)
        IN  IF t % 2 = 1
            THEN Step(g % 4, "(d*sc)*dx", VDot(<<"d", sb, g>>, w0, x0) \cup VDot(<<"d", sb, g>>, w1, x1))
            ELSE Step(g % 4, "-(dmin*mn)*dx",
                      Times(<<"-dmin", sb, g>>, Lanes(x0) \cup Lanes(x1)))])

\* xsum[b] and xd[b] are hoisted out of the row loop by the caller; a chunk of
\* 64 elements yields the dots and minima of groups 2c and 2c + 1.
xsum(b) == Lanes(VXQ(b, 0)) \cup Lanes(VXQ(b, 16))
dot_i8_q4_K_neon_v2(cols) ==
    fl_fold4([t \in 1..(cols \div 16) |->
        LET sb == (t - 1) \div 16  c == ((t - 1) % 16) \div 4  k == (t - 1) % 4
            b0 == 8 * sb + 2 * c  b1 == b0 + 1  q == 32 * c
            glo == (2 * c) % 4  ghi == (2 * c + 1) % 4
            ilo == VDot(<<"d", sb, 2 * c>>, VLo(sb, q), VXQ(b0, 0))
                   \cup VDot(<<"d", sb, 2 * c>>, VLo(sb, q + 16), VXQ(b0, 16))
            ihi == VDot(<<"d", sb, 2 * c + 1>>, VHi(sb, q), VXQ(b1, 0))
                   \cup VDot(<<"d", sb, 2 * c + 1>>, VHi(sb, q + 16), VXQ(b1, 16))
        IN  CASE k = 0 -> Step(glo, "(d*sc)*dx", ilo)
              [] k = 1 -> Step(glo, "-(dmin*mn)*dx", Times(<<"-dmin", sb, 2 * c>>, xsum(b0)))
              [] k = 2 -> Step(ghi, "(d*sc)*dx", ihi)
              [] k = 3 -> Step(ghi, "-(dmin*mn)*dx", Times(<<"-dmin", sb, 2 * c + 1>>, xsum(b1)))])

\* Sixteen q6_K codes of half h, span s, from the two byte arrays.
V6(sb, h, s, k16) ==
    [i \in 0..15 |-> Code6(sb, 64 * h + 32 * (s % 2) + 16 * k16 + i, IF s < 2 THEN 0 ELSE 4,
                           32 * h + 16 * k16 + i, CASE s = 0 -> 0 [] s = 1 -> 2 [] s = 2 -> 4 [] OTHER -> 6)]

dot_i8_q6_K_neon(cols) ==
    fl_fold4([t \in 1..(cols \div 16) |->
        LET sb == (t - 1) \div 16  ti == (t - 1) % 16
            h == ti \div 8  s == (ti % 8) \div 2  k16 == ti % 2
            xv == VXQ(8 * sb + 4 * h + s, 16 * k16)  sc == 8 * h + 2 * s + k16
        IN  Step(ti % 4, "d*dx", VDot(<<"d", sb, sc>>, V6(sb, h, s, k16), xv)
                                 \cup Times(<<"-32d", sb, sc>>, Lanes(xv)))])

-----------------------------------------------------------------------------
(***************************************************************************)
(* q8_K kernels.  iacc and imins of a superblock, from the four chunks of  *)
(* 64 elements; the fold is the same in every q4_K kernel, so it is stated *)
(* once.                                                                   *)
(***************************************************************************)
FoldK4(cols, iacc(_), imins(_)) ==
    fl_fold4([t \in 1..(cols \div 128) |->
        LET sb == (t - 1) \div 2
        IN  IF t % 2 = 1 THEN Step(sb % 4, "d*dk", iacc(sb))
            ELSE Step(sb % 4, "-(dmin*dk)", imins(sb))])

MinsOfChunk(sb, c) ==
    Times(<<"-dmin", sb, 2 * c>>, bsums(sb, 4 * c) \cup bsums(sb, 4 * c + 1))
    \cup Times(<<"-dmin", sb, 2 * c + 1>>, bsums(sb, 4 * c + 2) \cup bsums(sb, 4 * c + 3))

DotsOfChunk(sb, c) ==
    LET lo == <<"d", sb, 2 * c>>  hi == <<"d", sb, 2 * c + 1>>  q == 32 * c
    IN  VDot(lo, VLo(sb, q), VXK(sb, 64 * c)) \cup VDot(lo, VLo(sb, q + 16), VXK(sb, 64 * c + 16))
        \cup VDot(hi, VHi(sb, q), VXK(sb, 64 * c + 32))
        \cup VDot(hi, VHi(sb, q + 16), VXK(sb, 64 * c + 48))

dot_i8k_q4_K_neon(cols) ==
    LET iacc(sb) == UNION {DotsOfChunk(sb, c) : c \in 0..3}
        imins(sb) == UNION {MinsOfChunk(sb, c) : c \in 0..3}
    IN  FoldK4(cols, iacc, imins)

dot_i8k_q6_K_neon(cols) ==
    fl_fold4([t \in 1..(cols \div 256) |->
        LET sb == t - 1
        IN  Step(sb % 4, "d*dk",
              UNION {LET h == p[1]  s == p[2]  k16 == p[3]  sc == 8 * h + 2 * s + k16
                     IN  VDot(<<"d", sb, sc>>, V6(sb, h, s, k16), VXK(sb, 32 * (4 * h + s) + 16 * k16))
                         \cup Times(<<"-32d", sb, sc>>, bsums(sb, 2 * (4 * h + s) + k16))
                       : p \in (0..1) \X (0..3) \X (0..1)})])

-----------------------------------------------------------------------------
(***************************************************************************)
(* Kernels that unpack a row once for nx columns.  Their column loop runs  *)
(* inside the loop over blocks, with accumulators a4[p] of its own; what   *)
(* follows is the dot of one column p, whose activations are xk[p]'s.      *)
(***************************************************************************)
\* faulty: one accumulator
dot_i8_q8_0_neon_mc_one(cols) ==
    fl_fold4([b \in 1..(cols \div 32) |->
        Step(0, "dw*dx", VDot(<<"d", b - 1, 0>>, VQ8(b - 1, 0), VXQ(b - 1, 0))
                         \cup VDot(<<"d", b - 1, 0>>, VQ8(b - 1, 16), VXQ(b - 1, 16)))])

dot_i8_q8_0_neon_mc(cols) ==
    LET W(b) == <<VQ8(b, 0), VQ8(b, 16)>>
    IN  fl_fold4([t \in 1..(cols \div 32) |->
            LET b == t - 1
            IN  Step(b % 4, "dw*dx",
                     UNION {VDot(<<"d", b, 0>>, W(b)[k + 1], VXQ(b, 16 * k)) : k \in 0..1})])

dot_i8k_q4_K_neon_mc(cols) ==
    LET wl(sb, c) == <<VLo(sb, 32 * c), VLo(sb, 32 * c + 16)>>
        wh(sb, c) == <<VHi(sb, 32 * c), VHi(sb, 32 * c + 16)>>
        iacc(sb) == UNION {
            LET k == kc[1]  c == kc[2]
            IN  VDot(<<"d", sb, 2 * c>>, wl(sb, c)[k + 1], VXK(sb, 64 * c + 16 * k))
                \cup VDot(<<"d", sb, 2 * c + 1>>, wh(sb, c)[k + 1], VXK(sb, 64 * c + 32 + 16 * k))
              : kc \in (0..1) \X (0..3)}
        imins(sb) == UNION {MinsOfChunk(sb, c) : c \in 0..3}
    IN  FoldK4(cols, iacc, imins)

dot_i8k_q6_K_neon_mc(cols) ==
    fl_fold4([t \in 1..(cols \div 256) |->
        LET sb == t - 1
            idot(h, s, k16) == VDot(<<"d", sb, 8 * h + 2 * s + k16>>, V6(sb, h, s, k16),
                                    VXK(sb, 32 * (4 * h + s) + 16 * k16))
            bs(h, s, k16) == bsums(sb, 2 * (4 * h + s) + k16)
        IN  Step(sb % 4, "d*dk",
                 UNION {idot(u[1], u[2], u[3])
                        \cup Offset6(sb, u[1], u[2], u[3], bs(u[1], u[2], u[3]))
                          : u \in (0..1) \X (0..3) \X (0..1)})])

-----------------------------------------------------------------------------
(***************************************************************************)
(* SMMLA.  vmmlaq multiplies a 2x8 by an 8x2 matrix of bytes: lane 2i + j  *)
(* of the result adds A[8i + k] * B[8j + k].  A weight byte is <<row of    *)
(* the pair, code>>, an activation byte <<column, x>>.                     *)
(***************************************************************************)
vmmlaq(A, B, i, j) == {<<A[8 * i + k], B[8 * j + k]>> : k \in 0..7}

\* Those products with scale k, where they are of row h and column p; the
\* product of another row or column is "mixed".
Own(k, h, p, pairs) ==
    {IF ab[1][1] = h /\ ab[2][1] = p THEN <<k, ab[1][2], ab[2][2]>>
     ELSE <<<<"mixed", 0, 0>>, ab[1][2], ab[2][2]>> : ab \in pairs}

\* Byte n of the interleaved activations of a tile: planes of two columns, in
\* each of them groups of eight bytes of one column and of the other in turn.
fl_interleave_act_q8k(cols, n) ==
    LET cp == n \div (2 * cols)  sb == (n % (2 * cols)) \div 512  g == (n % 512) \div 16
    IN  <<2 * cp + ((n % 16) \div 8), XK(sb, 8 * g + (n % 8))>>

\* Row h of a row pair, column p.
dot_i8k_q4_K_neon_mc_smmla(cols, h, p) ==
    LET cp == p \div 2  pj == p % 2
        A(sb, c, n, shift) == [l \in 0..15 |->
            <<l \div 8, Code4(sb, 32 * c + 8 * n + (l % 8), shift)>>]
        B(sb, c, off) == [l \in 0..15 |->
            fl_interleave_act_q8k(cols, cp * cols * 2 + 512 * sb + 128 * c + off + l)]
        lo(sb, c) == UNION {vmmlaq(A(sb, c, n, 0), B(sb, c, 16 * n), h, pj) : n \in 0..3}
        hi(sb, c) == UNION {vmmlaq(A(sb, c, n, 4), B(sb, c, 64 + 16 * n), h, pj) : n \in 0..3}
        iacc(sb) == UNION {Own(<<"d", sb, 2 * c>>, h, p, lo(sb, c))
                           \cup Own(<<"d", sb, 2 * c + 1>>, h, p, hi(sb, c)) : c \in 0..3}
        imins(sb) == UNION {MinsOfChunk(sb, c) : c \in 0..3}
    IN  FoldK4(cols, iacc, imins)

-----------------------------------------------------------------------------
(* Shadow kernels *)

\* The scale the code forms from a float and a decoded byte of the header.
Scale(sb, float, byte) ==
    CASE float[1] = "d" /\ byte[1] = "sc" -> <<"d", sb, byte[2]>>
      [] float[1] = "dmin" /\ byte[1] = "mn" -> <<"-dmin", sb, byte[2]>>
      [] OTHER -> <<"mixed", 0, 0>>

dot_i8k_q4_K_shadow(isa, cols) ==
    LET o(sb) == fl_shadow_build_rows_q4k(sb)
        w(sb, at, n) == [i \in 0..(n - 1) |-> o(sb)[24 + at + i]]
        sc(sb, g) == Scale(sb, o(sb)[0], o(sb)[8 + g])
        mn(sb, g) == Scale(sb, o(sb)[4], o(sb)[16 + g])
        \* SDOT: chunks of 64, four loads; scalar: groups of 32
        iacc(sb) ==
            IF ~Sdot(isa)
            THEN UNION {VDot(sc(sb, g), w(sb, 64 * (g \div 2) + 32 * (g % 2), 32),
                             [i \in 0..31 |-> XK(sb, 32 * g + i)]) : g \in 0..7}
            ELSE UNION {VDot(sc(sb, 2 * c), w(sb, 64 * c, 16), VXK(sb, 64 * c))
                        \cup VDot(sc(sb, 2 * c), w(sb, 64 * c + 16, 16), VXK(sb, 64 * c + 16))
                        \cup VDot(sc(sb, 2 * c + 1), w(sb, 64 * c + 32, 16), VXK(sb, 64 * c + 32))
                        \cup VDot(sc(sb, 2 * c + 1), w(sb, 64 * c + 48, 16), VXK(sb, 64 * c + 48))
                          : c \in 0..3}
        imins(sb) == UNION {Times(mn(sb, g), bsums(sb, 2 * g) \cup bsums(sb, 2 * g + 1)) : g \in 0..7}
    IN  FoldK4(cols, iacc, imins)

\* Row h of a pair: the single column is duplicated into both halves of B, and
\* lanes 0 and 2 of the result are kept.
dot2_i8k_q4_K_shadow_smmla(cols, h) ==
    LET o(sb) == fl_shadow_build_rows_q4k_smmla(sb)
        header(sb, at) == IF o(sb)[24 * h + at][1] = h THEN o(sb)[24 * h + at][2] ELSE <<"mixed">>
        sc(sb, g) == Scale(sb, header(sb, 0), header(sb, 8 + g))
        mn(sb, g) == Scale(sb, header(sb, 4), header(sb, 16 + g))
        A(sb, g, c8) == [l \in 0..15 |-> o(sb)[48 + 16 * (4 * g + c8) + l]]
        B(sb, g, c8) == [l \in 0..15 |-> <<0, XK(sb, 32 * g + 8 * c8 + (l % 8))>>]
        iacc(sb) == UNION {Own(sc(sb, g), h, 0,
                               UNION {vmmlaq(A(sb, g, c8), B(sb, g, c8), h, 0) : c8 \in 0..3})
                             : g \in 0..7}
        imins(sb) == UNION {Times(mn(sb, g), bsums(sb, 2 * g) \cup bsums(sb, 2 * g + 1)) : g \in 0..7}
    IN  FoldK4(cols, iacc, imins)

dot_i8_q5_0_shadow(cols) ==
    fl_fold4([t \in 1..(cols \div 32) |->
        LET b == t - 1  o == fl_shadow_build_rows_q50(b)  d == <<o[0][1], b, 0>>
            w(at) == [i \in 0..15 |-> o[4 + at + i]]
        IN  Step(b % 4, "dw*dx",
                 VDot(d, w(0), VXQ(b, 0)) \cup VDot(d, w(16), VXQ(b, 16))
                 \cup Times(<<"-16d", b, 0>>, Lanes(VXQ(b, 0)) \cup Lanes(VXQ(b, 16))))])

-----------------------------------------------------------------------------
(***************************************************************************)
(* The attention score of one key, and the steps that enter element d of   *)
(* the context, over n keys: eight stripes left to right where the widths  *)
(* allow, else one accumulator.  NEON keeps the stripes in two registers.  *)
(***************************************************************************)
QK(d) == {<<<<"q", d, 0>>, <<"k", d>>, XF(d)>>}

fl_op_attn_head(dk, dv, n) ==
    LET striped == dk % 8 = 0 /\ dv % 4 = 0
        how == IF striped THEN "fma" ELSE "mul,add"
    IN  [score |-> IF striped
                   THEN Tree(<<"left", 0, 1, 2, 3, 4, 5, 6, 7>>, 0..7,
                             [t \in 1..dk |-> Step((t - 1) % 8, how, QK(t - 1))])
                   ELSE Tree(<<"0">>, {0}, [t \in 1..dk |-> Step(0, how, QK(t - 1))]),
         context |-> [d \in 0..(dv - 1) |-> [j \in 1..n |-> <<how, j, d>>]]]

fl_op_attn_head_neon(dk, dv, n) ==
    LET a == Load(0, 4)  b == Load(4, 4)
    IN  [score |-> Tree(<<"left", a[0], a[1], a[2], a[3], b[0], b[1], b[2], b[3]>>, Lanes(a) \cup Lanes(b),
                        [t \in 1..dk |->
                            LET d == 8 * ((t - 1) \div 8)  l == (t - 1) % 8
                            IN  Step(IF l < 4 THEN a[l] ELSE b[l - 4], "fma", QK(d + l))]),
         context |-> [d \in 0..(dv - 1) |-> [j \in 1..n |-> <<"fma", j, 4 * (d \div 4) + (d % 4)>>]]]

exec_attn_head(isa, dk, dv, n) ==
    IF Neon(isa) /\ dk % 8 = 0 /\ dv % 4 = 0
    THEN fl_op_attn_head_neon(dk, dv, n) ELSE fl_op_attn_head(dk, dv, n)

-----------------------------------------------------------------------------
(* Dispatch on the instruction set *)

dot_row_i8k(isa, f, cols) ==
    CASE Sdot(isa) /\ f = "Q4_K" -> dot_i8k_q4_K_neon(cols)
      [] Sdot(isa) /\ f = "Q6_K" -> dot_i8k_q6_K_neon(cols)
      [] OTHER -> fl_dot_i8k_any(f, cols)

dot_row_i8(isa, f, cols) ==
    CASE Sdot(isa) /\ f = "Q8_0" -> dot_i8_q8_0_neon(cols)
      [] Sdot(isa) /\ f = "Q4_K" -> dot_i8_q4_K_neon_v1(cols)
      [] Sdot(isa) /\ f = "Q6_K" -> dot_i8_q6_K_neon(cols)
      [] OTHER -> fl_dot_i8_any(f, cols)
=============================================================================
