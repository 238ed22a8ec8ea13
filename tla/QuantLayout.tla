---------------------------- MODULE QuantLayout ----------------------------
(***************************************************************************)
(* The quantized weight formats of src/src/runtime/quants.h, the           *)
(* activation appendices, and the scalar reference dots.                   *)
(*                                                                         *)
(* Numbers are abstracted to where they come from.  A weight is a scale    *)
(* and a code, both named by the bits of the block they are unpacked from; *)
(* an activation is named by its column and by the appendix block whose    *)
(* scale multiplies it.  A product is a triple <<scale, code, activation>>; *)
(* an integer sum, exact and therefore free of order, is a SET of          *)
(* products.  A float accumulation keeps its order: a kernel is the        *)
(* sequence of its fused multiply-adds, each a step                        *)
(*                                                                         *)
(*     [acc |-> the accumulator, how |-> the factor as the code            *)
(*      associates it, sum |-> the products of the integer operand]        *)
(*                                                                         *)
(* in program order.  Two kernels are bitwise equal when every accumulator *)
(* sees the same steps in the same order, and compute the same real number *)
(* when they add the same products.                                        *)
(***************************************************************************)
EXTENDS Integers, Sequences, FiniteSets

Formats == {"F32", "Q8_0", "Q5_0", "Q4_K", "Q6_K", "IQ2_XXS", "IQ3_XXS"}
KFormats == {"Q4_K", "Q6_K"}

fl_fmt_is_codebook(f) == f \in {"IQ2_XXS", "IQ3_XXS"}

fl_blk_elems(f) == CASE f = "F32" -> 1
                     [] f \in {"Q8_0", "Q5_0"} -> 32
                     [] OTHER -> 256

fl_blk_bytes(f) == [F32 |-> 4, Q8_0 |-> 34, Q5_0 |-> 22, Q4_K |-> 144,
                    Q6_K |-> 210, IQ2_XXS |-> 66, IQ3_XXS |-> 98][f]

fl_row_bytes(f, cols) == (cols \div fl_blk_elems(f)) * fl_blk_bytes(f)

(***************************************************************************)
(* The twelve bytes of q4_K scales: eight 6-bit scales and eight 6-bit     *)
(* minima.  A decoded value is its six bits, each <<byte, bit>>.           *)
(***************************************************************************)
SixBits(j) == [k \in 0..5 |-> <<j, k>>]
Nibble2(lowByte, lowShift, highByte) ==
    [k \in 0..5 |-> IF k < 4 THEN <<lowByte, lowShift + k>> ELSE <<highByte, k + 2>>]

\* faulty: the high bits of a minimum come from the scale's byte
fl_q4k_scale_min_low(j) ==
    IF j < 4 THEN [d |-> SixBits(j), m |-> SixBits(j + 4)]
    ELSE [d |-> Nibble2(j + 4, 0, j - 4), m |-> Nibble2(j + 4, 4, j - 4)]

fl_q4k_scale_min(j) ==
    IF j < 4 THEN [d |-> SixBits(j), m |-> SixBits(j + 4)]
    ELSE [d |-> Nibble2(j + 4, 0, j - 4), m |-> Nibble2(j + 4, 4, j)]

\* All eight pairs at once.
fl_q4k_scales_all ==
    [d |-> [j \in 0..7 |-> IF j < 4 THEN SixBits(j) ELSE Nibble2(j + 4, 0, j - 4)],
     m |-> [j \in 0..7 |-> IF j < 4 THEN SixBits(j + 4) ELSE Nibble2(j + 4, 4, j)]]

-----------------------------------------------------------------------------
(***************************************************************************)
(* The activation buffer: the floats, then the q8_1 blocks, then the q8_K  *)
(* superblocks, in bytes.  ACT_Q8 writes the complete ones of both.        *)
(***************************************************************************)
Pad16(n) == 16 * ((n + 15) \div 16)

fl_xq_bytes(cols) == (cols \div 32) * 36
fl_xq_of(cols) == Pad16(4 * cols)
fl_xqk_of(cols) == fl_xq_of(cols) + Pad16(fl_xq_bytes(cols))
fl_x_alloc_bytes(cols) == fl_xqk_of(cols) + (cols \div 256) * 292

\* The bytes ACT_Q8 writes: blocks of 36, superblocks of 292.
fl_exec_act_q8(cols) ==
    {<<fl_xq_of(cols) + 36 * b, 36>> : b \in 0..(cols \div 32 - 1)}
    \cup {<<fl_xqk_of(cols) + 292 * sb, 292>> : sb \in 0..(cols \div 256 - 1)}

-----------------------------------------------------------------------------
(* Steps and products *)

Step(acc, how, sum) == [acc |-> acc, how |-> how, sum |-> sum]

\* The code of the constant 1 (an activation summed without a weight).
One == <<"one">>

\* What the fused multiply-adds of one accumulator are, in order.
Chain(steps, a) == LET Mine(s) == s.acc = a IN SelectSeq(steps, Mine)

\* The value a kernel computes, as an expression: the chains that enter its
\* final tree.  Steps into any other accumulator are lost.
Tree(name, accs, steps) == [tree |-> name, chain |-> [a \in accs |-> Chain(steps, a)]]

fl_fold4(steps) == Tree(<<"(0+1)+(2+3)">>, 0..3, steps)
Serial(steps) == Tree(<<"0">>, {0}, steps)

\* The products of an expression, and where each is added.
Occurrences(expr) ==
    UNION {UNION {{<<a, i, p>> : p \in expr.chain[a][i].sum} : i \in DOMAIN expr.chain[a]}
             : a \in DOMAIN expr.chain}
Products(expr) == {o[3] : o \in Occurrences(expr)}

\* A float activation, one with the scale of its q8_1 block of 32, and one
\* with the scale of its q8_K superblock of 256.
XF(i) == <<i, i>>
XQ(b, i) == <<b, 32 * b + i>>
XK(sb, i) == <<sb, 256 * sb + i>>

\* bsums[g] of superblock sb: the activations fl_quantize_q8_K_block sums into it.
bsums(sb, g) == {XK(sb, 16 * g + i) : i \in 0..15}

\* k times each activation of xs.
Times(k, xs) == {<<k, One, x>> : x \in xs}

-----------------------------------------------------------------------------
(***************************************************************************)
(* The canonical dots: one accumulator, elements ascending.  These define  *)
(* which bits of a block are the weight of column e.                       *)
(***************************************************************************)
W8(b, i) == <<<<"d", b, 0>>, <<"q8", b, i>>>>

Code5(b, j, high) == IF high THEN <<"q5", b, j, 4, (j + 12) + 4>> ELSE <<"q5", b, j, 0, j>>
Code4(sb, byte, shift) == <<"q4", sb, byte, shift>>
Code6(sb, lbyte, lshift, hbyte, hshift) == <<"q6", sb, lbyte, lshift, hbyte, hshift>>

fl_dot_row_f32(cols) ==
    Serial([t \in 1..cols |-> Step(0, "w*x", {<<<<"one", 0, 0>>, <<"w", t - 1>>, XF(t - 1)>>})])

fl_dot_row_q8_0(cols) ==
    Serial([t \in 1..cols |->
        LET e == t - 1  b == e \div 32
        IN  Step(0, "(d*q)*x", {<<<<"d", b, 0>>, <<"q8", b, e % 32>>, XF(e)>>})])

fl_dot_row_q5_0(cols) ==
    Serial([t \in 1..cols |->
        LET e == t - 1  b == e \div 32  i == e % 32
        IN  Step(0, "(d*(q-16))*x",
                 {<<<<"d", b, 0>>, Code5(b, i % 16, i >= 16), XF(e)>>,
                  <<<<"-16d", b, 0>>, One, XF(e)>>})])

fl_dot_row_q4_K(cols) ==
    Serial([t \in 1..cols |->
        LET e == t - 1  sb == e \div 256  c == (e % 256) \div 64  l == e % 32
            high == e % 64 >= 32
            is == 2 * c + (IF high THEN 1 ELSE 0)
        IN  Step(0, "(d*sc*q-dmin*mn)*x",
                 {<<<<"d", sb, is>>, Code4(sb, 32 * c + l, IF high THEN 4 ELSE 0), XF(e)>>,
                  <<<<"-dmin", sb, is>>, One, XF(e)>>})])

fl_dot_row_q6_K(cols) ==
    Serial([t \in 1..cols |->
        LET e == t - 1  sb == e \div 256  n == (e % 256) \div 128
            s == (e % 128) \div 32  l == e % 32
            sc == 8 * n + (l \div 16) + 2 * s
        IN  Step(0, "(d*sc*(q-32))*x",
                 {<<<<"d", sb, sc>>,
                    Code6(sb, 64 * n + (IF s \in {1, 3} THEN l + 32 ELSE l),
                          IF s < 2 THEN 0 ELSE 4, 32 * n + l, 2 * s),
                    XF(e)>>,
                  <<<<"-32d", sb, sc>>, One, XF(e)>>})])

\* Codebook weights: byte j of the grid entry that an index byte selects, with
\* the bit of the sign entry that a 7-bit index selects, and the chunk's scale
\* nibble.  A code is <<name, superblock, index byte, byte of the entry, chunk,
\* sign index, sign bit>>.
CodeIq(name, sb, gbyte, j, ib32, sidx, sbit) == <<name, sb, gbyte, j, ib32, sidx, sbit>>

fl_dot_row_iq2_xxs(cols) ==
    Serial([t \in 1..cols |->
        LET e == t - 1  sb == e \div 256  ib32 == (e % 256) \div 32
            l == (e % 32) \div 8  j == e % 8
        IN  Step(0, "(db*v)*x",
                 {<<<<"d", sb, ib32>>, CodeIq("iq2", sb, 8 * ib32 + l, j, ib32, l, j), XF(e)>>})])

\* Eight columns per sign entry, from two grid entries of four bytes.  The code
\* adds column j of the first entry, then column j of the second.
fl_dot_row_iq3_xxs(cols) ==
    Serial([t \in 1..cols |->
        LET u == t - 1  sb == u \div 256  ib32 == (u % 256) \div 32
            l == (u % 32) \div 8  j == (u % 8) \div 2  second == u % 2
            x == 256 * sb + 32 * ib32 + 8 * l + j + 4 * second
        IN  Step(0, "(db*v)*x",
                 {<<<<"d", sb, ib32>>,
                    CodeIq("iq3", sb, 8 * ib32 + 2 * l + second, j, ib32, l, j + 4 * second),
                    XF(x)>>})])

fl_dot_row_any(f, cols) ==
    CASE f = "F32" -> fl_dot_row_f32(cols)
      [] f = "Q8_0" -> fl_dot_row_q8_0(cols)
      [] f = "Q5_0" -> fl_dot_row_q5_0(cols)
      [] f = "Q4_K" -> fl_dot_row_q4_K(cols)
      [] f = "Q6_K" -> fl_dot_row_q6_K(cols)
      [] f = "IQ2_XXS" -> fl_dot_row_iq2_xxs(cols)
      [] f = "IQ3_XXS" -> fl_dot_row_iq3_xxs(cols)

-----------------------------------------------------------------------------
(***************************************************************************)
(* The int8 references: integer sums exact, four float accumulators.       *)
(* Against q8_1 blocks the term number selects the accumulator; against    *)
(* q8_K superblocks the superblock does.                                   *)
(***************************************************************************)
fl_dot_i8_q8_0(cols) ==
    fl_fold4([t \in 1..(cols \div 32) |->
        LET b == t - 1
        IN  Step(b % 4, "dw*dx", {<<<<"d", b, 0>>, <<"q8", b, i>>, XQ(b, i)>> : i \in 0..31})])

fl_dot_i8_q5_0(cols) ==
    fl_fold4([t \in 1..(cols \div 32) |->
        LET b == t - 1
        IN  Step(b % 4, "dw*dx",
                 {<<<<"d", b, 0>>, Code5(b, j, FALSE), XQ(b, j)>> : j \in 0..15}
                 \cup {<<<<"d", b, 0>>, Code5(b, j, TRUE), XQ(b, 16 + j)>> : j \in 0..15}
                 \cup Times(<<"-16d", b, 0>>, {XQ(b, i) : i \in 0..31}))])

\* Group g of superblock sb, dotted with activations x[0..31].
Group4(sb, g, x) ==
    {<<<<"d", sb, g>>, Code4(sb, 32 * (g \div 2) + i, IF g % 2 = 1 THEN 4 ELSE 0), x[i]>>
        : i \in 0..31}

\* Two steps per group, the dot and then the minimum, both into acc g % 4.
fl_dot_i8_q4_K(cols) ==
    fl_fold4([t \in 1..(cols \div 16) |->
        LET b == (t - 1) \div 2  sb == b \div 8  g == b % 8
            xg == [i \in 0..31 |-> XQ(b, i)]
        IN  IF t % 2 = 1
            THEN Step(g % 4, "(d*sc)*dx", Group4(sb, g, xg))
            ELSE Step(g % 4, "-(dmin*mn)*dx",
                      Times(<<"-dmin", sb, g>>, {xg[i] : i \in 0..31}))])

\* Sixteen elements k16 of span s in half h, dotted with activations x[0..31]
\* of the span, and the -32 offset on the activation sums xs.
Sixteen6(sb, h, s, k16, x) ==
    {<<<<"d", sb, 8 * h + 2 * s + k16>>,
       Code6(sb, 64 * h + 32 * (s % 2) + 16 * k16 + i, IF s < 2 THEN 0 ELSE 4,
             32 * h + 16 * k16 + i, 2 * s),
       x[16 * k16 + i]>> : i \in 0..15}
Offset6(sb, h, s, k16, xs) == Times(<<"-32d", sb, 8 * h + 2 * s + k16>>, xs)

fl_dot_i8_q6_K(cols) ==
    fl_fold4([t \in 1..(cols \div 16) |->
        LET u == t - 1  sb == u \div 16  ti == u % 16
            h == ti \div 8  s == (ti % 8) \div 2  k16 == ti % 2
            b == 8 * sb + 4 * h + s
            xg == [i \in 0..31 |-> XQ(b, i)]
        IN  Step(ti % 4, "d*dx",
                 Sixteen6(sb, h, s, k16, xg)
                 \cup Offset6(sb, h, s, k16, {xg[16 * k16 + i] : i \in 0..15}))])

fl_dot_i8k_q4_K(cols) ==
    fl_fold4([t \in 1..(cols \div 128) |->
        LET sb == (t - 1) \div 2
        IN  IF t % 2 = 1
            THEN Step(sb % 4, "d*dk",
                      UNION {Group4(sb, g, [i \in 0..31 |-> XK(sb, 32 * g + i)]) : g \in 0..7})
            ELSE Step(sb % 4, "-(dmin*dk)",
                      UNION {Times(<<"-dmin", sb, g>>, bsums(sb, 2 * g) \cup bsums(sb, 2 * g + 1))
                                : g \in 0..7})])

fl_dot_i8k_q6_K(cols) ==
    fl_fold4([t \in 1..(cols \div 256) |->
        LET sb == t - 1
        IN  Step(sb % 4, "d*dk",
                 UNION {Sixteen6(sb, p[1], p[2], p[3],
                                 [i \in 0..31 |-> XK(sb, 32 * (4 * p[1] + p[2]) + i)])
                        \cup Offset6(sb, p[1], p[2], p[3], bsums(sb, 2 * (4 * p[1] + p[2]) + p[3]))
                          : p \in (0..1) \X (0..3) \X (0..1)})])

\* A format the int8 references do not cover yields the constant 0.
Zero == Tree(<<"0">>, {}, <<>>)

fl_dot_i8k_any(f, cols) ==
    CASE f = "Q4_K" -> fl_dot_i8k_q4_K(cols)
      [] f = "Q6_K" -> fl_dot_i8k_q6_K(cols)
      [] OTHER -> Zero

fl_dot_i8_any(f, cols) ==
    CASE f = "Q8_0" -> fl_dot_i8_q8_0(cols)
      [] f = "Q5_0" -> fl_dot_i8_q5_0(cols)
      [] f = "Q4_K" -> fl_dot_i8_q4_K(cols)
      [] f = "Q6_K" -> fl_dot_i8_q6_K(cols)
      [] OTHER -> Zero

-----------------------------------------------------------------------------
(***************************************************************************)
(* What it means for a kernel to compute the dot of a row: it adds every   *)
(* product of the canonical dot, each once, activations taken in blocks of *)
(* blk columns (1 for floats, 32 for q8_1, 256 for q8_K).                  *)
(***************************************************************************)
Canonical(f, cols, blk) ==
    {<<p[1], p[2], <<p[3][1] \div blk, p[3][2]>>>> : p \in Products(fl_dot_row_any(f, cols))}

Exact(expr, f, cols, blk) ==
    /\ Products(expr) = Canonical(f, cols, blk)
    /\ Cardinality(Occurrences(expr)) = Cardinality(Products(expr))

(***************************************************************************)
(* The canonical dot itself: every column of x appears once and every code *)
(* of the block is unpacked for one column only.                           *)
(***************************************************************************)
CanonicalIsAPacking(f, cols) ==
    LET P == {p \in Products(fl_dot_row_any(f, cols)) : p[2] # One}
    IN  /\ {p[3] : p \in P} = {XF(e) : e \in 0..(cols - 1)}
        /\ Cardinality(P) = cols
        /\ Cardinality({p[2] : p \in P}) = cols

\* Both scale decoders agree, and use each of the 96 bits once.
ScaleDecodersAgree ==
    LET one(j) == fl_q4k_scale_min(j)
    IN  /\ \A j \in 0..7 : one(j) = [d |-> fl_q4k_scales_all.d[j], m |-> fl_q4k_scales_all.m[j]]
        /\ UNION {{v[k] : k \in 0..5} : v \in UNION {{one(j).d, one(j).m} : j \in 0..7}}
             = (0..11) \X (0..7)

\* What ACT_Q8 writes lies behind the floats, in the buffer, without overlap.
AppendicesFit(cols) ==
    LET W == fl_exec_act_q8(cols)
    IN  /\ \A w \in W : w[1] >= 4 * cols /\ w[1] + w[2] <= fl_x_alloc_bytes(cols)
        /\ \A v, w \in W : v # w => v[1] + v[2] <= w[1] \/ w[1] + w[2] <= v[1]
=============================================================================
