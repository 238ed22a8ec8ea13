---------------------------- MODULE ShadowLayout ----------------------------
(***************************************************************************)
(* The int8 shadows of q4_K and q5_0 weights (src/src/runtime/shadow.h and *)
(* shadow.cpp): what the builders write at each byte, how the rows of a    *)
(* tensor are divided among builder threads, and how a packed row pointer  *)
(* finds its shadow.  The cache file is ShadowCache's.                     *)
(***************************************************************************)
EXTENDS QuantLayout

kShadowQ4KSbBytes == 280
kShadowQ4KPairSbBytes == 560
kShadowQ50BlkBytes == 40

fl_shadow_row_bytes(f, cols) ==
    CASE f = "Q4_K" -> (cols \div 256) * kShadowQ4KSbBytes
      [] f = "Q5_0" -> (cols \div 32) * kShadowQ50BlkBytes
      [] OTHER -> 0

\* One superblock of a plain q4_K shadow, byte by byte: the two scales as
\* floats, the eight decoded scales and minima, then the nibbles in element
\* order.
fl_shadow_build_rows_q4k(sb) ==
    [off \in 0..(kShadowQ4KSbBytes - 1) |->
        CASE off < 4 -> <<"d", off>>
          [] off \in 4..7 -> <<"dmin", off - 4>>
          [] off \in 8..15 -> <<"sc", off - 8>>
          [] off \in 16..23 -> <<"mn", off - 16>>
          [] OTHER -> LET i == off - 24
                      IN  Code4(sb, 32 * (i \div 64) + (i % 32), IF i % 64 < 32 THEN 0 ELSE 4)]

\* One superblock of a row pair: both headers, then groups of eight elements
\* of row 0 and of row 1 in turn.  A byte is <<row of the pair, content>>.
fl_shadow_build_rows_q4k_smmla(sb) ==
    LET plain == fl_shadow_build_rows_q4k(sb)
    IN  [off \in 0..(kShadowQ4KPairSbBytes - 1) |->
            IF off < 48 THEN <<off \div 24, plain[off % 24]>>
            ELSE LET j == off - 48
                 IN  <<(j % 16) \div 8, plain[24 + 8 * (j \div 16) + (j % 8)]>>]

\* One block of a q5_0 shadow: the scale, 32 composed 5-bit codes, padding.
fl_shadow_build_rows_q50(b) ==
    [off \in 0..(kShadowQ50BlkBytes - 1) |->
        CASE off < 4 -> <<"d", off>>
          [] off \in 4..35 -> Code5(b, (off - 4) % 16, off >= 20)
          [] OTHER -> <<"pad", off - 36>>]

-----------------------------------------------------------------------------
(***************************************************************************)
(* build_parallel gives each of nt threads a chunk of rows, an even number *)
(* of them.  What the threads leave in the shadow, in units of one row:    *)
(* slot u holds row r, or the pair that starts at slot u holds rows r and  *)
(* r + 1.                                                                  *)
(***************************************************************************)
\* faulty: chunks may split a pair
ChunkRowsUneven(rows_total, nt) == (rows_total + nt - 1) \div nt

ChunkRows(rows_total, nt) ==
    LET even == (rows_total + nt - 1) \div nt IN even + (even % 2)

AtMost(limit, k) == IF k < limit THEN k ELSE limit

\* The chunks, <<first row, number of rows>>.
Chunks(rows_total, nt) ==
    LET chunk == ChunkRows(rows_total, nt)
    IN  {<<i * chunk, AtMost(chunk, rows_total - i * chunk)>>
            : i \in {i \in 0..(nt - 1) : i * chunk < rows_total}}

build_parallel(rows_total, nt, smmla) ==
    UNION {IF smmla
           THEN {<<c[1] + 2 * rp, c[1] + 2 * rp>> : rp \in 0..((c[2] - 1) \div 2)}
           ELSE {<<c[1] + r, c[1] + r>> : r \in 0..(c[2] - 1)}
             : c \in Chunks(rows_total, nt)}

\* The row a reader finds in slot u of a shadow (-1: not the start of a row or
\* pair).
RowInSlot(built, u) == IF \E s \in built : s[1] = u
                       THEN (CHOOSE s \in built : s[1] = u)[2] ELSE -1

-----------------------------------------------------------------------------
(***************************************************************************)
(* The registry: spans sorted by base.  A span is a record of base, end,   *)
(* packed_row_bytes, fmt and smmla; addresses are byte offsets.            *)
(***************************************************************************)
NoSpan == [base |-> -1, end |-> -1, packed_row_bytes |-> 1, fmt |-> "F32", smmla |-> FALSE]

\* The last span that starts at or before w, if w lies in it.
fl_shadow_find(spans, w) ==
    LET n == Cardinality({i \in DOMAIN spans : spans[i].base <= w})
    IN  IF n > 0 /\ w < spans[n].end THEN spans[n] ELSE NoSpan

fl_shadow_row_index(sp, packed_row) == (packed_row - sp.base) \div sp.packed_row_bytes

\* Offset of a row's shadow and of a pair's shadow, in units of one row.
fl_shadow_row(sp, packed_row) == fl_shadow_row_index(sp, packed_row)
fl_shadow_pair(r) == 2 * (r \div 2)
=============================================================================
