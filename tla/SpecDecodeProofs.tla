------------------------- MODULE SpecDecodeProofs -------------------------
(***************************************************************************)
(* Speculative decoding is lossless, for every model, prompt, drafter,     *)
(* cache size and number of generations: the output is the one of greedy   *)
(* decoding unless an approximate mode is switched on.                     *)
(*                                                                         *)
(* The argument: the rows in use always belong together, whatever lies     *)
(* behind them, because a pass rewrites the rows it looks at and a rewind  *)
(* only shortens the rows in use.  So the answers of a pass are the        *)
(* model's, position by position, and the accepted drafts are answers.     *)
(* After the rewind the rows are those of the emitted tokens again.        *)
(***************************************************************************)
EXTENDS SpecDecode, SequenceTheorems, WellFoundedInduction, TLAPS

(* Who promises what: the rows match the output unless the margin gate     *)
(* truncates; the answers are the model's unless experts are dropped too.  *)
Faithful == mode = "plain" \/ ~gated
Exact == mode = "plain" \/ (~approx /\ ~gated)
Sharp == mode = "plain" \/ ~approx

(* The rows in use belong together, position by position.                  *)
RowsInv ==
  \A r \in 0 .. nPast - 1 :
    Len(kv[r]) = r + 1 /\ \A j \in 1 .. r + 1 : kv[r][j] = kv[nPast - 1][j]

(* What the rows in use hold during a generation.                          *)
Sofar == prompt \o out
FedInv ==
  /\ pc = "prefill" =>
       /\ nPast <= Len(prompt) /\ out = <<>>
       /\ Context(nPast) = SubSeq(prompt, 1, nPast)
       /\ Sharp /\ nPast > 0 => nextTok = Answer(Context(nPast))
  /\ pc = "emit" /\ Len(out) < NGen /\ Faithful =>
       /\ Context(nPast) = Sofar
       /\ mode = "spec" => stream = Sofar
       /\ Exact => nextTok = Answer(Sofar)
  /\ pc = "verify" /\ Faithful =>
       Append(Context(nPast), nextTok) = Sofar /\ stream = Sofar
  /\ pc = "judge" /\ Faithful =>
       SubSeq(Context(nPast), 1, base + 1) = Sofar /\ stream = Sofar
  /\ pc = "accept" /\ Faithful =>
       SubSeq(Context(nPast), 1, base + 1 + k) = Sofar /\ stream = Sofar

(* What a verify pass leaves for its judgement.                            *)
PassInv ==
  pc \in {"judge", "accept"} =>
    /\ nPast = base + 1 + Len(draft)
    /\ Len(draft) <= SpecMax /\ Len(outs) = Len(draft) + 1
    /\ \A i \in 1 .. Len(draft) : Context(nPast)[base + 1 + i] = draft[i]
    /\ Sharp => \A p \in 1 .. Len(outs) :
                  outs[p] = Answer(SubSeq(Context(nPast), 1, base + p))
AcceptInv ==
  pc = "accept" =>
    /\ acc <= Len(draft)
    /\ \A i \in 1 .. acc : outs[i] = draft[i]
    /\ trunc => gated /\ mode = "spec" /\ acc >= 1

DecodeInv ==
  /\ TypeOK /\ RowsInv /\ FedInv /\ PassInv /\ AcceptInv
  /\ Sharp => blurred = {}
  /\ pc \in {"verify", "judge", "accept"} => mode = "spec"
  /\ pc = "done" => Len(out) = NGen

-----------------------------------------------------------------------------
(* A set of numbers has a least one.                                       *)
LEMMA LeastNumber ==
  ASSUME NEW T, T \subseteq Nat, T # {}
  PROVE  \E x \in T : \A y \in T : x <= y
<1>1. PICK x \in T : \A y \in T : ~(<<y, x>> \in OpToRel(<, Nat))
  BY NatLessThanWellFounded, WFMin, Zenon
<1>2. \A y \in T : ~(y < x)
  BY <1>1 DEF OpToRel
<1> QED
  BY <1>2

(* There are enough rows, and each holds tokens.                           *)
LEMMA RowsAreTyped ==
  ASSUME TypeOK
  PROVE  /\ maxKv \in Nat /\ nPast \in Nat /\ nPast <= maxKv
         /\ DOMAIN kv = 0 .. maxKv - 1
         /\ \A r \in 0 .. maxKv - 1 : kv[r] \in Seq(Tokens)
         /\ \A r \in 0 .. nPast - 1 : kv[r] \in Seq(Tokens)
<1>1. maxKv \in Nat
  BY DecodeIsValid DEF TypeOK, DecodeAssumption
<1>2. DOMAIN kv = 0 .. maxKv - 1 /\ \A r \in DOMAIN kv : kv[r] \in Seq(Tokens)
  BY DEF TypeOK
<1>3. nPast \in 0 .. maxKv
  BY DEF TypeOK
<1> QED
  BY <1>1, <1>2, <1>3

(* The rows in use are the prefixes of the last of them.                   *)
LEMMA RowsBelongTogether ==
  ASSUME TypeOK, RowsInv
  PROVE  /\ Context(nPast) \in Seq(Tokens) /\ Len(Context(nPast)) = nPast
         /\ Coherent(nPast)
<1>1. nPast \in Nat /\ \A r \in 0 .. nPast - 1 : kv[r] \in Seq(Tokens)
  BY RowsAreTyped
<1>2. Context(nPast) \in Seq(Tokens) /\ Len(Context(nPast)) = nPast
  <2>1. CASE nPast = 0
    BY <2>1 DEF Context
  <2>2. CASE nPast # 0
    BY <1>1, <2>2 DEF Context, RowsInv
  <2> QED
    BY <2>1, <2>2
<1>3. ASSUME NEW r \in 0 .. nPast - 1
      PROVE  kv[r] = SubSeq(Context(nPast), 1, r + 1)
  <2> DEFINE C == Context(nPast)
  <2>1. C = kv[nPast - 1]
    BY <1>1 DEF Context
  <2>2. r \in Nat /\ r + 1 <= nPast
    BY <1>1
  <2>3. /\ SubSeq(C, 1, r + 1) \in Seq(Tokens) /\ Len(SubSeq(C, 1, r + 1)) = r + 1
        /\ \A j \in 1 .. r + 1 : SubSeq(C, 1, r + 1)[j] = C[j]
    <3> HIDE DEF C
    <3>1. \A j \in 1 .. r + 1 : C[j] \in Tokens
      BY <1>2, <2>2 DEF C
    <3> QED
      BY <2>2, <3>1, SubSeqProperties
  <2>4. Len(kv[r]) = r + 1 /\ \A j \in 1 .. r + 1 : kv[r][j] = C[j]
    BY <2>1 DEF RowsInv
  <2>5. kv[r] \in Seq(Tokens)
    BY <1>1
  <2> HIDE DEF C
  <2> QED
    BY <2>3, <2>4, <2>5, SeqEqual DEF C
<1> QED
  BY <1>2, <1>3 DEF Coherent

(* Prefixes of a concatenation.                                            *)
LEMMA PrefixOfConcat ==
  ASSUME NEW S, NEW s \in Seq(S), NEW t \in Seq(S), NEW n \in 0 .. Len(t)
  PROVE  SubSeq(s \o t, 1, Len(s) + n) = s \o SubSeq(t, 1, n)
<1> DEFINE u == s \o t
           v == SubSeq(t, 1, n)
<1>1. Len(s) \in Nat /\ Len(t) \in Nat /\ n \in Nat /\ n <= Len(t)
  OBVIOUS
<1>2. /\ u \in Seq(S) /\ Len(u) = Len(s) + Len(t)
      /\ \A i \in 1 .. Len(s) + Len(t) : u[i] = IF i <= Len(s) THEN s[i] ELSE t[i - Len(s)]
  BY ConcatProperties
<1>3. v \in Seq(S) /\ Len(v) = n /\ \A i \in 1 .. n : v[i] = t[i]
  <2>1. \A i \in 1 .. n : t[i] \in S
    BY <1>1
  <2> QED
    BY <1>1, <2>1, SubSeqProperties
<1> DEFINE w == SubSeq(u, 1, Len(s) + n)
<1> HIDE DEF u, v
<1>4. w \in Seq(S) /\ Len(w) = Len(s) + n /\ \A i \in 1 .. Len(s) + n : w[i] = u[i]
  <2>1. \A i \in 1 .. Len(s) + n : u[i] \in S
    BY <1>1, <1>2
  <2> QED
    BY <1>1, <2>1, SubSeqProperties
<1>5. /\ s \o v \in Seq(S) /\ Len(s \o v) = Len(s) + n
      /\ \A i \in 1 .. Len(s) + n : (s \o v)[i] = IF i <= Len(s) THEN s[i] ELSE v[i - Len(s)]
  BY <1>3, ConcatProperties
<1>6. \A i \in 1 .. Len(s) + n : w[i] = (s \o v)[i]
  <2> HIDE DEF w
  <2> TAKE i \in 1 .. Len(s) + n
  <2>1. CASE i <= Len(s)
    BY <1>1, <1>2, <1>4, <1>5, <2>1
  <2>2. CASE ~(i <= Len(s))
    <3>1. i - Len(s) \in 1 .. n /\ i \in 1 .. Len(s) + Len(t)
      BY <1>1, <2>2
    <3> QED
      BY <1>2, <1>3, <1>4, <1>5, <2>2, <3>1
  <2> QED
    BY <2>1, <2>2
<1> HIDE DEF w
<1>7. w = s \o v
  BY <1>4, <1>5, <1>6, SeqEqual
<1> QED
  BY <1>7 DEF u, v, w

(* The model answers every context that fits.                              *)
LEMMA AnswersAreTokens ==
  ASSUME TypeOK, NEW n \in 1 .. maxKv, NEW c \in [1 .. n -> Tokens]
  PROVE  Answer(c) \in Tokens
<1>1. maxKv \in KvSizes
  BY DEF TypeOK
<1> QED
  BY <1>1, DecodeIsValid DEF DecodeAssumption

(* With all experts no row is blurred; batches of one have no middle.      *)
LEMMA BlurredAfterPass ==
  ASSUME TypeOK, Sharp => blurred = {}, NEW m, Fits(m)
  PROVE  Blurred(m) \subseteq 0 .. maxKv - 1 /\ (Sharp => Blurred(m) = {})
<1>1. m \in Nat /\ m >= 1 /\ nPast + m <= maxKv /\ nPast \in Nat /\ maxKv \in Nat
  <2>1. MaxBatch \in Nat
    BY DecodeIsValid DEF MaxBatch, DecodeAssumption
  <2> QED
    BY <2>1, RowsAreTyped DEF Fits
<1>2. Blurred(m) \subseteq 0 .. maxKv - 1
  <2>1. blurred \subseteq 0 .. maxKv - 1
    BY DEF TypeOK
  <2>2. \A i \in Intermediate(m) : nPast + i \in 0 .. maxKv - 1
    BY <1>1 DEF Intermediate
  <2> QED
    BY <2>1, <2>2 DEF Blurred
<1>3. ASSUME Sharp PROVE Blurred(m) = {}
  <2>1. CASE ~approx
    BY <1>3, <2>1 DEF Blurred
  <2>2. CASE approx
    <3>1. mode = "plain"
      BY <1>3, <2>2 DEF Sharp
    <3>2. m \in 1 .. 1
      BY <3>1 DEF Fits, MaxBatch
    <3>3. Intermediate(m) = {}
      BY <3>2 DEF Intermediate
    <3> QED
      BY <1>3, <3>3 DEF Blurred
  <2> QED
    BY <2>1, <2>2
<1> QED
  BY <1>2, <1>3

(* What fits is at least one token.                                        *)
LEMMA PassSize ==
  ASSUME TypeOK, NEW ts \in Seq(Tokens), Fits(Len(ts))
  PROVE  /\ Len(ts) \in Nat /\ Len(ts) >= 1 /\ DOMAIN ts = 1 .. Len(ts)
         /\ nPast \in Nat /\ maxKv \in Nat /\ nPast + Len(ts) <= maxKv
<1>1. MaxBatch \in Nat
  BY DecodeIsValid DEF MaxBatch, DecodeAssumption
<1>2. Len(ts) \in Nat /\ DOMAIN ts = 1 .. Len(ts)
  BY LenProperties
<1> QED
  BY <1>1, <1>2, RowsAreTyped DEF Fits

(* The answers of a pass are the model's to the rows and the tokens fed.   *)
LEMMA AnswersAreTheModels ==
  ASSUME TypeOK, RowsInv, Sharp => blurred = {},
         NEW ts \in Seq(Tokens), Fits(Len(ts)), NEW a \in AnswersTo(ts)
  PROVE  /\ a \in Seq(Tokens) /\ Len(a) = Len(ts)
         /\ Sharp => \A p \in 1 .. Len(ts) :
                       a[p] = Answer(Context(nPast) \o SubSeq(ts, 1, p))
<1> DEFINE C == Context(nPast)
           asked(p) == C \o SubSeq(ts, 1, p)
           possible(p) ==
             IF ~Coherent(nPast) THEN {Garbage}
             ELSE IF \E r \in Blurred(Len(ts)) : r < nPast + p THEN Tokens
             ELSE { Answer(asked(p)) }
           allowed == [p \in DOMAIN ts |-> possible(p)]
<1>1. /\ Len(ts) \in Nat /\ Len(ts) >= 1 /\ DOMAIN ts = 1 .. Len(ts)
      /\ nPast \in Nat /\ maxKv \in Nat /\ nPast + Len(ts) <= maxKv
  BY PassSize
<1>2. C \in Seq(Tokens) /\ Len(C) = nPast /\ Coherent(nPast)
  BY RowsBelongTogether
<1>3. \A p \in DOMAIN ts : a[p] \in possible(p)
  <2>1. a \in { f \in [DOMAIN ts -> UNION { allowed[p] : p \in DOMAIN ts }] :
                  \A p \in DOMAIN ts : f[p] \in allowed[p] }
    BY Zenon DEF AnswersTo
  <2>2. \A p \in DOMAIN ts : a[p] \in allowed[p]
    BY <2>1
  <2> QED
    BY <2>2
<1>4. DOMAIN a = DOMAIN ts /\ a = [p \in DOMAIN ts |-> a[p]]
  <2>1. \E S : a \in [DOMAIN ts -> S]
    BY Zenon DEF AnswersTo
  <2> QED
    BY <2>1
<1>5. ASSUME NEW p \in 1 .. Len(ts) PROVE Answer(asked(p)) \in Tokens
  <2>1. SubSeq(ts, 1, p) \in Seq(Tokens) /\ Len(SubSeq(ts, 1, p)) = p
    <3>1. \A i \in 1 .. p : ts[i] \in Tokens
      BY <1>1
    <3> QED
      BY <1>1, <3>1, SubSeqProperties
  <2>2. asked(p) \in Seq(Tokens) /\ Len(asked(p)) = nPast + p
    BY <1>2, <2>1, ConcatProperties
  <2>3. asked(p) \in [1 .. nPast + p -> Tokens]
    BY <2>2, LenProperties
  <2>4. nPast + p \in 1 .. maxKv
    BY <1>1
  <2> HIDE DEF asked
  <2> QED
    BY <2>3, <2>4, AnswersAreTokens
<1>6. \A p \in 1 .. Len(ts) : a[p] \in Tokens
  <2> TAKE p \in 1 .. Len(ts)
  <2>1. a[p] \in possible(p) /\ Answer(asked(p)) \in Tokens
    BY <1>1, <1>3, <1>5
  <2> HIDE DEF asked
  <2> QED
    BY <1>2, <2>1
<1>7. a \in Seq(Tokens) /\ Len(a) = Len(ts)
  <2>1. a \in [1 .. Len(ts) -> Tokens]
    BY <1>1, <1>4, <1>6
  <2> QED
    BY <1>1, <2>1
<1>8. ASSUME Sharp, NEW p \in 1 .. Len(ts) PROVE a[p] = Answer(asked(p))
  <2>1. Blurred(Len(ts)) = {}
    BY <1>8, BlurredAfterPass
  <2>2. a[p] \in possible(p)
    BY <1>1, <1>3
  <2> HIDE DEF asked
  <2> QED
    BY <1>2, <2>1, <2>2
<1> QED
  BY <1>7, <1>8

(* A pass appends its tokens to what the rows in use hold.                 *)
LEMMA PassWritesRows ==
  ASSUME TypeOK, RowsInv, NEW ts \in Seq(Tokens), StepBatch(ts)
  PROVE  /\ nPast' = nPast + Len(ts) /\ nPast' \in 0 .. maxKv /\ Len(ts) >= 1
         /\ DOMAIN kv' = 0 .. maxKv - 1 /\ \A r \in DOMAIN kv' : kv'[r] \in Seq(Tokens)
         /\ Context(nPast)' = Context(nPast) \o ts
         /\ RowsInv'
<1> DEFINE C == Context(nPast)
           row(r) == C \o SubSeq(ts, 1, r - nPast + 1)
<1>1. /\ Len(ts) \in Nat /\ Len(ts) >= 1 /\ DOMAIN ts = 1 .. Len(ts)
      /\ nPast \in Nat /\ maxKv \in Nat /\ nPast + Len(ts) <= maxKv
  BY PassSize DEF StepBatch
<1>2. C \in Seq(Tokens) /\ Len(C) = nPast
  BY RowsBelongTogether
<1>3. DOMAIN kv = 0 .. maxKv - 1 /\ \A r \in 0 .. maxKv - 1 : kv[r] \in Seq(Tokens)
  BY RowsAreTyped
<1>4. nPast' = nPast + Len(ts) /\ nPast' \in 0 .. maxKv
  BY <1>1 DEF StepBatch
<1>5. /\ DOMAIN kv' = 0 .. maxKv - 1
      /\ \A r \in 0 .. nPast - 1 : kv'[r] = kv[r]
      /\ \A r \in nPast .. nPast + Len(ts) - 1 : kv'[r] = row(r)
      /\ \A r \in nPast + Len(ts) .. maxKv - 1 : kv'[r] = kv[r]
  <2>1. kv' = [r \in DOMAIN kv |->
                 IF r \in nPast .. nPast + Len(ts) - 1 THEN row(r) ELSE kv[r]]
    BY DEF StepBatch
  <2> HIDE DEF row
  <2> QED
    BY <1>1, <1>3, <2>1
<1>6. ASSUME NEW r \in nPast .. nPast + Len(ts) - 1
      PROVE  /\ row(r) \in Seq(Tokens) /\ Len(row(r)) = r + 1
             /\ \A j \in 1 .. r + 1 : row(r)[j] = IF j <= nPast THEN C[j] ELSE ts[j - nPast]
  <2> DEFINE n == r - nPast + 1
             v == SubSeq(ts, 1, n)
  <2>1. n \in 1 .. Len(ts)
    BY <1>1
  <2>2. v \in Seq(Tokens) /\ Len(v) = n /\ \A i \in 1 .. n : v[i] = ts[i]
    <3> HIDE DEF n
    <3>1. \A i \in 1 .. n : ts[i] \in Tokens
      BY <1>1, <2>1
    <3> QED
      BY <2>1, <3>1, SubSeqProperties
  <2>3. /\ C \o v \in Seq(Tokens) /\ Len(C \o v) = nPast + n
        /\ \A j \in 1 .. nPast + n : (C \o v)[j] = IF j <= nPast THEN C[j] ELSE v[j - nPast]
    <3> HIDE DEF C, v, n
    <3> QED
      BY <1>2, <2>2, ConcatProperties
  <2>4. nPast + n = r + 1
    BY <1>1
  <2> HIDE DEF v, n
  <2>5. \A j \in 1 .. r + 1 : (C \o v)[j] = IF j <= nPast THEN C[j] ELSE ts[j - nPast]
    <3> HIDE DEF C
    <3> TAKE j \in 1 .. r + 1
    <3>1. CASE j <= nPast
      BY <2>3, <2>4, <3>1
    <3>2. CASE ~(j <= nPast)
      <4>1. j - nPast \in 1 .. n
        BY <1>1, <2>1, <2>4, <3>2
      <4> QED
        BY <2>2, <2>3, <2>4, <3>2, <4>1
    <3> QED
      BY <3>1, <3>2
  <2>6. C \o v = row(r)
    BY DEF v, n
  <2> QED
    BY <2>3, <2>4, <2>5, <2>6
<1>7. \A r \in DOMAIN kv' : kv'[r] \in Seq(Tokens)
  <2> SUFFICES ASSUME NEW r \in 0 .. maxKv - 1 PROVE kv'[r] \in Seq(Tokens)
    BY <1>5
  <2>1. CASE r \in nPast .. nPast + Len(ts) - 1
    <3>1. kv'[r] = row(r) /\ row(r) \in Seq(Tokens)
      BY <1>5, <1>6, <2>1
    <3> QED
      BY <3>1, Zenon
  <2>2. CASE ~(r \in nPast .. nPast + Len(ts) - 1)
    <3>1. r \in 0 .. nPast - 1 \/ r \in nPast + Len(ts) .. maxKv - 1
      BY <1>1, <2>2
    <3>2. kv'[r] = kv[r]
      BY <1>5, <3>1, Zenon
    <3> QED
      BY <1>3, <3>2, Zenon
  <2> QED
    BY <2>1, <2>2
<1>8. kv'[nPast' - 1] = C \o ts
  <2>1. nPast' - 1 \in nPast .. nPast + Len(ts) - 1 /\ (nPast' - 1) - nPast + 1 = Len(ts)
    BY <1>1, <1>4
  <2>2. SubSeq(ts, 1, Len(ts)) = ts
    BY SubSeqFull
  <2> QED
    BY <1>5, <2>1, <2>2
<1>9. Context(nPast)' = C \o ts
  <2>1. nPast' # 0
    BY <1>1, <1>4
  <2> QED
    BY <1>8, <2>1 DEF Context
<1>10. RowsInv'
  <2> SUFFICES ASSUME NEW r \in 0 .. nPast' - 1
               PROVE  /\ Len(kv'[r]) = r + 1
                      /\ \A j \in 1 .. r + 1 : kv'[r][j] = kv'[nPast' - 1][j]
    BY DEF RowsInv
  <2> DEFINE last == kv'[nPast' - 1]
  <2>1. \A j \in 1 .. nPast + Len(ts) : last[j] = IF j <= nPast THEN C[j] ELSE ts[j - nPast]
    <3> HIDE DEF C
    <3> QED
      BY <1>2, <1>8, ConcatProperties
  <2> HIDE DEF last
  <2>2. CASE r \in 0 .. nPast - 1
    <3>1. kv'[r] = kv[r] /\ Len(kv[r]) = r + 1 /\ \A j \in 1 .. r + 1 : kv[r][j] = kv[nPast - 1][j]
      BY <1>5, <2>2 DEF RowsInv
    <3>2. C = kv[nPast - 1]
      BY <1>1, <2>2 DEF Context
    <3>3. \A j \in 1 .. r + 1 : j \in 1 .. nPast + Len(ts) /\ j <= nPast
      BY <1>1, <2>2
    <3> HIDE DEF C
    <3> QED
      BY <2>1, <3>1, <3>2, <3>3 DEF last
  <2>3. CASE r \in nPast .. nPast + Len(ts) - 1
    <3>1. /\ kv'[r] = row(r) /\ Len(row(r)) = r + 1
          /\ \A j \in 1 .. r + 1 : row(r)[j] = IF j <= nPast THEN C[j] ELSE ts[j - nPast]
      BY <1>5, <1>6, <2>3
    <3>2. \A j \in 1 .. r + 1 : j \in 1 .. nPast + Len(ts)
      BY <1>1, <2>3
    <3> HIDE DEF C, row
    <3> QED
      BY <2>1, <3>1, <3>2 DEF last
  <2> QED
    BY <1>1, <1>4, <2>2, <2>3
<1> QED
  BY <1>1, <1>4, <1>5, <1>7, <1>9, <1>10

(* One more token.                                                         *)
LEMMA OneMore ==
  ASSUME NEW S, NEW s \in Seq(S), NEW t \in Seq(S), NEW e \in S
  PROVE  /\ s \o Append(t, e) = Append(s \o t, e)
         /\ Append(s \o t, e) = (s \o t) \o <<e>>
         /\ Append(t, e) \in Seq(S) /\ Len(Append(t, e)) = Len(t) + 1
<1>1. s \o t \in Seq(S) /\ <<e>> \in Seq(S)
  BY ConcatProperties
<1>2. Append(s \o t, e) = (s \o t) \o <<e>>
  BY <1>1, AppendIsConcat
<1>3. Append(t, e) = t \o <<e>>
  BY AppendIsConcat
<1>4. (s \o t) \o <<e>> = s \o (t \o <<e>>)
  BY <1>1, ConcatAssociative
<1>5. Append(t, e) \in Seq(S) /\ Len(Append(t, e)) = Len(t) + 1
  BY AppendProperties
<1> QED
  BY <1>2, <1>3, <1>4, <1>5

(* A longer prefix appends the next element.                               *)
LEMMA PrefixOneMore ==
  ASSUME NEW S, NEW s \in Seq(S), NEW n \in Nat, n < Len(s)
  PROVE  SubSeq(s, 1, n + 1) = Append(SubSeq(s, 1, n), s[n + 1])
<1>1. n + 1 \in 1 .. Len(s) /\ (n + 1) - 1 = n
  BY LenProperties
<1>2. SubSeq(s, 1, n + 1) = SubSeq(s, 1, n) \o <<s[n + 1]>>
  <2>1. 1 \in 1 .. Len(s)
    BY <1>1
  <2>2. SubSeq(s, 1, n + 1) = SubSeq(s, 1, (n + 1) - 1) \o <<s[n + 1]>>
    BY <1>1, <2>1, SubSeqRecursiveSecond
  <2> QED
    BY <1>1, <2>2
<1>3. s[n + 1] \in S
  BY <1>1, ElementOfSeq
<1>4. SubSeq(s, 1, n) \in Seq(S)
  <2>1. \A i \in 1 .. n : s[i] \in S
    BY <1>1, ElementOfSeq
  <2> QED
    BY <2>1, SubSeqProperties
<1> QED
  BY <1>2, <1>3, <1>4, AppendIsConcat

(* A rewind leaves the rows of a prefix in use.                            *)
LEMMA RewindKeepsPrefix ==
  ASSUME TypeOK, RowsInv, NEW n \in 0 .. nPast
  PROVE  /\ Context(n) = SubSeq(Context(nPast), 1, n)
         /\ \A r \in 0 .. n - 1 :
              Len(kv[r]) = r + 1 /\ \A j \in 1 .. r + 1 : kv[r][j] = kv[n - 1][j]
<1>1. n \in Nat /\ nPast \in Nat /\ n <= nPast
  BY RowsAreTyped
<1>2. CASE n = 0
  <2>1. SubSeq(Context(nPast), 1, 0) = <<>>
    BY SubSeqEmpty
  <2> QED
    BY <1>2, <2>1 DEF Context
<1>3. CASE n # 0
  <2>1. n - 1 \in 0 .. nPast - 1 /\ (n - 1) + 1 = n
    BY <1>1, <1>3
  <2>2. Context(n) = kv[n - 1]
    BY <1>3 DEF Context
  <2>3. kv[n - 1] = SubSeq(Context(nPast), 1, (n - 1) + 1)
    BY <2>1, RowsBelongTogether DEF Coherent
  <2>4. ASSUME NEW r \in 0 .. n - 1, NEW j \in 1 .. r + 1
        PROVE  Len(kv[r]) = r + 1 /\ kv[r][j] = kv[n - 1][j]
    <3>1. r \in 0 .. nPast - 1 /\ j \in 1 .. (n - 1) + 1
      BY <1>1, <2>1
    <3> QED
      BY <2>1, <3>1 DEF RowsInv
  <2>5. ASSUME NEW r \in 0 .. n - 1 PROVE Len(kv[r]) = r + 1
    <3>1. r \in 0 .. nPast - 1
      BY <1>1
    <3> QED
      BY <3>1 DEF RowsInv
  <2>6. Context(n) = SubSeq(Context(nPast), 1, n)
    BY <2>1, <2>2, <2>3
  <2> QED
    BY <2>4, <2>5, <2>6
<1> QED
  BY <1>2, <1>3

(* The accepted drafts agree with the answers; the next one does not.      *)
LEMMA MatchedAgrees ==
  ASSUME draft \in Seq(Tokens), outs \in Seq(Tokens)
  PROVE  /\ Matched \in 0 .. Len(draft)
         /\ \A i \in 1 .. Matched : outs[i] = draft[i]
<1> DEFINE P(a) == /\ \A i \in 1 .. a : outs[i] = draft[i]
                   /\ a < Len(draft) => outs[a + 1] # draft[a + 1]
           T == { i \in 1 .. Len(draft) : outs[i] # draft[i] }
<1>1. Len(draft) \in Nat
  BY LenProperties
<1>2. \E a \in 0 .. Len(draft) : P(a)
  <2>1. CASE T = {}
    <3>1. \A i \in 1 .. Len(draft) : outs[i] = draft[i]
      BY <2>1
    <3> QED
      BY <1>1, <3>1
  <2>2. CASE T # {}
    <3>1. T \subseteq Nat
      BY <1>1
    <3>2. PICK x \in T : \A y \in T : x <= y
      <4> HIDE DEF T
      <4> QED
        BY <2>2, <3>1, LeastNumber
    <3>3. /\ x - 1 \in 0 .. Len(draft) /\ (x - 1) + 1 = x
          /\ outs[x] # draft[x]
      BY <1>1, <3>2
    <3>4. ASSUME NEW i \in 1 .. x - 1 PROVE outs[i] = draft[i]
      <4>1. i \in 1 .. Len(draft) /\ ~(x <= i)
        BY <1>1, <3>2
      <4> QED
        BY <3>2, <4>1
    <3> QED
      BY <3>3, <3>4
  <2> QED
    BY <2>1, <2>2
<1>3. Matched = CHOOSE a \in 0 .. Len(draft) : P(a)
  BY DEF Matched
<1>4. Matched \in 0 .. Len(draft) /\ P(Matched)
  <2> HIDE DEF P
  <2> QED
    BY <1>2, <1>3
<1> QED
  BY <1>4

(* The judgement shortens the accepted drafts if the gate is on.           *)
LEMMA JudgementIsSound ==
  ASSUME draft \in Seq(Tokens), outs \in Seq(Tokens), Judge
  PROVE  /\ acc' \in 0 .. Len(draft)
         /\ \A i \in 1 .. acc' : outs[i] = draft[i]
         /\ trunc' \in BOOLEAN /\ (trunc' => gated /\ acc' >= 1)
<1>1. Matched \in 0 .. Len(draft) /\ \A i \in 1 .. Matched : outs[i] = draft[i]
  BY MatchedAgrees
<1>2. Len(draft) \in Nat
  BY LenProperties
<1>3. trunc' = (Distrusted # {})
  BY DEF Judge
<1>4. Distrusted # {} => gated
  BY DEF Distrusted
<1>5. CASE Distrusted = {}
  <2>1. acc' = Matched
    BY <1>5 DEF Judge
  <2> QED
    BY <1>1, <1>3, <1>5, <2>1
<1>6. CASE Distrusted # {}
  <2>1. Distrusted \subseteq 1 .. Matched - 1 /\ Distrusted \subseteq Nat
    BY <1>1, <1>2 DEF Distrusted
  <2>2. \E p \in Distrusted : \A o \in Distrusted : p <= o
    BY <1>6, <2>1, LeastNumber
  <2>3. acc' = CHOOSE p \in Distrusted : \A o \in Distrusted : p <= o
    BY <1>6 DEF Judge
  <2>4. acc' \in Distrusted
    BY <2>2, <2>3
  <2>5. acc' \in 1 .. Matched - 1
    BY <2>1, <2>4
  <2> QED
    BY <1>1, <1>2, <1>3, <1>4, <1>6, <2>5
<1> QED
  BY <1>5, <1>6

-----------------------------------------------------------------------------
(* What the invariant says of the command line and the output.             *)
LEMMA CommandLine ==
  ASSUME TypeOK
  PROVE  /\ prompt \in Seq(Tokens) /\ Len(prompt) \in Nat \ {0}
         /\ out \in Seq(Tokens) /\ Len(out) \in Nat /\ Len(out) <= NGen
         /\ Sofar \in Seq(Tokens)
         /\ NGen \in Nat /\ SpecMax \in 1 .. 15
<1>1. prompt \in Seq(Tokens) /\ prompt # <<>>
  BY DecodeIsValid DEF TypeOK, DecodeAssumption
<1>2. Len(prompt) \in Nat \ {0}
  BY <1>1, EmptySeq
<1>3. out \in Seq(Tokens) /\ Len(out) <= NGen
  BY DEF TypeOK
<1>4. Len(out) \in Nat
  BY <1>3, LenProperties
<1>5. Sofar \in Seq(Tokens)
  BY <1>1, <1>3, ConcatProperties DEF Sofar
<1>6. NGen \in Nat /\ SpecMax \in 1 .. 15
  BY DecodeIsValid DEF DecodeAssumption
<1> QED
  BY <1>1, <1>2, <1>3, <1>4, <1>5, <1>6

(* The command line does not change.                                       *)
LEMMA SettingsStay ==
  ASSUME UNCHANGED config
  PROVE  /\ prompt' = prompt /\ mode' = mode /\ maxKv' = maxKv
         /\ approx' = approx /\ gated' = gated
         /\ Faithful' = Faithful /\ Exact' = Exact /\ Sharp' = Sharp
<1>1. /\ prompt' = prompt /\ mode' = mode /\ maxKv' = maxKv
      /\ approx' = approx /\ gated' = gated
  BY DEF config
<1> QED
  BY <1>1 DEF Faithful, Exact, Sharp

(* The cache after a pass.                                                 *)
LEMMA CacheAfterPass ==
  ASSUME TypeOK, RowsInv, Sharp => blurred = {}, UNCHANGED config,
         NEW ts \in Seq(Tokens), StepBatch(ts)
  PROVE  /\ maxKv' = maxKv /\ maxKv' \in KvSizes
         /\ DOMAIN kv' = 0 .. maxKv' - 1
         /\ \A r \in DOMAIN kv' : kv'[r] \in Seq(Tokens)
         /\ nPast' = nPast + Len(ts) /\ nPast' \in 0 .. maxKv' /\ nPast' > 0
         /\ blurred' \subseteq 0 .. maxKv' - 1
         /\ Sharp' => blurred' = {}
         /\ Context(nPast)' = Context(nPast) \o ts
         /\ RowsInv'
<1>1. maxKv' = maxKv /\ Sharp' = Sharp
  BY SettingsStay
<1>2. maxKv \in KvSizes
  BY DEF TypeOK
<1>3. blurred' = Blurred(Len(ts)) /\ Fits(Len(ts))
  BY DEF StepBatch
<1>4. Blurred(Len(ts)) \subseteq 0 .. maxKv - 1 /\ (Sharp => Blurred(Len(ts)) = {})
  BY <1>3, BlurredAfterPass
<1>5. /\ nPast' = nPast + Len(ts) /\ nPast' \in 0 .. maxKv /\ Len(ts) >= 1
      /\ DOMAIN kv' = 0 .. maxKv - 1 /\ \A r \in DOMAIN kv' : kv'[r] \in Seq(Tokens)
      /\ Context(nPast)' = Context(nPast) \o ts
      /\ RowsInv'
  BY PassWritesRows
<1>6. nPast' > 0
  <2>1. nPast \in Nat /\ Len(ts) \in Nat
    BY RowsAreTyped, LenProperties
  <2> QED
    BY <1>5, <2>1
<1> QED
  BY <1>1, <1>2, <1>3, <1>4, <1>5, <1>6

(* No row is in use at the start.                                          *)
LEMMA InitHasInv ==
  ASSUME Init
  PROVE  DecodeInv
<1>1. 0 \in Tokens /\ NGen \in Nat /\ SpecMax \in 1 .. 15
  BY DecodeIsValid DEF DecodeAssumption
<1>2. maxKv \in Nat /\ approx \in BOOLEAN /\ gated \in BOOLEAN
  BY DecodeIsValid DEF DecodeAssumption, Init
<1>3. <<>> \in Seq(Tokens) /\ Len(<<>>) = 0
  BY EmptySeq
<1>4. DOMAIN kv = 0 .. maxKv - 1 /\ \A r \in DOMAIN kv : kv[r] \in Seq(Tokens)
  BY <1>3 DEF Init
<1>5. TypeOK
  <2>1. /\ prompt \in Prompts /\ mode \in Modes /\ maxKv \in KvSizes
        /\ blurred \subseteq 0 .. maxKv - 1 /\ nPast \in 0 .. maxKv
        /\ pc \in {"prefill", "emit", "verify", "judge", "accept", "done", "aborted"}
    BY <1>2 DEF Init
  <2>2. /\ nextTok \in Tokens /\ draft \in Seq(Tokens) /\ outs \in Seq(Tokens)
        /\ out \in Seq(Tokens) /\ Len(out) <= NGen /\ stream \in Seq(Tokens)
    <3>1. nextTok = 0 /\ draft = <<>> /\ outs = <<>> /\ out = <<>> /\ stream = <<>>
      BY DEF Init
    <3>2. Len(out) = 0
      BY <1>3, <3>1, Zenon
    <3> QED
      BY <1>1, <1>3, <3>1, <3>2
  <2>3. /\ low \subseteq 1 .. SpecMax /\ base \in 0 .. maxKv
        /\ acc \in 0 .. SpecMax /\ k \in 0 .. acc /\ trunc \in BOOLEAN /\ reps \in Nat
    <3>1. low = {} /\ base = 0 /\ acc = 0 /\ k = 0 /\ reps = 1
      BY DEF Init
    <3>2. trunc \in BOOLEAN
      BY Zenon DEF Init
    <3> QED
      BY <1>1, <1>2, <3>1, <3>2
  <2> QED
    BY <1>2, <1>4, <2>1, <2>2, <2>3 DEF TypeOK
<1>6. RowsInv
  BY DEF Init, RowsInv
<1>7. FedInv
  <2>1. Context(nPast) = <<>>
    BY DEF Init, Context
  <2>2. SubSeq(prompt, 1, 0) = <<>>
    BY SubSeqEmpty
  <2>3. Len(prompt) \in Nat
    BY <1>5, CommandLine
  <2>4. pc = "prefill" /\ out = <<>> /\ nPast = 0
    BY DEF Init
  <2> QED
    BY <2>1, <2>2, <2>3, <2>4 DEF FedInv
<1>8. PassInv /\ AcceptInv
  BY DEF Init, PassInv, AcceptInv
<1> QED
  BY <1>5, <1>6, <1>7, <1>8 DEF Init, DecodeInv

(* The process stops when a pass does not fit.                             *)
LEMMA AbortKeepsInv ==
  ASSUME DecodeInv, NEW m, Abort(m)
  PROVE  DecodeInv'
<1>1. UNCHANGED <<config, cache, pass, nextTok, acc, k, trunc, out, stream, reps>>
  BY DEF Abort
<1>2. pc' = "aborted"
  BY DEF Abort
<1>3. TypeOK'
  BY <1>1, <1>2 DEF DecodeInv, TypeOK, config, cache, pass
<1>4. RowsInv'
  BY <1>1 DEF DecodeInv, RowsInv, cache
<1>5. FedInv' /\ PassInv' /\ AcceptInv'
  BY <1>2 DEF FedInv, PassInv, AcceptInv
<1>6. Sharp' => blurred' = {}
  BY <1>1, SettingsStay DEF DecodeInv, cache
<1> QED
  BY <1>2, <1>3, <1>4, <1>5, <1>6 DEF DecodeInv

(* A chunk of the prompt extends the rows by that chunk.                   *)
LEMMA PrefillKeepsInv ==
  ASSUME DecodeInv, Prefill
  PROVE  DecodeInv'
<1> DEFINE n == ChunkSize
           chunk == SubSeq(prompt, nPast + 1, nPast + n)
<1>1. CASE Abort(n)
  BY <1>1, AbortKeepsInv
<1>2. CASE ~Abort(n)
  <2>1. /\ pc = "prefill" /\ nPast < Len(prompt)
        /\ StepBatch(chunk)
        /\ \E answers \in AnswersTo(chunk) : nextTok' = answers[n]
        /\ UNCHANGED <<config, pass, pc, acc, k, trunc, out, stream, reps>>
    BY <1>2 DEF Prefill
  <2> HIDE DEF n
  <2>2. UNCHANGED config /\ UNCHANGED <<pass, pc, acc, k, trunc, out, stream, reps>>
    BY <2>1
  <2>3. /\ prompt \in Seq(Tokens) /\ Len(prompt) \in Nat
        /\ out \in Seq(Tokens) /\ nPast \in Nat
    BY CommandLine, RowsAreTyped DEF DecodeInv
  <2>4. n \in Nat /\ n >= 1 /\ nPast + n <= Len(prompt)
    <3>1. MaxBatch \in Nat /\ MaxBatch >= 1
      <4>1. SpecMax \in 1 .. 15
        BY CommandLine DEF DecodeInv
      <4> QED
        BY <4>1 DEF MaxBatch
    <3> QED
      BY <2>1, <2>3, <3>1 DEF n, ChunkSize
  <2>5. chunk \in Seq(Tokens) /\ Len(chunk) = n
    <3>1. \A i \in nPast + 1 .. nPast + n : prompt[i] \in Tokens
      BY <2>3, <2>4, ElementOfSeq
    <3> QED
      BY <2>3, <2>4, <3>1, SubSeqProperties
  <2>6. Context(nPast) = SubSeq(prompt, 1, nPast) /\ out = <<>>
    BY <2>1 DEF DecodeInv, FedInv
  <2>7. SubSeq(prompt, 1, nPast) \o chunk = SubSeq(prompt, 1, nPast + n)
    <3>1. /\ 1 \in 1 .. Len(prompt) + 1 /\ nPast \in 1 - 1 .. Len(prompt)
          /\ nPast + n \in nPast .. Len(prompt)
      BY <2>3, <2>4
    <3> QED
      BY <2>3, <3>1, ConcatAdjacentSubSeq
  <2> HIDE DEF chunk
  <2>8. /\ maxKv' = maxKv /\ maxKv' \in KvSizes
        /\ DOMAIN kv' = 0 .. maxKv' - 1 /\ \A r \in DOMAIN kv' : kv'[r] \in Seq(Tokens)
        /\ nPast' = nPast + n /\ nPast' \in 0 .. maxKv' /\ nPast' > 0
        /\ blurred' \subseteq 0 .. maxKv' - 1
        /\ Sharp' => blurred' = {}
        /\ Context(nPast)' = Context(nPast) \o chunk
        /\ RowsInv'
    BY <2>1, <2>2, <2>5, CacheAfterPass DEF DecodeInv
  <2>9. nextTok' \in Tokens /\ (Sharp => nextTok' = Answer(Context(nPast) \o chunk))
    <3>1. PICK a \in AnswersTo(chunk) : nextTok' = a[n]
      BY <2>1
    <3>2. /\ a \in Seq(Tokens) /\ Len(a) = n
          /\ Sharp => \A p \in 1 .. n :
                        a[p] = Answer(Context(nPast) \o SubSeq(chunk, 1, p))
      BY <2>1, <2>5, AnswersAreTheModels DEF DecodeInv, StepBatch
    <3>3. SubSeq(chunk, 1, n) = chunk
      BY <2>5, SubSeqFull
    <3>4. n \in 1 .. n
      BY <2>4
    <3> QED
      BY <3>1, <3>2, <3>3, <3>4, ElementOfSeq
  <2>10. TypeOK'
    BY <2>2, <2>8, <2>9 DEF DecodeInv, TypeOK, config, pass
  <2>11. FedInv'
    <3>1. pc' = "prefill" /\ out' = <<>> /\ prompt' = prompt /\ Sharp' = Sharp
      BY <2>1, <2>2, <2>6, SettingsStay
    <3>2. nPast' <= Len(prompt')
      BY <2>4, <2>8, <3>1
    <3>3. Context(nPast)' = SubSeq(prompt', 1, nPast')
      BY <2>6, <2>7, <2>8, <3>1
    <3>4. Sharp' => nextTok' = Answer(Context(nPast)')
      BY <2>8, <2>9, <3>1
    <3> QED
      BY <3>1, <3>2, <3>3, <3>4 DEF FedInv
  <2>12. PassInv' /\ AcceptInv'
    BY <2>1, <2>2 DEF PassInv, AcceptInv
  <2> QED
    BY <2>1, <2>2, <2>8, <2>10, <2>11, <2>12 DEF DecodeInv
<1> QED
  BY <1>1, <1>2

(* All of the prompt has been fed, so next_tok answers it.                 *)
LEMMA PrefillDoneKeepsInv ==
  ASSUME DecodeInv, PrefillDone
  PROVE  DecodeInv'
<1>1. UNCHANGED config /\ UNCHANGED <<cache, pass, nextTok, acc, k, trunc, out, reps>>
  BY DEF PrefillDone
<1>2. /\ pc = "prefill" /\ nPast = Len(prompt) /\ pc' = "emit"
      /\ stream' = IF mode = "spec" THEN prompt ELSE <<>>
  BY DEF PrefillDone
<1>3. prompt \in Seq(Tokens) /\ Len(prompt) \in Nat \ {0}
  BY CommandLine DEF DecodeInv
<1>4. /\ prompt' = prompt /\ mode' = mode
      /\ Exact' = Exact /\ Sharp' = Sharp /\ (Exact => Sharp)
  BY <1>1, SettingsStay DEF Exact, Sharp
<1>5. /\ Context(nPast) = prompt /\ out = <<>>
      /\ Sharp => nextTok = Answer(prompt)
  <2>1. SubSeq(prompt, 1, Len(prompt)) = prompt
    BY <1>3, SubSeqFull
  <2> QED
    BY <1>2, <1>3, <2>1 DEF DecodeInv, FedInv
<1>6. Sofar' = prompt
  <2>1. out' = <<>>
    BY <1>1, <1>5
  <2> QED
    BY <1>3, <1>4, <2>1, ConcatEmptySeq DEF Sofar
<1>7. TypeOK'
  <2>1. stream' \in Seq(Tokens)
    BY <1>2, <1>3, EmptySeq
  <2> QED
    BY <1>1, <1>2, <2>1 DEF DecodeInv, TypeOK, config, cache, pass
<1>8. RowsInv' /\ Context(nPast)' = Context(nPast) /\ nextTok' = nextTok
  BY <1>1 DEF DecodeInv, RowsInv, Context, cache
<1>9. FedInv'
  BY <1>2, <1>4, <1>5, <1>6, <1>8 DEF FedInv
<1>10. PassInv' /\ AcceptInv'
  BY <1>2 DEF PassInv, AcceptInv
<1> QED
  BY <1>1, <1>2, <1>4, <1>7, <1>8, <1>9, <1>10 DEF DecodeInv, cache

(* The plain loop feeds what it emits.                                     *)
LEMMA PlainStepKeepsInv ==
  ASSUME DecodeInv, PlainStep
  PROVE  DecodeInv'
<1> DEFINE ts == <<nextTok>>
<1>1. CASE Abort(1)
  BY <1>1, AbortKeepsInv
<1>2. CASE ~Abort(1)
  <2>1. /\ pc = "emit" /\ mode = "plain" /\ Len(out) < NGen
        /\ StepBatch(ts)
        /\ \E answers \in AnswersTo(ts) : nextTok' = answers[1]
        /\ out' = Append(out, nextTok)
        /\ UNCHANGED <<config, pass, pc, acc, k, trunc, stream, reps>>
    BY <1>2 DEF PlainStep
  <2>2. UNCHANGED config /\ UNCHANGED <<pass, pc, acc, k, trunc, stream, reps>>
    BY <2>1
  <2>3. /\ nextTok \in Tokens /\ ts \in Seq(Tokens) /\ Len(ts) = 1
        /\ SubSeq(ts, 1, 1) = ts
    <3>1. nextTok \in Tokens
      BY DEF DecodeInv, TypeOK
    <3>2. ts \in Seq(Tokens) /\ Len(ts) = 1
      BY <3>1
    <3> QED
      BY <3>1, <3>2, SubSeqFull
  <2> HIDE DEF ts
  <2>4. /\ prompt \in Seq(Tokens) /\ out \in Seq(Tokens) /\ Len(out) \in Nat /\ NGen \in Nat
    BY CommandLine DEF DecodeInv
  <2>5. /\ maxKv' = maxKv /\ maxKv' \in KvSizes
        /\ DOMAIN kv' = 0 .. maxKv' - 1 /\ \A r \in DOMAIN kv' : kv'[r] \in Seq(Tokens)
        /\ nPast' = nPast + Len(ts) /\ nPast' \in 0 .. maxKv' /\ nPast' > 0
        /\ blurred' \subseteq 0 .. maxKv' - 1
        /\ Sharp' => blurred' = {}
        /\ Context(nPast)' = Context(nPast) \o ts
        /\ RowsInv'
    BY <2>1, <2>2, <2>3, CacheAfterPass DEF DecodeInv
  <2>6. Context(nPast) = Sofar
    BY <2>1 DEF DecodeInv, FedInv, Faithful
  <2>7. /\ Sofar' = Sofar \o ts
        /\ out' \in Seq(Tokens) /\ Len(out') = Len(out) + 1
    <3>1. prompt' = prompt
      BY <2>2, SettingsStay
    <3> QED
      BY <2>1, <2>3, <2>4, <3>1, OneMore DEF Sofar, ts
  <2>8. nextTok' \in Tokens /\ nextTok' = Answer(Sofar')
    <3>1. PICK a \in AnswersTo(ts) : nextTok' = a[1]
      BY <2>1
    <3>2. Sharp
      BY <2>1 DEF Sharp
    <3>3. /\ a \in Seq(Tokens) /\ Len(a) = 1
          /\ a[1] = Answer(Context(nPast) \o SubSeq(ts, 1, 1))
      <4>1. 1 \in 1 .. 1
        OBVIOUS
      <4> QED
        BY <2>1, <2>3, <3>2, <4>1, AnswersAreTheModels DEF DecodeInv, StepBatch
    <3>4. a[1] \in Tokens
      BY <3>3, ElementOfSeq
    <3>5. Context(nPast) \o SubSeq(ts, 1, 1) = Sofar'
      BY <2>3, <2>6, <2>7, Zenon
    <3> QED
      BY <3>1, <3>3, <3>4, <3>5, Zenon
  <2>9. TypeOK'
    <3>1. Len(out') <= NGen
      BY <2>1, <2>4, <2>7
    <3> QED
      BY <2>2, <2>5, <2>7, <2>8, <3>1 DEF DecodeInv, TypeOK, config, pass
  <2>10. FedInv'
    <3>1. pc' = "emit" /\ mode' = "plain"
      BY <2>1, <2>2, SettingsStay
    <3>2. Context(nPast)' = Sofar'
      BY <2>5, <2>6, <2>7
    <3> QED
      BY <2>8, <3>1, <3>2 DEF FedInv
  <2>11. PassInv' /\ AcceptInv'
    BY <2>1, <2>2 DEF PassInv, AcceptInv
  <2> QED
    BY <2>1, <2>2, <2>5, <2>9, <2>10, <2>11 DEF DecodeInv
<1> QED
  BY <1>1, <1>2

(* The speculative loop emits first and feeds in the verify pass.          *)
LEMMA EmitKeepsInv ==
  ASSUME DecodeInv, Emit
  PROVE  DecodeInv'
<1>1. /\ UNCHANGED config /\ UNCHANGED <<cache, pass, nextTok, acc, k, trunc, reps>>
      /\ pc = "emit" /\ mode = "spec" /\ Len(out) < NGen
      /\ out' = Append(out, nextTok)
      /\ pc' \in {"done", "verify"}
      /\ pc' = "verify" => stream' = Append(stream, nextTok)
      /\ pc' = "done" => stream' = stream /\ Len(out) + 1 >= NGen
  BY DEF Emit
<1>2. /\ nextTok \in Tokens /\ prompt \in Seq(Tokens) /\ stream \in Seq(Tokens)
      /\ out \in Seq(Tokens) /\ Len(out) \in Nat /\ NGen \in Nat
  BY CommandLine DEF DecodeInv, TypeOK
<1>3. mode' = mode /\ prompt' = prompt /\ Faithful' = Faithful /\ Sharp' = Sharp
  BY <1>1, SettingsStay
<1>4. /\ Sofar' = Append(Sofar, nextTok)
      /\ out' \in Seq(Tokens) /\ Len(out') = Len(out) + 1
  BY <1>1, <1>2, <1>3, OneMore DEF Sofar
<1>5. TypeOK'
  <2>1. stream' \in Seq(Tokens)
    <3>1. Append(stream, nextTok) \in Seq(Tokens)
      BY <1>2, AppendProperties
    <3> QED
      BY <1>1, <1>2, <3>1
  <2>2. Len(out') <= NGen
    BY <1>1, <1>2, <1>4
  <2>3. pc' \in {"prefill", "emit", "verify", "judge", "accept", "done", "aborted"}
    BY <1>1
  <2> QED
    BY <1>1, <1>4, <2>1, <2>2, <2>3 DEF DecodeInv, TypeOK, config, cache, pass
<1>6. /\ RowsInv' /\ Context(nPast)' = Context(nPast) /\ nextTok' = nextTok
      /\ blurred' = blurred
  BY <1>1 DEF DecodeInv, RowsInv, Context, cache
<1>7. FedInv'
  <2>1. CASE pc' = "done"
    BY <2>1 DEF FedInv
  <2>2. CASE pc' = "verify" /\ Faithful
    <3>1. Context(nPast) = Sofar /\ stream = Sofar
      BY <1>1, <2>2 DEF DecodeInv, FedInv
    <3> QED
      BY <1>1, <1>4, <1>6, <2>2, <3>1 DEF FedInv
  <2>3. CASE pc' = "verify" /\ ~Faithful
    BY <1>3, <2>3 DEF FedInv
  <2> QED
    BY <1>1, <2>1, <2>2, <2>3
<1>8. PassInv' /\ AcceptInv'
  BY <1>1 DEF PassInv, AcceptInv
<1>9. pc' = "done" => Len(out') = NGen
  BY <1>1, <1>2, <1>4
<1> QED
  BY <1>1, <1>3, <1>5, <1>6, <1>7, <1>8, <1>9 DEF DecodeInv

(* The verify pass appends next_tok and the draft to the rows in use.      *)
LEMMA VerifyKeepsInv ==
  ASSUME DecodeInv, Verify
  PROVE  DecodeInv'
<1>1. CASE \E m : Abort(m)
  BY <1>1, AbortKeepsInv
<1>2. CASE ~ \E m : Abort(m)
  <2>1. PICK d \in Drafts :
          /\ StepBatch(<<nextTok>> \o d)
          /\ outs' \in AnswersTo(<<nextTok>> \o d)
          /\ low' \in IF gated THEN SUBSET (1 .. Len(d)) ELSE {{}}
          /\ draft' = d /\ base' = nPast
          /\ pc' = "judge"
          /\ UNCHANGED <<config, nextTok, acc, k, trunc, out, stream, reps>>
    BY <1>2 DEF Verify
  <2> DEFINE C == Context(nPast)
             ts == <<nextTok>> \o d
  <2>2. UNCHANGED config /\ UNCHANGED <<nextTok, acc, k, trunc, out, stream, reps>>
    BY <2>1
  <2>3. d \in Seq(Tokens) /\ Len(d) \in Nat /\ Len(d) <= SpecMax
    <3>1. SpecMax \in 1 .. 15
      BY CommandLine DEF DecodeInv
    <3>2. PICK n \in 0 .. SpecMax : d \in [1 .. n -> Tokens]
      BY DEF Drafts
    <3>3. n \in Nat
      BY <3>1
    <3>4. d \in Seq(Tokens) /\ Len(d) = n
      BY <3>2, <3>3
    <3> QED
      BY <3>1, <3>2, <3>4
  <2>4. /\ pc = "verify" /\ mode = "spec" /\ nextTok \in Tokens
        /\ base \in 0 .. maxKv /\ nPast \in 0 .. maxKv /\ maxKv \in Nat
    BY RowsAreTyped DEF Verify, DecodeInv, TypeOK
  <2>5. /\ ts \in Seq(Tokens) /\ Len(ts) = Len(d) + 1 /\ ts[1] = nextTok
        /\ \A i \in 1 .. Len(d) : ts[i + 1] = d[i]
    <3>1. <<nextTok>> \in Seq(Tokens) /\ Len(<<nextTok>>) = 1 /\ <<nextTok>>[1] = nextTok
      BY <2>4
    <3>2. /\ ts \in Seq(Tokens) /\ Len(ts) = 1 + Len(d)
          /\ \A i \in 1 .. 1 + Len(d) : ts[i] = IF i <= 1 THEN <<nextTok>>[i] ELSE d[i - 1]
      BY <2>3, <3>1, ConcatProperties
    <3> HIDE DEF ts
    <3>3. ts[1] = nextTok
      BY <2>3, <3>1, <3>2
    <3>4. ASSUME NEW i \in 1 .. Len(d) PROVE ts[i + 1] = d[i]
      <4>1. i + 1 \in 1 .. 1 + Len(d) /\ ~(i + 1 <= 1) /\ (i + 1) - 1 = i
        BY <2>3
      <4> QED
        BY <3>2, <4>1
    <3> QED
      BY <2>3, <3>2, <3>3, <3>4
  <2>6. C \in Seq(Tokens) /\ Len(C) = nPast
    BY RowsBelongTogether DEF DecodeInv
  <2> HIDE DEF C
  <2>7. StepBatch(ts) /\ outs' \in AnswersTo(ts)
    BY <2>1
  <2> HIDE DEF ts
  <2>8. /\ maxKv' = maxKv /\ maxKv' \in KvSizes
        /\ DOMAIN kv' = 0 .. maxKv' - 1 /\ \A r \in DOMAIN kv' : kv'[r] \in Seq(Tokens)
        /\ nPast' = nPast + Len(ts) /\ nPast' \in 0 .. maxKv' /\ nPast' > 0
        /\ blurred' \subseteq 0 .. maxKv' - 1
        /\ Sharp' => blurred' = {}
        /\ Context(nPast)' = C \o ts
        /\ RowsInv'
    BY <2>2, <2>5, <2>7, CacheAfterPass DEF DecodeInv, C
  <2>9. /\ outs' \in Seq(Tokens) /\ Len(outs') = Len(ts)
        /\ Sharp => \A p \in 1 .. Len(ts) : outs'[p] = Answer(C \o SubSeq(ts, 1, p))
    BY <2>5, <2>7, AnswersAreTheModels DEF DecodeInv, StepBatch, C
  <2>10. TypeOK'
    <3>1. low' \subseteq 1 .. SpecMax
      <4>1. low' \subseteq 1 .. Len(d)
        BY <2>1
      <4>2. SpecMax \in Nat
        BY CommandLine DEF DecodeInv
      <4> QED
        BY <2>3, <4>1, <4>2
    <3>2. draft' \in Seq(Tokens) /\ base' \in 0 .. maxKv'
      BY <2>1, <2>3, <2>4, <2>8
    <3>3. pc' \in {"prefill", "emit", "verify", "judge", "accept", "done", "aborted"}
      BY <2>1
    <3> QED
      BY <2>2, <2>8, <2>9, <3>1, <3>2, <3>3 DEF DecodeInv, TypeOK, config
  <2>11. Faithful' = Faithful /\ Sharp' = Sharp /\ mode' = mode /\ Sofar' = Sofar
    BY <2>2, SettingsStay DEF Sofar
  <2>12. \A n \in 0 .. Len(ts) : SubSeq(C \o ts, 1, nPast + n) = C \o SubSeq(ts, 1, n)
    BY <2>5, <2>6, PrefixOfConcat
  <2>13. FedInv'
    <3>1. CASE Faithful
      <4>1. Append(C, nextTok) = Sofar /\ stream = Sofar
        BY <2>4, <3>1 DEF DecodeInv, FedInv, C
      <4>2. SubSeq(ts, 1, 1) = <<nextTok>>
        <5>1. ts[1] \in Tokens
          BY <2>4, <2>5
        <5>2. /\ SubSeq(ts, 1, 1) \in Seq(Tokens) /\ Len(SubSeq(ts, 1, 1)) = 1
              /\ SubSeq(ts, 1, 1)[1] = ts[1]
          BY <5>1, SubSeqProperties
        <5>3. <<nextTok>> \in Seq(Tokens) /\ Len(<<nextTok>>) = 1 /\ <<nextTok>>[1] = nextTok
          BY <2>4
        <5>4. \A i \in 1 .. 1 : SubSeq(ts, 1, 1)[i] = <<nextTok>>[i]
          BY <2>5, <5>2, <5>3
        <5> QED
          BY <5>2, <5>3, <5>4, SeqEqual
      <4>3. SubSeq(C \o ts, 1, nPast + 1) = C \o <<nextTok>>
        <5>1. 1 \in 0 .. Len(ts)
          BY <2>3, <2>5
        <5> QED
          BY <2>12, <4>2, <5>1
      <4>4. SubSeq(C \o ts, 1, nPast + 1) = Sofar
        BY <2>4, <2>6, <4>1, <4>3, AppendIsConcat
      <4> QED
        BY <2>1, <2>2, <2>8, <2>11, <4>1, <4>4 DEF FedInv
    <3>2. CASE ~Faithful
      BY <2>1, <2>11, <3>2 DEF FedInv
    <3> QED
      BY <3>1, <3>2
  <2>14. PassInv'
    <3>1. nPast' = base' + 1 + Len(draft') /\ Len(draft') <= SpecMax
      BY <2>1, <2>3, <2>4, <2>5, <2>8
    <3>2. Len(outs') = Len(draft') + 1
      BY <2>1, <2>5, <2>9
    <3>3. ASSUME NEW i \in 1 .. Len(draft')
          PROVE  Context(nPast)'[base' + 1 + i] = draft'[i]
      <4>1. i \in 1 .. Len(d) /\ base' = nPast
        BY <2>1
      <4>2. /\ nPast + 1 + i \in 1 .. Len(C) + Len(ts) /\ ~(nPast + 1 + i <= Len(C))
            /\ (nPast + 1 + i) - Len(C) = i + 1
        BY <2>3, <2>4, <2>5, <2>6, <4>1
      <4>3. (C \o ts)[nPast + 1 + i] = ts[i + 1]
        BY <2>5, <2>6, <4>2, ConcatProperties
      <4> QED
        BY <2>1, <2>5, <2>8, <4>1, <4>3
    <3>4. ASSUME Sharp', NEW p \in 1 .. Len(outs')
          PROVE  outs'[p] = Answer(SubSeq(Context(nPast)', 1, base' + p))
      <4>1. p \in 1 .. Len(ts) /\ p \in 0 .. Len(ts)
        BY <2>9
      <4>2. outs'[p] = Answer(C \o SubSeq(ts, 1, p))
        BY <2>9, <2>11, <3>4, <4>1
      <4>3. SubSeq(Context(nPast)', 1, base' + p) = C \o SubSeq(ts, 1, p)
        BY <2>1, <2>8, <2>12, <4>1
      <4> QED
        BY <4>2, <4>3
    <3> QED
      BY <3>1, <3>2, <3>3, <3>4 DEF PassInv
  <2>15. AcceptInv'
    BY <2>1 DEF AcceptInv
  <2> QED
    BY <2>1, <2>4, <2>8, <2>10, <2>11, <2>13, <2>14, <2>15 DEF DecodeInv
<1> QED
  BY <1>1, <1>2

(* The judgement accepts drafts that are answers.                          *)
LEMMA JudgeKeepsInv ==
  ASSUME DecodeInv, Judge
  PROVE  DecodeInv'
<1>1. /\ UNCHANGED config /\ UNCHANGED <<cache, pass, nextTok, out, stream, reps>>
      /\ pc = "judge" /\ pc' = "accept" /\ k' = 0
  BY DEF Judge
<1>2. /\ acc' \in 0 .. Len(draft)
      /\ \A i \in 1 .. acc' : outs[i] = draft[i]
      /\ trunc' \in BOOLEAN /\ (trunc' => gated /\ acc' >= 1)
  BY JudgementIsSound DEF DecodeInv, TypeOK
<1>3. /\ prompt' = prompt /\ mode' = mode /\ gated' = gated
      /\ Faithful' = Faithful /\ Sharp' = Sharp /\ Sofar' = Sofar
  BY <1>1, SettingsStay DEF Sofar
<1>4. /\ draft' = draft /\ outs' = outs /\ base' = base /\ nPast' = nPast
      /\ stream' = stream /\ blurred' = blurred
      /\ RowsInv' /\ Context(nPast)' = Context(nPast)
  BY <1>1 DEF DecodeInv, RowsInv, Context, cache, pass
<1>5. Len(draft) \in Nat /\ Len(draft) <= SpecMax /\ SpecMax \in Nat /\ base \in Nat
  <2>1. Len(draft) <= SpecMax
    BY <1>1 DEF DecodeInv, PassInv
  <2>2. draft \in Seq(Tokens) /\ base \in 0 .. maxKv
    BY DEF DecodeInv, TypeOK
  <2>3. TypeOK
    BY DEF DecodeInv
  <2>4. SpecMax \in 1 .. 15
    BY <2>3, CommandLine
  <2>5. maxKv \in Nat
    BY <2>3, RowsAreTyped
  <2> QED
    BY <2>1, <2>2, <2>4, <2>5, LenProperties
<1>6. TypeOK'
  <2>1. acc' \in 0 .. SpecMax /\ k' \in 0 .. acc'
    BY <1>1, <1>2, <1>5
  <2>2. pc' \in {"prefill", "emit", "verify", "judge", "accept", "done", "aborted"}
    BY <1>1
  <2> QED
    BY <1>1, <1>2, <2>1, <2>2 DEF DecodeInv, TypeOK, config, cache, pass
<1>7. FedInv'
  <2>1. base + 1 + 0 = base + 1
    BY <1>5
  <2>2. Faithful => SubSeq(Context(nPast), 1, base + 1) = Sofar /\ stream = Sofar
    BY <1>1 DEF DecodeInv, FedInv
  <2> QED
    BY <1>1, <1>3, <1>4, <2>1, <2>2 DEF FedInv
<1>8. PassInv'
  BY <1>1, <1>3, <1>4 DEF DecodeInv, PassInv
<1>9. AcceptInv'
  <2>1. mode = "spec"
    BY <1>1 DEF DecodeInv
  <2>2. acc' <= Len(draft')
    BY <1>2, <1>4, <1>5
  <2>3. trunc' => gated' /\ mode' = "spec" /\ acc' >= 1
    BY <1>2, <1>3, <2>1
  <2> QED
    BY <1>2, <1>4, <2>2, <2>3 DEF AcceptInv
<1> QED
  BY <1>1, <1>3, <1>4, <1>6, <1>7, <1>8, <1>9 DEF DecodeInv

(* An accepted draft is in the rows behind the output already.             *)
LEMMA AcceptKeepsInv ==
  ASSUME DecodeInv, Accept
  PROVE  /\ DecodeInv'
         /\ draft[k + 1] \in Tokens
         /\ Exact => draft[k + 1] = Answer(Sofar)
<1> DEFINE C == Context(nPast)
           t == draft[k + 1]
<1>1. /\ UNCHANGED config /\ UNCHANGED <<cache, pass, pc, nextTok, acc, trunc, reps>>
      /\ pc = "accept" /\ k < acc /\ Len(out) < NGen
      /\ out' = Append(out, t) /\ stream' = Append(stream, t) /\ k' = k + 1
  BY DEF Accept
<1>2. /\ draft \in Seq(Tokens) /\ stream \in Seq(Tokens)
      /\ prompt \in Seq(Tokens) /\ out \in Seq(Tokens)
      /\ Len(out) \in Nat /\ NGen \in Nat /\ SpecMax \in Nat
  <2>1. TypeOK
    BY DEF DecodeInv
  <2>2. draft \in Seq(Tokens) /\ stream \in Seq(Tokens)
    BY <2>1 DEF TypeOK
  <2>3. /\ prompt \in Seq(Tokens) /\ out \in Seq(Tokens) /\ Len(out) \in Nat
        /\ NGen \in Nat /\ SpecMax \in 1 .. 15
    BY <2>1, CommandLine
  <2> QED
    BY <2>2, <2>3
<1>3. /\ k \in Nat /\ acc \in Nat /\ acc <= SpecMax /\ base \in Nat
      /\ Len(draft) \in Nat /\ acc <= Len(draft) /\ k + 1 \in 1 .. Len(draft)
  <2>1. acc <= Len(draft)
    BY <1>1 DEF DecodeInv, AcceptInv
  <2>2. k \in 0 .. acc /\ acc \in 0 .. SpecMax /\ base \in 0 .. maxKv /\ maxKv \in Nat
    BY RowsAreTyped DEF DecodeInv, TypeOK
  <2>3. Len(draft) \in Nat
    BY <1>2, LenProperties
  <2> QED
    BY <1>1, <1>2, <2>1, <2>2, <2>3
<1>4. C \in Seq(Tokens) /\ Len(C) = nPast
  BY RowsBelongTogether DEF DecodeInv
<1>5. nPast = base + 1 + Len(draft) /\ C[base + 1 + (k + 1)] = t
  BY <1>1, <1>3 DEF DecodeInv, PassInv
<1>6. t \in Tokens
  BY <1>2, <1>3, ElementOfSeq
<1>7. /\ prompt' = prompt /\ mode' = mode /\ gated' = gated
      /\ Faithful' = Faithful /\ Sharp' = Sharp
  BY <1>1, SettingsStay
<1>8. /\ Sofar' = Append(Sofar, t)
      /\ out' \in Seq(Tokens) /\ Len(out') = Len(out) + 1
  <2> HIDE DEF t
  <2>1. /\ prompt \o Append(out, t) = Append(prompt \o out, t)
        /\ Append(out, t) \in Seq(Tokens) /\ Len(Append(out, t)) = Len(out) + 1
    BY <1>2, <1>6, OneMore
  <2> QED
    BY <1>1, <1>7, <2>1, Zenon DEF Sofar
<1>9. stream' \in Seq(Tokens)
  BY <1>1, <1>2, <1>6, AppendProperties
<1>10. /\ draft' = draft /\ outs' = outs /\ base' = base /\ nPast' = nPast
       /\ blurred' = blurred /\ acc' = acc /\ trunc' = trunc
       /\ RowsInv' /\ Context(nPast)' = C
  BY <1>1 DEF DecodeInv, RowsInv, Context, cache, pass
<1> HIDE DEF C, t
<1>11. ASSUME Faithful
       PROVE  /\ SubSeq(C, 1, base + 1 + k) = Sofar /\ stream = Sofar
              /\ SubSeq(C, 1, base + 1 + (k + 1)) = Append(Sofar, t)
  <2>1. SubSeq(C, 1, base + 1 + k) = Sofar /\ stream = Sofar
    BY <1>1, <1>11 DEF DecodeInv, FedInv, C
  <2>2. base + 1 + k \in Nat /\ base + 1 + k < Len(C)
        /\ (base + 1 + k) + 1 = base + 1 + (k + 1)
    BY <1>3, <1>4, <1>5
  <2>3. SubSeq(C, 1, (base + 1 + k) + 1)
          = Append(SubSeq(C, 1, base + 1 + k), C[(base + 1 + k) + 1])
    BY <1>4, <2>2, PrefixOneMore
  <2> QED
    BY <1>5, <2>1, <2>2, <2>3
<1>12. TypeOK'
  <2>1. k' \in 0 .. acc' /\ Len(out') <= NGen
    BY <1>1, <1>2, <1>3, <1>8, <1>10
  <2> QED
    BY <1>1, <1>8, <1>9, <2>1 DEF DecodeInv, TypeOK, config, cache, pass
<1>13. FedInv'
  BY <1>1, <1>7, <1>8, <1>10, <1>11 DEF FedInv
<1>14. PassInv'
  BY <1>1, <1>7, <1>10 DEF DecodeInv, PassInv, C
<1>15. AcceptInv'
  BY <1>1, <1>7, <1>10 DEF DecodeInv, AcceptInv
<1>16. DecodeInv'
  BY <1>1, <1>7, <1>10, <1>12, <1>13, <1>14, <1>15 DEF DecodeInv
<1>17. ASSUME Exact PROVE t = Answer(Sofar)
  <2>1. Sharp /\ Faithful
    BY <1>17 DEF Exact, Sharp, Faithful
  <2>2. outs[k + 1] = draft[k + 1]
    <3>1. k + 1 \in 1 .. acc
      BY <1>1, <1>3
    <3> QED
      BY <1>1, <3>1 DEF DecodeInv, AcceptInv
  <2>3. outs[k + 1] = Answer(SubSeq(C, 1, base + (k + 1)))
    <3>1. k + 1 \in 1 .. Len(outs)
      BY <1>1, <1>3 DEF DecodeInv, PassInv
    <3> QED
      BY <1>1, <2>1, <3>1 DEF DecodeInv, PassInv, C
  <2>4. base + (k + 1) = base + 1 + k
    BY <1>3
  <2> QED
    BY <1>11, <2>1, <2>2, <2>3, <2>4 DEF t
<1> QED
  BY <1>6, <1>16, <1>17 DEF t

(* The rewind is to rows in use: the refusal of rewind_to is not reached.  *)
LEMMA SettleKeepsInv ==
  ASSUME DecodeInv, Settle
  PROVE  DecodeInv'
<1> DEFINE C == Context(nPast)
<1>1. UNCHANGED config /\ UNCHANGED <<kv, blurred, out, stream, reps>>
  BY DEF Settle
<1>2. /\ pc = "accept" /\ (k = acc \/ Len(out) >= NGen)
      /\ nextTok' = IF trunc THEN draft[acc] ELSE outs[acc + 1]
      /\ draft' = <<>> /\ outs' = <<>> /\ low' = {} /\ base' = 0
      /\ acc' = 0 /\ k' = 0 /\ trunc' = FALSE
  BY DEF Settle
<1>3. /\ draft \in Seq(Tokens) /\ outs \in Seq(Tokens) /\ k \in 0 .. acc
      /\ acc \in 0 .. SpecMax /\ base \in 0 .. maxKv /\ trunc \in BOOLEAN
  BY DEF DecodeInv, TypeOK
<1>4. maxKv \in Nat /\ nPast \in Nat /\ nPast <= maxKv
  BY RowsAreTyped DEF DecodeInv
<1>5. Len(out) \in Nat /\ NGen \in Nat /\ SpecMax \in Nat
  BY CommandLine DEF DecodeInv
<1>6. /\ nPast = base + 1 + Len(draft) /\ Len(outs) = Len(draft) + 1
      /\ Sharp => \A p \in 1 .. Len(outs) : outs[p] = Answer(SubSeq(C, 1, base + p))
  BY <1>2 DEF DecodeInv, PassInv
<1>7. acc <= Len(draft) /\ (trunc => gated /\ mode = "spec" /\ acc >= 1)
  BY <1>2 DEF DecodeInv, AcceptInv
<1>8. Len(draft) \in Nat /\ acc \in Nat /\ base \in Nat /\ k \in Nat
  BY <1>3, <1>4, <1>5, LenProperties
<1>9. RewindTo \in 0 .. nPast /\ RewindTo \in Nat /\ (~trunc => RewindTo = base + acc + 1)
  BY <1>4, <1>6, <1>7, <1>8 DEF RewindTo
<1>10. nPast' = RewindTo /\ pc' = "emit"
  BY <1>9 DEF Settle
<1>11. /\ prompt' = prompt /\ mode' = mode /\ maxKv' = maxKv
       /\ Faithful' = Faithful /\ Exact' = Exact /\ Sharp' = Sharp /\ Sofar' = Sofar
  BY <1>1, SettingsStay DEF Sofar
<1>12. Context(nPast)' = SubSeq(C, 1, RewindTo) /\ RowsInv'
  <2>1. /\ Context(RewindTo) = SubSeq(C, 1, RewindTo)
        /\ \A r \in 0 .. RewindTo - 1 :
             Len(kv[r]) = r + 1 /\ \A j \in 1 .. r + 1 : kv[r][j] = kv[RewindTo - 1][j]
    BY <1>9, RewindKeepsPrefix DEF DecodeInv
  <2>2. Context(nPast)' = Context(RewindTo)
    BY <1>1, <1>10 DEF Context
  <2>3. RowsInv'
    <3> HIDE DEF C
    <3> QED
      BY <1>1, <1>10, <2>1, Zenon DEF RowsInv
  <2> QED
    BY <2>1, <2>2, <2>3
<1> HIDE DEF C
<1>13. nextTok' \in Tokens
  <2>1. CASE trunc
    <3>1. acc \in 1 .. Len(draft)
      BY <1>7, <1>8, <2>1
    <3> QED
      BY <1>2, <1>3, <2>1, <3>1, ElementOfSeq
  <2>2. CASE ~trunc
    <3>1. acc + 1 \in 1 .. Len(outs)
      BY <1>6, <1>7, <1>8
    <3> QED
      BY <1>2, <1>3, <2>2, <3>1, ElementOfSeq
  <2> QED
    BY <2>1, <2>2
<1>14. TypeOK'
  <2>1. /\ draft' \in Seq(Tokens) /\ outs' \in Seq(Tokens)
        /\ low' \subseteq 1 .. SpecMax /\ base' \in 0 .. maxKv'
        /\ acc' \in 0 .. SpecMax /\ k' \in 0 .. acc'
    BY <1>2, <1>4, <1>5, <1>11, EmptySeq
  <2>2. trunc' \in BOOLEAN
    BY <1>2, Zenon
  <2>3. nPast' \in 0 .. maxKv'
    BY <1>4, <1>9, <1>10, <1>11
  <2>4. pc' \in {"prefill", "emit", "verify", "judge", "accept", "done", "aborted"}
    BY <1>10
  <2> QED
    BY <1>1, <1>13, <2>1, <2>2, <2>3, <2>4 DEF DecodeInv, TypeOK, config
<1>15. ASSUME Len(out) < NGen, Faithful
       PROVE  /\ Context(nPast)' = Sofar /\ stream = Sofar
              /\ Exact => nextTok' = Answer(Sofar)
  <2>1. ~trunc /\ k = acc
    <3>1. mode = "spec"
      BY <1>2 DEF DecodeInv
    <3>2. ~gated
      BY <1>15, <3>1 DEF Faithful
    <3>3. ~trunc
      BY <1>7, <3>2
    <3>4. k = acc
      BY <1>2, <1>5, <1>15
    <3> QED
      BY <3>3, <3>4
  <2>2. SubSeq(C, 1, base + 1 + k) = Sofar /\ stream = Sofar
    BY <1>2, <1>15 DEF DecodeInv, FedInv, C
  <2>3. RewindTo = base + 1 + k /\ base + (acc + 1) = base + 1 + k
    BY <1>8, <1>9, <2>1
  <2>4. ASSUME Exact PROVE nextTok' = Answer(Sofar)
    <3>1. Sharp /\ acc + 1 \in 1 .. Len(outs)
      BY <1>6, <1>7, <1>8, <2>4 DEF Exact, Sharp
    <3>2. outs[acc + 1] = Answer(SubSeq(C, 1, base + (acc + 1)))
      BY <1>6, <3>1
    <3>3. nextTok' = outs[acc + 1]
      BY <1>2, <2>1
    <3> QED
      BY <2>2, <2>3, <3>2, <3>3
  <2> QED
    BY <1>12, <2>2, <2>3, <2>4
<1>16. FedInv'
  BY <1>1, <1>10, <1>11, <1>15 DEF FedInv
<1>17. PassInv' /\ AcceptInv'
  BY <1>10 DEF PassInv, AcceptInv
<1> QED
  BY <1>1, <1>10, <1>11, <1>12, <1>14, <1>16, <1>17 DEF DecodeInv

(* The loop ends with NGen tokens.                                         *)
LEMMA FinishKeepsInv ==
  ASSUME DecodeInv, Finish
  PROVE  DecodeInv'
<1>1. /\ UNCHANGED config
      /\ UNCHANGED <<cache, pass, nextTok, acc, k, trunc, out, stream, reps>>
      /\ pc = "emit" /\ pc' = "done" /\ Len(out) >= NGen
  BY DEF Finish
<1>2. TypeOK'
  <2>1. pc' \in {"prefill", "emit", "verify", "judge", "accept", "done", "aborted"}
    BY <1>1
  <2> QED
    BY <1>1, <2>1 DEF DecodeInv, TypeOK, config, cache, pass
<1>3. RowsInv' /\ blurred' = blurred
  BY <1>1 DEF DecodeInv, RowsInv, cache
<1>4. FedInv' /\ PassInv' /\ AcceptInv'
  BY <1>1 DEF FedInv, PassInv, AcceptInv
<1>5. Len(out') = NGen
  <2>1. Len(out) \in Nat /\ Len(out) <= NGen /\ NGen \in Nat
    BY CommandLine DEF DecodeInv
  <2> QED
    BY <1>1, <2>1
<1> QED
  BY <1>1, <1>2, <1>3, <1>4, <1>5, SettingsStay DEF DecodeInv

(* The rows of the last generation stay, but none of them is in use.       *)
LEMMA AgainKeepsInv ==
  ASSUME DecodeInv, Again
  PROVE  DecodeInv'
<1>1. /\ UNCHANGED config /\ UNCHANGED <<kv, blurred, pass, nextTok, acc, k, trunc>>
      /\ pc' = "prefill" /\ nPast' = 0 /\ out' = <<>> /\ stream' = <<>>
      /\ reps' = reps + 1
  BY DEF Again, ResetTo
<1>2. /\ prompt \in Seq(Tokens) /\ Len(prompt) \in Nat /\ NGen \in Nat /\ maxKv \in Nat
      /\ prompt' = prompt /\ Sharp' = Sharp /\ maxKv' = maxKv
  BY <1>1, CommandLine, RowsAreTyped, SettingsStay DEF DecodeInv
<1>3. TypeOK'
  <2>1. /\ out' \in Seq(Tokens) /\ stream' \in Seq(Tokens) /\ Len(out') <= NGen
    <3>1. <<>> \in Seq(Tokens) /\ Len(<<>>) = 0
      BY EmptySeq
    <3>2. Len(out') = 0
      BY <1>1, <3>1, Zenon
    <3> QED
      BY <1>1, <1>2, <3>1, <3>2
  <2>2. nPast' \in 0 .. maxKv' /\ reps' \in Nat
    BY <1>1, <1>2 DEF DecodeInv, TypeOK
  <2>3. pc' \in {"prefill", "emit", "verify", "judge", "accept", "done", "aborted"}
    BY <1>1
  <2> QED
    BY <1>1, <2>1, <2>2, <2>3 DEF DecodeInv, TypeOK, config, pass
<1>4. RowsInv'
  BY <1>1 DEF RowsInv
<1>5. FedInv'
  <2>1. Context(nPast)' = <<>>
    BY <1>1 DEF Context
  <2>2. SubSeq(prompt', 1, nPast') = <<>>
    BY <1>1, SubSeqEmpty
  <2>3. nPast' <= Len(prompt') /\ ~(nPast' > 0)
    BY <1>1, <1>2
  <2> QED
    BY <1>1, <2>1, <2>2, <2>3 DEF FedInv
<1>6. PassInv' /\ AcceptInv'
  BY <1>1 DEF PassInv, AcceptInv
<1> QED
  BY <1>1, <1>2, <1>3, <1>4, <1>5, <1>6 DEF DecodeInv

(* The invariant speaks of the variables only.                             *)
LEMMA StutterKeepsInv ==
  ASSUME DecodeInv, UNCHANGED vars
  PROVE  DecodeInv'
<1>1. /\ UNCHANGED config
      /\ UNCHANGED <<cache, pass, pc, nextTok, acc, k, trunc, out, stream, reps>>
  BY DEF vars
<1>2. TypeOK'
  BY <1>1 DEF DecodeInv, TypeOK, config, cache, pass
<1>3. RowsInv' /\ Context(nPast)' = Context(nPast) /\ blurred' = blurred
  BY <1>1 DEF DecodeInv, RowsInv, Context, cache
<1>4. /\ prompt' = prompt /\ mode' = mode /\ gated' = gated
      /\ Faithful' = Faithful /\ Exact' = Exact /\ Sharp' = Sharp /\ Sofar' = Sofar
  BY <1>1, SettingsStay DEF Sofar
<1>5. FedInv'
  BY <1>1, <1>3, <1>4 DEF DecodeInv, FedInv, cache, pass
<1>6. PassInv' /\ AcceptInv'
  BY <1>1, <1>3, <1>4 DEF DecodeInv, PassInv, AcceptInv, cache, pass
<1> QED
  BY <1>1, <1>2, <1>3, <1>4, <1>5, <1>6 DEF DecodeInv

(* The invariant is inductive.                                             *)
LEMMA StepKeepsInv ==
  ASSUME DecodeInv, [Next]_vars
  PROVE  DecodeInv'
<1>1. CASE Prefill
  BY <1>1, PrefillKeepsInv
<1>2. CASE PrefillDone
  BY <1>2, PrefillDoneKeepsInv
<1>3. CASE PlainStep
  BY <1>3, PlainStepKeepsInv
<1>4. CASE Emit
  BY <1>4, EmitKeepsInv
<1>5. CASE Verify
  BY <1>5, VerifyKeepsInv
<1>6. CASE Judge
  BY <1>6, JudgeKeepsInv
<1>7. CASE Accept
  BY <1>7, AcceptKeepsInv
<1>8. CASE Settle
  BY <1>8, SettleKeepsInv
<1>9. CASE Finish
  BY <1>9, FinishKeepsInv
<1>10. CASE Again
  BY <1>10, AgainKeepsInv
<1>11. CASE UNCHANGED vars
  BY <1>11, StutterKeepsInv
<1> QED
  BY <1>1, <1>2, <1>3, <1>4, <1>5, <1>6, <1>7, <1>8, <1>9, <1>10, <1>11 DEF Next

(***************************************************************************)
(* Every state of a generation satisfies the invariant: whatever the       *)
(* drafter proposes, the rows in use belong together and the answers are   *)
(* the model's.                                                            *)
(***************************************************************************)
THEOREM DecodeInvariant == Spec => []DecodeInv
<1>1. Init => DecodeInv
  BY InitHasInv
<1>2. DecodeInv /\ [Next]_vars => DecodeInv'
  BY StepKeepsInv
<1> QED
  BY <1>1, <1>2, PTL DEF Spec

(***************************************************************************)
(* Types; in particular no generation emits more than NGen tokens, and     *)
(* rewind_to is never asked for a position beyond nPast.                   *)
(***************************************************************************)
THEOREM DecodeTypes == Spec => []TypeOK
<1>1. DecodeInv => TypeOK
  BY DEF DecodeInv
<1> QED
  BY <1>1, DecodeInvariant, PTL

(***************************************************************************)
(* At the loop head the KV rows in use are those of the prompt and the     *)
(* emitted tokens, and the suffix index has seen the same stream, unless   *)
(* the margin gate is on (run_once, step_batch and rewind_to).             *)
(***************************************************************************)
THEOREM RowsFollowOutput == Spec => []EmittedAsFedUngated
<1>1. DecodeInv => EmittedAsFedUngated
  <2> SUFFICES ASSUME DecodeInv, ~gated, pc = "emit", Len(out) < NGen
               PROVE  /\ Context(nPast) = prompt \o out
                      /\ Coherent(nPast)
                      /\ mode = "spec" => stream = prompt \o out
    BY DEF EmittedAsFedUngated, EmittedAsFed
  <2>1. Faithful
    BY DEF Faithful
  <2>2. Context(nPast) = Sofar /\ (mode = "spec" => stream = Sofar)
    BY <2>1 DEF DecodeInv, FedInv
  <2>3. Coherent(nPast)
    BY RowsBelongTogether DEF DecodeInv
  <2> QED
    BY <2>2, <2>3 DEF Sofar
<1> QED
  BY <1>1, DecodeInvariant, PTL

-----------------------------------------------------------------------------
(* The steps of greedy decoding.                                           *)
LEMMA TokenIsGenerated ==
  ASSUME UNCHANGED config, Len(out) < NGen,
         NEW t \in Tokens, Exact => t = Answer(Sofar), out' = Append(out, t)
  PROVE  Greedy!Generate
<1>1. prompt' = prompt /\ mode' = mode /\ approx' = approx /\ gated' = gated
  BY SettingsStay
<1>2. \E u \in Tokens :
        /\ (mode = "plain" \/ (~approx /\ ~gated)) => u = Answer(prompt \o out)
        /\ out' = Append(out, u)
  BY DEF Exact, Sofar
<1> QED
  BY <1>1, <1>2 DEF Greedy!Generate

(* What leaves the output alone is invisible to greedy decoding.           *)
LEMMA NothingIsGenerated ==
  ASSUME UNCHANGED config, out' = out
  PROVE  UNCHANGED Greedy!greedyVars
<1>1. prompt' = prompt /\ mode' = mode /\ approx' = approx /\ gated' = gated
  BY SettingsStay
<1> QED
  BY <1>1 DEF Greedy!greedyVars

(* Each step of run_once generates one token or none, or starts over.      *)
LEMMA StepIsGreedy ==
  ASSUME DecodeInv, [Next]_vars
  PROVE  [Greedy!GreedyNext]_(Greedy!greedyVars)
<1>1. CASE UNCHANGED config /\ out' = out
  BY <1>1, NothingIsGenerated
<1>2. CASE Prefill
  BY <1>1, <1>2 DEF Prefill, Abort
<1>3. CASE PrefillDone
  BY <1>1, <1>3 DEF PrefillDone
<1>4. CASE PlainStep
  <2>1. CASE Abort(1)
    BY <1>1, <2>1 DEF Abort
  <2>2. CASE ~Abort(1)
    <3>1. /\ UNCHANGED config /\ pc = "emit" /\ mode = "plain" /\ Len(out) < NGen
          /\ out' = Append(out, nextTok)
      BY <1>4, <2>2 DEF PlainStep
    <3>2. nextTok \in Tokens /\ (Exact => nextTok = Answer(Sofar))
      BY <3>1 DEF DecodeInv, TypeOK, FedInv, Faithful
    <3>3. Greedy!Generate
      BY <3>1, <3>2, TokenIsGenerated
    <3> QED
      BY <3>3 DEF Greedy!GreedyNext
  <2> QED
    BY <2>1, <2>2
<1>5. CASE Emit
  <2>1. /\ UNCHANGED config /\ pc = "emit" /\ mode = "spec" /\ Len(out) < NGen
        /\ out' = Append(out, nextTok)
    BY <1>5 DEF Emit
  <2>2. nextTok \in Tokens
    BY DEF DecodeInv, TypeOK
  <2>3. Exact => nextTok = Answer(Sofar)
    <3>1. Exact => Faithful
      BY DEF Exact, Faithful
    <3> QED
      BY <2>1, <3>1 DEF DecodeInv, FedInv
  <2>4. Greedy!Generate
    BY <2>1, <2>2, <2>3, TokenIsGenerated
  <2> QED
    BY <2>4 DEF Greedy!GreedyNext
<1>6. CASE Verify
  BY <1>1, <1>6 DEF Verify, Abort
<1>7. CASE Judge
  BY <1>1, <1>7 DEF Judge
<1>8. CASE Accept
  <2>1. /\ UNCHANGED config /\ Len(out) < NGen
        /\ out' = Append(out, draft[k + 1])
    BY <1>8 DEF Accept
  <2>2. draft[k + 1] \in Tokens /\ (Exact => draft[k + 1] = Answer(Sofar))
    BY <1>8, AcceptKeepsInv
  <2>3. Greedy!Generate
    BY <2>1, <2>2, TokenIsGenerated
  <2> QED
    BY <2>3 DEF Greedy!GreedyNext
<1>9. CASE Settle
  BY <1>1, <1>9 DEF Settle
<1>10. CASE Finish
  BY <1>1, <1>10 DEF Finish
<1>11. CASE Again
  <2>1. UNCHANGED config /\ pc = "done" /\ out' = <<>>
    BY <1>11 DEF Again
  <2>2. Len(out) = NGen
    BY <2>1 DEF DecodeInv
  <2>3. prompt' = prompt /\ mode' = mode /\ approx' = approx /\ gated' = gated
    BY <2>1, SettingsStay
  <2>4. Greedy!Repeat
    BY <2>1, <2>2, <2>3 DEF Greedy!Repeat
  <2> QED
    BY <2>4 DEF Greedy!GreedyNext
<1>12. CASE UNCHANGED vars
  BY <1>1, <1>12 DEF vars
<1> QED
  BY <1>2, <1>3, <1>4, <1>5, <1>6, <1>7, <1>8, <1>9, <1>10, <1>11, <1>12 DEF Next

(***************************************************************************)
(* Speculation is lossless: for every model, prompt, drafter, cache size   *)
(* and number of generations run_once emits what greedy decoding emits,    *)
(* token by token ("--spec on output is token-identical to --spec off",    *)
(* decode_main.cpp), unless the margin gate or truncated experts are       *)
(* switched on; then what is emitted still has the shape of a generation.  *)
(***************************************************************************)
THEOREM SpeculationIsLossless == Spec => ImplementsGreedyDecode
<1>1. Init => Greedy!GreedyInit
  BY DEF Init, Greedy!GreedyInit
<1>2. DecodeInv /\ [Next]_vars => [Greedy!GreedyNext]_(Greedy!greedyVars)
  BY StepIsGreedy
<1> QED
  BY <1>1, <1>2, DecodeInvariant, PTL DEF Spec, ImplementsGreedyDecode, Greedy!GreedySpec
=============================================================================
