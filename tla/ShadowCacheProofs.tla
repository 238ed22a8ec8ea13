------------------------- MODULE ShadowCacheProofs -------------------------
(***************************************************************************)
(* A process serves a whole payload in its own layout, and a cache that    *)
(* would be accepted is whole: for any number of processes that start,     *)
(* write and crash at the same time, any models and any number of payload  *)
(* units, whatever writes fall short.  The one exception is a file that    *)
(* two processes had open for writing at once.                             *)
(*                                                                         *)
(* The argument: a file that is not mixed has one writer at a time, who    *)
(* has written all of it in order, minus what the disk refused.  A refused *)
(* unit makes the file too short, or puts a unit of another kind where the *)
(* header or the entries belong.  The temporary file may be renamed by a   *)
(* process that did not write it and be mapped by a third while its writer *)
(* goes on; but a file that is long enough and has the right entries has   *)
(* no unit to come.                                                        *)
(***************************************************************************)
EXTENDS ShadowCache, TLAPS, FiniteSetTheorems, SequenceTheorems

Writing == {"head", "entries", "payload"}
Reading == {"validate", "mapped"}
\* The steps at which a process remembers what it was asked for.
Asked == {"lookup", "alloc", "open"} \cup Writing \cup Reading
Steps == {"down", "disabled", "built", "rename"} \cup Asked

Head1(l) == <<"head", l>>
Entries1(m) == <<"entries", Key[m]>>
Units == {Head1(l) : l \in Layouts} \cup {Entries1(m) : m \in Models}
         \cup ({"payload"} \X Models \X Layouts \X Nat)
Contents == Seq(Units \cup {None})

Records == [pc : Steps, mode : Modes \cup {None}, model : Models \cup {None},
            layout : Layouts \cup {None}, file : {0} \cup Inodes, pos : Nat, unit : Nat,
            map : {0} \cup Inodes]

\* What is said of a model that a process was asked for.
Wanted(r) == r.model \in Models /\ r.layout \in Layouts /\ Payload[r.model] > 0

(* Types; what a process initialises or serves, it has asked for.          *)
CacheTypeOK ==
  /\ proc \in [Processes -> Records]
  /\ inode \in [Inodes -> Contents]
  /\ cache_path \in {0} \cup Inodes
  /\ cache_tmp \in {0} \cup Inodes
  /\ mixed \subseteq Inodes
  /\ \A p \in Processes : proc[p].pc \in Asked => Wanted(proc[p])

(* Which step has which handles; a mapping and the cache are not the       *)
(* temporary file.                                                         *)
HasHandles(r) ==
  /\ r.file # 0 <=> r.pc \in Writing
  /\ r.pc \notin Writing => r.pos = 0
  /\ r.pc # "payload" => r.unit = 0
  /\ r.map # 0 <=> r.pc \in Reading

HandlesInv ==
  /\ \A p \in Processes : HasHandles(proc[p])
  /\ \A p \in Processes : proc[p].map # 0 => proc[p].map # cache_tmp
  /\ cache_tmp # 0 => cache_tmp # cache_path

(* A file that is not mixed has one writer.                                *)
OneWriter ==
  \A p, q \in Processes :
    proc[p].file = proc[q].file /\ proc[p].file \notin mixed \cup {0} => p = q

(* n units of a payload, after what the disk took of header and entries.   *)
Begun(file, b, m, l) ==
  /\ b = 1 => file[1] \in {Head1(l), Entries1(m)}
  /\ b = 2 => file[1] = Head1(l) /\ file[2] = Entries1(m)
Laid(file, m, l, n) ==
  \E b \in 0..2 :
    /\ Begun(file, b, m, l)
    /\ Len(file) = b + n
    /\ \A k \in 1..n : file[b + k] = PayloadUnit(m, l, k)

(* The writer has written in order, and there is a unit to come.           *)
InOrder(file, r) ==
  /\ r.pos = Len(file)
  /\ r.unit < Payload[r.model]
  /\ Laid(file, r.model, r.layout, r.unit)
  /\ r.pc = "head" => Len(file) = 0
  /\ r.pc = "entries" => Len(file) = 0 \/ (Len(file) = 1 /\ file[1] = Head1(r.layout))
WrittenInv ==
  \A p \in Processes :
    proc[p].file \notin mixed \cup {0} => InOrder(inode[proc[p].file], proc[p])

(* What matches is followed by a payload, whole or not, and nothing else.  *)
Proper(file) ==
  \A m \in Models, l \in Layouts :
    Len(file) >= 2 /\ Matches(file, m, l) =>
      /\ Len(file) <= need(m)
      /\ \E a \in Models : Key[a] = Key[m] /\ \A k \in 1..(Len(file) - 2) : file[2 + k] = PayloadUnit(a, l, k)
ProperInv == \A i \in Inodes \ mixed : Proper(inode[i])

(* A mapping was long enough, and one that is served has matched.          *)
Read(file, r) ==
  /\ r.pc = "validate" => Len(file) >= need(r.model)
  /\ r.pc = "mapped" => Len(file) = need(r.model) /\ Matches(file, r.model, r.layout)
MappedInv ==
  \A p \in Processes :
    proc[p].map \notin mixed \cup {0} => Read(inode[proc[p].map], proc[p])

CacheInv ==
  CacheTypeOK /\ HandlesInv /\ OneWriter /\ WrittenInv /\ ProperInv /\ MappedInv
-----------------------------------------------------------------------------
(* At first nothing runs and there is no file.                             *)
LEMMA InitEstablishesCacheInv == CacheInit => CacheInv
<1> SUFFICES ASSUME CacheInit PROVE CacheInv
  OBVIOUS
<1>1. Down \in Records /\ HasHandles(Down) /\ Down.pc \notin Asked /\ Down.file = 0 /\ Down.map = 0
  BY DEF Down, Records, Steps, Asked, Writing, Reading, HasHandles
<1>2. \A p \in Processes : proc[p] = Down
  BY DEF CacheInit
<1>3. <<>> \in Contents /\ \A i \in Inodes : inode[i] = <<>>
  BY DEF CacheInit, Contents
<1>4. CacheTypeOK
  BY <1>1, <1>2, <1>3 DEF CacheInit, CacheTypeOK
<1>5. HandlesInv /\ OneWriter /\ WrittenInv /\ MappedInv
  BY <1>1, <1>2 DEF CacheInit, HandlesInv, OneWriter, WrittenInv, MappedInv
<1>6. ProperInv
  BY <1>3 DEF ProperInv, Proper
<1> QED
  BY <1>4, <1>5, <1>6 DEF CacheInv

(* fopen finds an inode that nothing refers to: beside the two names, each *)
(* process refers to one at most.                                          *)
LEMMA FreeInodeIsFree ==
  ASSUME CacheInv, cache_tmp = 0
  PROVE  FreeInode \in Inodes \ ({cache_path, cache_tmp} \cup Opened)
<1> DEFINE Refers(p, i) == proc[p].file = i \/ proc[p].map = i
           others == Inodes \ {cache_path}
           referrer == [i \in others |-> CHOOSE p \in Processes : Refers(p, i)]
<1>1. IsFiniteSet(Inodes) /\ Cardinality(Inodes) = Cardinality(Processes) + 2
  <2>1. Cardinality(Processes) \in Nat
    BY FS_CardinalityType, CacheAssumption
  <2> QED
    BY <2>1, FS_Interval DEF Inodes
<1>2. /\ IsFiniteSet(others)
      /\ Cardinality(Processes) \in Nat
      /\ Cardinality(Processes) < Cardinality(others)
  <2>1. Cardinality(Processes) \in Nat
    BY FS_CardinalityType, CacheAssumption
  <2>2. /\ IsFiniteSet(others)
        /\ Cardinality(others) = IF cache_path \in Inodes THEN Cardinality(Inodes) - 1
                                 ELSE Cardinality(Inodes)
    BY <1>1, FS_RemoveElement
  <2> QED
    BY <1>1, <2>1, <2>2
<1>3. \A i \in Inodes : i # 0
  BY DEF Inodes
<1>4. \A p \in Processes : \A i, j \in Inodes : Refers(p, i) /\ Refers(p, j) => i = j
  BY <1>3 DEF CacheInv, HandlesInv, HasHandles, Writing, Reading
<1>5. \E i \in others : \A p \in Processes : ~Refers(p, i)
  <2> SUFFICES ASSUME \A i \in others : \E p \in Processes : Refers(p, i)
               PROVE  FALSE
    OBVIOUS
  <2>1. \A i \in others : referrer[i] \in Processes /\ Refers(referrer[i], i)
    OBVIOUS
  <2>2. referrer \in [others -> Processes]
    BY <2>1
  <2> HIDE DEF referrer
  <2>3. PICK i, j \in others : i # j /\ referrer[i] = referrer[j]
    BY <1>2, <2>2, FS_PigeonHole, CacheAssumption
  <2> QED
    BY <1>4, <2>1, <2>3
<1>6. \E i \in Inodes : i \notin {cache_path, cache_tmp} \cup Opened
  BY <1>3, <1>5 DEF Opened
<1> QED
  BY <1>6 DEF FreeInode

-----------------------------------------------------------------------------
(* Files *)

(* A unit stored at a position makes a file of units and holes.            *)
LEMMA StoredIsContents ==
  ASSUME NEW file \in Contents, NEW pos \in Nat, NEW u \in Units
  PROVE  Stored(file, pos, u) \in Contents
<1> DEFINE size == IF Len(file) > pos THEN Len(file) ELSE pos + 1
<1>1. size \in Nat /\ Len(file) \in Nat
  BY DEF Contents
<1>2. \A k \in 1..size : (IF k = pos + 1 THEN u ELSE IF k <= Len(file) THEN file[k] ELSE None)
                           \in Units \cup {None}
  BY <1>1 DEF Contents
<1>3. Stored(file, pos, u) = [k \in 1..size |->
          IF k = pos + 1 THEN u ELSE IF k <= Len(file) THEN file[k] ELSE None]
  BY DEF Stored
<1> HIDE DEF size
<1> QED
  BY <1>1, <1>2, <1>3 DEF Contents

(* Stored at the end, it is appended.                                      *)
LEMMA StoredAtEnd ==
  ASSUME NEW file \in Contents, NEW u
  PROVE  LET new == Stored(file, Len(file), u)
         IN  /\ Len(new) = Len(file) + 1
             /\ new[Len(file) + 1] = u
             /\ \A k \in 1..Len(file) : new[k] = file[k]
<1>1. Len(file) \in Nat
  BY DEF Contents
<1> DEFINE n == Len(file)
           new == [k \in 1..(n + 1) |-> IF k = n + 1 THEN u ELSE IF k <= n THEN file[k] ELSE None]
<1>2. Stored(file, Len(file), u) = new
  BY <1>1 DEF Stored
<1>3. Len(new) = n + 1 /\ new[n + 1] = u /\ \A k \in 1..n : new[k] = file[k]
  BY <1>1
<1> QED
  BY <1>2, <1>3

(* What a writer in order has laid matches only its own key and layout,    *)
(* after both header and entries.                                          *)
LEMMA LaidMatches ==
  ASSUME NEW file \in Contents, NEW m \in Models, NEW l \in Layouts, NEW n \in Nat,
         Laid(file, m, l, n), NEW a \in Models, NEW x \in Layouts,
         Len(file) >= 2, Matches(file, a, x)
  PROVE  /\ Key[a] = Key[m] /\ x = l /\ Payload[a] = Payload[m] /\ Payload[m] \in Nat
         /\ Len(file) = 2 + n
         /\ \A k \in 1..n : file[2 + k] = PayloadUnit(m, l, k)
<1>1. file[1] = <<"head", x>> /\ file[2] = <<"entries", Key[a]>>
  BY DEF Matches
<1>2. PICK b \in 0..2 :
        /\ Begun(file, b, m, l)
        /\ Len(file) = b + n
        /\ \A k \in 1..n : file[b + k] = PayloadUnit(m, l, k)
  BY DEF Laid
<1>3. b # 0
  <2> SUFFICES ASSUME b = 0 PROVE FALSE
    OBVIOUS
  <2>1. file[1] = PayloadUnit(m, l, 1)
    BY <1>2
  <2> QED
    BY <1>1, <2>1 DEF PayloadUnit
<1>4. b # 1
  <2> SUFFICES ASSUME b = 1 PROVE FALSE
    OBVIOUS
  <2>1. file[2] = PayloadUnit(m, l, 1)
    BY <1>2
  <2> QED
    BY <1>1, <2>1 DEF PayloadUnit
<1>5. b = 2
  BY <1>3, <1>4
<1>6. <<"head", x>> = <<"head", l>> /\ <<"entries", Key[a]>> = <<"entries", Key[m]>>
  BY <1>1, <1>2, <1>5 DEF Begun, Head1, Entries1
<1>7. x = l /\ Key[a] = Key[m]
  BY <1>6
<1> QED
  BY <1>2, <1>5, <1>7, CacheAssumption

(* So it is proper, as long as it is no more than the payload.             *)
LEMMA LaidIsProper ==
  ASSUME NEW file \in Contents, NEW m \in Models, NEW l \in Layouts, NEW n \in Nat,
         n <= Payload[m], Laid(file, m, l, n)
  PROVE  Proper(file)
<1> SUFFICES ASSUME NEW a \in Models, NEW x \in Layouts, Len(file) >= 2, Matches(file, a, x)
             PROVE  /\ Len(file) <= need(a)
                    /\ \E c \in Models : /\ Key[c] = Key[a]
                         /\ \A k \in 1..(Len(file) - 2) : file[2 + k] = PayloadUnit(c, x, k)
  BY DEF Proper
<1>1. /\ Key[a] = Key[m] /\ x = l /\ Payload[a] = Payload[m] /\ Payload[m] \in Nat
      /\ Len(file) = 2 + n
      /\ \A k \in 1..n : file[2 + k] = PayloadUnit(m, l, k)
  BY LaidMatches
<1>2. Len(file) <= need(a)
  BY <1>1 DEF need
<1>3. Len(file) - 2 = n
  BY <1>1
<1> QED
  BY <1>1, <1>2, <1>3

(* And a reader it matches waits for more.                                 *)
LEMMA WriterIsBehind ==
  ASSUME NEW file \in Contents, NEW m \in Models, NEW l \in Layouts, NEW n \in Nat,
         n < Payload[m], Laid(file, m, l, n), NEW a \in Models, NEW x \in Layouts,
         Matches(file, a, x), Len(file) = need(a)
  PROVE  FALSE
<1>1. Payload[a] \in Nat
  BY CacheAssumption
<1>2. Len(file) >= 2
  BY <1>1 DEF need
<1>3. Payload[a] = Payload[m] /\ Len(file) = 2 + n /\ Payload[m] \in Nat
  BY <1>2, LaidMatches
<1> QED
  BY <1>3 DEF need

(* One more unit of the payload.                                           *)
LEMMA LaidGrows ==
  ASSUME NEW file \in Contents, NEW m, NEW l, NEW n \in Nat, Laid(file, m, l, n)
  PROVE  Laid(Stored(file, Len(file), PayloadUnit(m, l, n + 1)), m, l, n + 1)
<1> DEFINE u == PayloadUnit(m, l, n + 1)
           new == Stored(file, Len(file), u)
<1>1. PICK b \in 0..2 :
        /\ Begun(file, b, m, l)
        /\ Len(file) = b + n
        /\ \A k \in 1..n : file[b + k] = PayloadUnit(m, l, k)
  BY DEF Laid
<1> HIDE DEF u
<1>2. /\ Len(new) = Len(file) + 1
      /\ new[Len(file) + 1] = u
      /\ \A k \in 1..Len(file) : new[k] = file[k]
  BY StoredAtEnd
<1> HIDE DEF new
<1>3. Len(new) = b + (n + 1)
  BY <1>1, <1>2
<1>4. Begun(new, b, m, l)
  <2>1. CASE b = 0
    BY <2>1 DEF Begun
  <2>2. CASE b = 1
    <3>1. new[1] = file[1]
      BY <1>1, <1>2, <2>2
    <3> QED
      BY <1>1, <2>2, <3>1 DEF Begun
  <2>3. CASE b = 2
    <3>1. new[1] = file[1] /\ new[2] = file[2]
      BY <1>1, <1>2, <2>3
    <3> QED
      BY <1>1, <2>3, <3>1 DEF Begun
  <2> QED
    BY <2>1, <2>2, <2>3
<1>5. ASSUME NEW k \in 1..(n + 1)
      PROVE  new[b + k] = PayloadUnit(m, l, k)
  <2>1. CASE k = n + 1
    <3>1. b + k = Len(file) + 1
      BY <1>1, <2>1
    <3> QED
      BY <1>2, <2>1, <3>1 DEF u
  <2>2. CASE k \in 1..n
    <3>1. b + k \in 1..Len(file)
      BY <1>1, <2>2
    <3> QED
      BY <1>1, <1>2, <2>2, <3>1
  <2> QED
    BY <2>1, <2>2
<1> QED
  BY <1>3, <1>4, <1>5 DEF Laid, new, u

(* A file that fits and matches, and is proper, is whole.                  *)
LEMMA ProperIsWhole ==
  ASSUME NEW file \in Contents, NEW m \in Models, NEW l \in Layouts,
         Proper(file), Len(file) = need(m), Matches(file, m, l)
  PROVE  WholeFor(file, m, l)
<1>1. Payload[m] \in Nat /\ Len(file) = 2 + Payload[m]
  BY CacheAssumption DEF need
<1>2. Len(file) >= 2 /\ Len(file) - 2 = Payload[m]
  BY <1>1
<1>3. PICK a \in Models : /\ Key[a] = Key[m]
         /\ \A k \in 1..(Len(file) - 2) : file[2 + k] = PayloadUnit(a, l, k)
  BY <1>2 DEF Proper
<1>4. Payload[a] = Payload[m] /\ \A k \in 1..Payload[m] : file[2 + k] = PayloadUnit(a, l, k)
  BY <1>2, <1>3, CacheAssumption
<1> DEFINE n == Payload[m]
           S == Units \cup {None}
           P == [k \in 1..n |-> PayloadUnit(a, l, k)]
<1>5. P = PayloadOf(a, l)
  BY <1>4 DEF PayloadOf
<1>6. Tail(Tail(file)) = P
  <2>1. n \in Nat /\ file \in Seq(S) /\ Len(file) = 2 + n
    BY <1>1 DEF Contents
  <2> HIDE DEF n, S
  <2>2. /\ Tail(file) \in Seq(S) /\ Len(Tail(file)) = 1 + n
        /\ \A k \in 1..(1 + n) : Tail(file)[k] = file[1 + k]
    BY <2>1
  <2>3. PICK s : s = Tail(file)
    OBVIOUS
  <2>4. s \in Seq(S) /\ Len(s) = 1 + n
    BY <2>2, <2>3
  <2>5. /\ Tail(s) \in Seq(S) /\ Len(Tail(s)) = n
        /\ \A k \in 1..n : Tail(s)[k] = s[1 + k]
    BY ONLY <2>1, <2>4
  <2>6. \A k \in 1..n : s[1 + k] = file[2 + k]
    BY ONLY <2>1, <2>2, <2>3
  <2>7. PICK t : t = Tail(s)
    OBVIOUS
  <2>8. \A k \in 1..n : t[k] = PayloadUnit(a, l, k)
    BY <1>4, <2>5, <2>6, <2>7 DEF n
  <2>9. t = [k \in 1..n |-> t[k]]
    <3>1. t \in Seq(S) /\ Len(t) = n
      BY <2>5, <2>7
    <3> QED
      BY <2>1, <3>1
  <2>10. t = P
    BY <2>8, <2>9
  <2> QED
    BY <2>3, <2>7, <2>10
<1> HIDE DEF P
<1> QED
  BY <1>3, <1>5, <1>6 DEF WholeFor

-----------------------------------------------------------------------------
(* Steps *)

(* Process p goes on without a file open for writing.  It may have renamed *)
(* the temporary file, mapped the cache or let go of what it had; what     *)
(* others refer to stays as it is.                                         *)
LEMMA QuietKeepsCacheInv ==
  ASSUME CacheInv, NEW p \in Processes, NEW r \in Records, proc' = [proc EXCEPT ![p] = r],
         r.pc \notin Writing, HasHandles(r), r.pc \in Asked => Wanted(r),
         r.map # 0 => r.map # cache_tmp,
         r.map \notin mixed \cup {0} => Read(inode[r.map], r),
         \/ cache_path' = cache_path /\ cache_tmp' = cache_tmp
         \/ cache_tmp # 0 /\ cache_path' = cache_tmp /\ cache_tmp' = 0,
         UNCHANGED <<inode, mixed>> \/ Sweep
  PROVE  CacheInv'
<1>1. /\ proc' \in [Processes -> Records] /\ proc'[p] = r
      /\ \A q \in Processes \ {p} : proc'[q] = proc[q]
  BY DEF CacheInv, CacheTypeOK
<1>2. r.file = 0
  BY DEF HasHandles
<1>3. \A q \in Processes : proc'[q].file \in Opened' /\ proc'[q].map \in Opened'
  BY DEF Opened
<1>4. \A i \in Inodes : inode'[i] = <<>> \/ (inode'[i] = inode[i] /\ (i \in mixed' <=> i \in mixed))
  BY DEF Sweep, CacheInv, CacheTypeOK
<1>5. \A i \in Inodes \cap Opened' : inode'[i] = inode[i] /\ (i \in mixed' <=> i \in mixed)
  BY DEF Sweep, Needed
<1>6. inode' \in [Inodes -> Contents] /\ mixed' \subseteq Inodes
  <2>1. inode \in [Inodes -> Contents] /\ mixed \subseteq Inodes /\ <<>> \in Contents
    BY DEF CacheInv, CacheTypeOK, Contents
  <2> QED
    BY <2>1 DEF Sweep
<1>7. CacheTypeOK'
  <2>1. cache_path' \in {0} \cup Inodes /\ cache_tmp' \in {0} \cup Inodes
    BY DEF CacheInv, CacheTypeOK
  <2>2. \A q \in Processes : proc'[q].pc \in Asked => Wanted(proc'[q])
    BY <1>1 DEF CacheInv, CacheTypeOK
  <2> QED
    BY <1>1, <1>6, <2>1, <2>2 DEF CacheTypeOK, Wanted
<1>8. HandlesInv'
  <2>1. \A q \in Processes : HasHandles(proc'[q])
    BY <1>1 DEF CacheInv, HandlesInv
  <2>2. \A q \in Processes : proc'[q].map # 0 => proc'[q].map # cache_tmp'
    BY <1>1 DEF CacheInv, HandlesInv
  <2>3. cache_tmp' # 0 => cache_tmp' # cache_path'
    BY DEF CacheInv, HandlesInv
  <2> QED
    BY <2>1, <2>2, <2>3 DEF HandlesInv, HasHandles
\* A handle that is left refers to the same file as before.
<1>9. ASSUME NEW q \in Processes, proc'[q].file \notin mixed' \cup {0}
      PROVE  /\ q # p /\ proc'[q] = proc[q] /\ proc[q].file \notin mixed \cup {0}
             /\ inode'[proc[q].file] = inode[proc[q].file]
  <2>1. q # p /\ proc'[q] = proc[q] /\ proc[q].file \in Inodes
    BY <1>1, <1>2, <1>9 DEF Records, CacheInv, CacheTypeOK
  <2> QED
    BY <1>3, <1>5, <1>9, <2>1
<1>10. OneWriter'
  <2> SUFFICES ASSUME NEW q1 \in Processes, NEW q2 \in Processes,
                      proc'[q1].file = proc'[q2].file, proc'[q1].file \notin mixed' \cup {0}
               PROVE  q1 = q2
    BY DEF OneWriter
  <2> QED
    BY <1>9 DEF CacheInv, OneWriter
<1>11. WrittenInv'
  <2> SUFFICES ASSUME NEW q \in Processes, proc'[q].file \notin mixed' \cup {0}
               PROVE  InOrder(inode'[proc'[q].file], proc'[q])
    BY DEF WrittenInv, InOrder, Laid, Begun, Head1, Entries1, PayloadUnit
  <2> QED
    BY <1>9 DEF CacheInv, WrittenInv
<1>12. ProperInv'
  <2> SUFFICES ASSUME NEW i \in Inodes \ mixed' PROVE Proper(inode'[i])
    BY DEF ProperInv, Proper, Matches, need, PayloadUnit
  <2>1. Proper(<<>>)
    BY DEF Proper
  <2> QED
    BY <1>4, <2>1 DEF CacheInv, ProperInv
<1>13. MappedInv'
  <2> SUFFICES ASSUME NEW q \in Processes, proc'[q].map \notin mixed' \cup {0}
               PROVE  Read(inode'[proc'[q].map], proc'[q])
    BY DEF MappedInv, Read, Matches, need
  <2>1. proc'[q].map \in Inodes
    BY <1>1 DEF Records
  <2>2. inode'[proc'[q].map] = inode[proc'[q].map] /\ proc'[q].map \notin mixed \cup {0}
    BY <1>3, <1>5, <2>1
  <2>3. CASE q = p
    BY <1>1, <2>2, <2>3
  <2>4. CASE q # p
    BY <1>1, <2>2, <2>4 DEF CacheInv, MappedInv
  <2> QED
    BY <2>3, <2>4
<1> QED
  BY <1>7, <1>8, <1>10, <1>11, <1>12, <1>13 DEF CacheInv

(* A writer writes to its own file, or fails to; it may close the file.    *)
LEMMA WriterKeepsCacheInv ==
  ASSUME CacheInv, NEW p \in Processes, proc[p].pc \in Writing,
         NEW f, f = proc[p].file,
         NEW r \in Records, proc' = [proc EXCEPT ![p] = r],
         HasHandles(r), r.pc \in Asked => Wanted(r), r.map = 0, r.file \in {f, 0},
         inode' \in [Inodes -> Contents], \A i \in Inodes \ {f} : inode'[i] = inode[i],
         f \notin mixed => /\ Len(inode'[f]) >= Len(inode[f])
                           /\ Proper(inode'[f])
                           /\ r.file # 0 => InOrder(inode'[f], r),
         cache_path' = cache_path, cache_tmp' = cache_tmp, mixed' = mixed
  PROVE  CacheInv'
<1>1. /\ proc' \in [Processes -> Records] /\ proc'[p] = r
      /\ \A q \in Processes \ {p} : proc'[q] = proc[q]
      /\ \A q \in Processes : proc[q] \in Records
  BY DEF CacheInv, CacheTypeOK
<1>2. f \in Inodes /\ f # 0
  BY <1>1 DEF CacheInv, HandlesInv, HasHandles, Records
<1>3. f \notin mixed => InOrder(inode[f], proc[p])
  BY <1>2 DEF CacheInv, WrittenInv
<1>4. f \notin mixed => \A q \in Processes \ {p} : proc[q].file # f
  BY <1>2 DEF CacheInv, OneWriter
<1>5. CacheTypeOK'
  <2>1. \A q \in Processes : proc'[q].pc \in Asked => Wanted(proc'[q])
    BY <1>1 DEF CacheInv, CacheTypeOK
  <2>2. cache_path' \in {0} \cup Inodes /\ cache_tmp' \in {0} \cup Inodes /\ mixed' \subseteq Inodes
    BY DEF CacheInv, CacheTypeOK
  <2> QED
    BY <1>1, <2>1, <2>2 DEF CacheTypeOK, Wanted
<1>6. HandlesInv'
  <2>1. \A q \in Processes : HasHandles(proc'[q])
    BY <1>1 DEF CacheInv, HandlesInv
  <2>2. \A q \in Processes : proc'[q].map # 0 => proc'[q].map # cache_tmp'
    BY <1>1 DEF CacheInv, HandlesInv
  <2>3. cache_tmp' # 0 => cache_tmp' # cache_path'
    BY DEF CacheInv, HandlesInv
  <2> QED
    BY <2>1, <2>2, <2>3 DEF HandlesInv, HasHandles
<1>7. OneWriter'
  <2>1. \A q \in Processes : proc'[q].file \in {proc[q].file, 0}
    BY <1>1
  <2> QED
    BY <2>1 DEF CacheInv, OneWriter
<1>8. WrittenInv'
  <2> SUFFICES ASSUME NEW q \in Processes, proc'[q].file \notin mixed \cup {0}
               PROVE  InOrder(inode'[proc'[q].file], proc'[q])
    BY DEF WrittenInv, InOrder, Laid, Begun, Head1, Entries1, PayloadUnit
  <2>1. CASE q = p
    BY <1>1, <2>1
  <2>2. CASE q # p
    <3>1. proc'[q] = proc[q] /\ proc[q].file \in Inodes /\ proc[q].file # f
      BY <1>1, <1>4, <2>2 DEF Records
    <3> QED
      BY <3>1 DEF CacheInv, WrittenInv
  <2> QED
    BY <2>1, <2>2
<1>9. ProperInv'
  <2> SUFFICES ASSUME NEW i \in Inodes \ mixed PROVE Proper(inode'[i])
    BY DEF ProperInv, Proper, Matches, need, PayloadUnit
  <2> QED
    BY DEF CacheInv, ProperInv
<1>10. MappedInv'
  <2> SUFFICES ASSUME NEW q \in Processes, proc'[q].map \notin mixed \cup {0}
               PROVE  Read(inode'[proc'[q].map], proc'[q])
    BY DEF MappedInv, Read, Matches, need
  <2>1. /\ proc'[q] = proc[q] /\ proc[q].map \in Inodes
        /\ Read(inode[proc[q].map], proc[q])
    BY <1>1 DEF Records, CacheInv, MappedInv
  <2>2. CASE proc[q].map # f
    BY <2>1, <2>2
  <2>3. CASE proc[q].map = f
    <3>1. InOrder(inode[f], proc[p]) /\ f \notin mixed
      BY <1>3, <2>1, <2>3
    <3>2. /\ proc[p].model \in Models /\ proc[p].layout \in Layouts /\ proc[p].unit \in Nat
          /\ inode[f] \in Contents /\ inode'[f] \in Contents
      BY <1>1, <1>2 DEF CacheInv, CacheTypeOK, Wanted, Asked, Records
    <3>3. proc[q].pc # "mapped"
      <4> SUFFICES ASSUME proc[q].pc = "mapped" PROVE FALSE
        OBVIOUS
      <4>1. proc[q].model \in Models /\ proc[q].layout \in Layouts
        BY DEF CacheInv, CacheTypeOK, Wanted, Asked, Reading
      <4>2. Len(inode[f]) = need(proc[q].model) /\ Matches(inode[f], proc[q].model, proc[q].layout)
        BY <2>1, <2>3 DEF Read
      <4> QED
        BY <3>1, <3>2, <4>1, <4>2, WriterIsBehind DEF InOrder
    <3>4. proc[q].pc = "validate" => Len(inode'[f]) >= need(proc[q].model)
      <4> SUFFICES ASSUME proc[q].pc = "validate" PROVE Len(inode'[f]) >= need(proc[q].model)
        OBVIOUS
      <4>1. Len(inode[f]) >= need(proc[q].model) /\ Len(inode'[f]) >= Len(inode[f])
        BY <2>1, <2>3, <3>1 DEF Read
      <4>2. Len(inode[f]) \in Nat /\ Len(inode'[f]) \in Nat
        BY <3>2 DEF Contents
      <4>3. need(proc[q].model) \in Nat
        BY CacheAssumption DEF CacheInv, CacheTypeOK, Wanted, Asked, Reading, need
      <4> QED
        BY <4>1, <4>2, <4>3
    <3> QED
      BY <2>1, <2>3, <3>3, <3>4 DEF Read
  <2> QED
    BY <2>2, <2>3
<1> QED
  BY <1>5, <1>6, <1>7, <1>8, <1>9, <1>10 DEF CacheInv

(* fopen of the temporary file, whoever has it open.                       *)
LEMMA OpenKeepsCacheInv ==
  ASSUME CacheInv, NEW p \in Processes, proc[p].pc = "open", NEW i,
         i = IF cache_tmp = 0 THEN FreeInode ELSE cache_tmp,
         cache_tmp' = i, cache_path' = cache_path,
         inode' = [inode EXCEPT ![i] = <<>>],
         proc' = [proc EXCEPT ![p].pc = "head", ![p].file = i],
         mixed' = IF \E q \in Processes : proc[q].file = i THEN mixed \cup {i} ELSE mixed \ {i}
  PROVE  CacheInv'
<1>1. /\ i \in Inodes /\ i # 0 /\ i # cache_path
      /\ \A q \in Processes : proc[q].map # i
  <2>1. CASE cache_tmp = 0
    BY <2>1, FreeInodeIsFree DEF Opened, Inodes
  <2>2. CASE cache_tmp # 0
    BY <2>2 DEF CacheInv, CacheTypeOK, HandlesInv
  <2> QED
    BY <2>1, <2>2
<1> DEFINE r == [proc[p] EXCEPT !.pc = "head", !.file = i]
<1>2. /\ proc \in [Processes -> Records]
      /\ proc[p].map = 0 /\ proc[p].pos = 0 /\ proc[p].unit = 0 /\ proc[p].file = 0
      /\ Wanted(proc[p])
  BY DEF CacheInv, CacheTypeOK, HandlesInv, HasHandles, Writing, Reading, Asked
<1>3. r \in Records
  BY <1>1, <1>2 DEF Records, Steps, Asked, Writing
<1>4. /\ r.pc = "head" /\ r.file = i /\ r.map = 0 /\ r.pos = 0 /\ r.unit = 0
      /\ r.model = proc[p].model /\ r.layout = proc[p].layout
  BY <1>2 DEF Records
<1>5. proc' = [proc EXCEPT ![p] = r]
  BY <1>2
<1> HIDE DEF r
<1>6. /\ proc' \in [Processes -> Records] /\ proc'[p] = r
      /\ \A q \in Processes \ {p} : proc'[q] = proc[q]
  BY <1>2, <1>3, <1>5
<1>7. /\ inode' \in [Inodes -> Contents] /\ inode'[i] = <<>>
      /\ \A j \in Inodes \ {i} : inode'[j] = inode[j]
  <2>1. <<>> \in Contents /\ inode \in [Inodes -> Contents]
    BY DEF CacheInv, CacheTypeOK, Contents
  <2> QED
    BY <1>1, <2>1
<1>8. mixed' \subseteq Inodes /\ \A j \in Inodes \ {i} : j \in mixed' <=> j \in mixed
  BY <1>1 DEF CacheInv, CacheTypeOK
<1>9. i \notin mixed' => \A q \in Processes : proc[q].file # i
  OBVIOUS
<1>10. CacheTypeOK'
  <2>1. \A q \in Processes : proc'[q].pc \in Asked => Wanted(proc'[q])
    BY <1>2, <1>4, <1>6 DEF CacheInv, CacheTypeOK, Wanted
  <2>2. cache_path' \in {0} \cup Inodes /\ cache_tmp' \in {0} \cup Inodes
    BY <1>1 DEF CacheInv, CacheTypeOK
  <2> QED
    BY <1>6, <1>7, <1>8, <2>1, <2>2 DEF CacheTypeOK, Wanted
<1>11. HandlesInv'
  <2>1. HasHandles(r)
    BY <1>1, <1>4 DEF HasHandles, Writing, Reading
  <2>2. \A q \in Processes : HasHandles(proc'[q])
    BY <1>6, <2>1 DEF CacheInv, HandlesInv
  <2>3. \A q \in Processes : proc'[q].map # 0 => proc'[q].map # cache_tmp'
    BY <1>1, <1>4, <1>6
  <2> QED
    BY <1>1, <2>2, <2>3 DEF HandlesInv, HasHandles
<1>12. OneWriter'
  <2> SUFFICES ASSUME NEW q1 \in Processes, NEW q2 \in Processes, q1 # q2,
                      proc'[q1].file = proc'[q2].file, proc'[q1].file \notin mixed' \cup {0}
               PROVE  FALSE
    BY DEF OneWriter
  <2>1. CASE proc'[q1].file = i
    BY <1>6, <1>9, <2>1
  <2>2. CASE proc'[q1].file # i
    <3>1. proc'[q1] = proc[q1] /\ proc'[q2] = proc[q2]
      BY <1>4, <1>6, <2>2
    <3>2. proc[q1].file \notin mixed \cup {0}
      BY <1>2, <1>8, <2>2, <3>1 DEF Records
    <3> QED
      BY <3>1, <3>2 DEF CacheInv, OneWriter
  <2> QED
    BY <2>1, <2>2
<1>13. WrittenInv'
  <2> SUFFICES ASSUME NEW q \in Processes, proc'[q].file \notin mixed' \cup {0}
               PROVE  InOrder(inode'[proc'[q].file], proc'[q])
    BY DEF WrittenInv, InOrder, Laid, Begun, Head1, Entries1, PayloadUnit
  <2>1. CASE q = p
    <3>1. Laid(<<>>, r.model, r.layout, 0)
      <4>1. Begun(<<>>, 0, r.model, r.layout)
        BY DEF Begun
      <4> QED
        BY <4>1 DEF Laid
    <3>2. 0 < Payload[r.model]
      BY <1>2, <1>4, CacheAssumption DEF Wanted
    <3>3. InOrder(<<>>, r)
      BY <1>4, <3>1, <3>2 DEF InOrder
    <3> QED
      BY <1>4, <1>6, <1>7, <2>1, <3>3
  <2>2. CASE q # p
    <3>1. proc'[q] = proc[q] /\ proc[q].file # i /\ proc[q].file \in Inodes
      BY <1>2, <1>6, <1>9, <2>2 DEF Records
    <3> QED
      BY <1>7, <1>8, <3>1 DEF CacheInv, WrittenInv
  <2> QED
    BY <2>1, <2>2
<1>14. ProperInv'
  <2> SUFFICES ASSUME NEW j \in Inodes \ mixed' PROVE Proper(inode'[j])
    BY DEF ProperInv, Proper, Matches, need, PayloadUnit
  <2>1. Proper(<<>>)
    BY DEF Proper
  <2> QED
    BY <1>7, <1>8, <2>1 DEF CacheInv, ProperInv
<1>15. MappedInv'
  <2> SUFFICES ASSUME NEW q \in Processes, proc'[q].map \notin mixed' \cup {0}
               PROVE  Read(inode'[proc'[q].map], proc'[q])
    BY DEF MappedInv, Read, Matches, need
  <2>1. proc'[q] = proc[q] /\ proc[q].map \in Inodes \ {i}
    BY <1>1, <1>2, <1>4, <1>6 DEF Records
  <2> QED
    BY <1>7, <1>8, <2>1 DEF CacheInv, MappedInv
<1> QED
  BY <1>10, <1>11, <1>12, <1>13, <1>14, <1>15 DEF CacheInv

-----------------------------------------------------------------------------
(* Actions *)

(* A process that stops initialising or serving, whether it renames the    *)
(* temporary file or not.                                                  *)
LEMMA LeavingKeepsCacheInv ==
  ASSUME CacheInv, NEW p \in Processes, NEW to \in {"down", "disabled", "built", "rename"},
         proc' = [proc EXCEPT ![p] = [Down EXCEPT !.pc = to]],
         \/ cache_path' = cache_path /\ cache_tmp' = cache_tmp
         \/ cache_tmp # 0 /\ cache_path' = cache_tmp /\ cache_tmp' = 0,
         UNCHANGED <<inode, mixed>> \/ Sweep
  PROVE  CacheInv'
<1> DEFINE r == [Down EXCEPT !.pc = to]
<1>1. r \in Records /\ r.pc = to /\ r.map = 0 /\ r.file = 0 /\ r.pos = 0 /\ r.unit = 0
  BY DEF Down, Records, Steps, Asked, Writing, Reading
<1> HIDE DEF r
<1>2. r.pc \notin Writing /\ HasHandles(r) /\ r.pc \notin Asked
  BY <1>1 DEF HasHandles, Asked, Writing, Reading
<1>3. proc' = [proc EXCEPT ![p] = r]
  BY DEF r
<1> QED
  BY <1>1, <1>2, <1>3, QuietKeepsCacheInv

(* The start of a process.                                                 *)
LEMMA StartKeepsCacheInv ==
  ASSUME CacheInv, NEW p \in Processes, fl_shadow_init(p)
  PROVE  CacheInv'
<1>1. PICK m \in Models, mode \in Modes, asked \in Layouts :
        /\ proc[p].pc = "down"
        /\ IF mode = "off" \/ Payload[m] = 0 THEN Leaves(p, "down", "disabled")
           ELSE proc' = [proc EXCEPT ![p] =
                    [Down EXCEPT !.pc = IF mode = "cache" THEN "lookup" ELSE "alloc", !.mode = mode,
                                 !.model = m, !.layout = EffectiveLayout(m, asked)]]
        /\ UNCHANGED <<inode, names, mixed>>
  BY Zenon DEF fl_shadow_init
<1>2. UNCHANGED <<inode, mixed>> /\ cache_path' = cache_path /\ cache_tmp' = cache_tmp
  BY <1>1 DEF names
<1>3. CASE mode = "off" \/ Payload[m] = 0
  BY <1>1, <1>2, <1>3, LeavingKeepsCacheInv DEF Leaves
<1>4. CASE ~(mode = "off" \/ Payload[m] = 0)
  <2> DEFINE r == [Down EXCEPT !.pc = IF mode = "cache" THEN "lookup" ELSE "alloc", !.mode = mode,
                               !.model = m, !.layout = EffectiveLayout(m, asked)]
  <2>1. EffectiveLayout(m, asked) \in Layouts
    BY DEF EffectiveLayout, Layouts
  <2>2. Payload[m] > 0
    BY <1>4, CacheAssumption
  <2>3. /\ r \in Records /\ r.pc \in {"lookup", "alloc"} /\ r.map = 0 /\ r.file = 0
        /\ r.pos = 0 /\ r.unit = 0 /\ r.model = m /\ r.layout = EffectiveLayout(m, asked)
    BY <2>1 DEF Down, Records, Steps, Asked, Writing, Reading
  <2>4. proc' = [proc EXCEPT ![p] = r]
    BY <1>1, <1>4
  <2> HIDE DEF r
  <2>5. r.pc \notin Writing /\ HasHandles(r) /\ Wanted(r)
    BY <2>1, <2>2, <2>3 DEF HasHandles, Wanted, Writing, Reading
  <2> QED
    BY <1>2, <2>3, <2>4, <2>5, QuietKeepsCacheInv
<1> QED
  BY <1>3, <1>4

(* What a process knows of itself before it opens the temporary file.      *)
LEMMA AskedRecord ==
  ASSUME CacheInv, NEW p \in Processes, proc[p].pc \in Asked
  PROVE  /\ proc[p] \in Records /\ Wanted(proc[p]) /\ HasHandles(proc[p])
         /\ proc[p].pc \notin Writing => proc[p].file = 0 /\ proc[p].pos = 0 /\ proc[p].unit = 0
         /\ proc[p].pc \notin Reading => proc[p].map = 0
  BY DEF CacheInv, CacheTypeOK, HandlesInv, HasHandles, Writing

(* The look at the cache.                                                  *)
LEMMA MapKeepsCacheInv ==
  ASSUME CacheInv, NEW p \in Processes, MapCache(p)
  PROVE  CacheInv'
<1>1. /\ proc[p].pc = "lookup"
      /\ UNCHANGED <<inode, mixed>> /\ cache_path' = cache_path /\ cache_tmp' = cache_tmp
  BY DEF MapCache, names
<1>2. /\ proc[p] \in Records /\ Wanted(proc[p]) /\ proc[p].map = 0
      /\ proc[p].file = 0 /\ proc[p].pos = 0 /\ proc[p].unit = 0 /\ proc \in [Processes -> Records]
  BY <1>1, AskedRecord DEF Asked, Writing, Reading, CacheInv, CacheTypeOK
<1>3. CASE /\ cache_path # 0 /\ Fits(inode[cache_path], proc[p].model)
           /\ proc' = [proc EXCEPT ![p].pc = "validate", ![p].map = cache_path]
  <2> DEFINE r == [proc[p] EXCEPT !.pc = "validate", !.map = cache_path]
  <2>1. cache_path \in Inodes /\ cache_path # cache_tmp
    BY <1>3 DEF CacheInv, CacheTypeOK, HandlesInv
  <2>2. /\ r \in Records /\ r.pc = "validate" /\ r.map = cache_path
        /\ r.file = 0 /\ r.pos = 0 /\ r.unit = 0
        /\ r.model = proc[p].model /\ r.layout = proc[p].layout
    BY <1>2, <2>1 DEF Records, Steps, Asked, Reading
  <2>3. proc' = [proc EXCEPT ![p] = r]
    BY <1>2, <1>3
  <2> HIDE DEF r
  <2>4. r.pc \notin Writing /\ HasHandles(r) /\ Wanted(r)
    BY <1>2, <1>3, <2>2 DEF HasHandles, Wanted, Writing, Reading
  <2>5. Read(inode[r.map], r)
    <3>1. Len(inode[r.map]) = need(r.model) /\ need(r.model) \in Nat
      BY <1>2, <1>3, <2>2, CacheAssumption DEF Fits, need, Wanted
    <3> QED
      BY <2>2, <3>1 DEF Read
  <2> QED
    BY <1>1, <2>1, <2>2, <2>3, <2>4, <2>5, QuietKeepsCacheInv
<1>4. CASE proc' = [proc EXCEPT ![p].pc = "alloc"]
  <2> DEFINE r == [proc[p] EXCEPT !.pc = "alloc"]
  <2>1. /\ r \in Records /\ r.pc = "alloc" /\ r.map = 0 /\ r.file = 0 /\ r.pos = 0 /\ r.unit = 0
        /\ r.model = proc[p].model /\ r.layout = proc[p].layout
    BY <1>2 DEF Records, Steps, Asked
  <2>2. proc' = [proc EXCEPT ![p] = r]
    BY <1>2, <1>4
  <2> HIDE DEF r
  <2>3. r.pc \notin Writing /\ HasHandles(r) /\ Wanted(r)
    BY <1>2, <2>1 DEF HasHandles, Wanted, Writing, Reading
  <2> QED
    BY <1>1, <2>1, <2>2, <2>3, QuietKeepsCacheInv
<1> QED
  BY <1>3, <1>4, Zenon DEF MapCache

(* The look at what was mapped.  It may have grown since, but what matches *)
(* is no longer than needed.                                               *)
LEMMA ValidateKeepsCacheInv ==
  ASSUME CacheInv, NEW p \in Processes, ValidateCache(p)
  PROVE  CacheInv'
<1> DEFINE m == proc[p].model
           l == proc[p].layout
           file == inode[proc[p].map]
<1>1. /\ proc[p].pc = "validate" /\ Sweep
      /\ cache_path' = cache_path /\ cache_tmp' = cache_tmp
  BY DEF ValidateCache, names
<1>2. /\ proc[p] \in Records /\ Wanted(proc[p])
      /\ proc[p].file = 0 /\ proc[p].pos = 0 /\ proc[p].unit = 0 /\ proc \in [Processes -> Records]
  BY <1>1, AskedRecord DEF Asked, Writing, Reading, CacheInv, CacheTypeOK
<1>3. proc[p].map \in Inodes /\ proc[p].map # 0 /\ proc[p].map # cache_tmp
  BY <1>1, <1>2 DEF CacheInv, HandlesInv, HasHandles, Reading, Records
<1>4. CASE Matches(file, m, l)
  <2> DEFINE r == [proc[p] EXCEPT !.pc = "mapped", !.mode = None]
  <2>1. /\ r \in Records /\ r.pc = "mapped" /\ r.map = proc[p].map
        /\ r.file = 0 /\ r.pos = 0 /\ r.unit = 0 /\ r.model = m /\ r.layout = l
    BY <1>2 DEF Records, Steps, Asked, Reading
  <2>2. proc' = [proc EXCEPT ![p] = r]
    BY <1>2, <1>4 DEF ValidateCache
  <2> HIDE DEF r
  <2>3. r.pc \notin Writing /\ HasHandles(r) /\ Wanted(r)
    BY <1>2, <1>3, <2>1 DEF HasHandles, Wanted, Writing, Reading
  <2>4. ASSUME r.map \notin mixed \cup {0} PROVE Read(inode[r.map], r)
    <3>1. Len(file) \in Nat /\ need(m) \in Nat /\ need(m) >= 2
      BY <1>2, <1>3, CacheAssumption DEF CacheInv, CacheTypeOK, Contents, Wanted, need
    <3>2. Len(file) >= need(m)
      BY <1>1, <2>1, <2>4 DEF CacheInv, MappedInv, Read
    <3>3. Len(file) <= need(m)
      <4>1. Proper(file)
        BY <1>3, <2>1, <2>4 DEF CacheInv, ProperInv
      <4>2. Len(file) >= 2 /\ m \in Models /\ l \in Layouts
        BY <1>2, <3>1, <3>2 DEF Wanted
      <4> QED
        BY <1>4, <4>1, <4>2 DEF Proper
    <3>4. Len(file) = need(m)
      BY <3>1, <3>2, <3>3
    <3> QED
      BY <1>4, <2>1, <3>4 DEF Read
  <2> QED
    BY <1>1, <1>3, <2>1, <2>2, <2>3, <2>4, QuietKeepsCacheInv
<1>5. CASE ~Matches(file, m, l)
  <2> DEFINE r == [proc[p] EXCEPT !.pc = "alloc", !.map = 0]
  <2>1. /\ r \in Records /\ r.pc = "alloc" /\ r.map = 0 /\ r.file = 0 /\ r.pos = 0 /\ r.unit = 0
        /\ r.model = m /\ r.layout = l
    BY <1>2 DEF Records, Steps, Asked
  <2>2. proc' = [proc EXCEPT ![p] = r]
    BY <1>2, <1>5 DEF ValidateCache
  <2> HIDE DEF r
  <2>3. r.pc \notin Writing /\ HasHandles(r) /\ Wanted(r)
    BY <1>2, <2>1 DEF HasHandles, Wanted, Writing, Reading
  <2> QED
    BY <1>1, <2>1, <2>2, <2>3, QuietKeepsCacheInv
<1> QED
  BY <1>4, <1>5

(* The shadows are built.                                                  *)
LEMMA BuildKeepsCacheInv ==
  ASSUME CacheInv, NEW p \in Processes, BuildShadows(p)
  PROVE  CacheInv'
<1>1. UNCHANGED <<inode, mixed>> /\ cache_path' = cache_path /\ cache_tmp' = cache_tmp
  BY DEF BuildShadows, names
<1>2. CASE Leaves(p, "alloc", "disabled") \/ Leaves(p, "alloc", "built")
  BY <1>1, <1>2, LeavingKeepsCacheInv DEF Leaves
<1>3. CASE Goes(p, "alloc", "open")
  <2> DEFINE r == [proc[p] EXCEPT !.pc = "open"]
  <2>1. /\ proc[p] \in Records /\ Wanted(proc[p]) /\ proc[p].map = 0
        /\ proc[p].file = 0 /\ proc[p].pos = 0 /\ proc[p].unit = 0 /\ proc \in [Processes -> Records]
    BY <1>3, AskedRecord DEF Goes, Asked, Writing, Reading, CacheInv, CacheTypeOK
  <2>2. /\ r \in Records /\ r.pc = "open" /\ r.map = 0 /\ r.file = 0 /\ r.pos = 0 /\ r.unit = 0
        /\ r.model = proc[p].model /\ r.layout = proc[p].layout
    BY <2>1 DEF Records, Steps, Asked
  <2>3. proc' = [proc EXCEPT ![p] = r]
    BY <1>3, <2>1 DEF Goes
  <2> HIDE DEF r
  <2>4. r.pc \notin Writing /\ HasHandles(r) /\ Wanted(r)
    BY <2>1, <2>2 DEF HasHandles, Wanted, Writing, Reading
  <2> QED
    BY <1>1, <2>2, <2>3, <2>4, QuietKeepsCacheInv
<1> QED
  BY <1>2, <1>3 DEF BuildShadows

(* What a writer knows.                                                    *)
LEMMA WriterRecord ==
  ASSUME CacheInv, NEW p \in Processes, proc[p].pc \in Writing
  PROVE  /\ proc[p] \in Records /\ proc \in [Processes -> Records] /\ Wanted(proc[p])
         /\ proc[p].map = 0 /\ proc[p].file \in Inodes /\ proc[p].file # 0
         /\ proc[p].pc # "payload" => proc[p].unit = 0
         /\ Payload[proc[p].model] \in Nat
         /\ inode \in [Inodes -> Contents] /\ inode[proc[p].file] \in Contents
         /\ proc[p].file \notin mixed =>
               InOrder(inode[proc[p].file], proc[p]) /\ Proper(inode[proc[p].file])
<1>1. /\ proc[p] \in Records /\ proc \in [Processes -> Records] /\ Wanted(proc[p])
      /\ inode \in [Inodes -> Contents]
  BY DEF CacheInv, CacheTypeOK, Asked
<1>2. proc[p].map = 0 /\ proc[p].file # 0 /\ (proc[p].pc # "payload" => proc[p].unit = 0)
  BY DEF CacheInv, HandlesInv, HasHandles, Writing, Reading
<1>3. proc[p].file \in Inodes
  BY <1>1, <1>2 DEF Records
<1>4. Payload[proc[p].model] \in Nat
  BY <1>1, CacheAssumption DEF Wanted
<1>5. proc[p].file \notin mixed => InOrder(inode[proc[p].file], proc[p]) /\ Proper(inode[proc[p].file])
  BY <1>2, <1>3 DEF CacheInv, WrittenInv, ProperInv
<1> QED
  BY <1>1, <1>2, <1>3, <1>4, <1>5

(* A unit stored by a writer in order is appended.                         *)
LEMMA StoresAppend ==
  ASSUME CacheInv, NEW p \in Processes, proc[p].pc \in Writing, NEW u \in Units, Stores(p, u)
  PROVE  LET f == proc[p].file
         IN  /\ inode' \in [Inodes -> Contents]
             /\ \A i \in Inodes \ {f} : inode'[i] = inode[i]
             /\ inode'[f] \in Contents
             /\ cache_path' = cache_path /\ cache_tmp' = cache_tmp /\ mixed' = mixed
             /\ f \notin mixed => /\ inode'[f] = Stored(inode[f], Len(inode[f]), u)
                                  /\ Len(inode'[f]) = Len(inode[f]) + 1
                                  /\ inode'[f][Len(inode[f]) + 1] = u
                                  /\ \A k \in 1..Len(inode[f]) : inode'[f][k] = inode[f][k]
<1> DEFINE f == proc[p].file
           new == Stored(inode[f], proc[p].pos, u)
<1>1. /\ f \in Inodes /\ inode \in [Inodes -> Contents] /\ inode[f] \in Contents
      /\ proc[p].pos \in Nat
      /\ f \notin mixed => proc[p].pos = Len(inode[f])
  BY WriterRecord DEF Records, InOrder
<1>2. new \in Contents
  BY <1>1, StoredIsContents
<1> HIDE DEF new
<1>3. inode' = [inode EXCEPT ![f] = new]
  BY DEF Stores, new
<1>4. inode' \in [Inodes -> Contents] /\ inode'[f] = new /\ \A i \in Inodes \ {f} : inode'[i] = inode[i]
  BY <1>1, <1>2, <1>3
<1>5. f \notin mixed => new = Stored(inode[f], Len(inode[f]), u)
  BY <1>1 DEF new
<1>6. LET end == Stored(inode[f], Len(inode[f]), u)
      IN  /\ Len(end) = Len(inode[f]) + 1
          /\ end[Len(inode[f]) + 1] = u
          /\ \A k \in 1..Len(inode[f]) : end[k] = inode[f][k]
  BY <1>1, StoredAtEnd
<1>7. cache_path' = cache_path /\ cache_tmp' = cache_tmp /\ mixed' = mixed
  BY DEF Stores, names
<1> QED
  BY <1>2, <1>4, <1>5, <1>6, <1>7

(* The header.                                                             *)
LEMMA HeadKeepsCacheInv ==
  ASSUME CacheInv, NEW p \in Processes, WriteHead(p)
  PROVE  CacheInv'
<1> DEFINE m == proc[p].model
           l == proc[p].layout
           f == proc[p].file
           H == Head1(l)
<1>1. proc[p].pc = "head" /\ proc[p].pc \in Writing
  BY DEF WriteHead, Goes, Writing
<1>2. /\ proc[p] \in Records /\ proc \in [Processes -> Records] /\ Wanted(proc[p])
      /\ proc[p].map = 0 /\ f \in Inodes /\ f # 0 /\ proc[p].unit = 0
      /\ Payload[m] \in Nat /\ inode \in [Inodes -> Contents] /\ inode[f] \in Contents
      /\ f \notin mixed => InOrder(inode[f], proc[p]) /\ Proper(inode[f])
  BY <1>1, WriterRecord
<1>3. H \in Units
  BY <1>2 DEF Units, Wanted
<1>4. CASE /\ Stores(p, <<"head", l>>)
           /\ proc' = [proc EXCEPT ![p].pc = "entries", ![p].pos = @ + 1]
  <2> DEFINE end == proc[p].pos + 1
             r == [proc[p] EXCEPT !.pc = "entries", !.pos = end]
  <2>0. end \in Nat
    BY <1>2 DEF Records
  <2> HIDE DEF end
  <2>1. /\ r \in Records /\ r.pc = "entries" /\ r.map = 0 /\ r.file = f
        /\ r.pos = end /\ r.unit = 0 /\ r.model = m /\ r.layout = l
    BY <1>2, <2>0 DEF Records, Steps, Asked, Writing
  <2>2. proc' = [proc EXCEPT ![p] = r]
    BY <1>2, <1>4 DEF end
  <2> HIDE DEF r
  <2>3. HasHandles(r) /\ Wanted(r)
    BY <1>2, <2>1 DEF HasHandles, Wanted, Writing, Reading
  <2>4. Stores(p, H)
    BY <1>4 DEF Head1
  <2> HIDE DEF H
  <2>5. /\ inode' \in [Inodes -> Contents]
        /\ \A i \in Inodes \ {f} : inode'[i] = inode[i]
        /\ inode'[f] \in Contents
        /\ cache_path' = cache_path /\ cache_tmp' = cache_tmp /\ mixed' = mixed
        /\ f \notin mixed => /\ Len(inode'[f]) = Len(inode[f]) + 1
                             /\ inode'[f][Len(inode[f]) + 1] = H
    BY <1>1, <1>3, <2>4, StoresAppend
  <2>6. ASSUME f \notin mixed
        PROVE  Len(inode'[f]) >= Len(inode[f]) /\ Proper(inode'[f]) /\ InOrder(inode'[f], r)
    <3>1. Len(inode[f]) = 0 /\ proc[p].pos = 0 /\ 0 < Payload[m]
      BY <1>1, <1>2, <2>6 DEF InOrder
    <3>2. Len(inode'[f]) = 1 /\ inode'[f][1] = H
      BY <2>5, <2>6, <3>1
    <3>3. Laid(inode'[f], m, l, 0)
      <4>1. Begun(inode'[f], 1, m, l)
        BY <3>2 DEF Begun, H
      <4> QED
        BY <3>2, <4>1 DEF Laid
    <3>4. Proper(inode'[f])
      BY <1>2, <2>5, <3>1, <3>3, LaidIsProper DEF Wanted
    <3>5. InOrder(inode'[f], r)
      BY <2>1, <3>1, <3>2, <3>3 DEF InOrder, H, end
    <3> QED
      BY <3>1, <3>2, <3>4, <3>5
  <2> QED
    BY <1>1, <2>1, <2>2, <2>3, <2>5, <2>6, WriterKeepsCacheInv
<1>5. CASE Goes(p, "head", "entries") /\ Drops
  <2> DEFINE r == [proc[p] EXCEPT !.pc = "entries"]
  <2>1. /\ r \in Records /\ r.pc = "entries" /\ r.map = 0 /\ r.file = f
        /\ r.pos = proc[p].pos /\ r.unit = 0 /\ r.model = m /\ r.layout = l
    BY <1>2 DEF Records, Steps, Asked, Writing
  <2>2. proc' = [proc EXCEPT ![p] = r]
    BY <1>2, <1>5 DEF Goes
  <2> HIDE DEF r
  <2>3. HasHandles(r) /\ Wanted(r)
    BY <1>2, <2>1 DEF HasHandles, Wanted, Writing, Reading
  <2>4. inode' = inode /\ cache_path' = cache_path /\ cache_tmp' = cache_tmp /\ mixed' = mixed
    BY <1>5 DEF Drops, names
  <2>5. ASSUME f \notin mixed
        PROVE  Len(inode'[f]) >= Len(inode[f]) /\ Proper(inode'[f]) /\ InOrder(inode'[f], r)
    BY <1>1, <1>2, <2>1, <2>4, <2>5 DEF InOrder, Contents
  <2> QED
    BY <1>1, <1>2, <2>1, <2>2, <2>3, <2>4, <2>5, WriterKeepsCacheInv
<1> QED
  BY <1>4, <1>5 DEF WriteHead

(* The entries.                                                            *)
LEMMA EntriesKeepCacheInv ==
  ASSUME CacheInv, NEW p \in Processes, WriteEntries(p)
  PROVE  CacheInv'
<1> DEFINE m == proc[p].model
           l == proc[p].layout
           f == proc[p].file
           H == Head1(l)
           E == Entries1(m)
<1>1. proc[p].pc = "entries" /\ proc[p].pc \in Writing
  BY DEF WriteEntries, Goes, Writing
<1>2. /\ proc[p] \in Records /\ proc \in [Processes -> Records] /\ Wanted(proc[p])
      /\ proc[p].map = 0 /\ f \in Inodes /\ f # 0 /\ proc[p].unit = 0
      /\ Payload[m] \in Nat /\ inode \in [Inodes -> Contents] /\ inode[f] \in Contents
      /\ f \notin mixed => InOrder(inode[f], proc[p]) /\ Proper(inode[f])
  BY <1>1, WriterRecord
<1>3. E \in Units
  BY <1>2 DEF Units, Wanted
<1>4. CASE /\ Stores(p, <<"entries", Key[m]>>)
           /\ proc' = [proc EXCEPT ![p].pc = "payload", ![p].pos = @ + 1]
  <2> DEFINE end == proc[p].pos + 1
             r == [proc[p] EXCEPT !.pc = "payload", !.pos = end]
  <2>0. end \in Nat
    BY <1>2 DEF Records
  <2> HIDE DEF end
  <2>1. /\ r \in Records /\ r.pc = "payload" /\ r.map = 0 /\ r.file = f
        /\ r.pos = end /\ r.unit = 0 /\ r.model = m /\ r.layout = l
    BY <1>2, <2>0 DEF Records, Steps, Asked, Writing
  <2>2. proc' = [proc EXCEPT ![p] = r]
    BY <1>2, <1>4 DEF end
  <2> HIDE DEF r
  <2>3. HasHandles(r) /\ Wanted(r)
    BY <1>2, <2>1 DEF HasHandles, Wanted, Writing, Reading
  <2>4. Stores(p, E)
    BY <1>4 DEF Entries1
  <2> HIDE DEF H, E
  <2>5. /\ inode' \in [Inodes -> Contents]
        /\ \A i \in Inodes \ {f} : inode'[i] = inode[i]
        /\ inode'[f] \in Contents
        /\ cache_path' = cache_path /\ cache_tmp' = cache_tmp /\ mixed' = mixed
        /\ f \notin mixed => /\ Len(inode'[f]) = Len(inode[f]) + 1
                             /\ inode'[f][Len(inode[f]) + 1] = E
                             /\ \A k \in 1..Len(inode[f]) : inode'[f][k] = inode[f][k]
    BY <1>1, <1>3, <2>4, StoresAppend
  <2>6. ASSUME f \notin mixed
        PROVE  Len(inode'[f]) >= Len(inode[f]) /\ Proper(inode'[f]) /\ InOrder(inode'[f], r)
    <3>1. /\ Len(inode[f]) = 0 \/ (Len(inode[f]) = 1 /\ inode[f][1] = H)
          /\ proc[p].pos = Len(inode[f]) /\ 0 < Payload[m]
      BY <1>1, <1>2, <2>6 DEF InOrder, H
    <3>2. Laid(inode'[f], m, l, 0)
      <4>1. CASE Len(inode[f]) = 0
        <5>1. Len(inode'[f]) = 1 /\ inode'[f][1] = E
          BY <2>5, <2>6, <4>1
        <5>2. Begun(inode'[f], 1, m, l)
          BY <5>1 DEF Begun, E
        <5> QED
          BY <5>1, <5>2 DEF Laid
      <4>2. CASE Len(inode[f]) = 1 /\ inode[f][1] = H
        <5>1. Len(inode'[f]) = 2 /\ inode'[f][1] = H /\ inode'[f][2] = E
          BY <2>5, <2>6, <4>2
        <5>2. Begun(inode'[f], 2, m, l)
          BY <5>1 DEF Begun, H, E
        <5> QED
          BY <5>1, <5>2 DEF Laid
      <4> QED
        BY <3>1, <4>1, <4>2
    <3>3. Proper(inode'[f])
      BY <1>2, <2>5, <3>1, <3>2, LaidIsProper DEF Wanted
    <3>4. Len(inode'[f]) = proc[p].pos + 1 /\ Len(inode'[f]) >= Len(inode[f])
      BY <2>5, <2>6, <3>1
    <3>5. InOrder(inode'[f], r)
      BY <2>1, <3>1, <3>2, <3>4 DEF InOrder, end
    <3> QED
      BY <3>3, <3>4, <3>5
  <2> QED
    BY <1>1, <2>1, <2>2, <2>3, <2>5, <2>6, WriterKeepsCacheInv
<1>5. CASE Goes(p, "entries", "payload") /\ Drops
  <2> DEFINE r == [proc[p] EXCEPT !.pc = "payload"]
  <2>1. /\ r \in Records /\ r.pc = "payload" /\ r.map = 0 /\ r.file = f
        /\ r.pos = proc[p].pos /\ r.unit = 0 /\ r.model = m /\ r.layout = l
    BY <1>2 DEF Records, Steps, Asked, Writing
  <2>2. proc' = [proc EXCEPT ![p] = r]
    BY <1>2, <1>5 DEF Goes
  <2> HIDE DEF r
  <2>3. HasHandles(r) /\ Wanted(r)
    BY <1>2, <2>1 DEF HasHandles, Wanted, Writing, Reading
  <2>4. inode' = inode /\ cache_path' = cache_path /\ cache_tmp' = cache_tmp /\ mixed' = mixed
    BY <1>5 DEF Drops, names
  <2>5. ASSUME f \notin mixed
        PROVE  Len(inode'[f]) >= Len(inode[f]) /\ Proper(inode'[f]) /\ InOrder(inode'[f], r)
    BY <1>1, <1>2, <2>1, <2>4, <2>5 DEF InOrder, Contents
  <2> QED
    BY <1>1, <1>2, <2>1, <2>2, <2>3, <2>4, <2>5, WriterKeepsCacheInv
<1> QED
  BY <1>4, <1>5 DEF WriteEntries

(* A unit of the payload, or the end of it.                                *)
LEMMA PayloadKeepsCacheInv ==
  ASSUME CacheInv, NEW p \in Processes, WritePayload(p)
  PROVE  CacheInv'
<1> DEFINE m == proc[p].model
           l == proc[p].layout
           f == proc[p].file
           next == proc[p].unit + 1
           u == PayloadUnit(m, l, next)
<1>1. proc[p].pc = "payload" /\ proc[p].pc \in Writing
  BY DEF WritePayload, Writing
<1>2. /\ proc[p] \in Records /\ proc \in [Processes -> Records] /\ Wanted(proc[p])
      /\ proc[p].map = 0 /\ f \in Inodes /\ f # 0 /\ proc[p].unit \in Nat /\ next \in Nat
      /\ Payload[m] \in Nat /\ inode \in [Inodes -> Contents] /\ inode[f] \in Contents
      /\ f \notin mixed => InOrder(inode[f], proc[p]) /\ Proper(inode[f])
  BY <1>1, WriterRecord DEF Records
<1>3. u \in Units
  BY <1>2 DEF Units, Wanted, PayloadUnit
<1>4. ASSUME Stores(p, u)
      PROVE  /\ inode' \in [Inodes -> Contents]
             /\ \A i \in Inodes \ {f} : inode'[i] = inode[i]
             /\ inode'[f] \in Contents
             /\ cache_path' = cache_path /\ cache_tmp' = cache_tmp /\ mixed' = mixed
             /\ f \notin mixed =>
                  /\ Len(inode'[f]) >= Len(inode[f]) /\ Len(inode'[f]) = proc[p].pos + 1
                  /\ Laid(inode'[f], m, l, next) /\ Proper(inode'[f])
                  /\ next <= Payload[m]
  <2> HIDE DEF u
  <2>1. /\ inode' \in [Inodes -> Contents]
        /\ \A i \in Inodes \ {f} : inode'[i] = inode[i]
        /\ inode'[f] \in Contents
        /\ cache_path' = cache_path /\ cache_tmp' = cache_tmp /\ mixed' = mixed
        /\ f \notin mixed => /\ inode'[f] = Stored(inode[f], Len(inode[f]), u)
                             /\ Len(inode'[f]) = Len(inode[f]) + 1
    BY <1>1, <1>3, <1>4, StoresAppend
  <2>2. ASSUME f \notin mixed
        PROVE  /\ Len(inode'[f]) >= Len(inode[f]) /\ Len(inode'[f]) = proc[p].pos + 1
               /\ Laid(inode'[f], m, l, next) /\ Proper(inode'[f])
               /\ next <= Payload[m]
    <3>1. /\ proc[p].pos = Len(inode[f]) /\ Laid(inode[f], m, l, proc[p].unit)
          /\ proc[p].unit < Payload[m]
      BY <1>2, <2>2 DEF InOrder
    <3>2. Laid(inode'[f], m, l, next)
      BY <1>2, <2>1, <2>2, <3>1, LaidGrows DEF u
    <3>3. next <= Payload[m]
      BY <1>2, <3>1
    <3>4. Proper(inode'[f])
      BY <1>2, <2>1, <3>2, <3>3, LaidIsProper DEF Wanted
    <3>5. Len(inode[f]) \in Nat
      BY <1>2 DEF Contents
    <3> QED
      BY <2>1, <2>2, <3>1, <3>2, <3>3, <3>4, <3>5
  <2> QED
    BY <2>1, <2>2
<1>5. CASE Stores(p, u) /\ next = Payload[m] /\ Closes(p)
  <2> DEFINE r == [Down EXCEPT !.pc = "rename"]
  <2>1. r \in Records /\ r.pc = "rename" /\ r.map = 0 /\ r.file = 0 /\ r.pos = 0 /\ r.unit = 0
    BY DEF Down, Records, Steps, Asked, Writing, Reading
  <2>2. proc' = [proc EXCEPT ![p] = r]
    BY <1>5 DEF Closes
  <2> HIDE DEF r
  <2>3. HasHandles(r) /\ r.pc \notin Asked
    BY <2>1 DEF HasHandles, Asked, Writing, Reading
  <2> HIDE DEF u, next
  <2> QED
    BY <1>1, <1>4, <1>5, <2>1, <2>2, <2>3, WriterKeepsCacheInv
<1>6. CASE /\ Stores(p, u) /\ next # Payload[m]
           /\ proc' = [proc EXCEPT ![p].pos = @ + 1, ![p].unit = next]
  <2> DEFINE end == proc[p].pos + 1
             r == [proc[p] EXCEPT !.pos = end, !.unit = next]
  <2>0. end \in Nat
    BY <1>2 DEF Records
  <2> HIDE DEF end, next
  <2>1. /\ r \in Records /\ r.pc = "payload" /\ r.map = 0 /\ r.file = f
        /\ r.pos = end /\ r.unit = next /\ r.model = m /\ r.layout = l
    BY <1>1, <1>2, <2>0 DEF Records
  <2>2. proc' = [proc EXCEPT ![p] = r]
    BY <1>2, <1>6 DEF end, next
  <2> HIDE DEF r
  <2>3. HasHandles(r) /\ Wanted(r)
    BY <1>2, <2>1 DEF HasHandles, Wanted, Writing, Reading
  <2> HIDE DEF u
  <2>4. ASSUME f \notin mixed PROVE InOrder(inode'[f], r)
    <3>1. next < Payload[m]
      BY <1>2, <1>4, <1>6, <2>4 DEF next
    <3> QED
      BY <1>4, <1>6, <2>1, <2>4, <3>1 DEF InOrder, end, next
  <2> QED
    BY <1>1, <1>4, <1>6, <2>1, <2>2, <2>3, <2>4, WriterKeepsCacheInv
<1>7. CASE Closes(p) /\ Drops
  <2>1. UNCHANGED <<inode, mixed>> /\ cache_path' = cache_path /\ cache_tmp' = cache_tmp
    BY <1>7 DEF Drops, names
  <2> QED
    BY <1>7, <2>1, LeavingKeepsCacheInv DEF Closes
<1> QED
  BY <1>5, <1>6, <1>7 DEF WritePayload

-----------------------------------------------------------------------------
(* Every step of every process keeps the invariant.                        *)
LEMMA StepsKeepCacheInv ==
  ASSUME CacheInv, [CacheNext]_cacheVars
  PROVE  CacheInv'
<1>1. CASE UNCHANGED cacheVars
  <2>1. /\ proc' = proc /\ inode' = inode /\ mixed' = mixed
        /\ cache_path' = cache_path /\ cache_tmp' = cache_tmp
    BY <1>1 DEF cacheVars
  <2>2. CacheTypeOK' /\ HandlesInv' /\ OneWriter'
    BY <2>1 DEF CacheInv, CacheTypeOK, Wanted, HandlesInv, HasHandles, OneWriter
  <2>3. WrittenInv'
    BY <2>1 DEF CacheInv, WrittenInv, InOrder, Laid, Begun, Head1, Entries1, PayloadUnit
  <2>4. ProperInv'
    <3> SUFFICES ASSUME NEW i \in Inodes \ mixed' PROVE Proper(inode'[i])
      BY DEF ProperInv, Proper, Matches, need, PayloadUnit
    <3> QED
      BY <2>1 DEF CacheInv, ProperInv
  <2>5. MappedInv'
    BY <2>1 DEF CacheInv, MappedInv, Read, Matches, need
  <2> QED
    BY <2>2, <2>3, <2>4, <2>5 DEF CacheInv
<1>2. ASSUME NEW p \in Processes, fl_shadow_init(p) PROVE CacheInv'
  BY <1>2, StartKeepsCacheInv
<1>3. ASSUME NEW p \in Processes, MapCache(p) PROVE CacheInv'
  BY <1>3, MapKeepsCacheInv
<1>4. ASSUME NEW p \in Processes, ValidateCache(p) PROVE CacheInv'
  BY <1>4, ValidateKeepsCacheInv
<1>5. ASSUME NEW p \in Processes, BuildShadows(p) PROVE CacheInv'
  BY <1>5, BuildKeepsCacheInv
<1>6. ASSUME NEW p \in Processes, OpenTmp(p) PROVE CacheInv'
  <2>1. CASE Leaves(p, "open", "built") /\ UNCHANGED <<inode, cache_tmp, mixed>>
    BY <1>6, <2>1, LeavingKeepsCacheInv DEF OpenTmp, Leaves
  <2>2. CASE ~(Leaves(p, "open", "built") /\ UNCHANGED <<inode, cache_tmp, mixed>>)
    <3> DEFINE i == IF cache_tmp = 0 THEN FreeInode ELSE cache_tmp
    <3>1. /\ proc[p].pc = "open" /\ cache_tmp' = i /\ cache_path' = cache_path
          /\ inode' = [inode EXCEPT ![i] = <<>>]
          /\ proc' = [proc EXCEPT ![p].pc = "head", ![p].file = i]
          /\ mixed' = IF \E q \in Processes : proc[q].file = i THEN mixed \cup {i} ELSE mixed \ {i}
      BY <1>6, <2>2, Zenon DEF OpenTmp
    <3> QED
      BY <3>1, OpenKeepsCacheInv
  <2> QED
    BY <2>1, <2>2
<1>7. ASSUME NEW p \in Processes, WriteHead(p) PROVE CacheInv'
  BY <1>7, HeadKeepsCacheInv
<1>8. ASSUME NEW p \in Processes, WriteEntries(p) PROVE CacheInv'
  BY <1>8, EntriesKeepCacheInv
<1>9. ASSUME NEW p \in Processes, WritePayload(p) PROVE CacheInv'
  BY <1>9, PayloadKeepsCacheInv
<1>10. ASSUME NEW p \in Processes, PublishCache(p) PROVE CacheInv'
  BY <1>10, LeavingKeepsCacheInv DEF PublishCache, Leaves, names
<1>11. ASSUME NEW p \in Processes, Exit(p) PROVE CacheInv'
  BY <1>11, LeavingKeepsCacheInv DEF Exit, Leaves, names
<1> QED
  BY <1>1, <1>2, <1>3, <1>4, <1>5, <1>6, <1>7, <1>8, <1>9, <1>10, <1>11 DEF CacheNext

(* The invariant holds throughout, however many processes initialise at    *)
(* the same time.                                                          *)
THEOREM CacheInvariant == CacheSpec => []CacheInv
<1>1. CacheInit => CacheInv
  BY InitEstablishesCacheInv
<1>2. CacheInv /\ [CacheNext]_cacheVars => CacheInv'
  BY StepsKeepCacheInv
<1> QED
  BY <1>1, <1>2, PTL DEF CacheSpec

(* fl_shadow_init: a process serves a whole payload in the layout of its   *)
(* own kernels, of a model with the names, formats and shapes it asked     *)
(* for, for as long as it runs, whatever other processes do to the cache   *)
(* and the temporary file, unless two had the file it maps open for        *)
(* writing at once.                                                        *)
THEOREM ProcessesServeWholeShadows == CacheSpec => []ServesWholeShadows
<1>1. CacheInv => ServesWholeShadows
  <2> SUFFICES ASSUME CacheInv, NEW p \in Processes, proc[p].pc = "mapped", proc[p].map \notin mixed
               PROVE  WholeFor(inode[proc[p].map], proc[p].model, proc[p].layout)
    BY DEF ServesWholeShadows
  <2>1. proc[p].map \in Inodes /\ proc[p].map # 0 /\ Wanted(proc[p])
    BY DEF CacheInv, CacheTypeOK, Records, HandlesInv, HasHandles, Asked, Reading
  <2>2. Read(inode[proc[p].map], proc[p]) /\ Proper(inode[proc[p].map])
    BY <2>1 DEF CacheInv, MappedInv, ProperInv
  <2>3. inode[proc[p].map] \in Contents
    BY <2>1 DEF CacheInv, CacheTypeOK
  <2> QED
    BY <2>1, <2>2, <2>3, ProperIsWhole DEF Read, Wanted
<1> QED
  BY <1>1, CacheInvariant, PTL

(* fl_shadow_init: a cache that some process would accept is whole,        *)
(* whatever crashed or fell short before and whoever renamed it, with the  *)
(* same exception.                                                         *)
THEOREM AcceptedFilesAreWhole == CacheSpec => []AcceptedIsWhole
<1>1. CacheInv => AcceptedIsWhole
  <2> SUFFICES ASSUME CacheInv, cache_path # 0, cache_path \notin mixed,
                      NEW m \in Models, NEW l \in Layouts,
                      Fits(inode[cache_path], m), Matches(inode[cache_path], m, l)
               PROVE  WholeFor(inode[cache_path], m, l)
    BY DEF AcceptedIsWhole
  <2>1. cache_path \in Inodes /\ inode[cache_path] \in Contents
    BY DEF CacheInv, CacheTypeOK
  <2>2. Proper(inode[cache_path])
    BY <2>1 DEF CacheInv, ProperInv
  <2> QED
    BY <2>1, <2>2, ProperIsWhole DEF Fits
<1> QED
  BY <1>1, CacheInvariant, PTL
=============================================================================
