---------------------------- MODULE ShadowCache ----------------------------
(***************************************************************************)
(* The shadows of a process and the file they are cached in                *)
(* (fl_shadow_init, src/src/runtime/shadow.cpp).  Processes start with a   *)
(* model, a mode and a layout, look for the cache, build what they do not  *)
(* find, write it to a temporary file and rename it, and serve it until    *)
(* they exit; they may crash at any step, and a write may fall short.      *)
(* Nothing keeps two of them from doing so at the same time: the temporary *)
(* file has one name for all.                                              *)
(*                                                                         *)
(* A file is an inode, a sequence of units: the header (the layout), the   *)
(* entries (the key of a model: names, formats and shapes) and the units   *)
(* of the payload (whose shadows, in which layout).  A hole is None.       *)
(***************************************************************************)
EXTENDS Integers, Sequences, FiniteSets

CONSTANTS Processes, Models,
          Key,             \* what the entries say of a model; not its weights
          Payload,         \* units of a model's shadows; 0: no q4_K or q5_0 tensor
          OddRows,         \* the models with a q4_K tensor of an odd row count
          None

\* Formats and shapes are part of the key; the size follows from them.
ASSUME CacheAssumption ==
    /\ IsFiniteSet(Processes) /\ Payload \in [Models -> Nat]
    /\ \A a, b \in Models : Key[a] = Key[b] => Payload[a] = Payload[b]

Layouts == {"plain", "smmla"}
Modes == {"off", "build", "cache"}
Inodes == 1..(2 + Cardinality(Processes))

\* A process that serves a mapped cache is "mapped"; one that serves what it
\* built is "built", one without shadows "disabled".
VARIABLES proc,            \* per process [pc, mode, model, layout, file, pos, unit, map]
          inode,           \* contents, per inode
          cache_path, cache_tmp,       \* the inodes of the two names, 0 if none
          mixed            \* history: the inodes that two had open for writing at once

cacheVars == <<proc, inode, cache_path, cache_tmp, mixed>>
names == <<cache_path, cache_tmp>>

Down == [pc |-> "down", mode |-> None, model |-> None, layout |-> None,
         file |-> 0, pos |-> 0, unit |-> 0, map |-> 0]

CacheInit ==
    /\ proc = [p \in Processes |-> Down]
    /\ inode = [i \in Inodes |-> <<>>]
    /\ cache_path = 0 /\ cache_tmp = 0
    /\ mixed = {}

\* An inode lives as long as a name, a mapping or an open file refers to it; a
\* dead one is empty, and so is a temporary file that nobody is about to rename:
\* whoever opens it empties it.
Opened == UNION {{proc[p].file, proc[p].map} : p \in Processes}
FreeInode == CHOOSE i \in Inodes : i \notin {cache_path, cache_tmp} \cup Opened
Needed == {cache_path} \cup Opened \cup {i \in {cache_tmp} : \E p \in Processes : proc[p].pc = "rename"}
Sweep ==
    /\ inode' = [i \in Inodes |-> IF i \in Needed' THEN inode[i] ELSE <<>>]
    /\ mixed' = mixed \cap Needed'

\* Process p goes from one step of fl_shadow_init to another, or leaves it.
Goes(p, from, to) == proc[p].pc = from /\ proc' = [proc EXCEPT ![p].pc = to]
Leaves(p, from, to) == proc[p].pc = from /\ proc' = [proc EXCEPT ![p] = [Down EXCEPT !.pc = to]]

-----------------------------------------------------------------------------
\* One tensor with odd rows disables the row pairs of all.
EffectiveLayout(m, asked) == IF m \in OddRows THEN "plain" ELSE asked

fl_shadow_init(p) ==
    \E m \in Models, mode \in Modes, asked \in Layouts :
        /\ proc[p].pc = "down"
        /\ IF mode = "off" \/ Payload[m] = 0 THEN Leaves(p, "down", "disabled")
           ELSE proc' = [proc EXCEPT ![p] =
                    [Down EXCEPT !.pc = IF mode = "cache" THEN "lookup" ELSE "alloc", !.mode = mode,
                                 !.model = m, !.layout = EffectiveLayout(m, asked)]]
        /\ UNCHANGED <<inode, names, mixed>>

\* What the reader of a file asks of it: the size, then header and entries.
need(m) == 2 + Payload[m]
FitsAnySize(file, m) == Len(file) >= 2     \* faulty: the size is not compared
Fits(file, m) == Len(file) = need(m)
\* faulty: the layout is not compared
MatchesAnyLayout(file, m, layout) ==
    (\E l \in Layouts : file[1] = <<"head", l>>) /\ file[2] = <<"entries", Key[m]>>
Matches(file, m, layout) == file[1] = <<"head", layout>> /\ file[2] = <<"entries", Key[m]>>

\* Open, stat and map.  Each of them may fail.
MapCache(p) ==
    /\ proc[p].pc = "lookup"
    /\ \/ /\ cache_path # 0 /\ Fits(inode[cache_path], proc[p].model)
          /\ proc' = [proc EXCEPT ![p].pc = "validate", ![p].map = cache_path]
       \/ proc' = [proc EXCEPT ![p].pc = "alloc"]
    /\ UNCHANGED <<inode, names, mixed>>

\* A mapping that does not match is unmapped.
ValidateCache(p) ==
    /\ proc[p].pc = "validate"
    /\ proc' = IF Matches(inode[proc[p].map], proc[p].model, proc[p].layout)
               THEN [proc EXCEPT ![p].pc = "mapped", ![p].mode = None]
               ELSE [proc EXCEPT ![p].pc = "alloc", ![p].map = 0]
    /\ UNCHANGED names
    /\ Sweep

\* Allocate and build; without memory there are no shadows.
BuildShadows(p) ==
    /\ \/ Leaves(p, "alloc", "disabled")
       \/ proc[p].mode = "cache" /\ Goes(p, "alloc", "open")
       \/ proc[p].mode # "cache" /\ Leaves(p, "alloc", "built")
    /\ UNCHANGED <<inode, names, mixed>>

\* fopen(tmp, "wb"): a new file, or the old one emptied under whoever is
\* writing it; or it fails.
OpenTmp(p) ==
    LET i == IF cache_tmp = 0 THEN FreeInode ELSE cache_tmp
        inUse == \E q \in Processes : proc[q].file = i
    IN  /\ proc[p].pc = "open"
        /\ \/ /\ cache_tmp' = i
              /\ inode' = [inode EXCEPT ![i] = <<>>]
              /\ proc' = [proc EXCEPT ![p].pc = "head", ![p].file = i]
              /\ mixed' = IF inUse THEN mixed \cup {i} ELSE mixed \ {i}
           \/ Leaves(p, "open", "built") /\ UNCHANGED <<inode, cache_tmp, mixed>>
        /\ UNCHANGED cache_path

\* A unit stored at a position, beyond a hole if the file is shorter.
Stored(file, pos, u) ==
    [k \in 1..(IF Len(file) > pos THEN Len(file) ELSE pos + 1) |->
        IF k = pos + 1 THEN u ELSE IF k <= Len(file) THEN file[k] ELSE None]

\* fwrite at the position of p's own file.  When the disk is full the unit is
\* dropped, which nobody looks at.
Stores(p, u) ==
    /\ inode' = [inode EXCEPT ![proc[p].file] = Stored(inode[proc[p].file], proc[p].pos, u)]
    /\ UNCHANGED <<names, mixed>>
Drops == UNCHANGED <<inode, names, mixed>>

WriteHead(p) ==
    \/ /\ proc[p].pc = "head"
       /\ Stores(p, <<"head", proc[p].layout>>)
       /\ proc' = [proc EXCEPT ![p].pc = "entries", ![p].pos = @ + 1]
    \/ Goes(p, "head", "entries") /\ Drops

WriteEntries(p) ==
    \/ /\ proc[p].pc = "entries"
       /\ Stores(p, <<"entries", Key[proc[p].model]>>)
       /\ proc' = [proc EXCEPT ![p].pc = "payload", ![p].pos = @ + 1]
    \/ Goes(p, "entries", "payload") /\ Drops

\* The payload takes several writes of the system; the first that falls short
\* ends it.  The file is closed after the last.
PayloadUnit(m, layout, k) == <<"payload", m, layout, k>>
PayloadOf(m, layout) == [k \in 1..Payload[m] |-> PayloadUnit(m, layout, k)]
Closes(p) ==
    proc' = [proc EXCEPT ![p] = [Down EXCEPT !.pc = "rename"]]

WritePayload(p) ==
    LET next == proc[p].unit + 1
    IN  /\ proc[p].pc = "payload"
        /\ \/ /\ Stores(p, PayloadUnit(proc[p].model, proc[p].layout, next))
              /\ IF next = Payload[proc[p].model] THEN Closes(p)
                 ELSE proc' = [proc EXCEPT ![p].pos = @ + 1, ![p].unit = next]
           \/ Closes(p) /\ Drops

\* The temporary name may be gone by now, and the rename fails; or it may be
\* the file of another process by now.
PublishCache(p) ==
    /\ Leaves(p, "rename", "built")
    /\ IF cache_tmp = 0 THEN UNCHANGED names ELSE cache_path' = cache_tmp /\ cache_tmp' = 0
    /\ Sweep

\* The process ends, in good order or not.
Exit(p) ==
    /\ proc[p].pc # "down"
    /\ Leaves(p, proc[p].pc, "down")
    /\ UNCHANGED names
    /\ Sweep

CacheNext ==
    \E p \in Processes :
        \/ fl_shadow_init(p) \/ MapCache(p) \/ ValidateCache(p) \/ BuildShadows(p) \/ OpenTmp(p)
        \/ WriteHead(p) \/ WriteEntries(p) \/ WritePayload(p) \/ PublishCache(p) \/ Exit(p)
CacheSpec == CacheInit /\ [][CacheNext]_cacheVars

-----------------------------------------------------------------------------
(* Properties *)

\* The payload of some model that has the key of m.
WholeFor(file, m, layout) ==
    \E a \in Models : Key[a] = Key[m] /\ Tail(Tail(file)) = PayloadOf(a, layout)

\* A process that serves mapped shadows serves a whole payload in the layout its
\* kernels expect, of a model of the same names, formats and shapes, for as
\* long as it runs: no other process rewrites the file under it, however many
\* write caches meanwhile or take the temporary file from one another.  Only a
\* file that two processes wrote at once is promised nothing.
ServesWholeShadows ==
    \A p \in Processes :
        proc[p].pc = "mapped" /\ proc[p].map \notin mixed =>
            WholeFor(inode[proc[p].map], proc[p].model, proc[p].layout)

\* A file under the cache's name that any process would accept has a whole
\* payload in that process's layout, of a model with its key, whichever crash or
\* short write came before and whoever renamed it, with the same exception.
AcceptedIsWhole ==
    cache_path # 0 /\ cache_path \notin mixed =>
        \A m \in Models, l \in Layouts :
            LET file == inode[cache_path]
            IN  Payload[m] > 0 /\ Fits(file, m) /\ Matches(file, m, l) => WholeFor(file, m, l)

\* "A plain cache read as SMMLA (or vice versa) is silent corruption, so a
\* mismatch invalidates and rebuilds - never reinterprets": no unit a process
\* has mapped is of the other layout.  fl_shadow_init does not keep it: two
\* processes may write the one temporary file at the same time.
NeverReinterprets ==
    \A p \in Processes :
        proc[p].pc = "mapped" =>
            \A k \in 3..need(proc[p].model), m \in Models, l \in Layouts \ {proc[p].layout} :
                \A j \in 1..Payload[m] : inode[proc[p].map][k] # PayloadUnit(m, l, j)
=============================================================================
