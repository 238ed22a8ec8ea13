--------------------------- MODULE DecodeOrderProofs ---------------------------
(***************************************************************************)
(* Whatever order the edges of a decode graph allow, a task reads what was *)
(* written for it, in every pass, and without the options that join        *)
(* positions waits for earlier positions only: for any batch size, list of *)
(* layers, tiles, heads, experts and options.                              *)
(*                                                                         *)
(* - Buffers: a task that computes is a call of the script or a tile of    *)
(*   it, between what the call waits for and what it names (Traced); each  *)
(*   call follows the makers of what it reads, and the makers of what it   *)
(*   writes come before or after it (InPlace).  So tasks that share a      *)
(*   buffer are ordered by the edges (NoRaces).                            *)
(* - Passes: what the slots hold was put there by tasks of this pass       *)
(*   (RunInv).                                                             *)
(* - Positions: for each q the calls up to position q make a cut (Waves),  *)
(*   which freeze() cannot leave (KnowsOnly).                              *)
(***************************************************************************)
EXTENDS DecodeGraphProofs

--------------------------------------------------------------------------------
(* What the tasks of a graph compute.                                      *)

(* The task is the call it, or one of its n tiles.                         *)
IsTaskOf(task, it, n) ==
  /\ it.kind \in {"op", "dot"} /\ task.kind = it.kind
  /\ task.reads = it.reads /\ task.writes = it.writes /\ task.pos = it.pos
  /\ task.part \in IF it.kind = "op" THEN {0} ELSE 1 .. n

(* Of the tasks that a call adds, the ones that are not signals do its     *)
(* work: after the producers P, before sig, each tile once.                *)
Computes(g, h, sig, P, it, n) ==
  /\ \A t \in TaskIds(h) \ TaskIds(g) : h.tasks[t] # Signal =>
       /\ IsTaskOf(h.tasks[t], it, n) /\ Reaches(h, t, sig)
       /\ \A p \in P : Reaches(h, p, t)
  /\ \A t, u \in TaskIds(h) \ TaskIds(g) :
       /\ h.tasks[t] # Signal /\ h.tasks[u] # Signal
       /\ h.tasks[t].part = h.tasks[u].part
       => t = u

TaskFor(it) ==
  [kind |-> it.kind, reads |-> it.reads, writes |-> it.writes, part |-> 0,
   pos |-> it.pos]

LEMMA TaskForParts ==
  ASSUME NEW it, NEW task, task = TaskFor(it)
  PROVE  /\ it.kind = "op" => \A n : IsTaskOf(task, it, n)
         /\ it.kind = "dot" => \A n \in Nat : \A i \in 1 .. n :
              IsTaskOf(Tile(task, i), it, n) /\ Tile(task, i).part = i
  BY DEF TaskFor, IsTaskOf, Tile

(* A call with one task.                                                   *)
LEMMA AddOpComputes ==
  ASSUME NEW g, Good(g), NEW task, NEW n \in Nat, NEW ps, DOMAIN ps = 1 .. n,
         \A i \in 1 .. n : Legal(g, ps[i]), NEW P, P = { ps[i] : i \in 1 .. n },
         NEW op, op = AddOp(g, task, ps), NEW it, NEW k,
         task = Signal \/ (task = TaskFor(it) /\ it.kind = "op")
  PROVE  Computes(g, op.graph, op.sig, P, it, k)
<1>1. op.graph = AddTaskAfter(g, task, ps) /\ op.sig = NewestTask(g) + 1
  BY DEF AddOp
<1>2. PICK h, c : h = op.graph /\ c = op.sig
  OBVIOUS
<1>3. WaitsFor(g, h, task, c, P)
  BY <1>1, <1>2, AddTaskAfterWaits
<1>4. /\ h.tasks[c] = task /\ \A p \in P : Reaches(h, p, c)
      /\ \A t \in TaskIds(h) \ TaskIds(g) : h.tasks[t] # Signal => t = c
  BY <1>3 DEF WaitsFor
<1>5. task # Signal => IsTaskOf(task, it, k)
  BY TaskForParts
<1>6. Reaches(h, c, c)
  BY ReachesSelf
<1>7. Computes(g, h, c, P, it, k)
  BY <1>4, <1>5, <1>6 DEF Computes
<1> QED
  BY <1>2, <1>7

(* A call with a task for each tile.                                       *)
LEMMA AddDotComputes ==
  ASSUME NEW g, Good(g), NEW it, it.kind = "dot", NEW task, task = TaskFor(it),
         NEW m \in Nat, NEW ps, DOMAIN ps = 1 .. m,
         \A i \in 1 .. m : Legal(g, ps[i]), NEW P, P = { ps[i] : i \in 1 .. m },
         NEW n \in Nat \ {0},
         NEW dot, dot = AddDot(g, task, n, ps)
  PROVE  Computes(g, dot.graph, dot.sig, P, it, n)
<1>1. PICK tiled : tiled = AddTiles(g, task, n, ps)
  OBVIOUS
<1>2. PICK k, ids : k = tiled.graph /\ ids = tiled.ids
  OBVIOUS
<1>3. dot = IF n = 1 THEN [graph |-> k, sig |-> ids[1]] ELSE AddOp(k, Signal, ids)
  BY <1>1, <1>2 DEF AddDot
<1>4. Tiled(g, k, ids, task, P, n)
  BY <1>1, <1>2, AddTilesTiled
<1>5. /\ Good(k) /\ ids \in Seq(Nat) /\ Len(ids) = n
      /\ \A i \in 1 .. n : /\ ids[i] \in TaskIds(k) \ TaskIds(g) /\ Legal(k, ids[i])
                           /\ \A p \in P : Reaches(k, p, ids[i])
                           /\ k.tasks[ids[i]] = Tile(task, i)
      /\ \A t \in TaskIds(k) \ TaskIds(g) :
           k.tasks[t] # Signal => \E i \in 1 .. n : t = ids[i]
  BY <1>4 DEF Tiled, Extends
<1>6. \A i \in 1 .. n : IsTaskOf(Tile(task, i), it, n) /\ Tile(task, i).part = i
  BY TaskForParts
<1>7. P \subseteq TaskIds(g) /\ TaskIds(g) \subseteq TaskIds(k)
  BY <1>4 DEF Legal, Tiled, Extends
<1>8. CASE n = 1
  <2>1. dot.graph = k /\ dot.sig = ids[1] /\ 1 .. n = {1}
    BY <1>3, <1>8
  <2> PICK i \in 1 .. n : i = 1
    BY <2>1
  <2>2. Computes(g, k, ids[1], P, it, n)
    <3>1. ASSUME NEW t \in TaskIds(k) \ TaskIds(g), k.tasks[t] # Signal
          PROVE  t = ids[1]
      <4>1. PICK j \in 1 .. n : t = ids[j]
        BY <1>5, <3>1
      <4> QED BY <2>1, <4>1
    <3>2. IsTaskOf(k.tasks[ids[1]], it, n) /\ \A p \in P : Reaches(k, p, ids[1])
      <4>1. k.tasks[ids[i]] = Tile(task, i) /\ \A p \in P : Reaches(k, p, ids[i])
        BY <1>5
      <4> QED BY <1>6, <4>1
    <3>3. Reaches(k, ids[1], ids[1])
      BY ReachesSelf
    <3> QED BY <3>1, <3>2, <3>3 DEF Computes
  <2> QED BY <2>1, <2>2
<1>9. CASE n # 1
  <2>1. PICK I : I = { ids[i] : i \in 1 .. n }
    OBVIOUS
  <2>2. dot = AddOp(k, Signal, ids)
    BY <1>3, <1>9
  <2>3. PICK h, c : h = dot.graph /\ c = dot.sig
    OBVIOUS
  <2>4. /\ Good(k) /\ DOMAIN ids = 1 .. n /\ n \in Nat
        /\ \A i \in 1 .. n : Legal(k, ids[i])
    BY <1>5
  <2>5. Called(k, dot.graph, dot.sig, I)
    BY <2>1, <2>2, <2>4, AddOpCalled
  <2>7. /\ TaskIds(k) \subseteq TaskIds(h)
        /\ \A t \in TaskIds(k) : h.tasks[t] = k.tasks[t]
        /\ \A a, b \in TaskIds(k) : Leads(k, a, b) => Leads(h, a, b)
        /\ \A i \in I : Reaches(h, i, c)
    BY <2>3, <2>5 DEF Called, Extends
  <2>9. WaitsFor(k, h, Signal, c, I)
    <3>1. h = AddTaskAfter(k, Signal, ids) /\ c = NewestTask(k) + 1
      BY <2>2, <2>3 DEF AddOp
    <3> QED BY <2>1, <2>4, <3>1, AddTaskAfterWaits
  <2>10. \A t \in TaskIds(h) \ TaskIds(k) : h.tasks[t] = Signal
    BY <2>9 DEF WaitsFor
  <2>11. \A t \in TaskIds(h) \ TaskIds(g) : h.tasks[t] # Signal =>
           \E i \in 1 .. n : t = ids[i]
    BY <1>5, <2>7, <2>10
  <2>12. ASSUME NEW i \in 1 .. n
         PROVE  /\ h.tasks[ids[i]] = Tile(task, i)
                /\ Reaches(h, ids[i], c) /\ \A p \in P : Reaches(h, p, ids[i])
    <3>1. ids[i] \in I /\ ids[i] \in TaskIds(k)
      BY <1>5, <2>1
    <3>2. ASSUME NEW p \in P  PROVE Reaches(h, p, ids[i])
      <4>1. Reaches(k, p, ids[i]) /\ p \in TaskIds(k)
        BY <1>5, <1>7
      <4> QED BY <2>7, <4>1, ReachesKept
    <3> QED BY <1>5, <2>7, <3>1, <3>2
  <2>13. ASSUME NEW t \in TaskIds(h) \ TaskIds(g), h.tasks[t] # Signal
         PROVE  \E i \in 1 .. n : /\ t = ids[i] /\ h.tasks[t].part = i
                                  /\ IsTaskOf(h.tasks[t], it, n) /\ Reaches(h, t, c)
                                  /\ \A p \in P : Reaches(h, p, t)
    <3>1. PICK i \in 1 .. n : t = ids[i]
      BY <2>11, <2>13
    <3>2. h.tasks[t] = Tile(task, i)
      BY <2>12, <3>1
    <3> QED BY <1>6, <2>12, <3>1, <3>2
  <2>14. Computes(g, h, c, P, it, n)
    BY <2>13 DEF Computes
  <2> QED BY <2>3, <2>14
<1> QED
  BY <1>8, <1>9

LEMMA MadeComputes ==
  ASSUME NEW it, IsCall(it), Good(graph), config.tiles \in Nat \ {0},
         \A x \in Used(it) : Legal(graph, sigs[x]),
         NEW P, P = { sigs[x] : x \in Used(it) }
  PROVE  Computes(graph, Made(it).graph, Made(it).sig, P, it, config.tiles)
<1>1. PICK n \in Nat : DOMAIN it.deps = 1 .. n
  BY DEF IsCall
<1>2. PICK ids, task : /\ ids = [i \in DOMAIN it.deps |-> sigs[it.deps[i]]]
                       /\ task = TaskFor(it)
  OBVIOUS
<1>t. task = TaskFor(it)
  BY <1>2
<1>3. /\ DOMAIN ids = 1 .. n /\ \A i \in 1 .. n : ids[i] = sigs[it.deps[i]]
      /\ P = { ids[i] : i \in 1 .. n }
  <2>1. DOMAIN ids = 1 .. n /\ \A i \in 1 .. n : ids[i] = sigs[it.deps[i]]
    BY <1>1, <1>2
  <2>2. { sigs[x] : x \in Used(it) } = { sigs[it.deps[i]] : i \in 1 .. n }
    BY <1>1 DEF Used
  <2>3. { sigs[it.deps[i]] : i \in 1 .. n } = { ids[i] : i \in 1 .. n }
    BY <2>1
  <2> QED BY <2>1, <2>2, <2>3
<1>4. \A i \in 1 .. n : Legal(graph, ids[i])
  BY <1>1, <1>3 DEF Used
<1>5. CASE it.kind = "op"
  <2>1. PICK op : op = AddOp(graph, task, ids)
    OBVIOUS
  <2>2. Made(it) = op
    BY <1>2, <1>5, <2>1 DEF Made, TaskFor
  <2>3. Computes(graph, op.graph, op.sig, P, it, config.tiles)
    BY <1>t, <1>3, <1>4, <1>5, <2>1, AddOpComputes
  <2> QED BY <2>2, <2>3
<1>6. CASE it.kind = "dot"
  <2>1. PICK t, op : t = config.tiles /\ op = AddDot(graph, task, t, ids)
    OBVIOUS
  <2>2. Made(it) = op
    BY <1>2, <1>6, <2>1 DEF Made, TaskFor
  <2>3. Computes(graph, op.graph, op.sig, P, it, t)
    BY <1>t, <1>3, <1>4, <1>6, <2>1, AddDotComputes
  <2> QED BY <2>1, <2>2, <2>3
<1>7. CASE it.kind = "signal"
  <2>1. PICK op : op = AddOp(graph, Signal, ids)
    OBVIOUS
  <2>2. Made(it) = op
    BY <1>2, <1>7, <2>1 DEF Made
  <2>3. Computes(graph, op.graph, op.sig, P, it, config.tiles)
    BY <1>3, <1>4, <2>1, AddOpComputes
  <2> QED BY <2>2, <2>3
<1> QED
  BY <1>5, <1>6, <1>7 DEF IsCall

--------------------------------------------------------------------------------
(* Who comes after whom, from the script to the graph.                     *)

LEMMA ReachesThrough ==
  ASSUME NEW g, NEW x, NEW y, NEW z, Reaches(g, x, y), Reaches(g, y, z)
  PROVE  Reaches(g, x, z)
  BY DEF Reaches

(* After k calls each task that computes is known to be of one call, with  *)
(* what the call waits for before it and what it stands for after it.      *)
OfCall(g, names, it, n, t) ==
  /\ IsTaskOf(g.tasks[t], it, n)
  /\ \A x \in it.names : Reaches(g, t, names[x])
  /\ \A y \in Used(it) : Reaches(g, names[y], t)

Traced(g, names, S, k, n, of) ==
  /\ \A t \in TaskIds(g) : g.tasks[t] # Signal =>
       of[t] \in 1 .. k /\ OfCall(g, names, S[of[t]], n, t)
  /\ \A t, u \in TaskIds(g) :
       /\ g.tasks[t] # Signal /\ g.tasks[u] # Signal
       /\ of[t] = of[u] /\ g.tasks[t].part = g.tasks[u].part
       => t = u
  /\ \A j \in 1 .. k : \A x \in S[j].names : \A y \in Used(S[j]) :
       Reaches(g, names[y], names[x])

(* What a name stood for it stands for after a call that gives other names.*)
NamesKept(S, k, names, names2) == \A x \in NamedBy(S, k) : names2[x] = names[x]

LEMMA NamesAreKept ==
  ASSUME NEW S, NEW n, NEW E, ScriptOK(S, n, E), NEW k \in Nat, k <= n,
         NEW it, it = S[k + 1],
         NEW names, DOMAIN names = NamedBy(S, k), NEW sig,
         NEW names2, names2 = NamesAfter(names, it, sig)
  PROVE  /\ NamesKept(S, k, names, names2)
         /\ \A x \in it.names : names2[x] = sig
         /\ Used(it) \subseteq NamedBy(S, k)
<1>1. k + 1 \in 1 .. n + 1 /\ (k + 1) - 1 = k
  BY DEF ScriptOK
<1>2. \A i \in 1 .. k : i \in 1 .. n + 1 /\ i # k + 1
  BY DEF ScriptOK
<1>3. NamedBy(S, k) \cap it.names = {}
  <2>1. \A i \in 1 .. k : S[i].names \cap it.names = {}
    BY <1>1, <1>2 DEF ScriptOK
  <2> QED BY <2>1 DEF NamedBy
<1>4. Used(it) \subseteq NamedBy(S, k)
  BY <1>1 DEF ScriptOK, FollowsNames, NamedBy
<1> QED
  BY <1>3, <1>4 DEF NamesAfter, NamesKept

LEMMA OfCallKept ==
  ASSUME NEW g, NEW h, TaskIds(g) \subseteq TaskIds(h),
         \A a, b \in TaskIds(g) : Leads(g, a, b) => Leads(h, a, b),
         NEW t \in TaskIds(g), h.tasks[t] = g.tasks[t],
         NEW names, NEW names2, NEW it, NEW n, OfCall(g, names, it, n, t),
         \A x \in it.names \cup Used(it) : names2[x] = names[x] /\ names[x] \in TaskIds(g)
  PROVE  OfCall(h, names2, it, n, t)
<1>1. ASSUME NEW x \in it.names  PROVE Reaches(h, t, names2[x])
  <2>1. Reaches(g, t, names[x])
    BY DEF OfCall
  <2> QED BY <2>1, ReachesKept
<1>2. ASSUME NEW x \in Used(it)  PROVE Reaches(h, names2[x], t)
  <2>1. Reaches(g, names[x], t) /\ names[x] \in TaskIds(g)
    BY DEF OfCall
  <2> QED BY <2>1, ReachesKept
<1> QED
  BY <1>1, <1>2 DEF OfCall

(* All names that the first k calls give or wait for.                      *)
LEMMA NamesOfCall ==
  ASSUME NEW S, NEW n, NEW E, ScriptOK(S, n, E), NEW k \in Nat, k <= n + 1,
         NEW j \in 1 .. k
  PROVE  S[j].names \cup Used(S[j]) \subseteq NamedBy(S, k)
<1>1. j \in 1 .. n + 1 /\ \A i \in 1 .. j - 1 : i \in 1 .. k
  BY DEF ScriptOK
<1>2. \A x \in Used(S[j]) : \E i \in 1 .. k : x \in S[i].names
  BY <1>1 DEF ScriptOK, FollowsNames
<1> QED
  BY <1>2 DEF NamedBy

LEMMA TracedMore ==
  ASSUME NEW S, NEW n, NEW E, ScriptOK(S, n, E), NEW k \in Nat, k <= n,
         NEW it, it = S[k + 1], NEW g, NEW names, DOMAIN names = NamedBy(S, k),
         \A x \in NamedBy(S, k) : names[x] \in TaskIds(g),
         NEW tiles, NEW of, Traced(g, names, S, k, tiles, of),
         NEW P, P = { names[x] : x \in Used(it) }, NEW h, NEW sig, Called(g, h, sig, P),
         Computes(g, h, sig, P, it, tiles),
         NEW names2, names2 = NamesAfter(names, it, sig)
  PROVE  \E of2 : Traced(h, names2, S, k + 1, tiles, of2)
<1>1. /\ NamesKept(S, k, names, names2) /\ Used(it) \subseteq NamedBy(S, k)
      /\ \A x \in it.names : names2[x] = sig
  BY NamesAreKept
<1>2. /\ TaskIds(g) \subseteq TaskIds(h)
      /\ \A t \in TaskIds(g) : h.tasks[t] = g.tasks[t]
      /\ \A a, b \in TaskIds(g) : Leads(g, a, b) => Leads(h, a, b)
      /\ \A p \in P : Reaches(h, p, sig)
  BY DEF Called, Extends
<1> DEFINE of2 == [t \in TaskIds(h) |-> IF t \in TaskIds(g) THEN of[t] ELSE k + 1]
<1>3. /\ \A t \in TaskIds(g) : of2[t] = of[t]
      /\ \A t \in TaskIds(h) \ TaskIds(g) : of2[t] = k + 1
  BY <1>2
<1> HIDE DEF of2
<1>4. \A j \in 1 .. k : j \in 1 .. k + 1 /\ j # k + 1
  OBVIOUS
<1>5. \A j \in 1 .. k : S[j].names \cup Used(S[j]) \subseteq NamedBy(S, k)
  <2>1. k <= n + 1
    BY DEF ScriptOK
  <2> QED BY <2>1, NamesOfCall
<1>6. \A x \in NamedBy(S, k) : names2[x] = names[x] /\ names[x] \in TaskIds(g)
  BY <1>1 DEF NamesKept
<1>7. ASSUME NEW t \in TaskIds(h) \ TaskIds(g), h.tasks[t] # Signal
      PROVE  of2[t] = k + 1 /\ OfCall(h, names2, it, tiles, t)
  <2>1. /\ IsTaskOf(h.tasks[t], it, tiles) /\ Reaches(h, t, sig)
        /\ \A p \in P : Reaches(h, p, t)
    BY <1>7 DEF Computes
  <2>2. \A y \in Used(it) : names2[y] \in P
    BY <1>1, <1>6
  <2>3. OfCall(h, names2, it, tiles, t)
    BY <1>1, <2>1, <2>2 DEF OfCall
  <2> QED BY <1>3, <2>3
<1>8. ASSUME NEW t \in TaskIds(g), h.tasks[t] # Signal
      PROVE  /\ of[t] \in 1 .. k /\ of2[t] = of[t]
             /\ OfCall(h, names2, S[of[t]], tiles, t)
  <2>1. of[t] \in 1 .. k /\ OfCall(g, names, S[of[t]], tiles, t)
    BY <1>2, <1>8 DEF Traced
  <2>2. PICK j : j = S[of[t]]
    OBVIOUS
  <2>3. \A x \in j.names \cup Used(j) : names2[x] = names[x] /\ names[x] \in TaskIds(g)
    BY <1>5, <1>6, <2>1, <2>2
  <2>4. OfCall(h, names2, j, tiles, t)
    BY <1>2, <2>1, <2>2, <2>3, OfCallKept
  <2> QED BY <1>3, <2>1, <2>2, <2>4
<1>9. ASSUME NEW t \in TaskIds(h), h.tasks[t] # Signal
      PROVE  of2[t] \in 1 .. k + 1 /\ OfCall(h, names2, S[of2[t]], tiles, t)
  <2>1. k + 1 \in 1 .. k + 1
    OBVIOUS
  <2> QED BY <1>4, <1>7, <1>8, <1>9, <2>1
<1>10. ASSUME NEW t \in TaskIds(h), NEW u \in TaskIds(h),
              h.tasks[t] # Signal, h.tasks[u] # Signal,
              of2[t] = of2[u], h.tasks[t].part = h.tasks[u].part
       PROVE  t = u
  <2>1. CASE t \in TaskIds(g) /\ u \in TaskIds(g)
    BY <1>2, <1>3, <1>10, <2>1 DEF Traced
  <2>2. CASE t \notin TaskIds(g) /\ u \notin TaskIds(g)
    BY <1>10, <2>2 DEF Computes
  <2>3. CASE t \in TaskIds(g) /\ u \notin TaskIds(g)
    BY <1>4, <1>7, <1>8, <1>10, <2>3
  <2>4. CASE t \notin TaskIds(g) /\ u \in TaskIds(g)
    BY <1>4, <1>7, <1>8, <1>10, <2>4
  <2> QED BY <2>1, <2>2, <2>3, <2>4
<1>11. ASSUME NEW j \in 1 .. k + 1, NEW x \in S[j].names, NEW y \in Used(S[j])
       PROVE  Reaches(h, names2[y], names2[x])
  <2>1. CASE j = k + 1
    <3>1. names2[x] = sig /\ names2[y] \in P
      BY <1>1, <1>6, <2>1
    <3> QED BY <1>2, <3>1
  <2>2. CASE j # k + 1
    <3>1. j \in 1 .. k
      BY <2>2
    <3>2. Reaches(g, names[y], names[x])
      BY <3>1 DEF Traced
    <3>3. names2[x] = names[x] /\ names2[y] = names[y] /\ names[y] \in TaskIds(g)
      BY <1>5, <1>6, <3>1
    <3> QED BY <1>2, <3>2, <3>3, ReachesKept
  <2> QED BY <2>1, <2>2
<1>12. Traced(h, names2, S, k + 1, tiles, of2)
  BY <1>9, <1>10, <1>11 DEF Traced
<1> QED
  BY <1>12

--------------------------------------------------------------------------------
(* What the order of the calls owes to their names.                        *)

(* The names of the calls that write to a buffer.                          *)
Quantizer(b) ==
  LET t == b[1]  l == b[2]  p == b[3]
  IN  CASE t = "xn"  -> <<"aq", l, p>>
        [] t = "ckv" -> <<"kq8", l, p>>
        [] t = "ctx" -> <<"cq8", l, p>>
        [] t = "xf"  -> <<"fq8", l, p>>
        [] t = "h"   -> <<"hq8", l, p>>
        [] t = "he"  -> <<"eq8", l, p, b[4]>>
        [] t = "xF"  -> <<"Fq8", l, p>>

Makers(c, b) ==
  LET t == b[1]  l == b[2]  p == b[3]
  IN  CASE t = "q8"   -> {Quantizer(b[2])}
        [] t = "xn"   -> {<<"an", l, p>>}
        [] t = "qb"   -> {<<"q", l, p>>, <<"rq", l, p>>}
        [] t = "kva"  -> {<<"kva", l, p>>}
        [] t = "kpe"  -> {<<"kva", l, p>>, <<"rk", l, p>>}
        [] t = "ckv"  -> {<<"kn", l, p>>}
        [] t = "kvb"  -> {<<"kvb", l, p>>}
        [] t = "kv"   -> {<<"app", l, p>>}
        [] t = "ctx"  -> {<<"attn", l, p, b[4]>>}
        [] t = "ao"   -> {<<"ao", l, p>>}
        [] t = "x2"   -> {<<"x2", l, p>>}
        [] t = "xf"   -> {<<"fn", l, p>>}
        [] t = "g"    -> {<<"gate", l, p>>}
        [] t = "u"    -> {<<"up", l, p>>}
        [] t = "h"    -> {<<"silu", l, p>>}
        [] t = "d"    -> {<<"down", l, p>>}
        [] t = "xo"   -> {<<"out", l, p>>}
        [] t = "rlog" -> {<<"rl", l, p>>}
        [] t = "ids"  -> {<<"rt", l, p>>}
        [] t = "geb"  -> {<<"ge", l, p, b[4]>>}
        [] t = "ueb"  -> {<<"ue", l, p, b[4]>>}
        [] t = "he"   -> {<<"se", l, p, b[4]>>}
        [] t = "de"   -> {<<"downE", l, p, b[4]>>}
        [] t = "xF"   -> {<<"fnorm", l, p>>}
        [] t = "lg"   -> {IF c.multicol THEN <<"head", l, 0>> ELSE <<"headCol", l, p>>}
        [] OTHER      -> {}

(* Names whose calls come before that of x, and x itself: those that what  *)
(* waits for x relies on.                                                  *)
Past(c, x) ==
  LET t == x[1]  l == x[2]  p == x[3]
  IN  {x} \cup
      CASE t = "aq"    -> {<<"an", l, p>>}
        [] t = "kq8"   -> {<<"kn", l, p>>}
        [] t = "rq"    -> {<<"q", l, p>>}
        [] t = "rk"    -> {<<"kva", l, p>>}
        [] t = "cum"   -> { <<"app", l, i>> : i \in 1 .. p }
        [] t = "heads" -> HeadNames(c, l, p)
        [] t = "cq8"   -> HeadNames(c, l, p)
        [] t = "fq8"   -> {<<"fn", l, p>>}
        [] t = "hq8"   -> {<<"silu", l, p>>}
        [] t = "rtAll" -> { <<"rt", l, i>> : i \in 1 .. c.m }
        [] t = "ge"    -> {<<"rt", l, p>>}
        [] t = "se"    -> {<<"rt", l, p>>}
        [] t = "eq8"   -> {<<"rt", l, p>>, <<"se", l, p, x[4]>>}
        [] t = "downE" -> {<<"rt", l, p>>}
        [] t = "downs" -> {<<"rt", l, p>>} \cup ExpertNames(c, l, p, "downE")
        [] t = "Fq8"   -> {<<"fnorm", l, p>>}
        [] OTHER       -> {}

(* What the names of the calls that it waits for come after.               *)
Behind(c, it) == UNION { Past(c, u) : u \in Used(it) }

(* The call is in its place: it comes after all that make what it reads,   *)
(* who else writes what it writes comes before or after it (and, if it is  *)
(* a dot, which needs a clear buffer, after it), and its names have the    *)
(* past that they are known for.                                           *)
InPlace(c, it) ==
  /\ it.kind = "dot" => /\ it.reads \cap it.writes = {}
                        /\ \A b \in it.writes : b[1] \in Slots
  /\ \A b \in it.writes : it.names \cap Makers(c, b) # {}
  /\ \A b \in it.reads : Makers(c, b) \subseteq it.names \cup Behind(c, it)
  /\ \A b \in it.writes : \A y \in Makers(c, b) \ it.names :
       it.names \cap Past(c, y) # {} \/ (y \in Behind(c, it) /\ it.kind = "op")
  /\ \A x \in it.names : Past(c, x) \subseteq {x} \cup Behind(c, it)

PlacedUpTo(c, S, n) == \A i \in 1 .. n : InPlace(c, S[i])

(* A name's past is behind it in the graph.                                *)
PastIsBehind(c, g, names, S, k) ==
  \A x \in NamedBy(S, k) : \A y \in Past(c, x) :
    y \in NamedBy(S, k) /\ Reaches(g, names[y], names[x])

LEMMA PastReaches ==
  ASSUME NEW c, NEW S, NEW n, NEW E, ScriptOK(S, n, E), PlacedUpTo(c, S, n),
         NEW g, NEW names, NEW tiles, NEW of, NEW k1, k1 \in {n, n + 1},
         Traced(g, names, S, k1, tiles, of)
  PROVE  PastIsBehind(c, g, names, S, n)
<1> DEFINE T == { k \in Nat : k <= n => PastIsBehind(c, g, names, S, k) }
<1>0. n \in Nat
  BY DEF ScriptOK
<1>1. 0 \in T
  <2>1. NamedBy(S, 0) = {}
    <3>1. 1 .. 0 = {}
      OBVIOUS
    <3> QED BY <3>1 DEF NamedBy
  <2> QED BY <2>1 DEF PastIsBehind
<1>2. ASSUME NEW k \in Nat, k \in T  PROVE k + 1 \in T
  <2> SUFFICES ASSUME k + 1 <= n  PROVE PastIsBehind(c, g, names, S, k + 1)
    OBVIOUS
  <2>1. /\ k + 1 \in 1 .. n /\ k + 1 \in 1 .. n + 1 /\ k + 1 \in 1 .. k1
        /\ (k + 1) - 1 = k /\ k <= n
    BY <1>0
  <2>2. PastIsBehind(c, g, names, S, k)
    BY <1>2, <2>1
  <2> HIDE DEF T
  <2>3. PICK it : it = S[k + 1]
    OBVIOUS
  <2>4. Used(it) \subseteq NamedBy(S, k)
    BY <2>1, <2>3 DEF ScriptOK, FollowsNames, NamedBy
  <2>5. NamedBy(S, k + 1) = NamedBy(S, k) \cup it.names
    BY <2>3, NamedByNext
  <2>6. \A x \in it.names : Past(c, x) \subseteq {x} \cup Behind(c, it)
    BY <2>1, <2>3 DEF PlacedUpTo, InPlace
  <2>7. \A x \in it.names : \A y \in Used(it) : Reaches(g, names[y], names[x])
    BY <2>1, <2>3 DEF Traced
  <2>8. ASSUME NEW x \in it.names, NEW y \in Past(c, x)
        PROVE  y \in NamedBy(S, k + 1) /\ Reaches(g, names[y], names[x])
    <3>1. CASE y = x
      BY <2>5, <3>1, ReachesSelf
    <3>2. CASE y # x
      <4>1. PICK u \in Used(it) : y \in Past(c, u)
        BY <2>6, <2>8, <3>2 DEF Behind
      <4>2. y \in NamedBy(S, k) /\ Reaches(g, names[y], names[u])
        BY <2>2, <2>4, <4>1 DEF PastIsBehind
      <4> QED BY <2>5, <2>7, <4>2, ReachesThrough
    <3> QED BY <3>1, <3>2
  <2>9. ASSUME NEW x \in NamedBy(S, k), NEW y \in Past(c, x)
        PROVE  y \in NamedBy(S, k + 1) /\ Reaches(g, names[y], names[x])
    BY <2>2, <2>5, <2>9 DEF PastIsBehind
  <2> QED BY <2>5, <2>8, <2>9 DEF PastIsBehind
<1> HIDE DEF T
<1>3. n \in T
  BY <1>0, <1>1, <1>2, Induction
<1> QED
  BY <1>0, <1>3 DEF T

(* Two tasks with a part of a buffer in common.                            *)
Meet(t, u) == t.part = 0 \/ u.part = 0 \/ t.part = u.part

(* No two tasks of a graph are in each other's way, whatever the order in  *)
(* which they run, and no other task has written to what a dot adds to.    *)
NoRaces(g) ==
  \A t, u \in TaskIds(g) : t # u =>
    /\ g.tasks[u].writes \cap g.tasks[t].reads # {} => Reaches(g, u, t)
    /\ (g.tasks[u].writes \cap g.tasks[t].writes # {} /\ Meet(g.tasks[t], g.tasks[u])) =>
         Reaches(g, t, u) \/ (Reaches(g, u, t) /\ g.tasks[t].kind # "dot")

DotsAddToSlots(g) ==
  \A t \in TaskIds(g) : g.tasks[t].kind = "dot" =>
    \A b \in g.tasks[t].writes : b[1] \in Slots

(* What the calls i and j do, when their tasks are u and t.                *)
LEMMA TasksApart ==
  ASSUME NEW c, NEW S, NEW n, NEW E, ScriptOK(S, n, E), PlacedUpTo(c, S, n),
         NEW g, NEW names, NEW tiles, tiles \in Nat, PastIsBehind(c, g, names, S, n),
         NEW j \in 1 .. n, NEW t, OfCall(g, names, S[j], tiles, t),
         NEW i \in 1 .. n, NEW u, OfCall(g, names, S[i], tiles, u), i # j
  PROVE  /\ g.tasks[u].writes \cap g.tasks[t].reads # {} => Reaches(g, u, t)
         /\ g.tasks[u].writes \cap g.tasks[t].writes # {} =>
              Reaches(g, t, u) \/ (Reaches(g, u, t) /\ g.tasks[t].kind # "dot")
<1>1. PICK it, jt : it = S[i] /\ jt = S[j]
  OBVIOUS
<1>2. /\ OfCall(g, names, jt, tiles, t) /\ OfCall(g, names, it, tiles, u)
      /\ InPlace(c, it) /\ InPlace(c, jt)
  BY <1>1 DEF PlacedUpTo
<1>3. it.names \cap jt.names = {}
  <2>1. i \in 1 .. n + 1 /\ j \in 1 .. n + 1
    BY DEF ScriptOK
  <2> QED BY <1>1, <2>1 DEF ScriptOK
<1>4. Used(it) \subseteq NamedBy(S, n) /\ Used(jt) \subseteq NamedBy(S, n)
  <2>1. n \in Nat /\ n <= n + 1
    BY DEF ScriptOK
  <2> QED BY <1>1, <2>1, NamesOfCall
<1>5. ASSUME NEW y \in Behind(c, jt) \cap it.names  PROVE Reaches(g, u, t)
  <2>1. PICK x \in Used(jt) : y \in Past(c, x)
    BY DEF Behind
  <2>2. Reaches(g, names[y], names[x])
    BY <1>4, <2>1 DEF PastIsBehind
  <2>3. Reaches(g, names[x], t) /\ Reaches(g, u, names[y])
    BY <1>2, <2>1 DEF OfCall
  <2> QED BY <2>2, <2>3, ReachesThrough
<1>6. ASSUME NEW y \in Behind(c, it) \cap jt.names  PROVE Reaches(g, t, u)
  <2>1. PICK x \in Used(it) : y \in Past(c, x)
    BY DEF Behind
  <2>2. Reaches(g, names[y], names[x])
    BY <1>4, <2>1 DEF PastIsBehind
  <2>3. Reaches(g, names[x], u) /\ Reaches(g, t, names[y])
    BY <1>2, <2>1 DEF OfCall
  <2> QED BY <2>2, <2>3, ReachesThrough
<1>7. /\ g.tasks[u].writes = it.writes /\ g.tasks[t].writes = jt.writes
      /\ g.tasks[t].reads = jt.reads /\ g.tasks[t].kind = jt.kind
  BY <1>2 DEF OfCall, IsTaskOf
<1>8. ASSUME NEW b \in it.writes \cap jt.reads  PROVE Reaches(g, u, t)
  <2>1. PICK y \in it.names : y \in Makers(c, b)
    BY <1>2 DEF InPlace
  <2>2. y \in Behind(c, jt)
    BY <1>2, <1>3, <2>1 DEF InPlace
  <2> QED BY <1>5, <2>1, <2>2
<1>9. ASSUME NEW b \in it.writes \cap jt.writes
      PROVE  Reaches(g, t, u) \/ (Reaches(g, u, t) /\ jt.kind # "dot")
  <2>1. PICK y \in it.names : y \in Makers(c, b)
    BY <1>2 DEF InPlace
  <2>2. y \notin jt.names
    BY <1>3, <2>1
  <2>3. jt.names \cap Past(c, y) # {} \/ (y \in Behind(c, jt) /\ jt.kind = "op")
    BY <1>2, <2>1, <2>2 DEF InPlace
  <2>4. CASE y \in Behind(c, jt) /\ jt.kind = "op"
    BY <1>5, <2>1, <2>4
  <2>5. CASE jt.names \cap Past(c, y) # {}
    <3>1. PICK z \in jt.names : z \in Past(c, y)
      BY <2>5
    <3>2. z \in Behind(c, it)
      BY <1>2, <2>1, <2>2, <3>1 DEF InPlace
    <3> QED BY <1>6, <3>1, <3>2
  <2> QED BY <2>3, <2>4, <2>5
<1> QED
  BY <1>7, <1>8, <1>9

LEMMA TracedHasNoRaces ==
  ASSUME NEW c, NEW S, NEW n, NEW E, ScriptOK(S, n, E), PlacedUpTo(c, S, n),
         NEW g, NEW names, NEW tiles, tiles \in Nat, NEW of,
         NEW k1, k1 = n + 1, Traced(g, names, S, k1, tiles, of),
         S[n + 1].kind = "terminal"
  PROVE  NoRaces(g) /\ DotsAddToSlots(g)
<1>1. PastIsBehind(c, g, names, S, n)
  BY PastReaches
<1>2. ASSUME NEW t \in TaskIds(g), g.tasks[t] # Signal
      PROVE  of[t] \in 1 .. n /\ OfCall(g, names, S[of[t]], tiles, t)
  <2>1. of[t] \in 1 .. n + 1 /\ OfCall(g, names, S[of[t]], tiles, t)
    BY <1>2 DEF Traced
  <2>2. of[t] # n + 1
    BY <2>1 DEF OfCall, IsTaskOf
  <2>3. n \in Nat
    BY DEF ScriptOK
  <2> QED BY <2>1, <2>2, <2>3
<1>3. Signal.reads = {} /\ Signal.writes = {} /\ Signal.kind # "dot"
  BY DEF Signal
<1>4. ASSUME NEW t \in TaskIds(g), NEW u \in TaskIds(g), t # u
      PROVE  /\ g.tasks[u].writes \cap g.tasks[t].reads # {} => Reaches(g, u, t)
             /\ (g.tasks[u].writes \cap g.tasks[t].writes # {}
                   /\ Meet(g.tasks[t], g.tasks[u])) =>
                  Reaches(g, t, u) \/ (Reaches(g, u, t) /\ g.tasks[t].kind # "dot")
  <2>1. CASE g.tasks[t] = Signal \/ g.tasks[u] = Signal
    BY <1>3, <2>1
  <2>2. CASE g.tasks[t] # Signal /\ g.tasks[u] # Signal
    <3>1. /\ of[t] \in 1 .. n /\ OfCall(g, names, S[of[t]], tiles, t)
          /\ of[u] \in 1 .. n /\ OfCall(g, names, S[of[u]], tiles, u)
      BY <1>2, <2>2
    <3>2. CASE of[t] # of[u]
      BY <1>1, <3>1, <3>2, TasksApart
    <3>3. CASE of[t] = of[u]
      <4>1. g.tasks[t].part # g.tasks[u].part
        BY <1>4, <2>2, <3>3 DEF Traced
      <4>2. PICK it : it = S[of[t]]
        OBVIOUS
      <4>3. /\ IsTaskOf(g.tasks[t], it, tiles) /\ IsTaskOf(g.tasks[u], it, tiles)
            /\ InPlace(c, it)
        BY <3>1, <3>3, <4>2 DEF OfCall, PlacedUpTo
      <4>4. it.kind = "dot" /\ g.tasks[t].part \in 1 .. tiles /\ g.tasks[u].part \in 1 .. tiles
        BY <4>1, <4>3 DEF IsTaskOf
      <4>5. g.tasks[u].writes \cap g.tasks[t].reads = {}
        BY <4>3, <4>4 DEF IsTaskOf, InPlace
      <4>6. ~Meet(g.tasks[t], g.tasks[u])
        BY <4>1, <4>4 DEF Meet
      <4> QED BY <4>5, <4>6
    <3> QED BY <3>2, <3>3
  <2> QED BY <2>1, <2>2
<1>5. NoRaces(g)
  BY <1>4 DEF NoRaces
<1>6. ASSUME NEW t \in TaskIds(g), g.tasks[t].kind = "dot", NEW b \in g.tasks[t].writes
      PROVE  b[1] \in Slots
  <2>1. g.tasks[t] # Signal
    BY <1>3, <1>6
  <2>2. PICK it : it = S[of[t]]
    OBVIOUS
  <2>3. IsTaskOf(g.tasks[t], it, tiles) /\ InPlace(c, it)
    BY <1>2, <2>1, <2>2 DEF OfCall, PlacedUpTo
  <2>4. it.kind = "dot" /\ b \in it.writes
    BY <1>6, <2>3 DEF IsTaskOf
  <2> QED BY <2>3, <2>4 DEF InPlace
<1> QED
  BY <1>5, <1>6 DEF DotsAddToSlots

--------------------------------------------------------------------------------
(* The calls of the script are in their places.                            *)

AllPlaced(c, S) == IsSequence(S) /\ \A i \in 1 .. Len(S) : InPlace(c, S[i])

LEMMA CatPlaced ==
  ASSUME NEW c, NEW S, AllPlaced(c, S), NEW T, AllPlaced(c, T), NEW W, W = Cat(S, T)
  PROVE  AllPlaced(c, W)
<1>1. PICK s, t : s = Len(S) /\ t = Len(T)
  OBVIOUS
<1>2. Joins(W, S, T, s, t)
  BY <1>1, ConcatJoins DEF AllPlaced
<1>3. ASSUME NEW i \in 1 .. s + t  PROVE InPlace(c, W[i])
  <2>1. CASE i \in 1 .. s
    BY <1>1, <1>2, <2>1 DEF AllPlaced, Joins
  <2>2. CASE \E k \in 1 .. t : i = s + k
    <3>1. PICK k \in 1 .. t : i = s + k
      BY <2>2
    <3>2. W[i] = T[k]
      BY <1>2, <3>1 DEF Joins
    <3> QED BY <1>1, <3>2 DEF AllPlaced
  <2> QED BY <1>2, <2>1, <2>2 DEF Joins
<1> QED
  BY <1>2, <1>3 DEF AllPlaced, Joins

LEMMA NonePlaced ==
  ASSUME NEW c
  PROVE  AllPlaced(c, <<>>)
<1>1. IsSequence(<<>>) /\ Len(<<>>) = 0 /\ 1 .. 0 = {}
  BY EmptySequence DEF IsSequence
<1> QED
  BY <1>1 DEF AllPlaced

LEMMA EachPlaced ==
  ASSUME NEW c, NEW n \in Nat, NEW F, F = [i \in 1 .. n |-> F[i]],
         \A i \in 1 .. n : AllPlaced(c, F[i]), NEW W, W = FlattenSeq(F)
  PROVE  AllPlaced(c, W)
<1>1. IsSequence(F) /\ Len(F) = n
  BY ListIsSequence
<1>2. CASE n = 0
  <2>1. W = F /\ Len(W) = 0 /\ 1 .. 0 = {}
    BY <1>1, <1>2 DEF FlattenSeq
  <2> QED BY <1>1, <2>1 DEF AllPlaced
<1>3. CASE n # 0
  <2>1. PICK f : Flattening(f, F, n) /\ f[n] = W
    BY <1>1, <1>3, FlattenRuns
  <2> DEFINE T == { k \in Nat : k # 0 /\ k <= n => AllPlaced(c, f[k]) }
  <2>2. 0 \in T
    OBVIOUS
  <2>3. ASSUME NEW k \in Nat, k \in T  PROVE k + 1 \in T
    <3> SUFFICES ASSUME k + 1 <= n  PROVE AllPlaced(c, f[k + 1])
      OBVIOUS
    <3>1. k + 1 \in 1 .. n /\ (k + 1) - 1 = k /\ k <= n
      OBVIOUS
    <3>2. AllPlaced(c, F[k + 1])
      BY <3>1
    <3>3. CASE k = 0
      BY <2>1, <3>2, <3>3 DEF Flattening
    <3>4. CASE k # 0
      <4>1. f[k + 1] = Cat(f[k], F[k + 1])
        BY <2>1, <3>1, <3>4 DEF Flattening
      <4>2. AllPlaced(c, f[k])
        BY <2>3, <3>1, <3>4
      <4> HIDE DEF T
      <4> QED BY <3>2, <4>1, <4>2, CatPlaced
    <3> QED BY <3>3, <3>4
  <2> HIDE DEF T
  <2>4. n \in T
    BY <2>2, <2>3, Induction
  <2> QED BY <1>3, <2>1, <2>4 DEF T
<1> QED
  BY <1>2, <1>3

(* One call.                                                               *)
LEMMA CallPlaced ==
  ASSUME NEW c, NEW names, NEW kind, NEW ds, NEW U, Waits(ds, U),
         NEW reads, NEW writes, NEW pos,
         NEW S, S = Call(names, kind, ds, reads, writes, pos),
         \A it : /\ it.names = names /\ it.kind = kind /\ Used(it) = U
                 /\ it.reads = reads /\ it.writes = writes
                 => InPlace(c, it)
  PROVE  AllPlaced(c, S)
<1>1. PICK it : it = [names |-> names, kind |-> kind, deps |-> ds,
                      reads |-> reads, writes |-> writes, pos |-> pos]
  OBVIOUS
<1>2. S = <<it>> /\ it.names = names /\ it.kind = kind /\ it.deps = ds
      /\ it.reads = reads /\ it.writes = writes
  BY <1>1 DEF Call
<1>3. Len(S) = 1 /\ S[1] = it /\ S \in Seq({it}) /\ 1 .. 1 = {1}
  BY <1>2
<1>4. Used(it) = U
  BY <1>2 DEF Used, Waits
<1>5. InPlace(c, it)
  BY <1>2, <1>4
<1> QED
  BY <1>3, <1>5 DEF AllPlaced, IsSequence

(* The names B are behind one that waits for the names U.                  *)
Covers(c, U, B) == \A y \in B : \E u \in U : y \in Past(c, u)

LEMMA OpPlaced ==
  ASSUME NEW c, NEW name, NEW ds, NEW U, Waits(ds, U), NEW reads, NEW writes,
         NEW B, Covers(c, U, B),
         \A b \in writes : name \in Makers(c, b) /\ Makers(c, b) \subseteq {name} \cup B,
         \A b \in reads : Makers(c, b) \subseteq {name} \cup B,
         Past(c, name) \subseteq {name} \cup B,
         NEW S, S = Op(name, ds, reads, writes)
  PROVE  AllPlaced(c, S)
<1>1. ASSUME NEW it, it.names = {name}, it.kind = "op", Used(it) = U,
             it.reads = reads, it.writes = writes
      PROVE  InPlace(c, it)
  <2>1. B \subseteq Behind(c, it)
    BY <1>1 DEF Behind, Covers
  <2>2. it.kind # "dot"
    BY <1>1
  <2>3. \A b \in it.writes : it.names \cap Makers(c, b) # {}
    BY <1>1
  <2>4. \A b \in it.reads : Makers(c, b) \subseteq it.names \cup Behind(c, it)
    BY <1>1, <2>1
  <2>5. \A b \in it.writes : \A y \in Makers(c, b) \ it.names : y \in Behind(c, it)
    BY <1>1, <2>1
  <2>6. \A x \in it.names : Past(c, x) \subseteq {x} \cup Behind(c, it)
    BY <1>1, <2>1
  <2> QED BY <1>1, <2>2, <2>3, <2>4, <2>5, <2>6 DEF InPlace
<1>2. PICK pos : S = Call({name}, "op", ds, reads, writes, pos)
  BY DEF Op
<1> QED
  BY <1>1, <1>2, CallPlaced

LEMMA QuantizePlaced ==
  ASSUME NEW c, NEW name, NEW dep, NEW bufs,
         \A b \in bufs : Makers(c, b) \subseteq Past(c, dep) /\ Makers(c, Q8(b)) = {name},
         Past(c, name) \subseteq {name} \cup Past(c, dep),
         NEW S, S = Quantize(name, dep, bufs)
  PROVE  AllPlaced(c, S)
<1>1. Waits(<<dep>>, {dep})
  BY WaitsOne
<1>2. PICK B, writes : B = Past(c, dep) /\ writes = { Q8(b) : b \in bufs }
  OBVIOUS
<1>3. Covers(c, {dep}, B)
  BY <1>2 DEF Covers
<1>4. \A b \in writes : Makers(c, b) = {name}
  BY <1>2
<1>5. S = Op(name, <<dep>>, bufs, writes)
  BY <1>2 DEF Quantize
<1>6. (\A b \in bufs : Makers(c, b) \subseteq B) /\ Past(c, name) \subseteq {name} \cup B
  BY <1>2
<1> QED
  BY <1>1, <1>3, <1>4, <1>5, <1>6, OpPlaced

LEMMA FanInPlaced ==
  ASSUME NEW c, NEW name, NEW ds, NEW U, Waits(ds, U), NEW B, Covers(c, U, B),
         Past(c, name) \subseteq {name} \cup B, NEW S, S = FanInOf(name, ds)
  PROVE  AllPlaced(c, S)
<1>1. ASSUME NEW it, it.names = {name}, it.kind = "signal", Used(it) = U,
             it.reads = {}, it.writes = {}
      PROVE  InPlace(c, it)
  <2>1. B \subseteq Behind(c, it)
    BY <1>1 DEF Behind, Covers
  <2> QED BY <1>1, <2>1 DEF InPlace
<1>2. PICK pos : S = Call({name}, "signal", ds, {}, {}, pos)
  BY DEF FanInOf
<1> QED
  BY <1>1, <1>2, CallPlaced

(* A dot adds to slots, reads what is not one, and is first to write.      *)
LEMMA DotCallPlaced ==
  ASSUME NEW c, NEW names, NEW ds, NEW U, Waits(ds, U), NEW reads, NEW writes,
         NEW B, Covers(c, U, B),
         \A b \in writes : /\ b[1] \in Slots /\ names \cap Makers(c, b) # {}
                           /\ \A y \in Makers(c, b) \ names : names \cap Past(c, y) # {},
         \A b \in reads : b[1] \notin Slots /\ Makers(c, b) \subseteq B,
         \A x \in names : Past(c, x) \subseteq {x} \cup B,
         NEW pos, NEW S, S = Call(names, "dot", ds, reads, writes, pos)
  PROVE  AllPlaced(c, S)
<1>1. ASSUME NEW it, it.names = names, it.kind = "dot", Used(it) = U,
             it.reads = reads, it.writes = writes
      PROVE  InPlace(c, it)
  <2>1. B \subseteq Behind(c, it)
    BY <1>1 DEF Behind, Covers
  <2>2. it.reads \cap it.writes = {} /\ \A b \in it.writes : b[1] \in Slots
    BY <1>1
  <2>3. \A b \in it.reads : Makers(c, b) \subseteq it.names \cup Behind(c, it)
    BY <1>1, <2>1
  <2>4. /\ \A b \in it.writes : it.names \cap Makers(c, b) # {}
        /\ \A b \in it.writes : \A y \in Makers(c, b) \ it.names :
             it.names \cap Past(c, y) # {}
    BY <1>1
  <2>5. \A x \in it.names : Past(c, x) \subseteq {x} \cup Behind(c, it)
    BY <1>1, <2>1
  <2> QED BY <2>2, <2>3, <2>4, <2>5 DEF InPlace
<1> QED
  BY <1>1, CallPlaced

LEMMA DotPlaced ==
  ASSUME NEW c, NEW name, NEW ds, NEW U, Waits(ds, U), NEW reads, NEW writes,
         NEW B, Covers(c, U, B),
         \A b \in writes : b[1] \in Slots /\ Makers(c, b) = {name},
         \A b \in reads : b[1] \notin Slots /\ Makers(c, b) \subseteq B,
         Past(c, name) \subseteq {name} \cup B,
         NEW S, S = Dot(name, ds, reads, writes)
  PROVE  AllPlaced(c, S)
<1>1. PICK pos, names : names = {name} /\ S = Call(names, "dot", ds, reads, writes, pos)
  BY DEF Dot
<1>2. \A b \in writes : /\ b[1] \in Slots /\ names \cap Makers(c, b) # {}
                        /\ \A y \in Makers(c, b) \ names : names \cap Past(c, y) # {}
  BY <1>1
<1>3. \A x \in names : Past(c, x) \subseteq {x} \cup B
  BY <1>1
<1> QED
  BY <1>1, <1>2, <1>3, DotCallPlaced

--------------------------------------------------------------------------------
(* What the tables say.                                                    *)

LEMMA MakersRes ==
  ASSUME NEW c, NEW l, NEW p, NEW U, U = (IF l = 1 THEN {} ELSE {<<"out", l - 1, p>>})
  PROVE  Covers(c, U, Makers(c, Res(l, p)))
<1>1. CASE l = 1
  BY <1>1 DEF Makers, Res, Covers
<1>2. CASE l # 1
  <2>1. PICK k : k = l - 1
    OBVIOUS
  <2>2. Makers(c, <<"xo", k, p>>) = {<<"out", k, p>>}
    BY DEF Makers
  <2>3. Past(c, <<"out", k, p>>) = {<<"out", k, p>>}
    BY DEF Past
  <2>4. Res(l, p) = <<"xo", k, p>> /\ U = {<<"out", k, p>>}
    BY <1>2, <2>1 DEF Res
  <2> QED BY <2>2, <2>3, <2>4 DEF Covers
<1> QED
  BY <1>1, <1>2

(* A weight for all positions: its output goes to slots that no other call *)
(* has written to before.                                                  *)
FirstToWrite(c, name, Y) ==
  \A b \in Y : /\ b[1] \in Slots /\ name \in Makers(c, b)
               /\ \A y \in Makers(c, b) : name \in Past(c, y)

Supplied(c, B, X) ==
  \A b \in X : b[1] \notin Slots /\ Makers(c, b) \subseteq B /\ Makers(c, Q8(b)) \subseteq B

LEMMA StageDotPlaced ==
  ASSUME NEW c, c.m \in Nat, NEW l, NEW w, NEW dep, NEW X, NEW Y,
         \A p \in 1 .. c.m :
           /\ Past(c, <<w, l, p>>) = {<<w, l, p>>}
           /\ FirstToWrite(c, <<w, l, p>>, Y[p])
           /\ Supplied(c, Past(c, <<dep, l, p>>), X[p]),
         NEW S, S = StageDot(c, w, l, dep, X, Y)
  PROVE  AllPlaced(c, S)
<1>0. \A b : Q8(b)[1] \notin Slots
  BY DEF Q8, Slots
<1>1. ASSUME NEW p \in 1 .. c.m, NEW b \in WithQ8(X[p])
      PROVE  b[1] \notin Slots /\ Makers(c, b) \subseteq Past(c, <<dep, l, p>>)
  BY <1>0, <1>1 DEF WithQ8, Supplied
<1>2. CASE Joined(c)
  <2> DEFINE names == { <<w, l, p>> : p \in 1 .. c.m }
             ds == [p \in 1 .. c.m |-> <<dep, l, p>>]
             U == { ds[k] : k \in 1 .. c.m }
             reads == UNION { WithQ8(X[p]) : p \in 1 .. c.m }
             writes == UNION { Y[p] : p \in 1 .. c.m }
             B == UNION { Past(c, u) : u \in U }
  <2>1. S = Call(names, "dot", ds, reads, writes, 0)
    BY <1>2 DEF StageDot
  <2>2. Waits(ds, U)
    <3>1. DOMAIN ds = 1 .. c.m /\ U = { ds[k] : k \in 1 .. c.m }
      OBVIOUS
    <3> HIDE DEF ds, U
    <3> QED BY <3>1, WaitsList
  <2>3. Covers(c, U, B)
    BY DEF Covers
  <2>4. ASSUME NEW b \in writes
        PROVE  /\ b[1] \in Slots /\ names \cap Makers(c, b) # {}
               /\ \A y \in Makers(c, b) \ names : names \cap Past(c, y) # {}
    <3>1. PICK p \in 1 .. c.m : b \in Y[p]
      OBVIOUS
    <3>2. PICK x \in names : x = <<w, l, p>>
      OBVIOUS
    <3>3. FirstToWrite(c, x, Y[p])
      BY <3>2
    <3> HIDE DEF names, writes
    <3> QED BY <3>1, <3>3 DEF FirstToWrite
  <2>5. ASSUME NEW b \in reads
        PROVE  b[1] \notin Slots /\ Makers(c, b) \subseteq B
    <3>1. PICK p \in 1 .. c.m : b \in WithQ8(X[p])
      OBVIOUS
    <3>2. ds[p] \in U /\ ds[p] = <<dep, l, p>>
      OBVIOUS
    <3>3. Past(c, <<dep, l, p>>) \subseteq B
      BY <3>2
    <3> HIDE DEF B
    <3> QED BY <1>1, <3>1, <3>3
  <2>6. \A x \in names : Past(c, x) \subseteq {x} \cup B
    <3>1. \A x \in names : Past(c, x) = {x}
      OBVIOUS
    <3> HIDE DEF names, B
    <3> QED BY <3>1
  <2> HIDE DEF names, ds, U, reads, writes, B
  <2> QED BY <2>1, <2>2, <2>3, <2>4, <2>5, <2>6, DotCallPlaced
<1>3. CASE ~Joined(c)
  <2> DEFINE F == [p \in 1 .. c.m |->
                     Dot(<<w, l, p>>, << <<dep, l, p>> >>, WithQ8(X[p]), Y[p])]
  <2>1. S = FlattenSeq(F)
    BY <1>3 DEF StageDot, ForEach
  <2>2. ASSUME NEW p \in 1 .. c.m  PROVE AllPlaced(c, F[p])
    <3>1. PICK x, d : x = <<w, l, p>> /\ d = <<dep, l, p>>
      OBVIOUS
    <3>2. PICK pos : F[p] = Call({x}, "dot", <<d>>, WithQ8(X[p]), Y[p], pos)
      BY <3>1 DEF Dot
    <3>3. Past(c, x) = {x} /\ FirstToWrite(c, x, Y[p])
      BY <3>1
    <3>4. PICK B : B = Past(c, d)
      OBVIOUS
    <3>5. \A b \in WithQ8(X[p]) : b[1] \notin Slots /\ Makers(c, b) \subseteq B
      BY <1>1, <3>1, <3>4
    <3>6. Waits(<<d>>, {d}) /\ Covers(c, {d}, B)
      BY <3>4, WaitsOne DEF Covers
    <3>7. PICK names : names = {x}
      OBVIOUS
    <3>8. \A b \in Y[p] : /\ b[1] \in Slots /\ names \cap Makers(c, b) # {}
                          /\ \A y \in Makers(c, b) \ names : names \cap Past(c, y) # {}
      BY <3>3, <3>7 DEF FirstToWrite
    <3>9. \A y \in names : Past(c, y) \subseteq {y} \cup B
      BY <3>3, <3>7
    <3>10. F[p] = Call(names, "dot", <<d>>, WithQ8(X[p]), Y[p], pos)
      BY <3>2, <3>7
    <3> HIDE DEF F
    <3> QED BY <3>5, <3>6, <3>8, <3>9, <3>10, DotCallPlaced
  <2>3. F = [p \in 1 .. c.m |-> F[p]]
    OBVIOUS
  <2> HIDE DEF F
  <2> QED BY <2>1, <2>2, <2>3, EachPlaced
<1> QED
  BY <1>2, <1>3

(* Calls that wait for one or two others.                                  *)
LEMMA OpAfterOne ==
  ASSUME NEW c, NEW name, NEW d, NEW reads, NEW writes,
         \A b \in writes : name \in Makers(c, b)
                          /\ Makers(c, b) \subseteq {name} \cup Past(c, d),
         \A b \in reads : Makers(c, b) \subseteq {name} \cup Past(c, d),
         Past(c, name) \subseteq {name} \cup Past(c, d),
         NEW S, S = Op(name, <<d>>, reads, writes)
  PROVE  AllPlaced(c, S)
<1>1. PICK B : B = Past(c, d)
  OBVIOUS
<1>2. Waits(<<d>>, {d}) /\ Covers(c, {d}, B)
  BY <1>1, WaitsOne DEF Covers
<1>3. /\ \A b \in writes : name \in Makers(c, b) /\ Makers(c, b) \subseteq {name} \cup B
      /\ \A b \in reads : Makers(c, b) \subseteq {name} \cup B
      /\ Past(c, name) \subseteq {name} \cup B
  BY <1>1
<1> QED
  BY <1>2, <1>3, OpPlaced

LEMMA OpAfterTwo ==
  ASSUME NEW c, NEW name, NEW d, NEW e, NEW reads, NEW writes,
         \A b \in writes : Makers(c, b) = {name},
         \A b \in reads : Makers(c, b) \subseteq Past(c, d) \cup Past(c, e),
         Past(c, name) = {name},
         NEW S, S = Op(name, <<d, e>>, reads, writes)
  PROVE  AllPlaced(c, S)
<1>1. PICK B : B = Past(c, d) \cup Past(c, e)
  OBVIOUS
<1>2. Waits(<<d, e>>, {d, e}) /\ Covers(c, {d, e}, B)
  BY <1>1, WaitsTwo DEF Covers
<1>3. /\ \A b \in writes : name \in Makers(c, b) /\ Makers(c, b) \subseteq {name} \cup B
      /\ \A b \in reads : Makers(c, b) \subseteq {name} \cup B
      /\ Past(c, name) \subseteq {name} \cup B
  BY <1>1
<1> QED
  BY <1>2, <1>3, OpPlaced

--------------------------------------------------------------------------------
(* The calls, one by one.                                                  *)

LEMMA KnPlaced ==
  ASSUME NEW c, NEW l, NEW p, NEW S,
         S = Op(<<"kn", l, p>>, << <<"kva", l, p>> >>,
                {<<"kva", l, p>>}, {<<"ckv", l, p>>})
  PROVE  AllPlaced(c, S)
<1>1. PICK n_kn, n_kva, b_ckv, b_kva :
        /\ n_kn = <<"kn", l, p>>
        /\ n_kva = <<"kva", l, p>>
        /\ b_ckv = <<"ckv", l, p>>
        /\ b_kva = <<"kva", l, p>>
  OBVIOUS
<1>2. /\ Makers(c, b_kva) = {n_kva}
      /\ Makers(c, b_ckv) = {n_kn}
  BY <1>1 DEF Makers
<1>3. /\ Past(c, n_kn) = {n_kn}
      /\ Past(c, n_kva) = {n_kva}
  BY <1>1 DEF Past
<1>4. S = Op(n_kn, <<n_kva>>, {b_kva}, {b_ckv})
  BY <1>1
<1> HIDE <1>1
<1> QED
  BY <1>2, <1>3, <1>4, OpAfterOne

LEMMA RqPlaced ==
  ASSUME NEW c, NEW l, NEW p, NEW S,
         S = Op(<<"rq", l, p>>, << <<"q", l, p>> >>,
                {<<"qb", l, p>>}, {<<"qb", l, p>>})
  PROVE  AllPlaced(c, S)
<1>1. PICK n_q, n_rq, b_qb :
        /\ n_q = <<"q", l, p>>
        /\ n_rq = <<"rq", l, p>>
        /\ b_qb = <<"qb", l, p>>
  OBVIOUS
<1>2. /\ Makers(c, b_qb) = {n_q, n_rq}
  BY <1>1 DEF Makers
<1>3. /\ Past(c, n_rq) = {n_rq, n_q}
      /\ Past(c, n_q) = {n_q}
  BY <1>1 DEF Past
<1>4. S = Op(n_rq, <<n_q>>, {b_qb}, {b_qb})
  BY <1>1
<1> HIDE <1>1
<1> QED
  BY <1>2, <1>3, <1>4, OpAfterOne

LEMMA RkPlaced ==
  ASSUME NEW c, NEW l, NEW p, NEW S,
         S = Op(<<"rk", l, p>>, << <<"kva", l, p>> >>,
                {<<"kpe", l, p>>}, {<<"kpe", l, p>>})
  PROVE  AllPlaced(c, S)
<1>1. PICK n_kva, n_rk, b_kpe :
        /\ n_kva = <<"kva", l, p>>
        /\ n_rk = <<"rk", l, p>>
        /\ b_kpe = <<"kpe", l, p>>
  OBVIOUS
<1>2. /\ Makers(c, b_kpe) = {n_kva, n_rk}
  BY <1>1 DEF Makers
<1>3. /\ Past(c, n_rk) = {n_rk, n_kva}
      /\ Past(c, n_kva) = {n_kva}
  BY <1>1 DEF Past
<1>4. S = Op(n_rk, <<n_kva>>, {b_kpe}, {b_kpe})
  BY <1>1
<1> HIDE <1>1
<1> QED
  BY <1>2, <1>3, <1>4, OpAfterOne

LEMMA AppPlaced ==
  ASSUME NEW c, NEW l, NEW p, NEW S,
         S = Op(<<"app", l, p>>, << <<"kvb", l, p>>, <<"rk", l, p>> >>,
                {<<"kvb", l, p>>, <<"kpe", l, p>>}, {<<"kv", l, p>>})
  PROVE  AllPlaced(c, S)
<1>1. PICK n_app, n_kva, n_kvb, n_rk, b_kpe, b_kv, b_kvb :
        /\ n_app = <<"app", l, p>>
        /\ n_kva = <<"kva", l, p>>
        /\ n_kvb = <<"kvb", l, p>>
        /\ n_rk = <<"rk", l, p>>
        /\ b_kpe = <<"kpe", l, p>>
        /\ b_kv = <<"kv", l, p>>
        /\ b_kvb = <<"kvb", l, p>>
  OBVIOUS
<1>2. /\ Makers(c, b_kvb) = {n_kvb}
      /\ Makers(c, b_kpe) = {n_kva, n_rk}
      /\ Makers(c, b_kv) = {n_app}
  BY <1>1 DEF Makers
<1>3. /\ Past(c, n_app) = {n_app}
      /\ Past(c, n_kvb) = {n_kvb}
      /\ Past(c, n_rk) = {n_rk, n_kva}
  BY <1>1 DEF Past
<1>4. S = Op(n_app, <<n_kvb, n_rk>>, {b_kvb, b_kpe}, {b_kv})
  BY <1>1
<1> HIDE <1>1
<1> QED
  BY <1>2, <1>3, <1>4, OpAfterTwo

LEMMA FnPlaced ==
  ASSUME NEW c, NEW l, NEW p, NEW S,
         S = Op(<<"fn", l, p>>, << <<"x2", l, p>> >>,
                {<<"x2", l, p>>}, {<<"xf", l, p>>})
  PROVE  AllPlaced(c, S)
<1>1. PICK n_fn, n_x2, b_x2, b_xf :
        /\ n_fn = <<"fn", l, p>>
        /\ n_x2 = <<"x2", l, p>>
        /\ b_x2 = <<"x2", l, p>>
        /\ b_xf = <<"xf", l, p>>
  OBVIOUS
<1>2. /\ Makers(c, b_x2) = {n_x2}
      /\ Makers(c, b_xf) = {n_fn}
  BY <1>1 DEF Makers
<1>3. /\ Past(c, n_fn) = {n_fn}
      /\ Past(c, n_x2) = {n_x2}
  BY <1>1 DEF Past
<1>4. S = Op(n_fn, <<n_x2>>, {b_x2}, {b_xf})
  BY <1>1
<1> HIDE <1>1
<1> QED
  BY <1>2, <1>3, <1>4, OpAfterOne

LEMMA SiluPlaced ==
  ASSUME NEW c, NEW l, NEW p, NEW S,
         S = Op(<<"silu", l, p>>, << <<"gate", l, p>>, <<"up", l, p>> >>,
                {<<"g", l, p>>, <<"u", l, p>>}, {<<"h", l, p>>})
  PROVE  AllPlaced(c, S)
<1>1. PICK n_gate, n_silu, n_up, b_g, b_h, b_u :
        /\ n_gate = <<"gate", l, p>>
        /\ n_silu = <<"silu", l, p>>
        /\ n_up = <<"up", l, p>>
        /\ b_g = <<"g", l, p>>
        /\ b_h = <<"h", l, p>>
        /\ b_u = <<"u", l, p>>
  OBVIOUS
<1>2. /\ Makers(c, b_g) = {n_gate}
      /\ Makers(c, b_u) = {n_up}
      /\ Makers(c, b_h) = {n_silu}
  BY <1>1 DEF Makers
<1>3. /\ Past(c, n_silu) = {n_silu}
      /\ Past(c, n_gate) = {n_gate}
      /\ Past(c, n_up) = {n_up}
  BY <1>1 DEF Past
<1>4. S = Op(n_silu, <<n_gate, n_up>>, {b_g, b_u}, {b_h})
  BY <1>1
<1> HIDE <1>1
<1> QED
  BY <1>2, <1>3, <1>4, OpAfterTwo

LEMMA OutPlaced ==
  ASSUME NEW c, NEW l, NEW p, NEW S,
         S = Op(<<"out", l, p>>, << <<"down", l, p>>, <<"x2", l, p>> >>,
                {<<"d", l, p>>, <<"x2", l, p>>}, {<<"xo", l, p>>})
  PROVE  AllPlaced(c, S)
<1>1. PICK n_down, n_out, n_x2, b_d, b_x2, b_xo :
        /\ n_down = <<"down", l, p>>
        /\ n_out = <<"out", l, p>>
        /\ n_x2 = <<"x2", l, p>>
        /\ b_d = <<"d", l, p>>
        /\ b_x2 = <<"x2", l, p>>
        /\ b_xo = <<"xo", l, p>>
  OBVIOUS
<1>2. /\ Makers(c, b_d) = {n_down}
      /\ Makers(c, b_x2) = {n_x2}
      /\ Makers(c, b_xo) = {n_out}
  BY <1>1 DEF Makers
<1>3. /\ Past(c, n_out) = {n_out}
      /\ Past(c, n_down) = {n_down}
      /\ Past(c, n_x2) = {n_x2}
  BY <1>1 DEF Past
<1>4. S = Op(n_out, <<n_down, n_x2>>, {b_d, b_x2}, {b_xo})
  BY <1>1
<1> HIDE <1>1
<1> QED
  BY <1>2, <1>3, <1>4, OpAfterTwo

LEMMA RtPlaced ==
  ASSUME NEW c, NEW l, NEW p, NEW S,
         S = Op(<<"rt", l, p>>, << <<"rl", l, p>> >>,
                {<<"rlog", l, p>>}, {<<"ids", l, p>>})
  PROVE  AllPlaced(c, S)
<1>1. PICK n_rl, n_rt, b_ids, b_rlog :
        /\ n_rl = <<"rl", l, p>>
        /\ n_rt = <<"rt", l, p>>
        /\ b_ids = <<"ids", l, p>>
        /\ b_rlog = <<"rlog", l, p>>
  OBVIOUS
<1>2. /\ Makers(c, b_rlog) = {n_rl}
      /\ Makers(c, b_ids) = {n_rt}
  BY <1>1 DEF Makers
<1>3. /\ Past(c, n_rt) = {n_rt}
      /\ Past(c, n_rl) = {n_rl}
  BY <1>1 DEF Past
<1>4. S = Op(n_rt, <<n_rl>>, {b_rlog}, {b_ids})
  BY <1>1
<1> HIDE <1>1
<1> QED
  BY <1>2, <1>3, <1>4, OpAfterOne

LEMMA AqPlaced ==
  ASSUME NEW c, NEW l, NEW p, NEW S,
         S = Quantize(<<"aq", l, p>>, <<"an", l, p>>, {<<"xn", l, p>>})
  PROVE  AllPlaced(c, S)
<1>1. PICK n_an, n_aq, b_xn :
        /\ n_an = <<"an", l, p>>
        /\ n_aq = <<"aq", l, p>>
        /\ b_xn = <<"xn", l, p>>
  OBVIOUS
<1>2. /\ Makers(c, b_xn) = {n_an}
      /\ Makers(c, Q8(b_xn)) = {n_aq}
  BY <1>1 DEF Makers, Quantizer, Q8
<1>3. /\ Past(c, n_aq) = {n_aq, n_an}
      /\ Past(c, n_an) = {n_an}
  BY <1>1 DEF Past
<1>4. S = Quantize(n_aq, n_an, {b_xn})
  BY <1>1
<1> HIDE <1>1
<1> QED
  BY <1>2, <1>3, <1>4, QuantizePlaced

LEMMA Kq8Placed ==
  ASSUME NEW c, NEW l, NEW p, NEW S,
         S = Quantize(<<"kq8", l, p>>, <<"kn", l, p>>, {<<"ckv", l, p>>})
  PROVE  AllPlaced(c, S)
<1>1. PICK n_kn, n_kq8, b_ckv :
        /\ n_kn = <<"kn", l, p>>
        /\ n_kq8 = <<"kq8", l, p>>
        /\ b_ckv = <<"ckv", l, p>>
  OBVIOUS
<1>2. /\ Makers(c, b_ckv) = {n_kn}
      /\ Makers(c, Q8(b_ckv)) = {n_kq8}
  BY <1>1 DEF Makers, Quantizer, Q8
<1>3. /\ Past(c, n_kq8) = {n_kq8, n_kn}
      /\ Past(c, n_kn) = {n_kn}
  BY <1>1 DEF Past
<1>4. S = Quantize(n_kq8, n_kn, {b_ckv})
  BY <1>1
<1> HIDE <1>1
<1> QED
  BY <1>2, <1>3, <1>4, QuantizePlaced

LEMMA Fq8Placed ==
  ASSUME NEW c, NEW l, NEW p, NEW S,
         S = Quantize(<<"fq8", l, p>>, <<"fn", l, p>>, {<<"xf", l, p>>})
  PROVE  AllPlaced(c, S)
<1>1. PICK n_fn, n_fq8, b_xf :
        /\ n_fn = <<"fn", l, p>>
        /\ n_fq8 = <<"fq8", l, p>>
        /\ b_xf = <<"xf", l, p>>
  OBVIOUS
<1>2. /\ Makers(c, b_xf) = {n_fn}
      /\ Makers(c, Q8(b_xf)) = {n_fq8}
  BY <1>1 DEF Makers, Quantizer, Q8
<1>3. /\ Past(c, n_fq8) = {n_fq8, n_fn}
      /\ Past(c, n_fn) = {n_fn}
  BY <1>1 DEF Past
<1>4. S = Quantize(n_fq8, n_fn, {b_xf})
  BY <1>1
<1> HIDE <1>1
<1> QED
  BY <1>2, <1>3, <1>4, QuantizePlaced

LEMMA Hq8Placed ==
  ASSUME NEW c, NEW l, NEW p, NEW S,
         S = Quantize(<<"hq8", l, p>>, <<"silu", l, p>>, {<<"h", l, p>>})
  PROVE  AllPlaced(c, S)
<1>1. PICK n_hq8, n_silu, b_h :
        /\ n_hq8 = <<"hq8", l, p>>
        /\ n_silu = <<"silu", l, p>>
        /\ b_h = <<"h", l, p>>
  OBVIOUS
<1>2. /\ Makers(c, b_h) = {n_silu}
      /\ Makers(c, Q8(b_h)) = {n_hq8}
  BY <1>1 DEF Makers, Quantizer, Q8
<1>3. /\ Past(c, n_hq8) = {n_hq8, n_silu}
      /\ Past(c, n_silu) = {n_silu}
  BY <1>1 DEF Past
<1>4. S = Quantize(n_hq8, n_silu, {b_h})
  BY <1>1
<1> HIDE <1>1
<1> QED
  BY <1>2, <1>3, <1>4, QuantizePlaced

LEMMA Eq8Placed ==
  ASSUME NEW c, NEW l, NEW p, NEW s, NEW S,
         S = Quantize(<<"eq8", l, p, s>>, <<"se", l, p, s>>, {<<"he", l, p, s>>})
  PROVE  AllPlaced(c, S)
<1>1. PICK n_eq8, n_rt, n_se, b_he :
        /\ n_eq8 = <<"eq8", l, p, s>>
        /\ n_rt = <<"rt", l, p>>
        /\ n_se = <<"se", l, p, s>>
        /\ b_he = <<"he", l, p, s>>
  OBVIOUS
<1>2. /\ Makers(c, b_he) = {n_se}
      /\ Makers(c, Q8(b_he)) = {n_eq8}
  BY <1>1 DEF Makers, Quantizer, Q8
<1>3. /\ Past(c, n_eq8) = {n_eq8, n_rt, n_se}
      /\ Past(c, n_se) = {n_se, n_rt}
  BY <1>1 DEF Past
<1>4. S = Quantize(n_eq8, n_se, {b_he})
  BY <1>1
<1> HIDE <1>1
<1> QED
  BY <1>2, <1>3, <1>4, QuantizePlaced

LEMMA FinalQ8Placed ==
  ASSUME NEW c, NEW l, NEW p, NEW S,
         S = Quantize(<<"Fq8", l, p>>, <<"fnorm", l, p>>, {<<"xF", l, p>>})
  PROVE  AllPlaced(c, S)
<1>1. PICK n_Fq8, n_fnorm, b_xF :
        /\ n_Fq8 = <<"Fq8", l, p>>
        /\ n_fnorm = <<"fnorm", l, p>>
        /\ b_xF = <<"xF", l, p>>
  OBVIOUS
<1>2. /\ Makers(c, b_xF) = {n_fnorm}
      /\ Makers(c, Q8(b_xF)) = {n_Fq8}
  BY <1>1 DEF Makers, Quantizer, Q8
<1>3. /\ Past(c, n_Fq8) = {n_Fq8, n_fnorm}
      /\ Past(c, n_fnorm) = {n_fnorm}
  BY <1>1 DEF Past
<1>4. S = Quantize(n_Fq8, n_fnorm, {b_xF})
  BY <1>1
<1> HIDE <1>1
<1> QED
  BY <1>2, <1>3, <1>4, QuantizePlaced

(* Layers and heads.                                                       *)
LEMMA AfterResPlaced ==
  ASSUME NEW c, NEW l, NEW p, NEW name, NEW b, Makers(c, b) = {name}, Past(c, name) = {name},
         NEW S, S = Op(name, ResDep(l, p), {Res(l, p)}, {b})
  PROVE  AllPlaced(c, S)
<1>1. PICK ds, r, U, B : /\ ds = ResDep(l, p) /\ r = Res(l, p)
                         /\ U = At(c, l, p, {"res"}) /\ B = Makers(c, r)
  OBVIOUS
<1>2. Waits(ds, U)
  BY <1>1, WaitsRes
<1>3. U = IF l = 1 THEN {} ELSE {<<"out", l - 1, p>>}
  BY <1>1, AtRes
<1>4. Covers(c, U, B)
  BY <1>1, <1>3, MakersRes
<1>5. S = Op(name, ds, {r}, {b}) /\ Makers(c, r) \subseteq B
  BY <1>1
<1> HIDE <1>1, <1>3
<1> QED
  BY <1>2, <1>4, <1>5, OpPlaced

LEMMA AnPlaced ==
  ASSUME NEW c, NEW l, NEW p, NEW S,
         S = Op(<<"an", l, p>>, ResDep(l, p), {Res(l, p)}, {<<"xn", l, p>>})
  PROVE  AllPlaced(c, S)
<1>1. PICK a, b : a = <<"an", l, p>> /\ b = <<"xn", l, p>>
  OBVIOUS
<1>2. Makers(c, b) = {a}
  BY <1>1 DEF Makers
<1>3. Past(c, a) = {a}
  BY <1>1 DEF Past
<1>4. S = Op(a, ResDep(l, p), {Res(l, p)}, {b})
  BY <1>1
<1> HIDE <1>1
<1> QED
  BY <1>2, <1>3, <1>4, AfterResPlaced

LEMMA FnormPlaced ==
  ASSUME NEW c, NEW l, NEW p, NEW S,
         S = Op(<<"fnorm", l, p>>, ResDep(l, p), {Res(l, p)}, {<<"xF", l, p>>})
  PROVE  AllPlaced(c, S)
<1>1. PICK a, b : a = <<"fnorm", l, p>> /\ b = <<"xF", l, p>>
  OBVIOUS
<1>2. Makers(c, b) = {a}
  BY <1>1 DEF Makers
<1>3. Past(c, a) = {a}
  BY <1>1 DEF Past
<1>4. S = Op(a, ResDep(l, p), {Res(l, p)}, {b})
  BY <1>1
<1> HIDE <1>1
<1> QED
  BY <1>2, <1>3, <1>4, AfterResPlaced

LEMMA X2Placed ==
  ASSUME NEW c, NEW l, NEW p, NEW S,
         S = Op(<<"x2", l, p>>, << <<"ao", l, p>> >> \o ResDep(l, p),
                {Res(l, p), <<"ao", l, p>>}, {<<"x2", l, p>>})
  PROVE  AllPlaced(c, S)
<1>1. PICK a, x, r : a = <<"ao", l, p>> /\ x = <<"x2", l, p>> /\ r = Res(l, p)
  OBVIOUS
<1>2. PICK ds, U, R, B : /\ ds = <<a>> \o ResDep(l, p)
                         /\ U = At(c, l, p, {"ao", "res"}) /\ R = At(c, l, p, {"res"})
                         /\ B = {a} \cup Makers(c, r)
  OBVIOUS
<1>3. Waits(ds, U)
  BY <1>1, <1>2, WaitsAndRes, PlainKinds
<1>4. U = {a} \cup R
  <2>1. {"ao", "res"} = {"ao"} \cup {"res"}
    OBVIOUS
  <2>2. U = At(c, l, p, {"ao"}) \cup R
    BY <1>2, <2>1, AtUnion
  <2>3. At(c, l, p, {"ao"}) = {a}
    BY <1>1, AtPlain, PlainKinds
  <2> QED BY <2>2, <2>3
<1>5. Covers(c, R, Makers(c, r))
  <2>1. R = IF l = 1 THEN {} ELSE {<<"out", l - 1, p>>}
    BY <1>2, AtRes
  <2> QED BY <1>1, <2>1, MakersRes
<1>6. Makers(c, a) = {a} /\ Makers(c, x) = {x}
  BY <1>1 DEF Makers
<1>7. Past(c, a) = {a} /\ Past(c, x) = {x}
  BY <1>1 DEF Past
<1>8. Covers(c, U, B)
  BY <1>2, <1>4, <1>5, <1>7 DEF Covers
<1>9. S = Op(x, ds, {r, a}, {x})
  BY <1>1, <1>2
<1>10. Makers(c, r) \subseteq B /\ a \in B
  BY <1>2
<1> HIDE <1>1, <1>2, <1>4
<1> QED
  BY <1>3, <1>6, <1>7, <1>8, <1>9, <1>10, OpPlaced

LEMMA AppCumPast ==
  ASSUME NEW c, NEW l, NEW p \in Nat, NEW i \in 1 .. p
  PROVE  <<"app", l, i>> \in Past(c, AppCum(l, p))
<1>1. CASE p = 1
  <2>1. i = 1 /\ AppCum(l, p) = <<"app", l, 1>>
    BY <1>1 DEF AppCum
  <2> QED BY <2>1 DEF Past
<1>2. CASE p # 1
  <2>1. AppCum(l, p) = <<"cum", l, p>>
    BY <1>2 DEF AppCum
  <2>2. Past(c, <<"cum", l, p>>) = {<<"cum", l, p>>} \cup { <<"app", l, j>> : j \in 1 .. p }
    BY DEF Past
  <2> QED BY <2>1, <2>2
<1> QED
  BY <1>1, <1>2

LEMMA CumPlaced ==
  ASSUME NEW c, NEW l, NEW p \in Nat \ {0}
  PROVE  AllPlaced(c, CumCall(l, p))
<1>1. CASE p = 1
  <2>1. CumCall(l, p) = <<>>
    BY <1>1 DEF CumCall
  <2> QED BY <2>1, NonePlaced
<1>2. CASE p # 1
  <2>1. PICK q \in Nat : q = p - 1
    OBVIOUS
  <2>2. PICK x, d, e : x = <<"cum", l, p>> /\ d = AppCum(l, q) /\ e = <<"app", l, p>>
    OBVIOUS
  <2>3. CumCall(l, p) = FanInOf(x, <<d, e>>)
    BY <1>2, <2>1, <2>2 DEF CumCall, CumDeps
  <2>4. Waits(<<d, e>>, {d, e})
    BY WaitsTwo
  <2>5. PICK B : B = { <<"app", l, i>> : i \in 1 .. p }
    OBVIOUS
  <2>6. Past(c, x) = {x} \cup B
    BY <2>2, <2>5 DEF Past
  <2>7. e \in Past(c, e)
    BY DEF Past
  <2>8. ASSUME NEW y \in B  PROVE \E u \in {d, e} : y \in Past(c, u)
    <3>1. PICK i \in 1 .. p : y = <<"app", l, i>>
      BY <2>5
    <3>2. CASE i = p
      BY <2>2, <2>7, <3>1, <3>2
    <3>3. CASE i # p
      <4>1. i \in 1 .. q
        BY <2>1, <3>3
      <4>2. <<"app", l, i>> \in Past(c, AppCum(l, q))
        BY <4>1, AppCumPast
      <4> QED BY <2>2, <3>1, <4>2
    <3> QED BY <3>2, <3>3
  <2>9. Covers(c, {d, e}, B)
    BY <2>8 DEF Covers
  <2> HIDE <2>1, <2>2, <2>5
  <2> QED BY <2>3, <2>4, <2>6, <2>9, FanInPlaced
<1> QED
  BY <1>1, <1>2

LEMMA AttnPlaced ==
  ASSUME NEW c, NEW l, NEW p \in Nat, NEW h, NEW S,
         S = Op(<<"attn", l, p, h>>, << <<"rq", l, p>>, AppCum(l, p) >>,
                {<<"qb", l, p>>} \cup KvRows(l, p), {<<"ctx", l, p, h>>})
  PROVE  AllPlaced(c, S)
<1>1. PICK a, x, q, b, d, e :
        /\ a = <<"attn", l, p, h>> /\ x = <<"ctx", l, p, h>> /\ q = <<"q", l, p>>
        /\ b = <<"qb", l, p>> /\ d = <<"rq", l, p>> /\ e = AppCum(l, p)
  OBVIOUS
<1>2. PICK ds, U, B, rows : /\ ds = <<d, e>> /\ U = {d, e} /\ rows = KvRows(l, p)
                            /\ B = Past(c, d) \cup Past(c, e)
  OBVIOUS
<1>3. Waits(ds, U)
  BY <1>2, WaitsTwo
<1>4. Covers(c, U, B)
  BY <1>2 DEF Covers
<1>5. Makers(c, b) = {q, d} /\ Makers(c, x) = {a}
  BY <1>1 DEF Makers
<1>6. Past(c, d) = {d, q} /\ Past(c, a) = {a}
  BY <1>1 DEF Past
<1>7. ASSUME NEW r \in rows  PROVE Makers(c, r) \subseteq Past(c, e)
  <2>1. PICK i \in 1 .. p : r = <<"kv", l, i>>
    BY <1>2 DEF KvRows
  <2>2. Makers(c, r) = {<<"app", l, i>>}
    BY <2>1 DEF Makers
  <2> QED BY <1>1, <2>2, AppCumPast
<1>8. PICK reads : reads = {b} \cup rows
  OBVIOUS
<1>9. \A r \in reads : Makers(c, r) \subseteq {a} \cup B
  BY <1>2, <1>5, <1>6, <1>7, <1>8
<1>10. S = Op(a, ds, reads, {x})
  BY <1>1, <1>2, <1>8
<1> HIDE <1>1, <1>2, <1>8
<1> QED
  BY <1>3, <1>4, <1>5, <1>6, <1>9, <1>10, OpPlaced

LEMMA JoinPlaced ==
  ASSUME NEW c, c.heads \in Nat, NEW l, NEW p
  PROVE  AllPlaced(c, JoinOf(c, l, p))
<1> DEFINE ds == [h \in 1 .. c.heads |-> <<"attn", l, p, h>>]
<1>1. PICK x, B : x = <<"heads", l, p>> /\ B = HeadNames(c, l, p)
  OBVIOUS
<1>2. Waits(ds, B)
  <2>1. DOMAIN ds = 1 .. c.heads /\ B = { ds[h] : h \in 1 .. c.heads }
    BY <1>1 DEF HeadNames
  <2> HIDE DEF ds
  <2> QED BY <2>1, WaitsList
<1>3. Past(c, x) = {x} \cup B
  BY <1>1 DEF Past
<1>4. JoinOf(c, l, p) = FanInOf(x, ds)
  BY <1>1 DEF JoinOf
<1>5. Covers(c, B, B)
  BY DEF Covers, Past
<1> HIDE DEF ds
<1> HIDE <1>1
<1> QED
  BY <1>2, <1>3, <1>4, <1>5, FanInPlaced

LEMMA Cq8Placed ==
  ASSUME NEW c, NEW l, NEW p, NEW S,
         S = Quantize(<<"cq8", l, p>>, <<"heads", l, p>>, Contexts(c, l, p))
  PROVE  AllPlaced(c, S)
<1>1. PICK x, d, B, bufs : /\ x = <<"cq8", l, p>> /\ d = <<"heads", l, p>>
                           /\ B = HeadNames(c, l, p) /\ bufs = Contexts(c, l, p)
  OBVIOUS
<1>2. Past(c, x) = {x} \cup B /\ Past(c, d) = {d} \cup B
  BY <1>1 DEF Past
<1>3. ASSUME NEW b \in bufs  PROVE Makers(c, b) \subseteq Past(c, d) /\ Makers(c, Q8(b)) = {x}
  <2>1. PICK h \in 1 .. c.heads : b = <<"ctx", l, p, h>>
    BY <1>1 DEF Contexts
  <2>2. Makers(c, b) = {<<"attn", l, p, h>>}
    BY <2>1 DEF Makers
  <2>3. Makers(c, Q8(b)) = {<<"cq8", l, p>>}
    BY <2>1 DEF Makers, Quantizer, Q8
  <2>4. <<"attn", l, p, h>> \in B
    BY <1>1 DEF HeadNames
  <2> QED BY <1>1, <1>2, <2>2, <2>3, <2>4
<1>4. S = Quantize(x, d, bufs)
  BY <1>1
<1> HIDE <1>1
<1> QED
  BY <1>2, <1>3, <1>4, QuantizePlaced

(* Experts.                                                                *)
LEMMA RlPlaced ==
  ASSUME NEW c, NEW l, NEW p, NEW S,
         S = Dot(<<"rl", l, p>>, << <<"fn", l, p>> >>, {<<"xf", l, p>>}, {<<"rlog", l, p>>})
  PROVE  AllPlaced(c, S)
<1>1. PICK x, d, r, b : /\ x = <<"rl", l, p>> /\ d = <<"fn", l, p>>
                        /\ r = <<"xf", l, p>> /\ b = <<"rlog", l, p>>
  OBVIOUS
<1>2. Makers(c, r) = {d} /\ Makers(c, b) = {x}
  BY <1>1 DEF Makers
<1>3. Past(c, x) = {x} /\ Past(c, d) = {d}
  BY <1>1 DEF Past
<1>4. b[1] \in Slots /\ r[1] \notin Slots
  BY <1>1 DEF Slots
<1>5. S = Dot(x, <<d>>, {r}, {b})
  BY <1>1
<1>6. Waits(<<d>>, {d}) /\ Covers(c, {d}, {d})
  BY <1>3, WaitsOne DEF Covers
<1> HIDE <1>1
<1> QED
  BY <1>2, <1>3, <1>4, <1>5, <1>6, DotPlaced

LEMMA BarrierPlaced ==
  ASSUME NEW c, c.m \in Nat, NEW l
  PROVE  AllPlaced(c, Barrier(c, l))
<1>1. CASE c.barrier
  <2> DEFINE ds == [p \in 1 .. c.m |-> <<"rt", l, p>>]
  <2>1. PICK x, B : x = <<"rtAll", l, 0>> /\ B = { <<"rt", l, p>> : p \in 1 .. c.m }
    OBVIOUS
  <2>2. Waits(ds, B)
    <3>1. DOMAIN ds = 1 .. c.m /\ B = { ds[p] : p \in 1 .. c.m }
      BY <2>1
    <3> HIDE DEF ds
    <3> QED BY <3>1, WaitsList
  <2>3. Past(c, x) = {x} \cup B
    BY <2>1 DEF Past
  <2>4. Barrier(c, l) = FanInOf(x, ds)
    BY <1>1, <2>1 DEF Barrier
  <2>5. Covers(c, B, B)
    BY DEF Covers, Past
  <2> HIDE DEF ds
  <2> HIDE <2>1
  <2> QED BY <2>2, <2>3, <2>4, <2>5, FanInPlaced
<1>2. CASE ~c.barrier
  <2>1. Barrier(c, l) = <<>>
    BY <1>2 DEF Barrier
  <2> QED BY <2>1, NonePlaced
<1> QED
  BY <1>1, <1>2

LEMMA RouterPast ==
  ASSUME NEW c, NEW l, NEW p \in 1 .. c.m
  PROVE  <<"rt", l, p>> \in Past(c, RouterDep(c, l, p))
<1>1. CASE c.barrier
  <2>1. RouterDep(c, l, p) = <<"rtAll", l, 0>>
    BY <1>1 DEF RouterDep
  <2>2. Past(c, <<"rtAll", l, 0>>)
          = {<<"rtAll", l, 0>>} \cup { <<"rt", l, i>> : i \in 1 .. c.m }
    BY DEF Past
  <2> QED BY <2>1, <2>2
<1>2. CASE ~c.barrier
  <2>1. RouterDep(c, l, p) = <<"rt", l, p>>
    BY <1>2 DEF RouterDep
  <2> QED BY <2>1 DEF Past
<1> QED
  BY <1>1, <1>2

(* A projection of one expert: x writes b.                                 *)
LEMMA RoutedDotPlaced ==
  ASSUME NEW c, NEW l, NEW p \in 1 .. c.m, NEW x, NEW b,
         b[1] \in Slots, Makers(c, b) = {x}, Past(c, x) \subseteq {x, <<"rt", l, p>>},
         NEW S, S = Dot(x, << <<"fq8", l, p>>, RouterDep(c, l, p) >>,
                        WithQ8({<<"xf", l, p>>}) \cup {<<"ids", l, p>>}, {b})
  PROVE  AllPlaced(c, S)
<1>1. PICK d, e, f, i, r, n :
        /\ d = <<"fq8", l, p>> /\ e = RouterDep(c, l, p) /\ f = <<"xf", l, p>>
        /\ i = <<"ids", l, p>> /\ r = <<"rt", l, p>> /\ n = <<"fn", l, p>>
  OBVIOUS
<1>2. PICK reads, B : /\ reads = {f, Q8(f), i}
                      /\ B = Past(c, d) \cup Past(c, e)
  OBVIOUS
<1>3. WithQ8({f}) \cup {i} = reads
  BY <1>2 DEF WithQ8
<1>4. Makers(c, f) = {n} /\ Makers(c, Q8(f)) = {d} /\ Makers(c, i) = {r}
  BY <1>1 DEF Makers, Quantizer, Q8
<1>5. Past(c, d) = {d, n} /\ r \in Past(c, e)
  <2>1. Past(c, d) = {d, n}
    BY <1>1 DEF Past
  <2> QED BY <1>1, <2>1, RouterPast
<1>6. f[1] \notin Slots /\ Q8(f)[1] \notin Slots /\ i[1] \notin Slots
  BY <1>1 DEF Slots, Q8
<1>7. \A a \in reads : a[1] \notin Slots /\ Makers(c, a) \subseteq B
  BY <1>2, <1>4, <1>5, <1>6
<1>8. Waits(<<d, e>>, {d, e}) /\ Covers(c, {d, e}, B)
  BY <1>2, WaitsTwo DEF Covers
<1>9. Past(c, x) \subseteq {x} \cup B
  BY <1>1, <1>2, <1>5
<1>10. S = Dot(x, <<d, e>>, reads, {b})
  BY <1>1, <1>3
<1> HIDE <1>1, <1>2
<1> QED
  BY <1>7, <1>8, <1>9, <1>10, DotPlaced

LEMMA GePlaced ==
  ASSUME NEW c, NEW l, NEW p \in 1 .. c.m, NEW s, NEW S,
         S = Dot(<<"ge", l, p, s>>, << <<"fq8", l, p>>, RouterDep(c, l, p) >>,
                 WithQ8({<<"xf", l, p>>}) \cup {<<"ids", l, p>>}, {<<"geb", l, p, s>>})
  PROVE  AllPlaced(c, S)
<1>1. PICK x, b : x = <<"ge", l, p, s>> /\ b = <<"geb", l, p, s>>
  OBVIOUS
<1>2. Makers(c, b) = {x}
  BY <1>1 DEF Makers
<1>3. Past(c, x) = {x, <<"rt", l, p>>}
  BY <1>1 DEF Past
<1>4. b[1] \in Slots
  BY <1>1 DEF Slots
<1> QED
  BY <1>1, <1>2, <1>3, <1>4, RoutedDotPlaced

LEMMA UePlaced ==
  ASSUME NEW c, NEW l, NEW p \in 1 .. c.m, NEW s, NEW S,
         S = Dot(<<"ue", l, p, s>>, << <<"fq8", l, p>>, RouterDep(c, l, p) >>,
                 WithQ8({<<"xf", l, p>>}) \cup {<<"ids", l, p>>}, {<<"ueb", l, p, s>>})
  PROVE  AllPlaced(c, S)
<1>1. PICK x, b : x = <<"ue", l, p, s>> /\ b = <<"ueb", l, p, s>>
  OBVIOUS
<1>2. Makers(c, b) = {x}
  BY <1>1 DEF Makers
<1>3. Past(c, x) = {x}
  BY <1>1 DEF Past
<1>4. b[1] \in Slots
  BY <1>1 DEF Slots
<1> QED
  BY <1>1, <1>2, <1>3, <1>4, RoutedDotPlaced

LEMMA SePlaced ==
  ASSUME NEW c, NEW l, NEW p, NEW s, NEW S,
         S = Op(<<"se", l, p, s>>, << <<"ge", l, p, s>>, <<"ue", l, p, s>> >>,
                {<<"geb", l, p, s>>, <<"ueb", l, p, s>>}, {<<"he", l, p, s>>})
  PROVE  AllPlaced(c, S)
<1>1. PICK x, d, e, g, u, h, r :
        /\ x = <<"se", l, p, s>> /\ d = <<"ge", l, p, s>> /\ e = <<"ue", l, p, s>>
        /\ g = <<"geb", l, p, s>> /\ u = <<"ueb", l, p, s>> /\ h = <<"he", l, p, s>>
        /\ r = <<"rt", l, p>>
  OBVIOUS
<1>2. Makers(c, g) = {d} /\ Makers(c, u) = {e} /\ Makers(c, h) = {x}
  BY <1>1 DEF Makers
<1>3. Past(c, d) = {d, r} /\ Past(c, e) = {e} /\ Past(c, x) = {x, r}
  BY <1>1 DEF Past
<1>4. PICK B : B = {d, r, e}
  OBVIOUS
<1>5. Waits(<<d, e>>, {d, e}) /\ Covers(c, {d, e}, B)
  BY <1>3, <1>4, WaitsTwo DEF Covers
<1>6. S = Op(x, <<d, e>>, {g, u}, {h})
  BY <1>1
<1> HIDE <1>1
<1>7. \A b \in {g, u} : Makers(c, b) \subseteq {x} \cup B
  BY <1>2, <1>4
<1>8. Past(c, x) \subseteq {x} \cup B
  BY <1>3, <1>4
<1> QED
  BY <1>2, <1>5, <1>6, <1>7, <1>8, OpPlaced

LEMMA DownEPlaced ==
  ASSUME NEW c, NEW l, NEW p, NEW s, NEW S,
         S = Dot(<<"downE", l, p, s>>, << <<"eq8", l, p, s>> >>,
                 WithQ8({<<"he", l, p, s>>}) \cup {<<"ids", l, p>>}, {<<"de", l, p, s>>})
  PROVE  AllPlaced(c, S)
<1>1. PICK x, d, h, i, b, r, e :
        /\ x = <<"downE", l, p, s>> /\ d = <<"eq8", l, p, s>> /\ h = <<"he", l, p, s>>
        /\ i = <<"ids", l, p>> /\ b = <<"de", l, p, s>> /\ r = <<"rt", l, p>>
        /\ e = <<"se", l, p, s>>
  OBVIOUS
<1>2. PICK reads, B : reads = {h, Q8(h), i} /\ B = Past(c, d)
  OBVIOUS
<1>3. WithQ8({h}) \cup {i} = reads
  BY <1>2 DEF WithQ8
<1>4. Makers(c, h) = {e} /\ Makers(c, Q8(h)) = {d} /\ Makers(c, i) = {r} /\ Makers(c, b) = {x}
  BY <1>1 DEF Makers, Quantizer, Q8
<1>5. Past(c, d) = {d, r, e} /\ Past(c, x) = {x, r}
  BY <1>1 DEF Past
<1>6. h[1] \notin Slots /\ Q8(h)[1] \notin Slots /\ i[1] \notin Slots /\ b[1] \in Slots
  BY <1>1 DEF Slots, Q8
<1>7. \A a \in reads : a[1] \notin Slots /\ Makers(c, a) \subseteq B
  BY <1>2, <1>4, <1>5, <1>6
<1>8. Waits(<<d>>, {d}) /\ Covers(c, {d}, B)
  BY <1>2, WaitsOne DEF Covers
<1>9. Past(c, x) \subseteq {x} \cup B
  BY <1>2, <1>5
<1>10. S = Dot(x, <<d>>, reads, {b})
  BY <1>1, <1>3
<1> HIDE <1>1, <1>2
<1> QED
  BY <1>4, <1>6, <1>7, <1>8, <1>9, <1>10, DotPlaced

LEMMA DownsPlaced ==
  ASSUME NEW c, NEW l, NEW p, Experts(c, p) \in Nat \ {0}, NEW S,
         S = FanInOf(<<"downs", l, p>>, [s \in 1 .. Experts(c, p) |-> <<"downE", l, p, s>>])
  PROVE  AllPlaced(c, S)
<1> DEFINE n == Experts(c, p)
           ds == [s \in 1 .. n |-> <<"downE", l, p, s>>]
<1>1. PICK x, r, U, B : /\ x = <<"downs", l, p>> /\ r = <<"rt", l, p>>
                        /\ U = ExpertNames(c, l, p, "downE") /\ B = U \cup {r}
  OBVIOUS
<1>2. U = { <<"downE", l, p, s>> : s \in 1 .. n }
  BY <1>1 DEF ExpertNames
<1>3. Waits(ds, U)
  <2>1. DOMAIN ds = 1 .. n /\ n \in Nat
    OBVIOUS
  <2>2. U = { ds[s] : s \in 1 .. n }
    BY <1>2
  <2> HIDE DEF ds, n
  <2> QED BY <2>1, <2>2, WaitsList
<1>4. \A s : Past(c, <<"downE", l, p, s>>) = {<<"downE", l, p, s>>, r}
  BY <1>1 DEF Past
<1>5. Past(c, x) = {x, r} \cup U
  <2>1. Past(c, x) = {x} \cup ({r} \cup U)
    BY <1>1 DEF Past
  <2> QED BY <2>1
<1>6. \E s \in 1 .. n : TRUE
  <2>1. 1 \in 1 .. n
    OBVIOUS
  <2> QED BY <2>1
<1>7. Covers(c, U, B)
  <2>1. \A u \in U : u \in Past(c, u) /\ r \in Past(c, u)
    BY <1>2, <1>4
  <2>2. U # {}
    BY <1>2, <1>6
  <2> QED BY <1>1, <2>1, <2>2 DEF Covers
<1>8. S = FanInOf(x, ds) /\ Past(c, x) \subseteq {x} \cup B
  BY <1>1, <1>5
<1> HIDE DEF ds, n
<1> HIDE <1>1
<1> QED
  BY <1>3, <1>7, <1>8, FanInPlaced

LEMMA MoeOutPlaced ==
  ASSUME NEW c, NEW l, NEW p, NEW S,
         S = Op(<<"out", l, p>>, << <<"downs", l, p>>, <<"down", l, p>>, <<"x2", l, p>> >>,
                ExpertParts(c, l, p) \cup {<<"ids", l, p>>, <<"d", l, p>>, <<"x2", l, p>>},
                {<<"xo", l, p>>})
  PROVE  AllPlaced(c, S)
<1>1. PICK x, d, e, f, r, i, b, o, parts :
        /\ x = <<"out", l, p>> /\ d = <<"downs", l, p>> /\ e = <<"down", l, p>>
        /\ f = <<"x2", l, p>> /\ r = <<"rt", l, p>> /\ i = <<"ids", l, p>>
        /\ b = <<"d", l, p>> /\ o = <<"xo", l, p>> /\ parts = ExpertParts(c, l, p)
  OBVIOUS
<1>2. PICK U, B, reads : /\ U = {d, e, f} /\ B = Past(c, d) \cup Past(c, e) \cup Past(c, f)
                         /\ reads = parts \cup {i, b, f}
  OBVIOUS
<1>3. Waits(<<d, e, f>>, U)
  BY <1>2, WaitsThree
<1>4. Covers(c, U, B)
  BY <1>2 DEF Covers
<1>5. /\ Makers(c, i) = {r} /\ Makers(c, b) = {e} /\ Makers(c, f) = {f} /\ Makers(c, o) = {x}
  BY <1>1 DEF Makers
<1>6. /\ Past(c, e) = {e} /\ Past(c, f) = {f} /\ Past(c, x) = {x}
  BY <1>1 DEF Past
<1>7. Past(c, d) = {d} \cup ({r} \cup ExpertNames(c, l, p, "downE"))
  BY <1>1 DEF Past
<1>8. ASSUME NEW a \in parts  PROVE Makers(c, a) \subseteq Past(c, d)
  <2>1. PICK s \in 1 .. Experts(c, p) : a = <<"de", l, p, s>>
    BY <1>1 DEF ExpertParts
  <2>2. Makers(c, a) = {<<"downE", l, p, s>>}
    BY <2>1 DEF Makers
  <2> QED BY <1>7, <2>2 DEF ExpertNames
<1>9. \A a \in reads : Makers(c, a) \subseteq {x} \cup B
  BY <1>2, <1>5, <1>6, <1>7, <1>8
<1>10. S = Op(x, <<d, e, f>>, reads, {o})
  BY <1>1, <1>2
<1> HIDE <1>1, <1>2, <1>7
<1> QED
  BY <1>3, <1>4, <1>5, <1>6, <1>9, <1>10, OpPlaced

(* The head.                                                               *)
HeadFed(c, last, ds, U, B) ==
  /\ Waits(ds, U) /\ Covers(c, U, B)
  /\ \A p \in 1 .. c.m : \A b \in WithQ8({<<"xF", last, p>>}) :
       b[1] \notin Slots /\ Makers(c, b) \subseteq B

LEMMA HeadInputs ==
  ASSUME NEW c, c.m \in Nat, NEW last, last = Len(c.layers) + 1,
         NEW U, U = Names(c, last, {"Fq8"}), NEW B, B = U \cup Names(c, last, {"fnorm"}),
         NEW ds, ds = HeadDeps(c)
  PROVE  HeadFed(c, last, ds, U, B)
<1>1. U = { <<"Fq8", last, p>> : p \in 1 .. c.m }
  BY NamesPlain, PlainKinds
<1>2. Names(c, last, {"fnorm"}) = { <<"fnorm", last, p>> : p \in 1 .. c.m }
  BY NamesPlain, PlainKinds
<1>3. \A p : Past(c, <<"Fq8", last, p>>) = {<<"Fq8", last, p>>, <<"fnorm", last, p>>}
  BY DEF Past
<1>4. Covers(c, U, B)
  <2> SUFFICES ASSUME NEW y \in B  PROVE \E u \in U : y \in Past(c, u)
    BY DEF Covers
  <2>1. PICK p \in 1 .. c.m : y \in {<<"Fq8", last, p>>, <<"fnorm", last, p>>}
    BY <1>1, <1>2
  <2>2. <<"Fq8", last, p>> \in U
    BY <1>1
  <2> QED BY <1>3, <2>1, <2>2
<1>5. ASSUME NEW p \in 1 .. c.m, NEW b \in WithQ8({<<"xF", last, p>>})
      PROVE  b[1] \notin Slots /\ Makers(c, b) \subseteq B
  <2>1. PICK f : f = <<"xF", last, p>>
    OBVIOUS
  <2>2. Makers(c, f) = {<<"fnorm", last, p>>} /\ Makers(c, Q8(f)) = {<<"Fq8", last, p>>}
    BY <2>1 DEF Makers, Quantizer, Q8
  <2>3. f[1] \notin Slots /\ Q8(f)[1] \notin Slots
    BY <2>1 DEF Slots, Q8
  <2>4. b = f \/ b = Q8(f)
    BY <1>5, <2>1 DEF WithQ8
  <2> QED BY <1>1, <1>2, <2>2, <2>3, <2>4
<1> QED
  BY <1>4, <1>5, WaitsHeadDeps DEF HeadFed

LEMMA HeadDotPlaced ==
  ASSUME NEW c, c.m \in Nat
  PROVE  AllPlaced(c, HeadDot(c))
<1>1. PICK last : last = Len(c.layers) + 1
  OBVIOUS
<1>2. PICK U, B : U = Names(c, last, {"Fq8"}) /\ B = U \cup Names(c, last, {"fnorm"})
  OBVIOUS
<1>3. PICK z, ds : z = <<"head", last, 0>> /\ ds = HeadDeps(c)
  OBVIOUS
<1>4. /\ Waits(ds, U) /\ Covers(c, U, B)
      /\ \A p \in 1 .. c.m : \A b \in WithQ8({<<"xF", last, p>>}) :
           b[1] \notin Slots /\ Makers(c, b) \subseteq B
  <2>1. HeadFed(c, last, ds, U, B)
    BY <1>1, <1>2, <1>3, HeadInputs
  <2> QED BY <2>1 DEF HeadFed
<1>5. Past(c, z) = {z}
  BY <1>3 DEF Past
<1>6. CASE c.multicol
  <2> DEFINE reads == UNION { WithQ8({<<"xF", last, p>>}) : p \in 1 .. c.m }
             writes == { <<"lg", last, p>> : p \in 1 .. c.m }
  <2>1. PICK names : names = {z}
    OBVIOUS
  <2>2. HeadDot(c) = Call(names, "dot", ds, reads, writes, 0)
    BY <1>1, <1>3, <1>6, <2>1 DEF HeadDot
  <2>3. ASSUME NEW b \in writes  PROVE b[1] \in Slots /\ Makers(c, b) = {z}
    <3>1. PICK p \in 1 .. c.m : b = <<"lg", last, p>>
      OBVIOUS
    <3> HIDE DEF writes
    <3> QED BY <1>3, <1>6, <3>1 DEF Makers, Slots
  <2>4. \A b \in reads : b[1] \notin Slots /\ Makers(c, b) \subseteq B
    BY <1>4
  <2>5. \A b \in writes : /\ b[1] \in Slots /\ names \cap Makers(c, b) # {}
                          /\ \A y \in Makers(c, b) \ names : names \cap Past(c, y) # {}
    <3> HIDE DEF writes
    <3> QED BY <2>1, <2>3
  <2>6. \A x \in names : Past(c, x) \subseteq {x} \cup B
    BY <1>5, <2>1
  <2> HIDE DEF reads, writes
  <2> QED BY <1>4, <2>2, <2>4, <2>5, <2>6, DotCallPlaced
<1>7. CASE ~c.multicol
  <2> DEFINE F == [p \in 1 .. c.m |->
                     Call({<<"headCol", last, p>>}, "dot", ds,
                          WithQ8({<<"xF", last, p>>}), {<<"lg", last, p>>}, 0)]
             hs == [p \in 1 .. c.m |-> <<"headCol", last, p>>]
  <2>1. HeadDot(c) = Cat(FlattenSeq(F), FanInOf(z, hs))
    BY <1>1, <1>3, <1>7 DEF HeadDot, ForEach, Cat
  <2>2. ASSUME NEW p \in 1 .. c.m  PROVE AllPlaced(c, F[p])
    <3>1. PICK x, b, names, reads :
            /\ x = <<"headCol", last, p>> /\ b = <<"lg", last, p>> /\ names = {x}
            /\ reads = WithQ8({<<"xF", last, p>>})
      OBVIOUS
    <3>2. PICK R : R = F[p]
      OBVIOUS
    <3>3. R = Call(names, "dot", ds, reads, {b}, 0)
      BY <3>1, <3>2
    <3>4. Makers(c, b) = {x} /\ Past(c, x) = {x} /\ b[1] \in Slots
      BY <1>7, <3>1 DEF Makers, Past, Slots
    <3>5. \A a \in reads : a[1] \notin Slots /\ Makers(c, a) \subseteq B
      BY <1>4, <3>1
    <3>6. \A a \in {b} : /\ a[1] \in Slots /\ names \cap Makers(c, a) # {}
                         /\ \A y \in Makers(c, a) \ names : names \cap Past(c, y) # {}
      BY <3>1, <3>4
    <3>7. \A y \in names : Past(c, y) \subseteq {y} \cup B
      BY <3>1, <3>4
    <3> HIDE DEF F
    <3>8. AllPlaced(c, R)
      BY <1>4, <3>3, <3>5, <3>6, <3>7, DotCallPlaced
    <3> QED BY <3>2, <3>8
  <2>3. F = [p \in 1 .. c.m |-> F[p]]
    OBVIOUS
  <2>4. PICK Q : Q = { hs[p] : p \in 1 .. c.m }
    OBVIOUS
  <2>5. Waits(hs, Q)
    <3>1. DOMAIN hs = 1 .. c.m
      OBVIOUS
    <3> HIDE DEF hs
    <3> QED BY <2>4, <3>1, WaitsList
  <2>6. PICK R, G : R = FanInOf(z, hs) /\ G = FlattenSeq(F)
    OBVIOUS
  <2> HIDE DEF F, hs
  <2>7. Covers(c, Q, {}) /\ Past(c, z) \subseteq {z} \cup {}
    BY <1>5 DEF Covers
  <2>8. AllPlaced(c, R)
    BY <2>5, <2>6, <2>7, FanInPlaced
  <2>9. AllPlaced(c, G)
    BY <2>2, <2>3, <2>6, EachPlaced
  <2> QED BY <2>1, <2>6, <2>8, <2>9, CatPlaced
<1> QED
  BY <1>6, <1>7

(* The weights that all positions share.                                   *)
LEMMA QDotPlaced ==
  ASSUME NEW c, c.m \in Nat, NEW l, NEW S,
         S = StageDot(c, "q", l, "aq", Columns(c, "xn", l),
                      Columns(c, "qb", l))
  PROVE  AllPlaced(c, S)
<1>1. PICK X, Y : /\ X = Columns(c, "xn", l)
                  /\ Y = Columns(c, "qb", l)
  OBVIOUS
<1>2. ASSUME NEW p \in 1 .. c.m
      PROVE  /\ Past(c, <<"q", l, p>>) = {<<"q", l, p>>}
             /\ FirstToWrite(c, <<"q", l, p>>, Y[p])
             /\ Supplied(c, Past(c, <<"aq", l, p>>), X[p])
  <2>1. PICK n_q, n_aq, n_an, n_rq, b_xn, b_qb :
          /\ n_q = <<"q", l, p>>
          /\ n_aq = <<"aq", l, p>>
          /\ n_an = <<"an", l, p>>
          /\ n_rq = <<"rq", l, p>>
          /\ b_xn = <<"xn", l, p>>
          /\ b_qb = <<"qb", l, p>>
    OBVIOUS
  <2>2. /\ Makers(c, b_xn) = {n_an}
        /\ Makers(c, Q8(b_xn)) = {n_aq}
        /\ Makers(c, b_qb) = {n_q, n_rq}
    BY <2>1 DEF Makers, Quantizer, Q8
  <2>3. /\ Past(c, n_q) = {n_q}
        /\ Past(c, n_aq) = {n_aq, n_an}
        /\ Past(c, n_rq) = {n_rq, n_q}
    BY <2>1 DEF Past
  <2>4. X[p] = {b_xn} /\ Y[p] = {b_qb}
    BY <1>1, <2>1 DEF Columns
  <2>5. b_xn[1] \notin Slots /\ b_qb[1] \in Slots
    BY <2>1 DEF Slots
  <2>6. FirstToWrite(c, n_q, Y[p])
    BY <2>2, <2>3, <2>4, <2>5 DEF FirstToWrite
  <2>7. Supplied(c, Past(c, n_aq), X[p])
    BY <2>2, <2>3, <2>4, <2>5 DEF Supplied
  <2> QED BY <2>1, <2>3, <2>6, <2>7
<1>3. S = StageDot(c, "q", l, "aq", X, Y)
  BY <1>1
<1> HIDE <1>1
<1> QED
  BY <1>2, <1>3, StageDotPlaced

LEMMA KvaDotPlaced ==
  ASSUME NEW c, c.m \in Nat, NEW l, NEW S,
         S = StageDot(c, "kva", l, "aq", Columns(c, "xn", l),
                      [p \in 1 .. c.m |-> {<<"kva", l, p>>, <<"kpe", l, p>>}])
  PROVE  AllPlaced(c, S)
<1>1. PICK X, Y : /\ X = Columns(c, "xn", l)
                  /\ Y = [p \in 1 .. c.m |-> {<<"kva", l, p>>, <<"kpe", l, p>>}]
  OBVIOUS
<1>2. ASSUME NEW p \in 1 .. c.m
      PROVE  /\ Past(c, <<"kva", l, p>>) = {<<"kva", l, p>>}
             /\ FirstToWrite(c, <<"kva", l, p>>, Y[p])
             /\ Supplied(c, Past(c, <<"aq", l, p>>), X[p])
  <2>1. PICK n_kva, n_aq, n_an, n_rk, b_xn, b_kva, b_kpe :
          /\ n_kva = <<"kva", l, p>>
          /\ n_aq = <<"aq", l, p>>
          /\ n_an = <<"an", l, p>>
          /\ n_rk = <<"rk", l, p>>
          /\ b_xn = <<"xn", l, p>>
          /\ b_kva = <<"kva", l, p>>
          /\ b_kpe = <<"kpe", l, p>>
    OBVIOUS
  <2>2. /\ Makers(c, b_xn) = {n_an}
        /\ Makers(c, Q8(b_xn)) = {n_aq}
        /\ Makers(c, b_kva) = {n_kva}
        /\ Makers(c, b_kpe) = {n_kva, n_rk}
    BY <2>1 DEF Makers, Quantizer, Q8
  <2>3. /\ Past(c, n_kva) = {n_kva}
        /\ Past(c, n_aq) = {n_aq, n_an}
        /\ Past(c, n_rk) = {n_rk, n_kva}
    BY <2>1 DEF Past
  <2>4. X[p] = {b_xn} /\ Y[p] = {b_kva, b_kpe}
    BY <1>1, <2>1 DEF Columns
  <2>5. b_xn[1] \notin Slots /\ b_kva[1] \in Slots /\ b_kpe[1] \in Slots
    BY <2>1 DEF Slots
  <2>6. FirstToWrite(c, n_kva, Y[p])
    BY <2>2, <2>3, <2>4, <2>5 DEF FirstToWrite
  <2>7. Supplied(c, Past(c, n_aq), X[p])
    BY <2>2, <2>3, <2>4, <2>5 DEF Supplied
  <2> QED BY <2>1, <2>3, <2>6, <2>7
<1>3. S = StageDot(c, "kva", l, "aq", X, Y)
  BY <1>1
<1> HIDE <1>1
<1> QED
  BY <1>2, <1>3, StageDotPlaced

LEMMA KvbDotPlaced ==
  ASSUME NEW c, c.m \in Nat, NEW l, NEW S,
         S = StageDot(c, "kvb", l, "kq8", Columns(c, "ckv", l),
                      Columns(c, "kvb", l))
  PROVE  AllPlaced(c, S)
<1>1. PICK X, Y : /\ X = Columns(c, "ckv", l)
                  /\ Y = Columns(c, "kvb", l)
  OBVIOUS
<1>2. ASSUME NEW p \in 1 .. c.m
      PROVE  /\ Past(c, <<"kvb", l, p>>) = {<<"kvb", l, p>>}
             /\ FirstToWrite(c, <<"kvb", l, p>>, Y[p])
             /\ Supplied(c, Past(c, <<"kq8", l, p>>), X[p])
  <2>1. PICK n_kvb, n_kq8, n_kn, b_ckv, b_kvb :
          /\ n_kvb = <<"kvb", l, p>>
          /\ n_kq8 = <<"kq8", l, p>>
          /\ n_kn = <<"kn", l, p>>
          /\ b_ckv = <<"ckv", l, p>>
          /\ b_kvb = <<"kvb", l, p>>
    OBVIOUS
  <2>2. /\ Makers(c, b_ckv) = {n_kn}
        /\ Makers(c, Q8(b_ckv)) = {n_kq8}
        /\ Makers(c, b_kvb) = {n_kvb}
    BY <2>1 DEF Makers, Quantizer, Q8
  <2>3. /\ Past(c, n_kvb) = {n_kvb}
        /\ Past(c, n_kq8) = {n_kq8, n_kn}
    BY <2>1 DEF Past
  <2>4. X[p] = {b_ckv} /\ Y[p] = {b_kvb}
    BY <1>1, <2>1 DEF Columns
  <2>5. b_ckv[1] \notin Slots /\ b_kvb[1] \in Slots
    BY <2>1 DEF Slots
  <2>6. FirstToWrite(c, n_kvb, Y[p])
    BY <2>2, <2>3, <2>4, <2>5 DEF FirstToWrite
  <2>7. Supplied(c, Past(c, n_kq8), X[p])
    BY <2>2, <2>3, <2>4, <2>5 DEF Supplied
  <2> QED BY <2>1, <2>3, <2>6, <2>7
<1>3. S = StageDot(c, "kvb", l, "kq8", X, Y)
  BY <1>1
<1> HIDE <1>1
<1> QED
  BY <1>2, <1>3, StageDotPlaced

LEMMA GateDotPlaced ==
  ASSUME NEW c, c.m \in Nat, NEW l, NEW S,
         S = StageDot(c, "gate", l, "fq8", Columns(c, "xf", l),
                      Columns(c, "g", l))
  PROVE  AllPlaced(c, S)
<1>1. PICK X, Y : /\ X = Columns(c, "xf", l)
                  /\ Y = Columns(c, "g", l)
  OBVIOUS
<1>2. ASSUME NEW p \in 1 .. c.m
      PROVE  /\ Past(c, <<"gate", l, p>>) = {<<"gate", l, p>>}
             /\ FirstToWrite(c, <<"gate", l, p>>, Y[p])
             /\ Supplied(c, Past(c, <<"fq8", l, p>>), X[p])
  <2>1. PICK n_gate, n_fq8, n_fn, b_xf, b_g :
          /\ n_gate = <<"gate", l, p>>
          /\ n_fq8 = <<"fq8", l, p>>
          /\ n_fn = <<"fn", l, p>>
          /\ b_xf = <<"xf", l, p>>
          /\ b_g = <<"g", l, p>>
    OBVIOUS
  <2>2. /\ Makers(c, b_xf) = {n_fn}
        /\ Makers(c, Q8(b_xf)) = {n_fq8}
        /\ Makers(c, b_g) = {n_gate}
    BY <2>1 DEF Makers, Quantizer, Q8
  <2>3. /\ Past(c, n_gate) = {n_gate}
        /\ Past(c, n_fq8) = {n_fq8, n_fn}
    BY <2>1 DEF Past
  <2>4. X[p] = {b_xf} /\ Y[p] = {b_g}
    BY <1>1, <2>1 DEF Columns
  <2>5. b_xf[1] \notin Slots /\ b_g[1] \in Slots
    BY <2>1 DEF Slots
  <2>6. FirstToWrite(c, n_gate, Y[p])
    BY <2>2, <2>3, <2>4, <2>5 DEF FirstToWrite
  <2>7. Supplied(c, Past(c, n_fq8), X[p])
    BY <2>2, <2>3, <2>4, <2>5 DEF Supplied
  <2> QED BY <2>1, <2>3, <2>6, <2>7
<1>3. S = StageDot(c, "gate", l, "fq8", X, Y)
  BY <1>1
<1> HIDE <1>1
<1> QED
  BY <1>2, <1>3, StageDotPlaced

LEMMA UpDotPlaced ==
  ASSUME NEW c, c.m \in Nat, NEW l, NEW S,
         S = StageDot(c, "up", l, "fq8", Columns(c, "xf", l),
                      Columns(c, "u", l))
  PROVE  AllPlaced(c, S)
<1>1. PICK X, Y : /\ X = Columns(c, "xf", l)
                  /\ Y = Columns(c, "u", l)
  OBVIOUS
<1>2. ASSUME NEW p \in 1 .. c.m
      PROVE  /\ Past(c, <<"up", l, p>>) = {<<"up", l, p>>}
             /\ FirstToWrite(c, <<"up", l, p>>, Y[p])
             /\ Supplied(c, Past(c, <<"fq8", l, p>>), X[p])
  <2>1. PICK n_up, n_fq8, n_fn, b_xf, b_u :
          /\ n_up = <<"up", l, p>>
          /\ n_fq8 = <<"fq8", l, p>>
          /\ n_fn = <<"fn", l, p>>
          /\ b_xf = <<"xf", l, p>>
          /\ b_u = <<"u", l, p>>
    OBVIOUS
  <2>2. /\ Makers(c, b_xf) = {n_fn}
        /\ Makers(c, Q8(b_xf)) = {n_fq8}
        /\ Makers(c, b_u) = {n_up}
    BY <2>1 DEF Makers, Quantizer, Q8
  <2>3. /\ Past(c, n_up) = {n_up}
        /\ Past(c, n_fq8) = {n_fq8, n_fn}
    BY <2>1 DEF Past
  <2>4. X[p] = {b_xf} /\ Y[p] = {b_u}
    BY <1>1, <2>1 DEF Columns
  <2>5. b_xf[1] \notin Slots /\ b_u[1] \in Slots
    BY <2>1 DEF Slots
  <2>6. FirstToWrite(c, n_up, Y[p])
    BY <2>2, <2>3, <2>4, <2>5 DEF FirstToWrite
  <2>7. Supplied(c, Past(c, n_fq8), X[p])
    BY <2>2, <2>3, <2>4, <2>5 DEF Supplied
  <2> QED BY <2>1, <2>3, <2>6, <2>7
<1>3. S = StageDot(c, "up", l, "fq8", X, Y)
  BY <1>1
<1> HIDE <1>1
<1> QED
  BY <1>2, <1>3, StageDotPlaced

LEMMA DownDotPlaced ==
  ASSUME NEW c, c.m \in Nat, NEW l, NEW S,
         S = StageDot(c, "down", l, "hq8", Columns(c, "h", l),
                      Columns(c, "d", l))
  PROVE  AllPlaced(c, S)
<1>1. PICK X, Y : /\ X = Columns(c, "h", l)
                  /\ Y = Columns(c, "d", l)
  OBVIOUS
<1>2. ASSUME NEW p \in 1 .. c.m
      PROVE  /\ Past(c, <<"down", l, p>>) = {<<"down", l, p>>}
             /\ FirstToWrite(c, <<"down", l, p>>, Y[p])
             /\ Supplied(c, Past(c, <<"hq8", l, p>>), X[p])
  <2>1. PICK n_down, n_hq8, n_silu, b_h, b_d :
          /\ n_down = <<"down", l, p>>
          /\ n_hq8 = <<"hq8", l, p>>
          /\ n_silu = <<"silu", l, p>>
          /\ b_h = <<"h", l, p>>
          /\ b_d = <<"d", l, p>>
    OBVIOUS
  <2>2. /\ Makers(c, b_h) = {n_silu}
        /\ Makers(c, Q8(b_h)) = {n_hq8}
        /\ Makers(c, b_d) = {n_down}
    BY <2>1 DEF Makers, Quantizer, Q8
  <2>3. /\ Past(c, n_down) = {n_down}
        /\ Past(c, n_hq8) = {n_hq8, n_silu}
    BY <2>1 DEF Past
  <2>4. X[p] = {b_h} /\ Y[p] = {b_d}
    BY <1>1, <2>1 DEF Columns
  <2>5. b_h[1] \notin Slots /\ b_d[1] \in Slots
    BY <2>1 DEF Slots
  <2>6. FirstToWrite(c, n_down, Y[p])
    BY <2>2, <2>3, <2>4, <2>5 DEF FirstToWrite
  <2>7. Supplied(c, Past(c, n_hq8), X[p])
    BY <2>2, <2>3, <2>4, <2>5 DEF Supplied
  <2> QED BY <2>1, <2>3, <2>6, <2>7
<1>3. S = StageDot(c, "down", l, "hq8", X, Y)
  BY <1>1
<1> HIDE <1>1
<1> QED
  BY <1>2, <1>3, StageDotPlaced

LEMMA AoDotPlaced ==
  ASSUME NEW c, c.m \in Nat, NEW l, NEW S,
         S = StageDot(c, "ao", l, "cq8", [p \in 1 .. c.m |-> Contexts(c, l, p)],
                      Columns(c, "ao", l))
  PROVE  AllPlaced(c, S)
<1>1. PICK X, Y : /\ X = [p \in 1 .. c.m |-> Contexts(c, l, p)]
                  /\ Y = Columns(c, "ao", l)
  OBVIOUS
<1>2. ASSUME NEW p \in 1 .. c.m
      PROVE  /\ Past(c, <<"ao", l, p>>) = {<<"ao", l, p>>}
             /\ FirstToWrite(c, <<"ao", l, p>>, Y[p])
             /\ Supplied(c, Past(c, <<"cq8", l, p>>), X[p])
  <2>1. PICK x, d, B : x = <<"ao", l, p>> /\ d = <<"cq8", l, p>> /\ B = HeadNames(c, l, p)
    OBVIOUS
  <2>2. Past(c, x) = {x} /\ Past(c, d) = {d} \cup B
    BY <2>1 DEF Past
  <2>3. Makers(c, x) = {x} /\ x[1] \in Slots
    BY <2>1 DEF Makers, Slots
  <2>4. X[p] = Contexts(c, l, p) /\ Y[p] = {x}
    BY <1>1, <2>1 DEF Columns
  <2>5. ASSUME NEW b \in X[p]
        PROVE  b[1] \notin Slots /\ Makers(c, b) \subseteq Past(c, d)
               /\ Makers(c, Q8(b)) \subseteq Past(c, d)
    <3>1. PICK h \in 1 .. c.heads : b = <<"ctx", l, p, h>>
      BY <2>4, <2>5 DEF Contexts
    <3>2. Makers(c, b) = {<<"attn", l, p, h>>}
      BY <3>1 DEF Makers
    <3>3. Makers(c, Q8(b)) = {<<"cq8", l, p>>}
      BY <3>1 DEF Makers, Quantizer, Q8
    <3>4. b[1] \notin Slots
      BY <3>1 DEF Slots
    <3>5. <<"attn", l, p, h>> \in B
      BY <2>1 DEF HeadNames
    <3> QED BY <2>1, <2>2, <3>2, <3>3, <3>4, <3>5
  <2>6. FirstToWrite(c, x, Y[p])
    BY <2>2, <2>3, <2>4 DEF FirstToWrite
  <2>7. Supplied(c, Past(c, d), X[p])
    BY <2>5 DEF Supplied
  <2> QED BY <2>1, <2>2, <2>6, <2>7
<1>3. S = StageDot(c, "ao", l, "cq8", X, Y)
  BY <1>1
<1> HIDE <1>1
<1> QED
  BY <1>2, <1>3, StageDotPlaced

(* Stage after stage.                                                      *)
LEMMA StageAPlaced ==
  ASSUME NEW c, c.m \in Nat, NEW l
  PROVE  AllPlaced(c, StageA(c, l))
<1> DEFINE S(p) == Op(<<"an", l, p>>, ResDep(l, p), {Res(l, p)}, {<<"xn", l, p>>})
           R(p) == Quantize(<<"aq", l, p>>, <<"an", l, p>>, {<<"xn", l, p>>})
           F == [p \in 1 .. c.m |-> Cat(S(p), R(p))]
<1>1. StageA(c, l) = FlattenSeq(F)
  BY DEF StageA, ForEach, Cat
<1>2. ASSUME NEW p \in 1 .. c.m  PROVE AllPlaced(c, F[p])
  <2>1. AllPlaced(c, S(p)) /\ AllPlaced(c, R(p))
    BY AnPlaced, AqPlaced
  <2>2. F[p] = Cat(S(p), R(p))
    OBVIOUS
  <2> HIDE DEF S, R, F
  <2> QED BY <2>1, <2>2, CatPlaced
<1>3. F = [p \in 1 .. c.m |-> F[p]]
  OBVIOUS
<1> HIDE DEF F
<1> QED
  BY <1>1, <1>2, <1>3, EachPlaced

LEMMA StageBPlaced ==
  ASSUME NEW c, c.m \in Nat, NEW l
  PROVE  AllPlaced(c, StageB(c, l))
<1>1. PICK S : S = StageDot(c, "q", l, "aq", Columns(c, "xn", l), Columns(c, "qb", l))
  OBVIOUS
<1>2. PICK R : R = StageDot(c, "kva", l, "aq", Columns(c, "xn", l),
                            [p \in 1 .. c.m |-> {<<"kva", l, p>>, <<"kpe", l, p>>}])
  OBVIOUS
<1>3. AllPlaced(c, S)
  BY <1>1, QDotPlaced
<1>4. AllPlaced(c, R)
  BY <1>2, KvaDotPlaced
<1>5. StageB(c, l) = Cat(S, R)
  BY <1>1, <1>2 DEF StageB, Cat
<1> QED
  BY <1>3, <1>4, <1>5, CatPlaced

LEMMA StageCPlaced ==
  ASSUME NEW c, c.m \in Nat, NEW l
  PROVE  AllPlaced(c, StageC(c, l))
<1> DEFINE S(p) == Op(<<"kn", l, p>>, << <<"kva", l, p>> >>,
                      {<<"kva", l, p>>}, {<<"ckv", l, p>>})
           R(p) == Quantize(<<"kq8", l, p>>, <<"kn", l, p>>, {<<"ckv", l, p>>})
           F == [p \in 1 .. c.m |-> Cat(S(p), R(p))]
<1>1. StageC(c, l) = FlattenSeq(F)
  BY DEF StageC, ForEach, Cat
<1>2. ASSUME NEW p \in 1 .. c.m  PROVE AllPlaced(c, F[p])
  <2>1. AllPlaced(c, S(p)) /\ AllPlaced(c, R(p))
    BY KnPlaced, Kq8Placed
  <2>2. F[p] = Cat(S(p), R(p))
    OBVIOUS
  <2> HIDE DEF S, R, F
  <2> QED BY <2>1, <2>2, CatPlaced
<1>3. F = [p \in 1 .. c.m |-> F[p]]
  OBVIOUS
<1> HIDE DEF F
<1> QED
  BY <1>1, <1>2, <1>3, EachPlaced

LEMMA StageDPlaced ==
  ASSUME NEW c, c.m \in Nat, NEW l
  PROVE  AllPlaced(c, StageD(c, l))
BY KvbDotPlaced DEF StageD

LEMMA StageFPlaced ==
  ASSUME NEW c, c.m \in Nat, NEW l
  PROVE  AllPlaced(c, StageF(c, l))
BY AoDotPlaced DEF StageF

LEMMA RotateAndAppendPlaced ==
  ASSUME NEW c, NEW l, NEW p
  PROVE  AllPlaced(c, RotateAndAppend(l, p))
<1>1. PICK S1 : S1 = Op(<<"rq", l, p>>, << <<"q", l, p>> >>,
                        {<<"qb", l, p>>}, {<<"qb", l, p>>})
  OBVIOUS
<1>2. PICK S2 : S2 = Op(<<"rk", l, p>>, << <<"kva", l, p>> >>,
                        {<<"kpe", l, p>>}, {<<"kpe", l, p>>})
  OBVIOUS
<1>3. PICK S3 : S3 = Op(<<"app", l, p>>, << <<"kvb", l, p>>, <<"rk", l, p>> >>,
                        {<<"kvb", l, p>>, <<"kpe", l, p>>}, {<<"kv", l, p>>})
  OBVIOUS
<1>4. AllPlaced(c, S1)
  BY <1>1, RqPlaced
<1>5. AllPlaced(c, S2)
  BY <1>2, RkPlaced
<1>6. AllPlaced(c, S3)
  BY <1>3, AppPlaced
<1>7. RotateAndAppend(l, p) = Cat(Cat(S1, S2), S3)
  BY <1>1, <1>2, <1>3 DEF RotateAndAppend
<1> HIDE <1>1, <1>2, <1>3
<1> QED
  BY <1>4, <1>5, <1>6, <1>7, CatPlaced

LEMMA HeadsPlaced ==
  ASSUME NEW c, c.heads \in Nat, NEW l, NEW p \in Nat
  PROVE  AllPlaced(c, HeadsOf(c, l, p))
<1> DEFINE F == [h \in 1 .. c.heads |->
                   Op(<<"attn", l, p, h>>, << <<"rq", l, p>>, AppCum(l, p) >>,
                      {<<"qb", l, p>>} \cup KvRows(l, p), {<<"ctx", l, p, h>>})]
<1>1. HeadsOf(c, l, p) = FlattenSeq(F)
  BY DEF HeadsOf, ForEach
<1>2. \A h \in 1 .. c.heads : AllPlaced(c, F[h])
  BY AttnPlaced
<1>3. F = [h \in 1 .. c.heads |-> F[h]]
  OBVIOUS
<1> HIDE DEF F
<1> QED
  BY <1>1, <1>2, <1>3, EachPlaced

LEMMA AttentionPlaced ==
  ASSUME NEW c, c.heads \in Nat, NEW l, NEW p \in Nat \ {0}
  PROVE  AllPlaced(c, AttentionOf(c, l, p))
<1>1. PICK S1 : S1 = RotateAndAppend(l, p)
  OBVIOUS
<1>2. PICK S2 : S2 = CumCall(l, p)
  OBVIOUS
<1>3. PICK S3 : S3 = HeadsOf(c, l, p)
  OBVIOUS
<1>4. PICK S4 : S4 = JoinOf(c, l, p)
  OBVIOUS
<1>5. PICK S5 : S5 = Quantize(<<"cq8", l, p>>, <<"heads", l, p>>, Contexts(c, l, p))
  OBVIOUS
<1>6. AllPlaced(c, S1) /\ AllPlaced(c, S2)
  BY <1>1, <1>2, RotateAndAppendPlaced, CumPlaced
<1>7. AllPlaced(c, S3) /\ AllPlaced(c, S4)
  BY <1>3, <1>4, HeadsPlaced, JoinPlaced
<1>8. AllPlaced(c, S5)
  BY <1>5, Cq8Placed
<1>9. AttentionOf(c, l, p) = Cat(Cat(Cat(Cat(S1, S2), S3), S4), S5)
  BY <1>1, <1>2, <1>3, <1>4, <1>5 DEF AttentionOf
<1> HIDE <1>1, <1>2, <1>3, <1>4, <1>5
<1> QED
  BY <1>6, <1>7, <1>8, <1>9, CatPlaced

LEMMA StageEPlaced ==
  ASSUME NEW c, c.m \in Nat, c.heads \in Nat, NEW l
  PROVE  AllPlaced(c, StageE(c, l))
<1> DEFINE F == [p \in 1 .. c.m |-> AttentionOf(c, l, p)]
<1>1. StageE(c, l) = FlattenSeq(F)
  BY DEF StageE, AttentionOf, RotateAndAppend, CumCall, HeadsOf, JoinOf, ForEach, Cat
<1>2. \A p \in 1 .. c.m : AllPlaced(c, F[p])
  BY AttentionPlaced
<1>3. F = [p \in 1 .. c.m |-> F[p]]
  OBVIOUS
<1> HIDE DEF F
<1> QED
  BY <1>1, <1>2, <1>3, EachPlaced

LEMMA StageGPlaced ==
  ASSUME NEW c, c.m \in Nat, NEW l
  PROVE  AllPlaced(c, StageG(c, l))
<1> DEFINE S1(p) == Op(<<"x2", l, p>>, << <<"ao", l, p>> >> \o ResDep(l, p),
                       {Res(l, p), <<"ao", l, p>>}, {<<"x2", l, p>>})
           S2(p) == Op(<<"fn", l, p>>, << <<"x2", l, p>> >>,
                       {<<"x2", l, p>>}, {<<"xf", l, p>>})
           S3(p) == Quantize(<<"fq8", l, p>>, <<"fn", l, p>>, {<<"xf", l, p>>})
           F == [p \in 1 .. c.m |-> Cat(Cat(S1(p), S2(p)), S3(p))]
<1>1. StageG(c, l) = FlattenSeq(F)
  BY DEF StageG, ForEach, Cat
<1>2. ASSUME NEW p \in 1 .. c.m  PROVE AllPlaced(c, F[p])
  <2>1. AllPlaced(c, S1(p))
    BY X2Placed
  <2>2. AllPlaced(c, S2(p))
    BY FnPlaced
  <2>3. AllPlaced(c, S3(p))
    BY Fq8Placed
  <2>4. F[p] = Cat(Cat(S1(p), S2(p)), S3(p))
    OBVIOUS
  <2> HIDE DEF S1, S2, S3, F
  <2> QED BY <2>1, <2>2, <2>3, <2>4, CatPlaced
<1>3. F = [p \in 1 .. c.m |-> F[p]]
  OBVIOUS
<1> HIDE DEF F
<1> QED
  BY <1>1, <1>2, <1>3, EachPlaced

LEMMA SharedFfnPlaced ==
  ASSUME NEW c, c.m \in Nat, NEW l
  PROVE  AllPlaced(c, SharedFfn(c, l))
<1> DEFINE S(p) == Op(<<"silu", l, p>>, << <<"gate", l, p>>, <<"up", l, p>> >>,
                      {<<"g", l, p>>, <<"u", l, p>>}, {<<"h", l, p>>})
           R(p) == Quantize(<<"hq8", l, p>>, <<"silu", l, p>>, {<<"h", l, p>>})
           F == [p \in 1 .. c.m |-> Cat(S(p), R(p))]
<1>1. PICK A : A = StageDot(c, "gate", l, "fq8", Columns(c, "xf", l), Columns(c, "g", l))
  OBVIOUS
<1>2. PICK B : B = StageDot(c, "up", l, "fq8", Columns(c, "xf", l), Columns(c, "u", l))
  OBVIOUS
<1>3. PICK E : E = FlattenSeq(F)
  OBVIOUS
<1>4. PICK G : G = StageDot(c, "down", l, "hq8", Columns(c, "h", l), Columns(c, "d", l))
  OBVIOUS
<1>5. SharedFfn(c, l) = Cat(Cat(Cat(A, B), E), G)
  BY <1>1, <1>2, <1>3, <1>4 DEF SharedFfn, ForEach, Cat
<1>6. AllPlaced(c, A)
  BY <1>1, GateDotPlaced
<1>7. AllPlaced(c, B)
  BY <1>2, UpDotPlaced
<1>8. AllPlaced(c, G)
  BY <1>4, DownDotPlaced
<1>9. AllPlaced(c, E)
  <2>1. ASSUME NEW p \in 1 .. c.m  PROVE AllPlaced(c, F[p])
    <3>1. AllPlaced(c, S(p)) /\ AllPlaced(c, R(p))
      BY SiluPlaced, Hq8Placed
    <3>2. F[p] = Cat(S(p), R(p))
      OBVIOUS
    <3> HIDE DEF S, R, F
    <3> QED BY <3>1, <3>2, CatPlaced
  <2>2. F = [p \in 1 .. c.m |-> F[p]]
    OBVIOUS
  <2> HIDE DEF F
  <2> QED BY <1>3, <2>1, <2>2, EachPlaced
<1> HIDE DEF F
<1> HIDE <1>1, <1>2, <1>3, <1>4
<1> QED
  BY <1>5, <1>6, <1>7, <1>8, <1>9, CatPlaced

LEMMA DenseMergePlaced ==
  ASSUME NEW c, c.m \in Nat, NEW l
  PROVE  AllPlaced(c, DenseMerge(c, l))
<1> DEFINE F == [p \in 1 .. c.m |->
                   Op(<<"out", l, p>>, << <<"down", l, p>>, <<"x2", l, p>> >>,
                      {<<"d", l, p>>, <<"x2", l, p>>}, {<<"xo", l, p>>})]
<1>1. DenseMerge(c, l) = FlattenSeq(F)
  BY DEF DenseMerge, ForEach
<1>2. \A p \in 1 .. c.m : AllPlaced(c, F[p])
  BY OutPlaced
<1>3. F = [p \in 1 .. c.m |-> F[p]]
  OBVIOUS
<1> HIDE DEF F
<1> QED
  BY <1>1, <1>2, <1>3, EachPlaced

LEMMA RoutersPlaced ==
  ASSUME NEW c, c.m \in Nat, NEW l
  PROVE  AllPlaced(c, Routers(c, l))
<1> DEFINE S(p) == Dot(<<"rl", l, p>>, << <<"fn", l, p>> >>,
                       {<<"xf", l, p>>}, {<<"rlog", l, p>>})
           R(p) == Op(<<"rt", l, p>>, << <<"rl", l, p>> >>,
                      {<<"rlog", l, p>>}, {<<"ids", l, p>>})
           F == [p \in 1 .. c.m |-> Cat(S(p), R(p))]
<1>1. Routers(c, l) = FlattenSeq(F)
  BY DEF Routers, ForEach, Cat
<1>2. ASSUME NEW p \in 1 .. c.m  PROVE AllPlaced(c, F[p])
  <2>1. AllPlaced(c, S(p)) /\ AllPlaced(c, R(p))
    BY RlPlaced, RtPlaced
  <2>2. F[p] = Cat(S(p), R(p))
    OBVIOUS
  <2> HIDE DEF S, R, F
  <2> QED BY <2>1, <2>2, CatPlaced
<1>3. F = [p \in 1 .. c.m |-> F[p]]
  OBVIOUS
<1> HIDE DEF F
<1> QED
  BY <1>1, <1>2, <1>3, EachPlaced

LEMMA ExpertPlaced ==
  ASSUME NEW c, NEW l, NEW p \in 1 .. c.m, NEW s
  PROVE  AllPlaced(c, ExpertOf(c, l, p, s))
<1> DEFINE routed == << <<"fq8", l, p>>, RouterDep(c, l, p) >>
           inputs == WithQ8({<<"xf", l, p>>}) \cup {<<"ids", l, p>>}
<1>1. PICK S1 : S1 = Dot(<<"ge", l, p, s>>, routed, inputs, {<<"geb", l, p, s>>})
  OBVIOUS
<1>2. PICK S2 : S2 = Dot(<<"ue", l, p, s>>, routed, inputs, {<<"ueb", l, p, s>>})
  OBVIOUS
<1>3. PICK S3 : S3 = Op(<<"se", l, p, s>>, << <<"ge", l, p, s>>, <<"ue", l, p, s>> >>,
                        {<<"geb", l, p, s>>, <<"ueb", l, p, s>>}, {<<"he", l, p, s>>})
  OBVIOUS
<1>4. PICK S4 : S4 = Quantize(<<"eq8", l, p, s>>, <<"se", l, p, s>>, {<<"he", l, p, s>>})
  OBVIOUS
<1>5. PICK S5 : S5 = Dot(<<"downE", l, p, s>>, << <<"eq8", l, p, s>> >>,
                         WithQ8({<<"he", l, p, s>>}) \cup {<<"ids", l, p>>},
                         {<<"de", l, p, s>>})
  OBVIOUS
<1>6. AllPlaced(c, S1)
  BY <1>1, GePlaced
<1>7. AllPlaced(c, S2)
  BY <1>2, UePlaced
<1>8. AllPlaced(c, S3)
  BY <1>3, SePlaced
<1>9. AllPlaced(c, S4)
  BY <1>4, Eq8Placed
<1>10. AllPlaced(c, S5)
  BY <1>5, DownEPlaced
<1>11. ExpertOf(c, l, p, s) = Cat(Cat(Cat(Cat(S1, S2), S3), S4), S5)
  BY <1>1, <1>2, <1>3, <1>4, <1>5 DEF ExpertOf
<1> HIDE <1>1, <1>2, <1>3, <1>4, <1>5
<1> HIDE DEF routed, inputs
<1> QED
  BY <1>6, <1>7, <1>8, <1>9, <1>10, <1>11, CatPlaced

LEMMA RoutedPlaced ==
  ASSUME NEW c, NEW l, NEW p \in 1 .. c.m, Experts(c, p) \in Nat \ {0}
  PROVE  AllPlaced(c, RoutedOf(c, l, p))
<1> DEFINE F == [s \in 1 .. Experts(c, p) |-> ExpertOf(c, l, p, s)]
<1>1. PICK S : S = ExpertsOf(c, l, p)
  OBVIOUS
<1>2. PICK R : R = FanInOf(<<"downs", l, p>>,
                           [s \in 1 .. Experts(c, p) |-> <<"downE", l, p, s>>])
  OBVIOUS
<1>3. S = FlattenSeq(F)
  BY <1>1 DEF ExpertsOf, ForEach
<1>4. \A s \in 1 .. Experts(c, p) : AllPlaced(c, F[s])
  BY ExpertPlaced
<1>5. F = [s \in 1 .. Experts(c, p) |-> F[s]]
  OBVIOUS
<1> HIDE DEF F
<1>6. AllPlaced(c, S)
  BY <1>3, <1>4, <1>5, EachPlaced
<1>7. AllPlaced(c, R)
  BY <1>2, DownsPlaced
<1>8. RoutedOf(c, l, p) = Cat(S, R)
  BY <1>1, <1>2 DEF RoutedOf
<1> QED
  BY <1>6, <1>7, <1>8, CatPlaced

LEMMA RoutedExpertsPlaced ==
  ASSUME NEW c, c.m \in Nat, \A p \in 1 .. c.m : Experts(c, p) \in Nat \ {0}, NEW l
  PROVE  AllPlaced(c, RoutedExperts(c, l))
<1> DEFINE F == [p \in 1 .. c.m |-> RoutedOf(c, l, p)]
<1>1. RoutedExperts(c, l) = FlattenSeq(F)
  BY DEF RoutedExperts, RoutedOf, ExpertsOf, ExpertOf, ForEach, Cat
<1>2. \A p \in 1 .. c.m : AllPlaced(c, F[p])
  BY RoutedPlaced
<1>3. F = [p \in 1 .. c.m |-> F[p]]
  OBVIOUS
<1> HIDE DEF F
<1> QED
  BY <1>1, <1>2, <1>3, EachPlaced

LEMMA MoeMergePlaced ==
  ASSUME NEW c, c.m \in Nat, NEW l
  PROVE  AllPlaced(c, MoeMerge(c, l))
<1> DEFINE F == [p \in 1 .. c.m |->
                   Op(<<"out", l, p>>,
                      << <<"downs", l, p>>, <<"down", l, p>>, <<"x2", l, p>> >>,
                      ExpertParts(c, l, p)
                        \cup {<<"ids", l, p>>, <<"d", l, p>>, <<"x2", l, p>>},
                      {<<"xo", l, p>>})]
<1>1. MoeMerge(c, l) = FlattenSeq(F)
  BY DEF MoeMerge, ForEach
<1>2. \A p \in 1 .. c.m : AllPlaced(c, F[p])
  BY MoeOutPlaced
<1>3. F = [p \in 1 .. c.m |-> F[p]]
  OBVIOUS
<1> HIDE DEF F
<1> QED
  BY <1>1, <1>2, <1>3, EachPlaced

LEMMA StageHPlaced ==
  ASSUME NEW c, c.m \in Nat, \A p \in 1 .. c.m : Experts(c, p) \in Nat \ {0}, NEW l
  PROVE  AllPlaced(c, StageH(c, l))
<1>1. /\ AllPlaced(c, SharedFfn(c, l)) /\ AllPlaced(c, DenseMerge(c, l))
      /\ AllPlaced(c, Routers(c, l)) /\ AllPlaced(c, Barrier(c, l))
      /\ AllPlaced(c, RoutedExperts(c, l)) /\ AllPlaced(c, MoeMerge(c, l))
  BY SharedFfnPlaced, DenseMergePlaced, RoutersPlaced, BarrierPlaced, RoutedExpertsPlaced,
     MoeMergePlaced
<1>2. CASE c.layers[l] = "dense"
  <2>1. StageH(c, l) = Cat(SharedFfn(c, l), DenseMerge(c, l))
    BY <1>2 DEF StageH, Cat
  <2> QED BY <1>1, <2>1, CatPlaced
<1>3. CASE c.layers[l] # "dense"
  <2>1. StageH(c, l) = Cat(Cat(Cat(Cat(Routers(c, l), Barrier(c, l)), RoutedExperts(c, l)),
                               SharedFfn(c, l)), MoeMerge(c, l))
    BY <1>3 DEF StageH, Cat
  <2> QED BY <1>1, <2>1, CatPlaced
<1> QED
  BY <1>2, <1>3

LEMMA LayerPlaced ==
  ASSUME NEW c, c.m \in Nat, c.heads \in Nat,
         \A p \in 1 .. c.m : Experts(c, p) \in Nat \ {0}, NEW l
  PROVE  AllPlaced(c, Layer(c, l))
<1>1. /\ AllPlaced(c, StageA(c, l)) /\ AllPlaced(c, StageB(c, l))
      /\ AllPlaced(c, StageC(c, l)) /\ AllPlaced(c, StageD(c, l))
  BY StageAPlaced, StageBPlaced, StageCPlaced, StageDPlaced
<1>2. /\ AllPlaced(c, StageE(c, l)) /\ AllPlaced(c, StageF(c, l))
      /\ AllPlaced(c, StageG(c, l)) /\ AllPlaced(c, StageH(c, l))
  BY StageEPlaced, StageFPlaced, StageGPlaced, StageHPlaced
<1>3. Layer(c, l) =
        Cat(Cat(Cat(Cat(Cat(Cat(Cat(StageA(c, l), StageB(c, l)), StageC(c, l)),
            StageD(c, l)), StageE(c, l)), StageF(c, l)), StageG(c, l)), StageH(c, l))
  BY DEF Layer, Cat
<1> QED
  BY <1>1, <1>2, <1>3, CatPlaced

LEMMA FinalNormPlaced ==
  ASSUME NEW c, c.m \in Nat
  PROVE  AllPlaced(c, FinalNorm(c))
<1>1. PICK last : last = Len(c.layers) + 1
  OBVIOUS
<1> DEFINE S(p) == Op(<<"fnorm", last, p>>, ResDep(last, p), {Res(last, p)},
                      {<<"xF", last, p>>})
           R(p) == Quantize(<<"Fq8", last, p>>, <<"fnorm", last, p>>, {<<"xF", last, p>>})
           F == [p \in 1 .. c.m |-> Cat(S(p), R(p))]
<1>2. FinalNorm(c) = FlattenSeq(F)
  BY <1>1 DEF FinalNorm, ForEach, Cat
<1>3. ASSUME NEW p \in 1 .. c.m  PROVE AllPlaced(c, F[p])
  <2>1. AllPlaced(c, S(p)) /\ AllPlaced(c, R(p))
    BY FnormPlaced, FinalQ8Placed
  <2>2. F[p] = Cat(S(p), R(p))
    OBVIOUS
  <2> HIDE DEF S, R, F
  <2> QED BY <2>1, <2>2, CatPlaced
<1>4. F = [p \in 1 .. c.m |-> F[p]]
  OBVIOUS
<1> HIDE DEF F
<1> QED
  BY <1>2, <1>3, <1>4, EachPlaced

LEMMA BodyPlaced ==
  ASSUME NEW c, IsConfig(c)
  PROVE  AllPlaced(c, Body(c))
<1>1. /\ c.m \in Nat /\ c.heads \in Nat /\ Len(c.layers) \in Nat
      /\ \A p \in 1 .. c.m : Experts(c, p) \in Nat \ {0}
  BY ConfigFacts, ExpertsAreSome
<1> DEFINE F == [l \in 1 .. Len(c.layers) |-> Layer(c, l)]
<1>2. LayersOf(c) = FlattenSeq(F) /\ F = [l \in 1 .. Len(c.layers) |-> F[l]]
  BY DEF LayersOf, ForEach
<1>3. \A l \in 1 .. Len(c.layers) : AllPlaced(c, F[l])
  BY <1>1, LayerPlaced
<1> HIDE DEF F
<1>4. AllPlaced(c, LayersOf(c))
  BY <1>1, <1>2, <1>3, EachPlaced
<1>5. AllPlaced(c, FinalNorm(c))
  BY <1>1, FinalNormPlaced
<1>6. AllPlaced(c, HeadPart(c))
  BY <1>1, HeadDotPlaced, NonePlaced DEF HeadPart
<1> QED
  BY <1>4, <1>5, <1>6, CatPlaced DEF Body

(* All calls but the terminal are in their places.                         *)
LEMMA ScriptPlaced ==
  ASSUME NEW c, IsConfig(c), NEW S, S = Script(c), NEW n \in Nat, Len(S) = n + 1
  PROVE  PlacedUpTo(c, S, n)
<1>1. PICK B, T, b, t : B = Body(c) /\ T = TerminalCall(c) /\ b = Len(B) /\ t = Len(T)
  OBVIOUS
<1>2. S = Cat(B, T)
  BY <1>1, ScriptIsBody
<1>3. AllPlaced(c, B)
  BY <1>1, BodyPlaced
<1>4. PICK it : T = <<it>>
  BY <1>1, TerminalIsOK
<1>5. IsSequence(T) /\ t = 1
  <2>1. T \in Seq({it}) /\ Len(T) = 1
    BY <1>4
  <2> QED BY <1>1, <2>1 DEF IsSequence
<1>6. Joins(S, B, T, b, 1)
  BY <1>1, <1>2, <1>3, <1>5, ConcatJoins DEF AllPlaced
<1>7. n = b /\ \A i \in 1 .. b : S[i] = B[i]
  BY <1>6 DEF Joins
<1> QED
  BY <1>1, <1>3, <1>7 DEF AllPlaced, PlacedUpTo

--------------------------------------------------------------------------------
(* The finished graph has no races.                                        *)

Tracing(S, n, E, k, of) ==
  /\ Building(S, n, E, k)
  /\ PlacedUpTo(config, S, n) /\ Traced(graph, sigs, S, k, config.tiles, of)

Apart(g) == Finished(g) /\ NoRaces(g) /\ DotsAddToSlots(g)

(* The tasks of the calls made so far are where the script has them, or    *)
(* all are there.                                                          *)
TraceInv ==
  /\ config \in Configs
  /\ \/ pc = "build" /\ \E S, n, E, k, of : Tracing(S, n, E, k, of)
     \/ todo = <<>> /\ Apart(graph)

LEMMA NothingTraced ==
  ASSUME NEW S, NEW tiles, NEW g, g = EmptyGraph
  PROVE  Traced(g, <<>>, S, 0, tiles, <<>>)
<1>1. TaskIds(g) = {} /\ 1 .. 0 = {}
  BY EmptyGraphIsGood
<1> QED
  BY <1>1 DEF Traced

LEMMA InitTraces ==
  Init => TraceInv
<1> SUFFICES ASSUME Init  PROVE TraceInv
  OBVIOUS
<1>1. /\ config \in Configs /\ pc = "build" /\ todo = Script(config)
      /\ graph = EmptyGraph /\ sigs = <<>>
  BY DEF Init
<1>2. IsConfig(config)
  BY <1>1, ConfigAssumption
<1>3. PICK S : S = Script(config)
  OBVIOUS
<1>4. PICK n, E : ScriptOK(S, n, E) /\ TerminalOK(S[n + 1], E)
  BY <1>2, <1>3, ScriptShape
<1>5. n \in Nat /\ IsSequence(S) /\ Len(S) = n + 1
  BY <1>4 DEF ScriptOK
<1>6. Rest(todo, S, n, 0)
  <2>1. (n + 1) - 0 = n + 1 /\ \A i \in 1 .. n + 1 : 0 + i = i
    BY <1>5
  <2> QED BY <1>1, <1>3, <1>5, <2>1 DEF Rest
<1>7. Built(graph, sigs, S, E, 0)
  <2>1. NamedBy(S, 0) = {} /\ DOMAIN sigs = {}
    <3>1. 1 .. 0 = {}
      OBVIOUS
    <3> QED BY <1>1, <3>1, EmptySequence DEF NamedBy
  <2> QED BY <1>1, <2>1, EmptyGraphIsGood DEF Built
<1>8. Building(S, n, E, 0)
  BY <1>4, <1>5, <1>6, <1>7 DEF Building
<1>9. PlacedUpTo(config, S, n)
  BY <1>2, <1>3, <1>5, ScriptPlaced
<1>10. Traced(graph, sigs, S, 0, config.tiles, <<>>)
  BY <1>1, NothingTraced
<1>11. Tracing(S, n, E, 0, <<>>)
  BY <1>8, <1>9, <1>10 DEF Tracing
<1> QED
  BY <1>1, <1>11 DEF TraceInv

LEMMA ClosesComputes ==
  ASSUME NEW g, NEW h, NEW sig, NEW P, Closes(g, h, sig, P), NEW it, NEW k
  PROVE  Called(g, h, sig, P) /\ Computes(g, h, sig, P, it, k)
  BY DEF Closes, Computes

(* A graph of which all calls are traced is apart.                         *)
LEMMA TracedIsApart ==
  ASSUME NEW c, NEW tiles, tiles \in Nat, NEW S, NEW n, NEW E, ScriptOK(S, n, E),
         PlacedUpTo(c, S, n),
         NEW it, it = S[n + 1], TerminalOK(it, E),
         NEW g, NEW names, Built(g, names, S, E, n),
         NEW of, Traced(g, names, S, n, tiles, of),
         NEW P, P = { names[x] : x \in Used(it) },
         NEW h, NEW sig, Called(g, h, sig, P), Computes(g, h, sig, P, it, tiles)
  PROVE  NoRaces(h) /\ DotsAddToSlots(h)
<1>1. n \in Nat /\ n <= n
  BY DEF ScriptOK
<1>2. DOMAIN names = NamedBy(S, n) /\ \A x \in NamedBy(S, n) : names[x] \in TaskIds(g)
  BY DEF Built, Legal
<1>3. PICK names2 : names2 = NamesAfter(names, it, sig)
  OBVIOUS
<1>4. PICK of2 : Traced(h, names2, S, n + 1, tiles, of2)
  BY <1>1, <1>2, <1>3, TracedMore
<1>5. PICK k1 : k1 = n + 1
  OBVIOUS
<1>6. Traced(h, names2, S, k1, tiles, of2) /\ S[n + 1].kind = "terminal"
  BY <1>4, <1>5 DEF TerminalOK
<1> QED
  BY <1>5, <1>6, TracedHasNoRaces

LEMMA BuildTraces ==
  ASSUME TraceInv, Build
  PROVE  TraceInv'
<1>1. /\ pc = "build" /\ todo # <<>> /\ config' = config /\ todo' = Tail(todo)
      /\ graph' = Made(Head(todo)).graph
      /\ sigs' = NamesAfter(sigs, Head(todo), Made(Head(todo)).sig)
      /\ pc' = IF Made(Head(todo)).graph.died THEN "died" ELSE pc
  BY DEF Build, NamesAfter
<1>2. PICK S, n, E, k, of : Tracing(S, n, E, k, of)
  BY <1>1 DEF TraceInv
<1>3. config \in Configs /\ config.tiles \in Nat \ {0}
  <2>1. config \in Configs
    BY DEF TraceInv
  <2>2. IsConfig(config)
    BY <2>1, ConfigAssumption
  <2> QED BY <2>1, <2>2, ConfigFacts
<1>4. /\ ScriptOK(S, n, E) /\ TerminalOK(S[n + 1], E) /\ k \in Nat /\ k <= n
      /\ Rest(todo, S, n, k) /\ Built(graph, sigs, S, E, k) /\ n \in Nat
      /\ PlacedUpTo(config, S, n) /\ Traced(graph, sigs, S, k, config.tiles, of)
  BY <1>2 DEF Tracing, Building, ScriptOK
<1>5. /\ Head(todo) = S[k + 1] /\ Rest(Tail(todo), S, n, k + 1)
      /\ k = n => Tail(todo) = <<>>
  BY <1>4, RestNext
<1>6. PICK it : it = S[k + 1]
  OBVIOUS
<1>7. PICK P : P = { sigs[x] : x \in Used(it) }
  OBVIOUS
<1>8. CASE k = n
  <2>1. it = S[n + 1] /\ TerminalOK(it, E) /\ it.kind = "terminal"
    BY <1>4, <1>6, <1>8 DEF TerminalOK
  <2>2. PICK ids : ids = [i \in DOMAIN it.deps |-> sigs[it.deps[i]]]
    OBVIOUS
  <2>3. PICK op : op = AddTerminal(graph, ids)
    OBVIOUS
  <2>4. Made(it) = op
    BY <2>1, <2>2, <2>3, MadeTerminal
  <2>5. Built(graph, sigs, S, E, n) /\ Traced(graph, sigs, S, n, config.tiles, of)
    BY <1>4, <1>8
  <2>6. Finished(op.graph) /\ Closes(graph, op.graph, op.sig, P)
    BY <1>4, <1>7, <2>1, <2>2, <2>3, <2>5, TerminalBuilt
  <2>7. PICK h, z : h = op.graph /\ z = op.sig
    OBVIOUS
  <2>8. Called(graph, h, z, P) /\ Computes(graph, h, z, P, it, config.tiles)
    BY <2>6, <2>7, ClosesComputes
  <2>9. NoRaces(h) /\ DotsAddToSlots(h)
    BY <1>3, <1>4, <1>7, <2>1, <2>5, <2>8, TracedIsApart
  <2>10. graph' = h /\ todo' = <<>>
    BY <1>1, <1>5, <1>6, <1>8, <2>4, <2>7
  <2>11. Apart(graph')
    BY <2>6, <2>7, <2>9, <2>10 DEF Apart
  <2> QED BY <1>1, <1>3, <2>10, <2>11 DEF TraceInv
<1>9. CASE k # n
  <2>1. PICK k1 \in 1 .. n : k1 = k + 1
    BY <1>4, <1>9
  <2>2. IsCall(it) /\ Good(graph) /\ \A x \in Used(it) : Legal(graph, sigs[x])
    <3>1. IsCall(it)
      BY <1>4, <1>6, <2>1 DEF ScriptOK
    <3> QED BY <1>4, <1>6, <2>1, <3>1, UsedIsLegal
  <2>3. PICK h, z : h = Made(it).graph /\ z = Made(it).sig
    OBVIOUS
  <2>4. Called(graph, h, z, P)
    BY <1>3, <1>7, <2>2, <2>3, MadeCalled
  <2>5. Computes(graph, h, z, P, it, config.tiles)
    BY <1>3, <1>7, <2>2, <2>3, MadeComputes
  <2>6. graph' = h /\ sigs' = NamesAfter(sigs, it, z)
    BY <1>1, <1>5, <1>6, <2>3
  <2>7. Built(graph', sigs', S, E, k1)
    BY <1>4, <1>6, <1>7, <2>1, <2>4, <2>6, CallBuilt
  <2>8. pc' = "build"
    <3>1. Good(graph')
      BY <2>4, <2>6 DEF Called, Extends
    <3> QED BY <1>1, <1>5, <1>6, <2>3, <2>6, <3>1 DEF Good
  <2>9. Rest(todo', S, n, k1) /\ k1 \in Nat /\ k1 <= n
    BY <1>1, <1>4, <1>5, <2>1
  <2>10. Building(S, n, E, k1)'
    BY <1>4, <2>7, <2>9 DEF Building
  <2>11. \E of2 : Traced(h, sigs', S, k1, config.tiles, of2)
    <3>1. DOMAIN sigs = NamedBy(S, k)
          /\ \A x \in NamedBy(S, k) : sigs[x] \in TaskIds(graph)
      BY <1>4 DEF Built, Legal
    <3>2. PICK names2 : names2 = NamesAfter(sigs, it, z)
      OBVIOUS
    <3>3. \E of2 : Traced(h, names2, S, k + 1, config.tiles, of2)
      BY <1>4, <1>6, <1>7, <2>4, <2>5, <3>1, <3>2, TracedMore
    <3> QED BY <2>1, <2>6, <3>2, <3>3
  <2>12. PICK of2 : Traced(h, sigs', S, k1, config.tiles, of2)
    BY <2>11
  <2>13. Tracing(S, n, E, k1, of2)'
    BY <1>1, <1>4, <2>6, <2>10, <2>12 DEF Tracing
  <2> QED BY <1>1, <1>3, <2>8, <2>13 DEF TraceInv
<1> QED
  BY <1>8, <1>9

LEMMA NextTraces ==
  ASSUME TraceInv, [Next]_vars
  PROVE  TraceInv'
<1>1. CASE Build
  BY <1>1, BuildTraces
<1>2. CASE UNCHANGED <<config, pc, todo, graph, sigs>>
  BY <1>2 DEF TraceInv, Tracing, Building
<1>3. ASSUME config' = config, todo' = todo, graph' = graph,
             pc # "build" \/ todo = <<>>
      PROVE  TraceInv'
  <2>1. todo = <<>> /\ Apart(graph)
    <3>1. ASSUME NEW S, NEW n, NEW E, NEW k, NEW of, Tracing(S, n, E, k, of)
          PROVE  todo # <<>>
      <4>1. Rest(todo, S, n, k) /\ n \in Nat /\ k \in Nat /\ k <= n
        BY <3>1 DEF Tracing, Building, ScriptOK
      <4> QED BY <4>1, RestNext
    <3> QED BY <1>3, <3>1 DEF TraceInv
  <2> QED BY <1>3, <2>1 DEF TraceInv
<1>4. CASE BeginFreeze
  BY <1>3, <1>4 DEF BeginFreeze
<1>5. CASE FreezePop
  BY <1>3, <1>5 DEF FreezePop
<1>6. CASE EndFreeze
  BY <1>3, <1>6 DEF EndFreeze
<1>7. CASE BeginPass
  BY <1>3, <1>7 DEF BeginPass
<1>8. CASE Execute
  BY <1>3, <1>8 DEF Execute
<1>9. CASE EndPass
  BY <1>3, <1>9 DEF EndPass
<1>10. CASE UNCHANGED vars
  BY <1>2, <1>10 DEF vars
<1> QED
  BY <1>1, <1>4, <1>5, <1>6, <1>7, <1>8, <1>9, <1>10 DEF Next

--------------------------------------------------------------------------------
(* What the loop has popped, and what waits for what.                      *)

SetOf(s) == { s[i] : i \in 1 .. Len(s) }

(* A task comes after all that leads to it, and it before what it leads to.*)
LEMMA PoppedIsClosed ==
  ASSUME NEW g, NEW D, NEW dp, NEW rd, NEW s, Popped(g, D, dp, rd, s),
         NEW x \in TaskIds(g), NEW a \in D, Reaches(g, x, a)
  PROVE  x \in D
<1>1. Lists(s, D) /\ InOrder(g, s) /\ D \subseteq TaskIds(g)
  BY DEF Popped, Counting
<1>2. ASSUME NEW p \in TaskIds(g), NEW b \in D, Leads(g, p, b)  PROVE p \in D
  <2>1. PICK n \in Nat : n = Len(s)
    <3>1. IsSequence(s)
      BY <1>1 DEF Lists
    <3> QED BY <3>1, SequenceFacts
  <2>2. D = { s[i] : i \in 1 .. n }
    BY <1>1, <2>1 DEF Lists
  <2>3. PICK i \in 1 .. n : s[i] = b
    BY <2>2
  <2>4. PICK j \in 1 .. i - 1 : s[j] = p
    BY <1>1, <1>2, <2>1, <2>3 DEF InOrder
  <2>5. j \in 1 .. n
    OBVIOUS
  <2> QED BY <2>2, <2>4, <2>5
<1> DEFINE S == TaskIds(g) \ D
<1>3. SUFFICES ASSUME x \notin D  PROVE FALSE
  OBVIOUS
<1>4. S \in SUBSET TaskIds(g) /\ x \in S
  BY <1>3
<1>5. \A p \in S, b \in TaskIds(g) : Leads(g, p, b) => b \in S
  BY <1>2
<1> HIDE DEF S
<1>6. a \in S
  BY <1>4, <1>5 DEF Reaches
<1> QED
  BY <1>6 DEF S

LEMMA LatestLeadsNowhere ==
  ASSUME NEW g, NEW D, NEW dp, NEW rd, NEW s, Popped(g, D, dp, rd, s),
         NEW C, NEW r, Lists(r, C), NEW t, t \notin C, t \in TaskIds(g), s = Append(r, t),
         NEW a \in D
  PROVE  ~Leads(g, t, a)
<1>1. PICK A : r \in Seq(A)
  BY DEF Lists, IsSequence
<1>2. PICK n \in Nat : n = Len(r)
  BY <1>1
<1>3. Len(s) = n + 1 /\ s[n + 1] = t
  <2>1. r \in Seq(A \cup {t}) /\ t \in A \cup {t}
    BY <1>1, SeqMonotonic
  <2> QED BY <1>2, <2>1, AppendProperties
<1>4. /\ D = { s[i] : i \in 1 .. n + 1 }
      /\ \A i, j \in 1 .. n + 1 : s[i] = s[j] => i = j
      /\ InOrder(g, s)
  BY <1>3 DEF Popped, Lists
<1>5. SUFFICES ASSUME Leads(g, t, a)  PROVE FALSE
  OBVIOUS
<1>6. PICK i \in 1 .. n + 1 : s[i] = a
  BY <1>4
<1>7. PICK j \in 1 .. i - 1 : s[j] = t
  BY <1>3, <1>4, <1>5, <1>6 DEF InOrder
<1>8. j \in 1 .. n + 1 /\ n + 1 \in 1 .. n + 1 /\ j # n + 1
  OBVIOUS
<1> QED
  BY <1>3, <1>4, <1>7, <1>8

(* What a popped task waits for, those that it leads to wait for too.      *)
Knows(g, D, bf) ==
  /\ DOMAIN bf = TaskIds(g)
  /\ \A a \in D, b \in TaskIds(g) : Leads(g, a, b) => bf[a] \cup {a} \subseteq bf[b]

(* The marks of one more popped task.                                      *)
MarkedOn(g, t, bf) ==
  [c \in DOMAIN bf |->
     IF \E k \in DOMAIN g.consumers[t] : g.consumers[t][k] = c
       THEN bf[c] \cup bf[t] \cup {t} ELSE bf[c]]

LEMMA KnowsMore ==
  ASSUME NEW g, NEW D, NEW bf, Knows(g, D, bf), D \subseteq TaskIds(g),
         NEW t \in TaskIds(g), \A a \in D \cup {t} : ~Leads(g, t, a),
         NEW bf2, bf2 = MarkedOn(g, t, bf)
  PROVE  Knows(g, D \cup {t}, bf2)
<1>1. /\ DOMAIN bf2 = TaskIds(g)
      /\ \A c \in TaskIds(g) : Leads(g, t, c) => bf2[c] = bf[c] \cup bf[t] \cup {t}
      /\ \A c \in TaskIds(g) : ~Leads(g, t, c) => bf2[c] = bf[c]
  BY DEF MarkedOn, Knows, Leads
<1>2. ASSUME NEW a \in D \cup {t}, NEW b \in TaskIds(g), Leads(g, a, b)
      PROVE  bf2[a] \cup {a} \subseteq bf2[b]
  <2>1. bf2[a] = bf[a] /\ bf[b] \subseteq bf2[b]
    BY <1>1
  <2>2. CASE a = t
    BY <1>1, <1>2, <2>1, <2>2
  <2>3. CASE a \in D
    <3>1. bf[a] \cup {a} \subseteq bf[b]
      BY <1>2, <2>3 DEF Knows
    <3> QED BY <2>1, <3>1
  <2> QED BY <2>2, <2>3
<1> QED
  BY <1>1, <1>2 DEF Knows

(* before[t] has all tasks that t comes after.                             *)
Ordered(g, bf) ==
  \A u, t \in TaskIds(g) : Reaches(g, u, t) => t = u \/ u \in bf[t]

LEMMA KnowsAll ==
  ASSUME NEW g, NEW bf, Knows(g, TaskIds(g), bf)
  PROVE  Ordered(g, bf)
<1> SUFFICES ASSUME NEW u \in TaskIds(g), NEW t \in TaskIds(g), Reaches(g, u, t)
             PROVE  t = u \/ u \in bf[t]
  BY DEF Ordered
<1> DEFINE S == { x \in TaskIds(g) : x = u \/ u \in bf[x] }
<1>1. S \in SUBSET TaskIds(g) /\ u \in S
  OBVIOUS
<1>2. \A a \in S, b \in TaskIds(g) : Leads(g, a, b) => b \in S
  BY DEF Knows
<1> HIDE DEF S
<1>3. t \in S
  BY <1>1, <1>2 DEF Reaches
<1> QED
  BY <1>3 DEF S

(* The order that freeze() finds, as it is found and when it is.           *)
OrderInv ==
  /\ LoopInv /\ TraceInv
  /\ pc = "freeze" => Knows(graph, SetOf(seen), before)
  /\ pc = "frozen" => Ordered(graph, before)

LEMMA FinishedIsApart ==
  ASSUME TraceInv, pc # "build"
  PROVE  Apart(graph)
  BY DEF TraceInv

LEMMA FreezePopOrders ==
  ASSUME OrderInv, FreezePop
  PROVE  Knows(graph, SetOf(seen), before)'
<1>1. pc = "freeze" /\ graph' = graph /\ Pop /\ LoopInv /\ Knows(graph, SetOf(seen), before)
  BY DEF FreezePop, OrderInv
<1>2. PICK D : Popped(graph, D, deps, ready, seen)
  BY <1>1 DEF LoopInv
<1>3. PICK t : t = Last(ready)
  OBVIOUS
<1>4. /\ t \in TaskIds(graph) \ D
      /\ Popped(graph', D \cup {t}, deps', ready', seen')
  BY <1>1, <1>2, <1>3, PopPops, FinishedFacts
<1>5. PICK G, r, q : G = D \cup {t} /\ r = seen /\ q = seen'
  OBVIOUS
<1>6. Popped(graph, G, deps', ready', q) /\ Lists(r, D) /\ q = Append(r, t)
  BY <1>1, <1>2, <1>3, <1>4, <1>5 DEF Popped, Pop
<1>7. \A a \in G : ~Leads(graph, t, a)
  BY <1>4, <1>6, LatestLeadsNowhere
<1>8. before' = MarkedOn(graph, t, before)
  BY <1>3 DEF FreezePop, MarkedOn
<1>9. D = SetOf(r) /\ G = SetOf(q)
  BY <1>6 DEF Popped, Lists, SetOf
<1>10. D \subseteq TaskIds(graph)
  BY <1>2 DEF Popped, Counting
<1>11. Knows(graph, D, before)
  BY <1>1, <1>5, <1>9
<1>12. PICK bf2 : bf2 = MarkedOn(graph, t, before)
  OBVIOUS
<1>13. Knows(graph, G, bf2)
  BY <1>4, <1>5, <1>7, <1>10, <1>11, <1>12, KnowsMore
<1> QED
  BY <1>1, <1>5, <1>8, <1>9, <1>12, <1>13

LEMMA NextOrders ==
  ASSUME OrderInv, [Next]_vars
  PROVE  OrderInv'
<1>1. LoopInv' /\ TraceInv'
  BY NextLoops, NextTraces DEF OrderInv
<1>2. CASE FreezePop
  <2>1. pc' = "freeze"
    BY <1>2 DEF FreezePop
  <2> QED BY <1>1, <1>2, <2>1, FreezePopOrders DEF OrderInv
<1>3. CASE BeginFreeze
  <2>1. pc' = "freeze" /\ before' = [i \in TaskIds(graph) |-> {}] /\ seen' = <<>>
        /\ graph' = graph
    BY <1>3 DEF BeginFreeze, StartLoop
  <2>2. SetOf(<<>>) = {}
    <3>1. Len(<<>>) = 0 /\ 1 .. 0 = {}
      BY EmptySequence
    <3> QED BY <3>1 DEF SetOf
  <2>3. Knows(graph, SetOf(seen), before)'
    BY <2>1, <2>2 DEF Knows
  <2> QED BY <1>1, <2>1, <2>3 DEF OrderInv
<1>4. CASE EndFreeze
  <2>1. /\ pc = "freeze" /\ ready = <<>> /\ UNCHANGED <<graph, before>>
        /\ pc' \in {"frozen", "died"}
    BY <1>4 DEF EndFreeze
  <2>2. PICK D : Popped(graph, D, deps, <<>>, seen)
    BY <2>1 DEF OrderInv, LoopInv
  <2>3. D = TaskIds(graph) /\ D = SetOf(seen)
    <3>1. Base(graph)
      BY <2>1, FinishedFacts DEF OrderInv
    <3> QED BY <2>2, <3>1, PoppedAll DEF Popped, Lists, SetOf
  <2>4. Ordered(graph, before)
    BY <2>1, <2>3, KnowsAll DEF OrderInv
  <2> QED BY <1>1, <2>1, <2>4 DEF OrderInv
<1>5. CASE Build \/ BeginPass \/ Execute \/ EndPass
  <2>1. pc' \notin {"freeze", "frozen"}
    BY <1>5 DEF Build, BeginPass, Execute, EndPass, OrderInv, LoopInv
  <2> QED BY <1>1, <2>1 DEF OrderInv
<1>6. CASE UNCHANGED vars
  BY <1>1, <1>6 DEF vars, OrderInv
<1> QED
  BY <1>2, <1>3, <1>4, <1>5, <1>6 DEF Next

LEMMA OrderIsRaceFree ==
  OrderInv => RaceFree
<1> SUFFICES ASSUME OrderInv, pc = "frozen", NEW t \in TaskIds(graph)
             PROVE  /\ \A w \in SourcesOf(t) : w \in before[t]
                    /\ \A u \in WritersOf(Task(t).writes) \ {t} :
                         Overlap(t, u) => t \in before[u] \/ u \in before[t]
  BY DEF RaceFree
<1>1. NoRaces(graph) /\ Ordered(graph, before)
  BY FinishedIsApart DEF OrderInv, Apart
<1>2. ASSUME NEW w \in SourcesOf(t)  PROVE w \in before[t]
  <2>1. /\ w \in TaskIds(graph) /\ w # t
        /\ graph.tasks[w].writes \cap graph.tasks[t].reads # {}
    BY DEF SourcesOf, WritersOf, Task
  <2> QED BY <1>1, <2>1 DEF NoRaces, Ordered
<1>3. ASSUME NEW u \in WritersOf(Task(t).writes) \ {t}, Overlap(t, u)
      PROVE  t \in before[u] \/ u \in before[t]
  <2>1. /\ u \in TaskIds(graph) /\ u # t
        /\ graph.tasks[u].writes \cap graph.tasks[t].writes # {}
    BY DEF WritersOf, Task
  <2>2. Meet(graph.tasks[t], graph.tasks[u])
    BY <1>3 DEF Overlap, Meet, Task
  <2> QED BY <1>1, <2>1, <2>2 DEF NoRaces, Ordered
<1> QED
  BY <1>2, <1>3

LEMMA InitOrders ==
  Init => OrderInv
  BY InitLoops, InitTraces DEF Init, OrderInv

(* Whatever order the runtime picks, for any batch, layers, tiles, heads   *)
(* and options: a task of the graph that build_graph_m makes starts after  *)
(* all tasks whose output it reads, and tasks that write the same part of  *)
(* a buffer are ordered by the edges.                                      *)
THEOREM GraphsAreRaceFree ==
  Spec => []RaceFree
<1>1. OrderInv /\ [Next]_vars => OrderInv'
  BY NextOrders
<1> QED
  BY <1>1, InitOrders, OrderIsRaceFree, PTL DEF Spec

--------------------------------------------------------------------------------
(* The passes over a graph.                                                *)

(* So far each task of the pass saw its inputs and clear outputs, and what *)
(* there is in the slots is of the tasks of this pass.                     *)
RunInv ==
  /\ LoopInv /\ TraceInv
  /\ pc = "run" =>
       /\ right = SetOf(seen)
       /\ \A d \in dirty : d[1][1] \in Slots => \E u \in SetOf(seen) : d \in Writes(u)
  /\ pc = "done" => right = TaskIds(graph)

LEMMA ExecuteIsRight ==
  ASSUME RunInv, Execute
  PROVE  /\ right' = SetOf(seen')
         /\ \A d \in dirty' :
              d[1][1] \in Slots => \E u \in SetOf(seen') : d \in Writes(u)
<1>1. /\ pc = "run" /\ graph' = graph /\ Pop /\ LoopInv
      /\ right = SetOf(seen)
      /\ \A d \in dirty : d[1][1] \in Slots => \E u \in SetOf(seen) : d \in Writes(u)
  BY DEF Execute, RunInv
<1>2. PICK D : Popped(graph, D, deps, ready, seen)
  BY <1>1 DEF LoopInv
<1>3. PICK t : t = Last(ready)
  OBVIOUS
<1>4. PICK G : G = D \cup {t}
  OBVIOUS
<1>5. /\ t \in TaskIds(graph) \ D
      /\ Popped(graph, G, deps', ready', seen')
  BY <1>1, <1>2, <1>3, <1>4, PopPops, FinishedFacts
<1>6. D = SetOf(seen) /\ G = SetOf(seen')
  BY <1>2, <1>5 DEF Popped, Lists, SetOf
<1>7. NoRaces(graph) /\ DotsAddToSlots(graph)
  BY <1>1, FinishedIsApart DEF RunInv, Apart
<1>8. SourcesOf(t) \subseteq D
  <2> SUFFICES ASSUME NEW w \in SourcesOf(t)  PROVE w \in D
    OBVIOUS
  <2>1. /\ w \in TaskIds(graph) /\ w # t
        /\ graph.tasks[w].writes \cap graph.tasks[t].reads # {}
    BY DEF SourcesOf, WritersOf, Task
  <2>2. Reaches(graph, w, t)
    BY <1>5, <1>7, <2>1 DEF NoRaces
  <2>3. w \in G
    BY <1>4, <1>5, <2>1, <2>2, PoppedIsClosed
  <2> QED BY <1>4, <2>1, <2>3
<1>9. Task(t).kind = "dot" => Writes(t) \cap dirty = {}
  <2> SUFFICES ASSUME Task(t).kind = "dot", NEW d \in Writes(t) \cap dirty
               PROVE  FALSE
    OBVIOUS
  <2>1. PICK b : b \in Task(t).writes /\ d = <<b, Task(t).part>>
    BY DEF Writes
  <2>2. d[1][1] \in Slots
    BY <1>5, <1>7, <2>1 DEF DotsAddToSlots, Task
  <2>3. PICK u \in D : d \in Writes(u)
    BY <1>1, <1>6, <2>2
  <2>4. b \in Task(u).writes /\ Task(u).part = Task(t).part
    BY <2>1, <2>3 DEF Writes
  <2>5. u \in TaskIds(graph) /\ u # t
    BY <1>2, <1>5, <2>3 DEF Popped, Counting
  <2>6. Reaches(graph, t, u)
    BY <1>5, <1>7, <2>1, <2>4, <2>5 DEF NoRaces, Meet, Task
  <2>7. t \in D
    BY <1>2, <1>5, <2>3, <2>6, PoppedIsClosed
  <2> QED BY <1>5, <2>7
<1>10. /\ dirty' = dirty \cup Writes(t)
       /\ right' = IF /\ SourcesOf(t) \subseteq right
                      /\ Task(t).kind = "dot" => Writes(t) \cap dirty = {}
                     THEN right \cup {t} ELSE right
  BY <1>3 DEF Execute
<1>11. right' = G
  BY <1>1, <1>4, <1>6, <1>8, <1>9, <1>10
<1>12. ASSUME NEW d \in dirty', d[1][1] \in Slots
       PROVE  \E u \in G : d \in Writes(u)
  <2>1. D \subseteq G /\ t \in G
    BY <1>4
  <2> QED BY <1>1, <1>6, <1>10, <1>12, <2>1
<1> QED
  BY <1>6, <1>11, <1>12

LEMMA NextRuns ==
  ASSUME RunInv, [Next]_vars
  PROVE  RunInv'
<1>1. LoopInv' /\ TraceInv'
  BY NextLoops, NextTraces DEF RunInv
<1>2. CASE Execute
  <2>1. pc' = "run" /\ graph' = graph
    BY <1>2 DEF Execute
  <2>2. \A u : Writes(u)' = Writes(u)
    BY <2>1 DEF Writes, Task
  <2>3. SetOf(seen)' = SetOf(seen')
    OBVIOUS
  <2>4. \A d \in dirty' :
          d[1][1] \in Slots => \E u \in SetOf(seen)' : d \in Writes(u)'
    BY <1>2, <2>2, <2>3, ExecuteIsRight
  <2>5. right' = SetOf(seen)'
    BY <1>2, <2>3, ExecuteIsRight
  <2> QED BY <1>1, <2>1, <2>4, <2>5 DEF RunInv
<1>3. CASE BeginPass
  <2>1. /\ pc' = "run" /\ right' = {} /\ seen' = <<>>
        /\ dirty' = { d \in dirty : d[1][1] \notin Slots }
    BY <1>3 DEF BeginPass, StartLoop
  <2>2. SetOf(<<>>) = {}
    <3>1. Len(<<>>) = 0 /\ 1 .. 0 = {}
      BY EmptySequence
    <3> QED BY <3>1 DEF SetOf
  <2> QED BY <1>1, <2>1, <2>2 DEF RunInv
<1>4. CASE EndPass
  <2>1. /\ pc = "run" /\ pc' = "done" /\ ready = <<>>
        /\ UNCHANGED <<graph, right>>
    BY <1>4 DEF EndPass
  <2>2. PICK D : Popped(graph, D, deps, <<>>, seen)
    BY <2>1 DEF RunInv, LoopInv
  <2>3. D = TaskIds(graph) /\ D = SetOf(seen)
    <3>1. Base(graph)
      BY <2>1, FinishedFacts DEF RunInv
    <3> QED BY <2>2, <3>1, PoppedAll DEF Popped, Lists, SetOf
  <2>4. right' = TaskIds(graph)'
    BY <2>1, <2>3 DEF RunInv
  <2> QED BY <1>1, <2>1, <2>4 DEF RunInv
<1>5. CASE Build \/ BeginFreeze \/ FreezePop \/ EndFreeze
  <2>1. pc' \notin {"run", "done"}
    BY <1>5 DEF Build, BeginFreeze, FreezePop, EndFreeze
  <2> QED BY <1>1, <2>1 DEF RunInv
<1>6. CASE UNCHANGED vars
  <2>1. UNCHANGED <<graph, seen, right, dirty, pc>>
    BY <1>6 DEF vars
  <2>2. \A u : Writes(u)' = Writes(u)
    BY <2>1 DEF Writes, Task
  <2>3. SetOf(seen)' = SetOf(seen)
    BY <2>1
  <2> QED BY <1>1, <2>1, <2>2, <2>3 DEF RunInv
<1> QED
  BY <1>2, <1>3, <1>4, <1>5, <1>6 DEF Next

LEMMA TasksCounted ==
  ASSUME NEW g, Shape(g)
  PROVE  Cardinality(TaskIds(g)) = Len(g.tasks)
<1>1. PICK n \in Nat : n = Len(g.tasks)
  BY ShapeFacts
<1>2. Cardinality(1 .. n) = IF 1 > n THEN 0 ELSE (n - 1) + 1
  BY FS_Interval
<1>3. Cardinality(1 .. n) = n
  BY <1>2
<1> QED
  BY <1>1, <1>3 DEF TaskIds

LEMMA RunIsRight ==
  RunInv => PassIsRight
<1> SUFFICES ASSUME RunInv, pc = "done"
             PROVE  right = TaskIds(graph) /\ Len(seen) = Len(graph.tasks)
  BY DEF PassIsRight
<1>1. PICK rd : Popped(graph, TaskIds(graph), deps, rd, seen)
  BY DEF RunInv, LoopInv
<1>2. Shape(graph)
  BY FinishedFacts DEF RunInv
<1>3. Len(seen) = Cardinality(TaskIds(graph))
  BY <1>1 DEF Popped
<1>4. Cardinality(TaskIds(graph)) = Len(graph.tasks)
  BY <1>2, TasksCounted
<1> QED
  BY <1>3, <1>4 DEF RunInv

LEMMA InitRuns ==
  Init => RunInv
  BY InitLoops, InitTraces DEF Init, RunInv

(* Every pass of run_serial over the same buffers, not only the first: it  *)
(* executes each task once, after its sources, and no dot adds to what an  *)
(* earlier pass or another task left.                                      *)
THEOREM EveryPassIsRight ==
  Spec => []PassIsRight
<1>1. RunInv /\ [Next]_vars => RunInv'
  BY NextRuns
<1> QED
  BY <1>1, InitRuns, RunIsRight, PTL DEF Spec

--------------------------------------------------------------------------------
(* The script without the options that join positions.                     *)

(* Calls for the whole batch, after all positions.                         *)
Ends == {"headCol", "head", "done"}

Staggered(c) == ~c.multicol /\ ~c.barrier

(* A name of the positions up to p.                                        *)
UpTo(x, p) == x[1] \notin Ends /\ x[3] \in Nat /\ x[3] <= p

(* The call is one of the last, or waits for no later position than its    *)
(* own.                                                                    *)
InTime(it) ==
  \E x : /\ it.names = {x}
         /\ \/ x[1] \in Ends /\ it.pos = 0
            \/ UpTo(x, x[3]) /\ it.pos = x[3] /\ \A y \in Used(it) : UpTo(y, x[3])

AllInTime(S) == IsSequence(S) /\ \A i \in 1 .. Len(S) : InTime(S[i])

LEMMA CatInTime ==
  ASSUME NEW S, AllInTime(S), NEW T, AllInTime(T), NEW W, W = Cat(S, T)
  PROVE  AllInTime(W)
<1>1. PICK s, t : s = Len(S) /\ t = Len(T)
  OBVIOUS
<1>2. Joins(W, S, T, s, t)
  BY <1>1, ConcatJoins DEF AllInTime
<1>3. ASSUME NEW i \in 1 .. s + t  PROVE InTime(W[i])
  <2>1. CASE i \in 1 .. s
    BY <1>1, <1>2, <2>1 DEF AllInTime, Joins
  <2>2. CASE \E k \in 1 .. t : i = s + k
    <3>1. PICK k \in 1 .. t : i = s + k
      BY <2>2
    <3>2. W[i] = T[k]
      BY <1>2, <3>1 DEF Joins
    <3> QED BY <1>1, <3>2 DEF AllInTime
  <2> QED BY <1>2, <2>1, <2>2 DEF Joins
<1> QED
  BY <1>2, <1>3 DEF AllInTime, Joins

LEMMA NoneInTime ==
  AllInTime(<<>>)
<1>1. IsSequence(<<>>) /\ Len(<<>>) = 0 /\ 1 .. 0 = {}
  BY EmptySequence DEF IsSequence
<1> QED
  BY <1>1 DEF AllInTime

LEMMA EachInTime ==
  ASSUME NEW n \in Nat, NEW F, F = [i \in 1 .. n |-> F[i]],
         \A i \in 1 .. n : AllInTime(F[i]), NEW W, W = FlattenSeq(F)
  PROVE  AllInTime(W)
<1>1. IsSequence(F) /\ Len(F) = n
  BY ListIsSequence
<1>2. CASE n = 0
  <2>1. W = F /\ Len(W) = 0 /\ 1 .. 0 = {}
    BY <1>1, <1>2 DEF FlattenSeq
  <2> QED BY <1>1, <2>1 DEF AllInTime
<1>3. CASE n # 0
  <2>1. PICK f : Flattening(f, F, n) /\ f[n] = W
    BY <1>1, <1>3, FlattenRuns
  <2> DEFINE T == { k \in Nat : k # 0 /\ k <= n => AllInTime(f[k]) }
  <2>2. 0 \in T
    OBVIOUS
  <2>3. ASSUME NEW k \in Nat, k \in T  PROVE k + 1 \in T
    <3> SUFFICES ASSUME k + 1 <= n  PROVE AllInTime(f[k + 1])
      OBVIOUS
    <3>1. k + 1 \in 1 .. n /\ (k + 1) - 1 = k /\ k <= n
      OBVIOUS
    <3>2. AllInTime(F[k + 1])
      BY <3>1
    <3>3. CASE k = 0
      BY <2>1, <3>2, <3>3 DEF Flattening
    <3>4. CASE k # 0
      <4>1. f[k + 1] = Cat(f[k], F[k + 1])
        BY <2>1, <3>1, <3>4 DEF Flattening
      <4>2. AllInTime(f[k])
        BY <2>3, <3>1, <3>4
      <4> HIDE DEF T
      <4> QED BY <3>2, <4>1, <4>2, CatInTime
    <3> QED BY <3>3, <3>4
  <2> HIDE DEF T
  <2>4. n \in T
    BY <2>2, <2>3, Induction
  <2> QED BY <1>3, <2>1, <2>4 DEF T
<1> QED
  BY <1>2, <1>3

(* One call.                                                               *)
LEMMA CallInTime ==
  ASSUME NEW x, NEW kind, NEW ds, NEW U, Waits(ds, U), NEW reads, NEW writes, NEW pos,
         \/ x[1] \in Ends /\ pos = 0
         \/ UpTo(x, x[3]) /\ pos = x[3] /\ \A y \in U : UpTo(y, x[3]),
         NEW S, S = Call({x}, kind, ds, reads, writes, pos)
  PROVE  AllInTime(S)
<1>1. PICK it : it = [names |-> {x}, kind |-> kind, deps |-> ds,
                      reads |-> reads, writes |-> writes, pos |-> pos]
  OBVIOUS
<1>2. S = <<it>> /\ it.names = {x} /\ it.deps = ds /\ it.pos = pos
  BY <1>1 DEF Call
<1>3. Len(S) = 1 /\ S[1] = it /\ S \in Seq({it}) /\ 1 .. 1 = {1}
  <2>1. S = <<it>>
    BY <1>2
  <2> QED BY ONLY <2>1
<1>4. Used(it) = U
  BY <1>2 DEF Used, Waits
<1>5. InTime(it)
  BY <1>2, <1>4 DEF InTime
<1> QED
  BY <1>3, <1>5 DEF AllInTime, IsSequence

(* A call for the position p.                                              *)
LEMMA InTimeAfter ==
  ASSUME NEW p, NEW x, UpTo(x, p), x[3] = p,
         NEW ds, NEW U, Waits(ds, U), \A y \in U : UpTo(y, p)
  PROVE  /\ \A reads, writes : AllInTime(Op(x, ds, reads, writes))
         /\ \A reads, writes : AllInTime(Dot(x, ds, reads, writes))
         /\ AllInTime(FanInOf(x, ds))
<1>1. ASSUME NEW kind, NEW reads, NEW writes
      PROVE  AllInTime(Call({x}, kind, ds, reads, writes, x[3]))
  BY CallInTime
<1> QED
  BY <1>1 DEF Op, Dot, FanInOf

LEMMA NamesUpTo ==
  ASSUME NEW p \in Nat
  PROVE  /\ \A t, l : t \notin Ends => UpTo(<<t, l, p>>, p) /\ <<t, l, p>>[3] = p
         /\ \A t, l, s : t \notin Ends => UpTo(<<t, l, p, s>>, p) /\ <<t, l, p, s>>[3] = p
BY DEF UpTo

LEMMA AfterOneInTime ==
  ASSUME NEW p \in Nat, NEW x, UpTo(x, p), x[3] = p, NEW d, UpTo(d, p)
  PROVE  /\ \A reads, writes : AllInTime(Op(x, <<d>>, reads, writes))
         /\ \A reads, writes : AllInTime(Dot(x, <<d>>, reads, writes))
         /\ \A bufs : AllInTime(Quantize(x, d, bufs))
<1>1. Waits(<<d>>, {d})
  BY WaitsOne
<1>2. /\ \A reads, writes : AllInTime(Op(x, <<d>>, reads, writes))
      /\ \A reads, writes : AllInTime(Dot(x, <<d>>, reads, writes))
  BY <1>1, InTimeAfter
<1> QED
  BY <1>2 DEF Quantize

LEMMA AfterTwoInTime ==
  ASSUME NEW p \in Nat, NEW x, UpTo(x, p), x[3] = p, NEW d, UpTo(d, p), NEW e, UpTo(e, p)
  PROVE  /\ \A reads, writes : AllInTime(Op(x, <<d, e>>, reads, writes))
         /\ \A reads, writes : AllInTime(Dot(x, <<d, e>>, reads, writes))
         /\ AllInTime(FanInOf(x, <<d, e>>))
<1>1. Waits(<<d, e>>, {d, e})
  BY WaitsTwo
<1> QED
  BY <1>1, InTimeAfter

LEMMA AfterThreeInTime ==
  ASSUME NEW p \in Nat, NEW x, UpTo(x, p), x[3] = p,
         NEW d, UpTo(d, p), NEW e, UpTo(e, p), NEW f, UpTo(f, p)
  PROVE  \A reads, writes : AllInTime(Op(x, <<d, e, f>>, reads, writes))
<1>1. Waits(<<d, e, f>>, {d, e, f})
  BY WaitsThree
<1> QED
  BY <1>1, InTimeAfter

LEMMA ResUpTo ==
  ASSUME NEW c, NEW l, NEW p \in Nat
  PROVE  \A y \in At(c, l, p, {"res"}) : UpTo(y, p)
<1>1. PICK k : k = l - 1
  OBVIOUS
<1>2. At(c, l, p, {"res"}) = IF l = 1 THEN {} ELSE {<<"out", k, p>>}
  BY <1>1, AtRes
<1>3. UpTo(<<"out", k, p>>, p)
  BY NamesUpTo DEF Ends
<1> QED
  BY <1>2, <1>3

LEMMA AfterResInTime ==
  ASSUME NEW p \in Nat, NEW x, UpTo(x, p), x[3] = p, NEW l
  PROVE  \A reads, writes : AllInTime(Op(x, ResDep(l, p), reads, writes))
<1>1. PICK c, U : U = At(c, l, p, {"res"})
  OBVIOUS
<1>2. Waits(ResDep(l, p), U)
  BY <1>1, WaitsRes
<1>3. \A y \in U : UpTo(y, p)
  BY <1>1, ResUpTo
<1> QED
  BY <1>2, <1>3, InTimeAfter

LEMMA AfterAoAndResInTime ==
  ASSUME NEW p \in Nat, NEW x, UpTo(x, p), x[3] = p, NEW l
  PROVE  \A reads, writes :
           AllInTime(Op(x, << <<"ao", l, p>> >> \o ResDep(l, p), reads, writes))
<1>1. PICK c, U, R : U = At(c, l, p, {"ao", "res"}) /\ R = At(c, l, p, {"res"})
  OBVIOUS
<1>2. Waits(<< <<"ao", l, p>> >> \o ResDep(l, p), U)
  BY <1>1, WaitsAndRes, PlainKinds
<1>3. U = {<<"ao", l, p>>} \cup R
  <2>1. {"ao", "res"} = {"ao"} \cup {"res"}
    OBVIOUS
  <2>2. U = At(c, l, p, {"ao"}) \cup R
    BY <1>1, <2>1, AtUnion
  <2>3. At(c, l, p, {"ao"}) = {<<"ao", l, p>>}
    BY AtPlain, PlainKinds
  <2> QED BY <2>2, <2>3
<1>4. \A y \in U : UpTo(y, p)
  <2>1. "ao" \notin Ends
    BY DEF Ends
  <2>2. \A y \in R : UpTo(y, p)
    BY <1>1, ResUpTo
  <2> QED BY <1>3, <2>1, <2>2, NamesUpTo
<1>5. PICK ds : ds = << <<"ao", l, p>> >> \o ResDep(l, p)
  OBVIOUS
<1>6. \A reads, writes : AllInTime(Op(x, ds, reads, writes))
  BY <1>2, <1>4, <1>5, InTimeAfter
<1> QED
  BY <1>5, <1>6

(* A weight for all positions.                                             *)
LEMMA StageDotInTime ==
  ASSUME NEW c, c.m \in Nat, ~c.multicol, NEW l, NEW w, w \notin Ends, NEW dep,
         dep \notin Ends, NEW X, NEW Y, NEW S, S = StageDot(c, w, l, dep, X, Y)
  PROVE  AllInTime(S)
<1> DEFINE F == [p \in 1 .. c.m |->
                   Dot(<<w, l, p>>, << <<dep, l, p>> >>, WithQ8(X[p]), Y[p])]
<1>1. S = FlattenSeq(F)
  BY DEF StageDot, ForEach, Joined
<1>2. ASSUME NEW p \in 1 .. c.m  PROVE AllInTime(F[p])
  <2>1. PICK x, d, reads, writes :
          /\ x = <<w, l, p>> /\ d = <<dep, l, p>>
          /\ reads = WithQ8(X[p]) /\ writes = Y[p]
    OBVIOUS
  <2>2. UpTo(x, p) /\ x[3] = p /\ UpTo(d, p) /\ p \in Nat
    BY <2>1, NamesUpTo
  <2>3. F[p] = Dot(x, <<d>>, reads, writes)
    BY <2>1
  <2> HIDE DEF F
  <2> QED BY <2>2, <2>3, AfterOneInTime
<1>3. F = [p \in 1 .. c.m |-> F[p]]
  OBVIOUS
<1> HIDE DEF F
<1> QED
  BY <1>1, <1>2, <1>3, EachInTime

(* Stage after stage.                                                      *)

LEMMA StageAInTime ==
  ASSUME NEW c, c.m \in Nat, NEW l
  PROVE  AllInTime(StageA(c, l))
<1> DEFINE S1(p) == Op(<<"an", l, p>>, ResDep(l, p), {Res(l, p)}, {<<"xn", l, p>>})
           S2(p) == Quantize(<<"aq", l, p>>, <<"an", l, p>>, {<<"xn", l, p>>})
           F == [p \in 1 .. c.m |-> Cat(S1(p), S2(p))]
<1>1. StageA(c, l) = FlattenSeq(F)
  BY DEF StageA, ForEach, Cat
<1>2. ASSUME NEW p \in 1 .. c.m  PROVE AllInTime(F[p])
  <2>1. AllInTime(S1(p))
    <3>1. /\ UpTo(<<"an", l, p>>, p)
          /\ <<"an", l, p>>[3] = p /\ p \in Nat
      BY NamesUpTo DEF Ends
    <3> QED BY <3>1, AfterResInTime
  <2>2. AllInTime(S2(p))
    <3>1. /\ UpTo(<<"aq", l, p>>, p) /\ UpTo(<<"an", l, p>>, p)
          /\ <<"aq", l, p>>[3] = p /\ p \in Nat
      BY NamesUpTo DEF Ends
    <3> QED BY <3>1, AfterOneInTime
  <2>3. F[p] = Cat(S1(p), S2(p))
    OBVIOUS
  <2> HIDE DEF S1, S2, F
  <2> QED BY <2>1, <2>2, <2>3, CatInTime
<1>3. F = [p \in 1 .. c.m |-> F[p]]
  OBVIOUS
<1> HIDE DEF F
<1> QED
  BY <1>1, <1>2, <1>3, EachInTime

LEMMA StageCInTime ==
  ASSUME NEW c, c.m \in Nat, NEW l
  PROVE  AllInTime(StageC(c, l))
<1> DEFINE S1(p) == Op(<<"kn", l, p>>, << <<"kva", l, p>> >>,
                       {<<"kva", l, p>>}, {<<"ckv", l, p>>})
           S2(p) == Quantize(<<"kq8", l, p>>, <<"kn", l, p>>, {<<"ckv", l, p>>})
           F == [p \in 1 .. c.m |-> Cat(S1(p), S2(p))]
<1>1. StageC(c, l) = FlattenSeq(F)
  BY DEF StageC, ForEach, Cat
<1>2. ASSUME NEW p \in 1 .. c.m  PROVE AllInTime(F[p])
  <2>1. AllInTime(S1(p))
    <3>1. /\ UpTo(<<"kn", l, p>>, p) /\ UpTo(<<"kva", l, p>>, p)
          /\ <<"kn", l, p>>[3] = p /\ p \in Nat
      BY NamesUpTo DEF Ends
    <3> QED BY <3>1, AfterOneInTime
  <2>2. AllInTime(S2(p))
    <3>1. /\ UpTo(<<"kq8", l, p>>, p) /\ UpTo(<<"kn", l, p>>, p)
          /\ <<"kq8", l, p>>[3] = p /\ p \in Nat
      BY NamesUpTo DEF Ends
    <3> QED BY <3>1, AfterOneInTime
  <2>3. F[p] = Cat(S1(p), S2(p))
    OBVIOUS
  <2> HIDE DEF S1, S2, F
  <2> QED BY <2>1, <2>2, <2>3, CatInTime
<1>3. F = [p \in 1 .. c.m |-> F[p]]
  OBVIOUS
<1> HIDE DEF F
<1> QED
  BY <1>1, <1>2, <1>3, EachInTime

LEMMA StageGInTime ==
  ASSUME NEW c, c.m \in Nat, NEW l
  PROVE  AllInTime(StageG(c, l))
<1> DEFINE S1(p) == Op(<<"x2", l, p>>, << <<"ao", l, p>> >> \o ResDep(l, p),
                       {Res(l, p), <<"ao", l, p>>}, {<<"x2", l, p>>})
           S2(p) == Op(<<"fn", l, p>>, << <<"x2", l, p>> >>,
                       {<<"x2", l, p>>}, {<<"xf", l, p>>})
           S3(p) == Quantize(<<"fq8", l, p>>, <<"fn", l, p>>, {<<"xf", l, p>>})
           F == [p \in 1 .. c.m |-> Cat(Cat(S1(p), S2(p)), S3(p))]
<1>1. StageG(c, l) = FlattenSeq(F)
  BY DEF StageG, ForEach, Cat
<1>2. ASSUME NEW p \in 1 .. c.m  PROVE AllInTime(F[p])
  <2>1. AllInTime(S1(p))
    <3>1. /\ UpTo(<<"x2", l, p>>, p)
          /\ <<"x2", l, p>>[3] = p /\ p \in Nat
      BY NamesUpTo DEF Ends
    <3> QED BY <3>1, AfterAoAndResInTime
  <2>2. AllInTime(S2(p))
    <3>1. /\ UpTo(<<"fn", l, p>>, p) /\ UpTo(<<"x2", l, p>>, p)
          /\ <<"fn", l, p>>[3] = p /\ p \in Nat
      BY NamesUpTo DEF Ends
    <3> QED BY <3>1, AfterOneInTime
  <2>3. AllInTime(S3(p))
    <3>1. /\ UpTo(<<"fq8", l, p>>, p) /\ UpTo(<<"fn", l, p>>, p)
          /\ <<"fq8", l, p>>[3] = p /\ p \in Nat
      BY NamesUpTo DEF Ends
    <3> QED BY <3>1, AfterOneInTime
  <2>4. F[p] = Cat(Cat(S1(p), S2(p)), S3(p))
    OBVIOUS
  <2> HIDE DEF S1, S2, S3, F
  <2> QED BY <2>1, <2>2, <2>3, <2>4, CatInTime
<1>3. F = [p \in 1 .. c.m |-> F[p]]
  OBVIOUS
<1> HIDE DEF F
<1> QED
  BY <1>1, <1>2, <1>3, EachInTime

LEMMA RoutersInTime ==
  ASSUME NEW c, c.m \in Nat, NEW l
  PROVE  AllInTime(Routers(c, l))
<1> DEFINE S1(p) == Dot(<<"rl", l, p>>, << <<"fn", l, p>> >>,
                        {<<"xf", l, p>>}, {<<"rlog", l, p>>})
           S2(p) == Op(<<"rt", l, p>>, << <<"rl", l, p>> >>,
                       {<<"rlog", l, p>>}, {<<"ids", l, p>>})
           F == [p \in 1 .. c.m |-> Cat(S1(p), S2(p))]
<1>1. Routers(c, l) = FlattenSeq(F)
  BY DEF Routers, ForEach, Cat
<1>2. ASSUME NEW p \in 1 .. c.m  PROVE AllInTime(F[p])
  <2>1. AllInTime(S1(p))
    <3>1. /\ UpTo(<<"rl", l, p>>, p) /\ UpTo(<<"fn", l, p>>, p)
          /\ <<"rl", l, p>>[3] = p /\ p \in Nat
      BY NamesUpTo DEF Ends
    <3> QED BY <3>1, AfterOneInTime
  <2>2. AllInTime(S2(p))
    <3>1. /\ UpTo(<<"rt", l, p>>, p) /\ UpTo(<<"rl", l, p>>, p)
          /\ <<"rt", l, p>>[3] = p /\ p \in Nat
      BY NamesUpTo DEF Ends
    <3> QED BY <3>1, AfterOneInTime
  <2>3. F[p] = Cat(S1(p), S2(p))
    OBVIOUS
  <2> HIDE DEF S1, S2, F
  <2> QED BY <2>1, <2>2, <2>3, CatInTime
<1>3. F = [p \in 1 .. c.m |-> F[p]]
  OBVIOUS
<1> HIDE DEF F
<1> QED
  BY <1>1, <1>2, <1>3, EachInTime

LEMMA DenseMergeInTime ==
  ASSUME NEW c, c.m \in Nat, NEW l
  PROVE  AllInTime(DenseMerge(c, l))
<1> DEFINE S1(p) == Op(<<"out", l, p>>, << <<"down", l, p>>, <<"x2", l, p>> >>,
                       {<<"d", l, p>>, <<"x2", l, p>>}, {<<"xo", l, p>>})
           F == [p \in 1 .. c.m |-> S1(p)]
<1>1. DenseMerge(c, l) = FlattenSeq(F)
  BY DEF DenseMerge, ForEach
<1>2. ASSUME NEW p \in 1 .. c.m  PROVE AllInTime(F[p])
  <2>1. AllInTime(S1(p))
    <3>1. /\ UpTo(<<"out", l, p>>, p) /\ UpTo(<<"down", l, p>>, p) /\ UpTo(<<"x2", l, p>>, p)
          /\ <<"out", l, p>>[3] = p /\ p \in Nat
      BY NamesUpTo DEF Ends
    <3> QED BY <3>1, AfterTwoInTime
  <2>2. F[p] = S1(p)
    OBVIOUS
  <2> HIDE DEF S1, F
  <2> QED BY <2>1, <2>2
<1>3. F = [p \in 1 .. c.m |-> F[p]]
  OBVIOUS
<1> HIDE DEF F
<1> QED
  BY <1>1, <1>2, <1>3, EachInTime

LEMMA MoeMergeInTime ==
  ASSUME NEW c, c.m \in Nat, NEW l
  PROVE  AllInTime(MoeMerge(c, l))
<1> DEFINE S1(p) == Op(<<"out", l, p>>,
                       << <<"downs", l, p>>, <<"down", l, p>>, <<"x2", l, p>> >>,
                       ExpertParts(c, l, p)
                         \cup {<<"ids", l, p>>, <<"d", l, p>>, <<"x2", l, p>>},
                       {<<"xo", l, p>>})
           F == [p \in 1 .. c.m |-> S1(p)]
<1>1. MoeMerge(c, l) = FlattenSeq(F)
  BY DEF MoeMerge, ForEach
<1>2. ASSUME NEW p \in 1 .. c.m  PROVE AllInTime(F[p])
  <2>1. AllInTime(S1(p))
    <3>1. /\ UpTo(<<"out", l, p>>, p) /\ UpTo(<<"downs", l, p>>, p) /\ UpTo(<<"down", l, p>>, p) /\ UpTo(<<"x2", l, p>>, p)
          /\ <<"out", l, p>>[3] = p /\ p \in Nat
      BY NamesUpTo DEF Ends
    <3> QED BY <3>1, AfterThreeInTime
  <2>2. F[p] = S1(p)
    OBVIOUS
  <2> HIDE DEF S1, F
  <2> QED BY <2>1, <2>2
<1>3. F = [p \in 1 .. c.m |-> F[p]]
  OBVIOUS
<1> HIDE DEF F
<1> QED
  BY <1>1, <1>2, <1>3, EachInTime

LEMMA ProjectionsInTime ==
  ASSUME NEW c, c.m \in Nat, ~c.multicol, NEW l
  PROVE  AllInTime(StageB(c, l)) /\ AllInTime(StageD(c, l)) /\ AllInTime(StageF(c, l))
<1>1. PICK S : S = StageDot(c, "q", l, "aq", Columns(c, "xn", l), Columns(c, "qb", l))
  OBVIOUS
<1>2. PICK R : R = StageDot(c, "kva", l, "aq", Columns(c, "xn", l),
                            [p \in 1 .. c.m |-> {<<"kva", l, p>>, <<"kpe", l, p>>}])
  OBVIOUS
<1>3. AllInTime(S) /\ AllInTime(R)
  BY <1>1, <1>2, StageDotInTime DEF Ends
<1>4. StageB(c, l) = Cat(S, R)
  BY <1>1, <1>2 DEF StageB, Cat
<1>5. AllInTime(StageD(c, l)) /\ AllInTime(StageF(c, l))
  BY StageDotInTime DEF StageD, StageF, Ends
<1> QED
  BY <1>3, <1>4, <1>5, CatInTime

LEMMA RotateAndAppendInTime ==
  ASSUME NEW l, NEW p \in Nat
  PROVE  AllInTime(RotateAndAppend(l, p))
<1>1. PICK S1 : S1 = Op(<<"rq", l, p>>, << <<"q", l, p>> >>,
                        {<<"qb", l, p>>}, {<<"qb", l, p>>})
  OBVIOUS
<1>2. PICK S2 : S2 = Op(<<"rk", l, p>>, << <<"kva", l, p>> >>,
                        {<<"kpe", l, p>>}, {<<"kpe", l, p>>})
  OBVIOUS
<1>3. PICK S3 : S3 = Op(<<"app", l, p>>, << <<"kvb", l, p>>, <<"rk", l, p>> >>,
                        {<<"kvb", l, p>>, <<"kpe", l, p>>}, {<<"kv", l, p>>})
  OBVIOUS
<1>4. /\ UpTo(<<"rq", l, p>>, p) /\ UpTo(<<"q", l, p>>, p)
      /\ UpTo(<<"rk", l, p>>, p) /\ UpTo(<<"kva", l, p>>, p)
      /\ UpTo(<<"app", l, p>>, p) /\ UpTo(<<"kvb", l, p>>, p)
      /\ <<"rq", l, p>>[3] = p /\ <<"rk", l, p>>[3] = p /\ <<"app", l, p>>[3] = p
  BY NamesUpTo DEF Ends
<1>5. AllInTime(S1)
  BY <1>1, <1>4, AfterOneInTime
<1>6. AllInTime(S2)
  BY <1>2, <1>4, AfterOneInTime
<1>7. AllInTime(S3)
  BY <1>3, <1>4, AfterTwoInTime
<1>8. RotateAndAppend(l, p) = Cat(Cat(S1, S2), S3)
  BY <1>1, <1>2, <1>3 DEF RotateAndAppend
<1> HIDE <1>1, <1>2, <1>3
<1> QED
  BY <1>5, <1>6, <1>7, <1>8, CatInTime

(* Attention waits for the appends up to its position, not for later ones. *)
LEMMA AppCumUpTo ==
  ASSUME NEW l, NEW p \in Nat
  PROVE  UpTo(AppCum(l, p), p)
BY NamesUpTo DEF AppCum, Ends

LEMMA CumInTime ==
  ASSUME NEW l, NEW p \in Nat \ {0}
  PROVE  AllInTime(CumCall(l, p))
<1>1. CASE p = 1
  <2>1. CumCall(l, p) = <<>>
    BY <1>1 DEF CumCall
  <2> QED BY <2>1, NoneInTime
<1>2. CASE p # 1
  <2>1. PICK q \in Nat : q = p - 1
    OBVIOUS
  <2>2. PICK x, d, e : x = <<"cum", l, p>> /\ d = AppCum(l, q) /\ e = <<"app", l, p>>
    OBVIOUS
  <2>3. CumCall(l, p) = FanInOf(x, <<d, e>>)
    BY <1>2, <2>1, <2>2 DEF CumCall, CumDeps
  <2>4. UpTo(x, p) /\ x[3] = p /\ UpTo(e, p)
    BY <2>2, NamesUpTo DEF Ends
  <2>5. UpTo(d, p)
    <3>1. UpTo(d, q)
      BY <2>2, AppCumUpTo
    <3> QED BY <2>1, <3>1 DEF UpTo
  <2> QED BY <2>3, <2>4, <2>5, AfterTwoInTime
<1> QED
  BY <1>1, <1>2

LEMMA HeadsInTime ==
  ASSUME NEW c, c.heads \in Nat, NEW l, NEW p \in Nat
  PROVE  AllInTime(HeadsOf(c, l, p))
<1> DEFINE F == [h \in 1 .. c.heads |->
                   Op(<<"attn", l, p, h>>, << <<"rq", l, p>>, AppCum(l, p) >>,
                      {<<"qb", l, p>>} \cup KvRows(l, p), {<<"ctx", l, p, h>>})]
<1>1. HeadsOf(c, l, p) = FlattenSeq(F)
  BY DEF HeadsOf, ForEach
<1>2. ASSUME NEW h \in 1 .. c.heads  PROVE AllInTime(F[h])
  <2>1. PICK x, d, e, reads, writes :
          /\ x = <<"attn", l, p, h>> /\ d = <<"rq", l, p>> /\ e = AppCum(l, p)
          /\ reads = {<<"qb", l, p>>} \cup KvRows(l, p) /\ writes = {<<"ctx", l, p, h>>}
    OBVIOUS
  <2>2. UpTo(x, p) /\ x[3] = p /\ UpTo(d, p) /\ UpTo(e, p)
    BY <2>1, NamesUpTo, AppCumUpTo DEF Ends
  <2>3. F[h] = Op(x, <<d, e>>, reads, writes)
    BY <2>1
  <2> HIDE DEF F
  <2> QED BY <2>2, <2>3, AfterTwoInTime
<1>3. F = [h \in 1 .. c.heads |-> F[h]]
  OBVIOUS
<1> HIDE DEF F
<1> QED
  BY <1>1, <1>2, <1>3, EachInTime

LEMMA JoinInTime ==
  ASSUME NEW c, c.heads \in Nat, NEW l, NEW p \in Nat
  PROVE  AllInTime(JoinOf(c, l, p))
<1> DEFINE ds == [h \in 1 .. c.heads |-> <<"attn", l, p, h>>]
<1>1. PICK x, U : x = <<"heads", l, p>> /\ U = HeadNames(c, l, p)
  OBVIOUS
<1>2. Waits(ds, U)
  <2>1. DOMAIN ds = 1 .. c.heads /\ U = { ds[h] : h \in 1 .. c.heads }
    BY <1>1 DEF HeadNames
  <2> HIDE DEF ds
  <2> QED BY <2>1, WaitsList
<1>3. UpTo(x, p) /\ x[3] = p /\ \A y \in U : UpTo(y, p)
  BY <1>1, NamesUpTo DEF Ends, HeadNames
<1>4. JoinOf(c, l, p) = FanInOf(x, ds)
  BY <1>1 DEF JoinOf
<1> HIDE DEF ds
<1> QED
  BY <1>2, <1>3, <1>4, InTimeAfter

LEMMA AttentionInTime ==
  ASSUME NEW c, c.heads \in Nat, NEW l, NEW p \in Nat \ {0}
  PROVE  AllInTime(AttentionOf(c, l, p))
<1>1. PICK S1, S2, S3, S4 :
        /\ S1 = RotateAndAppend(l, p) /\ S2 = CumCall(l, p)
        /\ S3 = HeadsOf(c, l, p) /\ S4 = JoinOf(c, l, p)
  OBVIOUS
<1>2. PICK S5 : S5 = Quantize(<<"cq8", l, p>>, <<"heads", l, p>>, Contexts(c, l, p))
  OBVIOUS
<1>3. AllInTime(S1) /\ AllInTime(S2)
  BY <1>1, RotateAndAppendInTime, CumInTime
<1>4. AllInTime(S3) /\ AllInTime(S4)
  BY <1>1, HeadsInTime, JoinInTime
<1>5. AllInTime(S5)
  <2>1. UpTo(<<"cq8", l, p>>, p) /\ <<"cq8", l, p>>[3] = p /\ UpTo(<<"heads", l, p>>, p)
    BY NamesUpTo DEF Ends
  <2> QED BY <1>2, <2>1, AfterOneInTime
<1>6. AttentionOf(c, l, p) = Cat(Cat(Cat(Cat(S1, S2), S3), S4), S5)
  BY <1>1, <1>2 DEF AttentionOf
<1> HIDE <1>1, <1>2
<1> QED
  BY <1>3, <1>4, <1>5, <1>6, CatInTime

LEMMA StageEInTime ==
  ASSUME NEW c, c.m \in Nat, c.heads \in Nat, NEW l
  PROVE  AllInTime(StageE(c, l))
<1> DEFINE F == [p \in 1 .. c.m |-> AttentionOf(c, l, p)]
<1>1. StageE(c, l) = FlattenSeq(F)
  BY DEF StageE, AttentionOf, RotateAndAppend, CumCall, HeadsOf, JoinOf, ForEach, Cat
<1>2. \A p \in 1 .. c.m : AllInTime(F[p])
  BY AttentionInTime
<1>3. F = [p \in 1 .. c.m |-> F[p]]
  OBVIOUS
<1> HIDE DEF F
<1> QED
  BY <1>1, <1>2, <1>3, EachInTime

LEMMA SharedFfnInTime ==
  ASSUME NEW c, c.m \in Nat, ~c.multicol, NEW l
  PROVE  AllInTime(SharedFfn(c, l))
<1> DEFINE S(p) == Op(<<"silu", l, p>>, << <<"gate", l, p>>, <<"up", l, p>> >>,
                      {<<"g", l, p>>, <<"u", l, p>>}, {<<"h", l, p>>})
           R(p) == Quantize(<<"hq8", l, p>>, <<"silu", l, p>>, {<<"h", l, p>>})
           F == [p \in 1 .. c.m |-> Cat(S(p), R(p))]
<1>1. PICK A : A = StageDot(c, "gate", l, "fq8", Columns(c, "xf", l), Columns(c, "g", l))
  OBVIOUS
<1>2. PICK B : B = StageDot(c, "up", l, "fq8", Columns(c, "xf", l), Columns(c, "u", l))
  OBVIOUS
<1>3. PICK E : E = FlattenSeq(F)
  OBVIOUS
<1>4. PICK G : G = StageDot(c, "down", l, "hq8", Columns(c, "h", l), Columns(c, "d", l))
  OBVIOUS
<1>5. SharedFfn(c, l) = Cat(Cat(Cat(A, B), E), G)
  BY <1>1, <1>2, <1>3, <1>4 DEF SharedFfn, ForEach, Cat
<1>6. AllInTime(A) /\ AllInTime(B) /\ AllInTime(G)
  <2> HIDE DEF F
  <2> QED BY <1>1, <1>2, <1>4, StageDotInTime DEF Ends
<1>7. AllInTime(E)
  <2>1. ASSUME NEW p \in 1 .. c.m  PROVE AllInTime(F[p])
    <3>1. /\ UpTo(<<"silu", l, p>>, p) /\ UpTo(<<"gate", l, p>>, p) /\ UpTo(<<"up", l, p>>, p)
          /\ <<"silu", l, p>>[3] = p /\ UpTo(<<"hq8", l, p>>, p) /\ <<"hq8", l, p>>[3] = p
          /\ p \in Nat
      BY NamesUpTo DEF Ends
    <3>2. AllInTime(S(p))
      BY <3>1, AfterTwoInTime
    <3>3. AllInTime(R(p))
      BY <3>1, AfterOneInTime
    <3>4. F[p] = Cat(S(p), R(p))
      OBVIOUS
    <3> HIDE DEF S, R, F
    <3> QED BY <3>2, <3>3, <3>4, CatInTime
  <2>2. F = [p \in 1 .. c.m |-> F[p]]
    OBVIOUS
  <2> HIDE DEF F
  <2> QED BY <1>3, <2>1, <2>2, EachInTime
<1> HIDE DEF F
<1> HIDE <1>1, <1>2, <1>3, <1>4
<1> QED
  BY <1>5, <1>6, <1>7, CatInTime

LEMMA ExpertInTime ==
  ASSUME NEW c, ~c.barrier, NEW l, NEW p \in Nat, NEW s
  PROVE  AllInTime(ExpertOf(c, l, p, s))
<1> DEFINE inputs == WithQ8({<<"xf", l, p>>}) \cup {<<"ids", l, p>>}
           routed == << <<"fq8", l, p>>, RouterDep(c, l, p) >>
<1>1. PICK S1 : S1 = Dot(<<"ge", l, p, s>>, routed, inputs, {<<"geb", l, p, s>>})
  OBVIOUS
<1>2. PICK S2 : S2 = Dot(<<"ue", l, p, s>>, routed, inputs, {<<"ueb", l, p, s>>})
  OBVIOUS
<1>3. PICK S3 : S3 = Op(<<"se", l, p, s>>, << <<"ge", l, p, s>>, <<"ue", l, p, s>> >>,
                        {<<"geb", l, p, s>>, <<"ueb", l, p, s>>}, {<<"he", l, p, s>>})
  OBVIOUS
<1>4. PICK S4 : S4 = Quantize(<<"eq8", l, p, s>>, <<"se", l, p, s>>, {<<"he", l, p, s>>})
  OBVIOUS
<1>5. PICK S5 : S5 = Dot(<<"downE", l, p, s>>, << <<"eq8", l, p, s>> >>,
                         WithQ8({<<"he", l, p, s>>}) \cup {<<"ids", l, p>>},
                         {<<"de", l, p, s>>})
  OBVIOUS
<1>6. /\ UpTo(<<"ge", l, p, s>>, p) /\ <<"ge", l, p, s>>[3] = p
      /\ UpTo(<<"ue", l, p, s>>, p) /\ <<"ue", l, p, s>>[3] = p
      /\ UpTo(<<"se", l, p, s>>, p) /\ <<"se", l, p, s>>[3] = p
      /\ UpTo(<<"eq8", l, p, s>>, p) /\ <<"eq8", l, p, s>>[3] = p
      /\ UpTo(<<"downE", l, p, s>>, p) /\ <<"downE", l, p, s>>[3] = p
  BY NamesUpTo DEF Ends
<1>7. UpTo(<<"fq8", l, p>>, p) /\ UpTo(RouterDep(c, l, p), p)
  BY NamesUpTo DEF Ends, RouterDep
<1>8. AllInTime(S1) /\ AllInTime(S2)
  <2>1. PICK ins, d, e : ins = inputs /\ d = <<"fq8", l, p>> /\ e = RouterDep(c, l, p)
    OBVIOUS
  <2>2. S1 = Dot(<<"ge", l, p, s>>, <<d, e>>, ins, {<<"geb", l, p, s>>})
    BY <1>1, <2>1
  <2>3. S2 = Dot(<<"ue", l, p, s>>, <<d, e>>, ins, {<<"ueb", l, p, s>>})
    BY <1>2, <2>1
  <2>4. UpTo(d, p) /\ UpTo(e, p)
    BY <1>7, <2>1
  <2> HIDE DEF inputs, routed
  <2> QED BY <1>6, <2>2, <2>3, <2>4, AfterTwoInTime
<1>9. AllInTime(S3)
  BY <1>3, <1>6, AfterTwoInTime
<1>10. AllInTime(S4)
  BY <1>4, <1>6, AfterOneInTime
<1>11. AllInTime(S5)
  BY <1>5, <1>6, AfterOneInTime
<1>12. ExpertOf(c, l, p, s) = Cat(Cat(Cat(Cat(S1, S2), S3), S4), S5)
  BY <1>1, <1>2, <1>3, <1>4, <1>5 DEF ExpertOf
<1> HIDE <1>1, <1>2, <1>3, <1>4, <1>5
<1> HIDE DEF routed, inputs
<1> QED
  BY <1>8, <1>9, <1>10, <1>11, <1>12, CatInTime

LEMMA RoutedInTime ==
  ASSUME NEW c, ~c.barrier, NEW l, NEW p \in Nat, Experts(c, p) \in Nat
  PROVE  AllInTime(RoutedOf(c, l, p))
<1> DEFINE n == Experts(c, p)
           F == [s \in 1 .. n |-> ExpertOf(c, l, p, s)]
           ds == [s \in 1 .. n |-> <<"downE", l, p, s>>]
<1>1. PICK S, R, x, U : /\ S = ExpertsOf(c, l, p) /\ x = <<"downs", l, p>>
                        /\ R = FanInOf(x, ds) /\ U = ExpertNames(c, l, p, "downE")
  OBVIOUS
<1>2. S = FlattenSeq(F) /\ F = [s \in 1 .. n |-> F[s]]
  BY <1>1 DEF ExpertsOf, ForEach
<1>3. \A s \in 1 .. n : AllInTime(F[s])
  BY ExpertInTime
<1>4. Waits(ds, U)
  <2>1. DOMAIN ds = 1 .. n
    OBVIOUS
  <2>2. U = { ds[s] : s \in 1 .. n }
    BY <1>1 DEF ExpertNames
  <2> HIDE DEF ds, n
  <2> QED BY <2>1, <2>2, WaitsList DEF n
<1>5. UpTo(x, p) /\ x[3] = p /\ \A y \in U : UpTo(y, p)
  BY <1>1, NamesUpTo DEF Ends, ExpertNames
<1>6. RoutedOf(c, l, p) = Cat(S, R)
  BY <1>1 DEF RoutedOf
<1>7. n \in Nat
  OBVIOUS
<1> HIDE DEF F, ds, n
<1>8. AllInTime(S)
  BY <1>2, <1>3, <1>7, EachInTime
<1>9. AllInTime(R)
  BY <1>1, <1>4, <1>5, InTimeAfter
<1> QED
  BY <1>6, <1>8, <1>9, CatInTime

LEMMA RoutedExpertsInTime ==
  ASSUME NEW c, c.m \in Nat, ~c.barrier, \A p \in 1 .. c.m : Experts(c, p) \in Nat \ {0},
         NEW l
  PROVE  AllInTime(RoutedExperts(c, l))
<1> DEFINE F == [p \in 1 .. c.m |-> RoutedOf(c, l, p)]
<1>1. RoutedExperts(c, l) = FlattenSeq(F)
  BY DEF RoutedExperts, RoutedOf, ExpertsOf, ExpertOf, ForEach, Cat
<1>2. \A p \in 1 .. c.m : AllInTime(F[p])
  BY RoutedInTime
<1>3. F = [p \in 1 .. c.m |-> F[p]]
  OBVIOUS
<1> HIDE DEF F
<1> QED
  BY <1>1, <1>2, <1>3, EachInTime

LEMMA StageHInTime ==
  ASSUME NEW c, c.m \in Nat, Staggered(c), \A p \in 1 .. c.m : Experts(c, p) \in Nat \ {0},
         NEW l
  PROVE  AllInTime(StageH(c, l))
<1>1. /\ AllInTime(SharedFfn(c, l)) /\ AllInTime(DenseMerge(c, l))
      /\ AllInTime(Routers(c, l)) /\ AllInTime(RoutedExperts(c, l))
      /\ AllInTime(MoeMerge(c, l))
  BY SharedFfnInTime, DenseMergeInTime, RoutersInTime, RoutedExpertsInTime, MoeMergeInTime
     DEF Staggered
<1>2. AllInTime(Barrier(c, l))
  BY NoneInTime DEF Barrier, Staggered
<1>3. CASE c.layers[l] = "dense"
  <2>1. StageH(c, l) = Cat(SharedFfn(c, l), DenseMerge(c, l))
    BY <1>3 DEF StageH, Cat
  <2> QED BY <1>1, <2>1, CatInTime
<1>4. CASE c.layers[l] # "dense"
  <2>1. StageH(c, l) = Cat(Cat(Cat(Cat(Routers(c, l), Barrier(c, l)), RoutedExperts(c, l)),
                               SharedFfn(c, l)), MoeMerge(c, l))
    BY <1>4 DEF StageH, Cat
  <2> QED BY <1>1, <1>2, <2>1, CatInTime
<1> QED
  BY <1>3, <1>4

LEMMA LayerInTime ==
  ASSUME NEW c, c.m \in Nat, c.heads \in Nat, Staggered(c),
         \A p \in 1 .. c.m : Experts(c, p) \in Nat \ {0}, NEW l
  PROVE  AllInTime(Layer(c, l))
<1>1. /\ AllInTime(StageA(c, l)) /\ AllInTime(StageB(c, l))
      /\ AllInTime(StageC(c, l)) /\ AllInTime(StageD(c, l))
  BY StageAInTime, ProjectionsInTime, StageCInTime DEF Staggered
<1>2. /\ AllInTime(StageE(c, l)) /\ AllInTime(StageF(c, l))
      /\ AllInTime(StageG(c, l)) /\ AllInTime(StageH(c, l))
  BY StageEInTime, ProjectionsInTime, StageGInTime, StageHInTime DEF Staggered
<1>3. Layer(c, l) =
        Cat(Cat(Cat(Cat(Cat(Cat(Cat(StageA(c, l), StageB(c, l)), StageC(c, l)),
            StageD(c, l)), StageE(c, l)), StageF(c, l)), StageG(c, l)), StageH(c, l))
  BY DEF Layer, Cat
<1> QED
  BY <1>1, <1>2, <1>3, CatInTime

LEMMA FinalNormInTime ==
  ASSUME NEW c, c.m \in Nat
  PROVE  AllInTime(FinalNorm(c))
<1>1. PICK last : last = Len(c.layers) + 1
  OBVIOUS
<1> DEFINE S(p) == Op(<<"fnorm", last, p>>, ResDep(last, p), {Res(last, p)},
                      {<<"xF", last, p>>})
           R(p) == Quantize(<<"Fq8", last, p>>, <<"fnorm", last, p>>, {<<"xF", last, p>>})
           F == [p \in 1 .. c.m |-> Cat(S(p), R(p))]
<1>2. FinalNorm(c) = FlattenSeq(F)
  BY <1>1 DEF FinalNorm, ForEach, Cat
<1>3. ASSUME NEW p \in 1 .. c.m  PROVE AllInTime(F[p])
  <2>1. /\ UpTo(<<"fnorm", last, p>>, p) /\ <<"fnorm", last, p>>[3] = p
        /\ UpTo(<<"Fq8", last, p>>, p) /\ <<"Fq8", last, p>>[3] = p /\ p \in Nat
    BY NamesUpTo DEF Ends
  <2>2. AllInTime(S(p))
    BY <2>1, AfterResInTime
  <2>3. AllInTime(R(p))
    BY <2>1, AfterOneInTime
  <2>4. F[p] = Cat(S(p), R(p))
    OBVIOUS
  <2> HIDE DEF S, R, F
  <2> QED BY <2>2, <2>3, <2>4, CatInTime
<1>4. F = [p \in 1 .. c.m |-> F[p]]
  OBVIOUS
<1> HIDE DEF F
<1> QED
  BY <1>2, <1>3, <1>4, EachInTime

(* The head and the terminal, for all positions.                           *)
LEMMA HeadInTime ==
  ASSUME NEW c, c.m \in Nat, ~c.multicol
  PROVE  AllInTime(HeadDot(c))
<1>1. PICK last, z, ds : /\ last = Len(c.layers) + 1 /\ z = <<"head", last, 0>>
                         /\ ds = HeadDeps(c)
  OBVIOUS
<1> DEFINE F == [p \in 1 .. c.m |->
                   Call({<<"headCol", last, p>>}, "dot", ds,
                        WithQ8({<<"xF", last, p>>}), {<<"lg", last, p>>}, 0)]
           hs == [p \in 1 .. c.m |-> <<"headCol", last, p>>]
<1>2. HeadDot(c) = Cat(FlattenSeq(F), FanInOf(z, hs))
  BY <1>1 DEF HeadDot, ForEach, Cat
<1>3. PICK U : Waits(ds, U)
  BY <1>1, WaitsHeadDeps
<1>4. ASSUME NEW p \in 1 .. c.m  PROVE AllInTime(F[p])
  <2>1. PICK x, reads, writes : /\ x = <<"headCol", last, p>>
                                /\ reads = WithQ8({<<"xF", last, p>>})
                                /\ writes = {<<"lg", last, p>>}
    OBVIOUS
  <2>2. F[p] = Call({x}, "dot", ds, reads, writes, 0)
    BY <2>1
  <2>3. x[1] \in Ends
    BY <2>1 DEF Ends
  <2> HIDE DEF F
  <2> QED BY <1>3, <2>2, <2>3, CallInTime
<1>5. F = [p \in 1 .. c.m |-> F[p]]
  OBVIOUS
<1>6. PICK R, G : R = FanInOf(z, hs) /\ G = FlattenSeq(F)
  OBVIOUS
<1>7. AllInTime(R)
  <2>1. PICK Q : Q = { hs[p] : p \in 1 .. c.m }
    OBVIOUS
  <2>2. Waits(hs, Q)
    <3>1. DOMAIN hs = 1 .. c.m
      OBVIOUS
    <3> HIDE DEF hs
    <3> QED BY <2>1, <3>1, WaitsList
  <2>3. z[1] \in Ends /\ z[3] = 0
    BY <1>1 DEF Ends
  <2>4. R = Call({z}, "signal", hs, {}, {}, 0)
    BY <1>6, <2>3 DEF FanInOf
  <2> HIDE DEF F, hs
  <2> QED BY <2>2, <2>3, <2>4, CallInTime
<1> HIDE DEF F, hs
<1>8. AllInTime(G)
  BY <1>4, <1>5, <1>6, EachInTime
<1> QED
  BY <1>2, <1>6, <1>7, <1>8, CatInTime

LEMMA TerminalInTime ==
  ASSUME NEW c, IsConfig(c)
  PROVE  AllInTime(TerminalCall(c))
<1>1. PICK x, ds : /\ x = <<"done", 0, 0>>
                   /\ ds = IF c.cert THEN HeadDeps(c) ELSE << <<"head", Len(c.layers) + 1, 0>> >>
  OBVIOUS
<1>2. TerminalCall(c) = Call({x}, "terminal", ds, {}, {}, 0)
  BY <1>1 DEF TerminalCall
<1>3. \E U : Waits(ds, U)
  <2>1. c.m \in Nat
    BY ConfigFacts
  <2>2. CASE c.cert
    BY <1>1, <2>1, <2>2, WaitsHeadDeps
  <2>3. CASE ~c.cert
    BY <1>1, <2>3, WaitsOne
  <2> QED BY <2>2, <2>3
<1>4. x[1] \in Ends
  BY <1>1 DEF Ends
<1> QED
  BY <1>2, <1>3, <1>4, CallInTime

LEMMA ScriptInTime ==
  ASSUME NEW c, IsConfig(c), Staggered(c)
  PROVE  AllInTime(Script(c))
<1>1. /\ c.m \in Nat /\ c.heads \in Nat /\ Len(c.layers) \in Nat
      /\ \A p \in 1 .. c.m : Experts(c, p) \in Nat \ {0}
  BY ConfigFacts, ExpertsAreSome
<1> DEFINE F == [l \in 1 .. Len(c.layers) |-> Layer(c, l)]
<1>2. LayersOf(c) = FlattenSeq(F) /\ F = [l \in 1 .. Len(c.layers) |-> F[l]]
  BY DEF LayersOf, ForEach
<1>3. \A l \in 1 .. Len(c.layers) : AllInTime(F[l])
  BY <1>1, LayerInTime
<1> HIDE DEF F
<1>4. AllInTime(LayersOf(c))
  BY <1>1, <1>2, <1>3, EachInTime
<1>5. AllInTime(FinalNorm(c))
  BY <1>1, FinalNormInTime
<1>6. AllInTime(HeadPart(c))
  BY <1>1, HeadInTime, NoneInTime DEF HeadPart, Staggered
<1>7. AllInTime(Body(c))
  BY <1>4, <1>5, <1>6, CatInTime DEF Body
<1> QED
  BY <1>7, ScriptIsBody, TerminalInTime, CatInTime

--------------------------------------------------------------------------------
(* Positions one after another.                                            *)

Early(q, x) == x[1] \notin Ends /\ x[3] <= q

(* The cut E has the positions up to q of the calls made so far, and       *)
(* nothing of the later ones.                                              *)
IsWave(g, names, q, E) ==
  /\ Cut(g, E)
  /\ \A t \in TaskIds(g) :
       /\ g.tasks[t].pos \in Nat
       /\ g.tasks[t].pos # 0 => (t \in E <=> g.tasks[t].pos <= q)
  /\ \A x \in DOMAIN names : names[x] \in E <=> Early(q, x)

Waves(g, names) == \A q \in Nat : \E E : IsWave(g, names, q, E)

(* What a call stands for and how it was added.                            *)
Adds(g, names, it, h, names2, tiles) ==
  \E sig, P :
    /\ P = { names[x] : x \in Used(it) }
    /\ Called(g, h, sig, P) /\ Computes(g, h, sig, P, it, tiles)
    /\ names2 = NamesAfter(names, it, sig)
    /\ Used(it) \subseteq DOMAIN names
    /\ \A x \in DOMAIN names : names[x] \in TaskIds(g)

LEMMA WaveMoves ==
  ASSUME NEW q \in Nat, NEW g, NEW names, NEW E, IsWave(g, names, q, E),
         NEW it, InTime(it), NEW h, NEW names2, NEW tiles, Adds(g, names, it, h, names2, tiles)
  PROVE  \E F : IsWave(h, names2, q, F)
<1>1. PICK sig, P :
        /\ P = { names[x] : x \in Used(it) }
        /\ Called(g, h, sig, P) /\ Computes(g, h, sig, P, it, tiles)
        /\ names2 = NamesAfter(names, it, sig)
        /\ Used(it) \subseteq DOMAIN names
        /\ \A x \in DOMAIN names : names[x] \in TaskIds(g)
  BY DEF Adds
<1>2. PICK x : /\ it.names = {x}
               /\ \/ x[1] \in Ends /\ it.pos = 0
                  \/ UpTo(x, x[3]) /\ it.pos = x[3] /\ \A y \in Used(it) : UpTo(y, x[3])
  BY DEF InTime
<1>3. /\ TaskIds(g) \subseteq TaskIds(h) /\ Sides(g, h, sig, P)
      /\ \A t \in TaskIds(g) : h.tasks[t] = g.tasks[t]
      /\ sig \in TaskIds(h) \ TaskIds(g)
  BY <1>1 DEF Called, Extends
<1>4. Cut(g, E) /\ E \subseteq TaskIds(g)
  BY DEF IsWave, Cut, Closed
<1>5. it.pos \in Nat /\ (it.pos # 0 => (Early(q, x) <=> it.pos <= q))
  BY <1>2 DEF UpTo, Early
<1>6. Early(q, x) => P \subseteq E
  <2> SUFFICES ASSUME Early(q, x), NEW y \in Used(it)  PROVE names[y] \in E
    BY <1>1
  <2>1. UpTo(y, x[3]) /\ UpTo(x, x[3]) /\ x[3] <= q
    BY <1>2 DEF Early
  <2>2. Early(q, y)
    BY <2>1 DEF UpTo, Early
  <2> QED BY <1>1, <2>2 DEF IsWave
<1>7. PICK W : W = Work(g, h, sig)
  OBVIOUS
<1>8. PICK F : /\ Cut(h, F) /\ F \cap TaskIds(g) = E
               /\ Early(q, x) => W \subseteq F
               /\ ~Early(q, x) => W \cap F = {}
  <2>1. CASE Early(q, x)
    BY <1>3, <1>4, <1>6, <1>7, <2>1 DEF Sides
  <2>2. CASE ~Early(q, x)
    BY <1>3, <1>4, <1>7, <2>2 DEF Sides
  <2> QED BY <2>1, <2>2
<1>9. ASSUME NEW t \in TaskIds(h)
      PROVE  /\ h.tasks[t].pos \in Nat
             /\ h.tasks[t].pos # 0 => (t \in F <=> h.tasks[t].pos <= q)
  <2>1. CASE t \in TaskIds(g)
    <3>1. h.tasks[t] = g.tasks[t] /\ (t \in F <=> t \in E)
      BY <1>3, <1>8, <2>1
    <3> QED BY <2>1, <3>1 DEF IsWave
  <2>2. CASE t \notin TaskIds(g) /\ h.tasks[t] = Signal
    BY <2>2 DEF Signal
  <2>3. CASE t \notin TaskIds(g) /\ h.tasks[t] # Signal
    <3>1. h.tasks[t].pos = it.pos
      BY <1>1, <2>3 DEF Computes, IsTaskOf
    <3>2. t \in F <=> Early(q, x)
      BY <1>7, <1>8, <2>3 DEF Work
    <3> QED BY <1>5, <3>1, <3>2
  <2> QED BY <2>1, <2>2, <2>3
<1>10. ASSUME NEW y \in DOMAIN names2  PROVE names2[y] \in F <=> Early(q, y)
  <2>1. y \in DOMAIN names \cup {x} /\ names2[y] = IF y = x THEN sig ELSE names[y]
    BY <1>1, <1>2, <1>10 DEF NamesAfter
  <2>2. CASE y = x
    <3>1. sig \in W
      BY <1>7 DEF Work
    <3> QED BY <1>8, <2>1, <2>2, <3>1
  <2>3. CASE y # x
    <3>1. y \in DOMAIN names /\ names[y] \in TaskIds(g) /\ names2[y] = names[y]
      BY <1>1, <2>1, <2>3
    <3>2. names[y] \in F <=> names[y] \in E
      BY <1>8, <3>1
    <3> QED BY <3>1, <3>2 DEF IsWave
  <2> QED BY <2>2, <2>3
<1> QED
  BY <1>8, <1>9, <1>10 DEF IsWave

LEMMA BuildAdds ==
  ASSUME TraceInv, Build
  PROVE  Adds(graph, sigs, Head(todo), graph', sigs', config.tiles)
<1>1. /\ pc = "build" /\ todo # <<>>
      /\ graph' = Made(Head(todo)).graph
      /\ sigs' = NamesAfter(sigs, Head(todo), Made(Head(todo)).sig)
  BY DEF Build, NamesAfter
<1>2. PICK S, n, E, k, of : Tracing(S, n, E, k, of)
  BY <1>1 DEF TraceInv
<1>3. config.tiles \in Nat \ {0}
  <2>1. config \in Configs
    BY DEF TraceInv
  <2>2. IsConfig(config)
    BY <2>1, ConfigAssumption
  <2> QED BY <2>2, ConfigFacts
<1>4. /\ ScriptOK(S, n, E) /\ TerminalOK(S[n + 1], E) /\ k \in Nat /\ k <= n
      /\ Rest(todo, S, n, k) /\ Built(graph, sigs, S, E, k) /\ n \in Nat
  BY <1>2 DEF Tracing, Building, ScriptOK
<1>5. PICK it, P : it = Head(todo) /\ P = { sigs[x] : x \in Used(it) }
  OBVIOUS
<1>6. it = S[k + 1]
  BY <1>4, <1>5, RestNext
<1>7. DOMAIN sigs = NamedBy(S, k) /\ \A x \in DOMAIN sigs : sigs[x] \in TaskIds(graph)
  BY <1>4 DEF Built, Legal
<1>8. Used(it) \subseteq DOMAIN sigs
  <2>1. k + 1 \in 1 .. n + 1 /\ (k + 1) - 1 = k
    BY <1>4
  <2>2. \A x \in Used(it) : \E j \in 1 .. k : x \in S[j].names
    BY <1>4, <1>6, <2>1 DEF ScriptOK, FollowsNames
  <2> QED BY <1>7, <2>2 DEF NamedBy
<1>9. PICK h, z : h = Made(it).graph /\ z = Made(it).sig
  OBVIOUS
<1>10. Called(graph, h, z, P) /\ Computes(graph, h, z, P, it, config.tiles)
  <2>1. CASE k = n
    <3>1. it = S[n + 1] /\ TerminalOK(it, E) /\ it.kind = "terminal"
      BY <1>4, <1>6, <2>1 DEF TerminalOK
    <3>2. PICK ids : ids = [i \in DOMAIN it.deps |-> sigs[it.deps[i]]]
      OBVIOUS
    <3>3. PICK op : op = AddTerminal(graph, ids)
      OBVIOUS
    <3>4. Made(it) = op
      BY <3>1, <3>2, <3>3, MadeTerminal
    <3>5. Built(graph, sigs, S, E, n)
      BY <1>4, <2>1
    <3>6. Closes(graph, op.graph, op.sig, P)
      BY <1>4, <1>5, <3>1, <3>2, <3>3, <3>5, TerminalBuilt
    <3>7. Closes(graph, h, z, P)
      BY <1>9, <3>4, <3>6
    <3> QED BY <3>7, ClosesComputes
  <2>2. CASE k # n
    <3>1. k + 1 \in 1 .. n
      BY <1>4, <2>2
    <3>2. IsCall(it)
      BY <1>4, <1>6, <3>1 DEF ScriptOK
    <3>3. Good(graph) /\ \A x \in Used(it) : Legal(graph, sigs[x])
      BY <1>4, <1>6, <3>1, UsedIsLegal
    <3>4. Called(graph, h, z, P)
      BY <1>3, <1>5, <1>9, <3>2, <3>3, MadeCalled
    <3>5. Computes(graph, h, z, P, it, config.tiles)
      BY <1>3, <1>5, <1>9, <3>2, <3>3, MadeComputes
    <3> QED BY <3>4, <3>5
  <2> QED BY <2>1, <2>2
<1>11. graph' = h /\ sigs' = NamesAfter(sigs, it, z)
  BY <1>1, <1>5, <1>9
<1> QED
  BY <1>5, <1>7, <1>8, <1>10, <1>11 DEF Adds

LEMMA RestInTime ==
  ASSUME NEW s, AllInTime(s), s # <<>>
  PROVE  InTime(Head(s)) /\ AllInTime(Tail(s))
<1>1. IsSequence(s) /\ \A i \in 1 .. Len(s) : InTime(s[i])
  BY DEF AllInTime
<1>2. PICK A : s \in Seq(A)
  BY <1>1 DEF IsSequence
<1>3. PICK n : n = Len(s)
  OBVIOUS
<1>4. n \in Nat
  BY <1>1, <1>3, SequenceFacts
<1>5. /\ Head(s) = s[1] /\ Tail(s) \in Seq(A) /\ Len(Tail(s)) = n - 1 /\ n # 0
      /\ \A i \in 1 .. n - 1 : Tail(s)[i] = s[i + 1]
  BY <1>2, <1>3, HeadTailProperties, EmptySeq
<1>6. 1 \in 1 .. n /\ \A i \in 1 .. n - 1 : i + 1 \in 1 .. n
  BY <1>4, <1>5
<1>7. PICK r : r = Tail(s)
  OBVIOUS
<1>8. AllInTime(r)
  BY <1>1, <1>3, <1>5, <1>6, <1>7 DEF AllInTime, IsSequence
<1> QED
  BY <1>1, <1>3, <1>5, <1>6, <1>7, <1>8

(* The marks of freeze() stay within the cuts.                             *)
KnowsOnly(g, bf) ==
  /\ DOMAIN bf = TaskIds(g)
  /\ \A E : Closed(g, E) => \A t \in E : bf[t] \subseteq E

LEMMA KnowsOnlyMore ==
  ASSUME NEW g, NEW bf, KnowsOnly(g, bf), NEW t \in TaskIds(g),
         NEW bf2, bf2 = MarkedOn(g, t, bf)
  PROVE  KnowsOnly(g, bf2)
<1>1. /\ DOMAIN bf2 = TaskIds(g)
      /\ \A c \in TaskIds(g) : Leads(g, t, c) => bf2[c] = bf[c] \cup bf[t] \cup {t}
      /\ \A c \in TaskIds(g) : ~Leads(g, t, c) => bf2[c] = bf[c]
  BY DEF MarkedOn, KnowsOnly, Leads
<1>2. ASSUME NEW E, Closed(g, E), NEW c \in E  PROVE bf2[c] \subseteq E
  <2>1. c \in TaskIds(g) /\ bf[c] \subseteq E
    BY <1>2 DEF Closed, KnowsOnly
  <2>2. CASE Leads(g, t, c)
    <3>1. t \in E
      BY <1>2, <2>1, <2>2 DEF Closed
    <3>2. bf[t] \subseteq E
      BY <1>2, <3>1 DEF KnowsOnly
    <3> QED BY <1>1, <2>1, <2>2, <3>1, <3>2
  <2>3. CASE ~Leads(g, t, c)
    BY <1>1, <2>1, <2>3
  <2> QED BY <2>2, <2>3
<1> QED
  BY <1>1, <1>2 DEF KnowsOnly

WaveInv ==
  /\ LoopInv /\ TraceInv
  /\ Staggered(config) => AllInTime(todo) /\ Waves(graph, sigs)
  /\ pc \in {"freeze", "frozen"} => KnowsOnly(graph, before)

LEMMA EmptyWaves ==
  Waves(EmptyGraph, <<>>)
<1>1. PICK g, names : g = EmptyGraph /\ names = <<>>
  OBVIOUS
<1>2. TaskIds(g) = {} /\ DOMAIN g.ports = {} /\ DOMAIN names = {}
  BY <1>1, EmptyGraphIsGood, EmptySequence DEF EmptyGraph
<1>3. \A q \in Nat : IsWave(g, names, q, {})
  BY <1>2 DEF IsWave, Cut, Closed
<1> QED
  BY <1>1, <1>3 DEF Waves

LEMMA InitWaves ==
  Init => WaveInv
<1> SUFFICES ASSUME Init  PROVE WaveInv
  OBVIOUS
<1>1. LoopInv /\ TraceInv
  BY InitLoops, InitTraces
<1>2. /\ config \in Configs /\ pc = "build" /\ todo = Script(config)
      /\ graph = EmptyGraph /\ sigs = <<>>
  BY DEF Init
<1>3. IsConfig(config)
  BY <1>2, ConfigAssumption
<1>4. Staggered(config) => AllInTime(todo)
  BY <1>2, <1>3, ScriptInTime
<1>5. Waves(graph, sigs)
  BY <1>2, EmptyWaves
<1> QED
  BY <1>1, <1>2, <1>4, <1>5 DEF WaveInv

LEMMA BuildWaves ==
  ASSUME WaveInv, Build, Staggered(config)
  PROVE  AllInTime(todo') /\ Waves(graph', sigs')
<1>1. todo # <<>> /\ todo' = Tail(todo) /\ TraceInv /\ AllInTime(todo) /\ Waves(graph, sigs)
  BY DEF Build, WaveInv
<1>2. InTime(Head(todo)) /\ AllInTime(todo')
  BY <1>1, RestInTime
<1>3. Adds(graph, sigs, Head(todo), graph', sigs', config.tiles)
  BY <1>1, BuildAdds
<1>4. PICK g, names, it, h, names2, tiles :
        /\ g = graph /\ names = sigs /\ it = Head(todo)
        /\ h = graph' /\ names2 = sigs' /\ tiles = config.tiles
  OBVIOUS
<1>5. InTime(it) /\ Adds(g, names, it, h, names2, tiles) /\ Waves(g, names)
  BY <1>1, <1>2, <1>3, <1>4
<1>6. ASSUME NEW q \in Nat  PROVE \E F : IsWave(h, names2, q, F)
  <2>1. PICK E : IsWave(g, names, q, E)
    BY <1>5 DEF Waves
  <2> QED BY <1>5, <2>1, WaveMoves
<1>7. Waves(h, names2)
  BY <1>6 DEF Waves
<1> QED
  BY <1>2, <1>4, <1>7

LEMMA NextWaves ==
  ASSUME WaveInv, [Next]_vars
  PROVE  WaveInv'
<1>1. LoopInv' /\ TraceInv'
  BY NextLoops, NextTraces DEF WaveInv
<1>2. CASE Build
  <2>1. config' = config /\ pc' \notin {"freeze", "frozen"}
    BY <1>2 DEF Build
  <2>2. Staggered(config') => AllInTime(todo') /\ Waves(graph', sigs')
    BY <1>2, <2>1, BuildWaves
  <2> QED BY <1>1, <2>1, <2>2 DEF WaveInv
<1>3. CASE BeginFreeze
  <2>1. /\ UNCHANGED <<config, todo, graph, sigs>>
        /\ before' = [i \in TaskIds(graph) |-> {}]
    BY <1>3 DEF BeginFreeze
  <2>2. KnowsOnly(graph, before)'
    BY <2>1 DEF KnowsOnly, Closed
  <2> QED BY <1>1, <2>1, <2>2 DEF WaveInv
<1>4. CASE FreezePop
  <2>1. pc = "freeze" /\ UNCHANGED <<config, pc, todo, graph, sigs>> /\ Pop
    BY <1>4 DEF FreezePop
  <2>2. PICK D : Popped(graph, D, deps, ready, seen)
    BY <2>1 DEF WaveInv, LoopInv
  <2>3. PICK t : t = Last(ready)
    OBVIOUS
  <2>4. t \in TaskIds(graph)
    BY <2>1, <2>2, <2>3, PopPops, FinishedFacts DEF WaveInv
  <2>5. before' = MarkedOn(graph, t, before)
    BY <1>4, <2>3 DEF FreezePop, MarkedOn
  <2>6. PICK bf2 : bf2 = MarkedOn(graph, t, before)
    OBVIOUS
  <2>7. KnowsOnly(graph, bf2)
    BY <2>1, <2>4, <2>6, KnowsOnlyMore DEF WaveInv
  <2>8. KnowsOnly(graph, before)'
    BY <2>1, <2>5, <2>6, <2>7
  <2> QED BY <1>1, <2>1, <2>8 DEF WaveInv
<1>5. CASE EndFreeze
  <2>1. pc = "freeze" /\ UNCHANGED <<config, todo, graph, sigs, before>>
    BY <1>5 DEF EndFreeze
  <2> QED BY <1>1, <2>1 DEF WaveInv
<1>6. CASE BeginPass \/ Execute \/ EndPass
  <2>1. UNCHANGED <<config, todo, graph, sigs>> /\ pc' \notin {"freeze", "frozen"}
    BY <1>6 DEF BeginPass, Execute, EndPass
  <2> QED BY <1>1, <2>1 DEF WaveInv
<1>7. CASE UNCHANGED vars
  <2>1. UNCHANGED <<config, pc, todo, graph, sigs, before>>
    BY <1>7 DEF vars
  <2> QED BY <1>1, <2>1 DEF WaveInv
<1> QED
  BY <1>2, <1>3, <1>4, <1>5, <1>6, <1>7 DEF Next

LEMMA WavesAreWavefront ==
  WaveInv => Wavefront
<1> SUFFICES ASSUME WaveInv, pc = "frozen", Staggered(config),
                    NEW t \in TaskIds(graph), Task(t).pos # 0, NEW u \in before[t]
             PROVE  Task(u).pos <= Task(t).pos
  BY DEF Wavefront, Staggered
<1>1. Waves(graph, sigs) /\ KnowsOnly(graph, before)
  BY DEF WaveInv
<1>2. PICK q \in Nat : q = graph.tasks[t].pos
  <2>1. 0 \in Nat
    OBVIOUS
  <2>2. PICK E : IsWave(graph, sigs, 0, E)
    BY <1>1, <2>1 DEF Waves
  <2> QED BY <2>2 DEF IsWave
<1>3. PICK E : IsWave(graph, sigs, q, E)
  BY <1>1 DEF Waves
<1>4. t \in E /\ Closed(graph, E)
  BY <1>2, <1>3 DEF IsWave, Cut, Task
<1>5. u \in E /\ u \in TaskIds(graph)
  BY <1>1, <1>4 DEF KnowsOnly, Closed
<1>6. graph.tasks[u].pos \in Nat /\ (graph.tasks[u].pos # 0 => graph.tasks[u].pos <= q)
  BY <1>3, <1>5 DEF IsWave
<1> QED
  BY <1>2, <1>6 DEF Task

(* "positions couple ONLY through the KV cache": without the options that  *)
(* join positions nothing that build_graph_m adds for a position waits,    *)
(* through however many tasks and relays, for a later one, for any batch,  *)
(* layers, tiles and heads.                                                *)
THEOREM PositionsAreStaggered ==
  Spec => []Wavefront
<1>1. WaveInv /\ [Next]_vars => WaveInv'
  BY NextWaves
<1> QED
  BY <1>1, InitWaves, WavesAreWavefront, PTL DEF Spec
================================================================================
