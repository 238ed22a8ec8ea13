------------------------------ MODULE MCParts ------------------------------
(***************************************************************************)
(* The parts of the engine whose steps no thread races, and the shadow     *)
(* cache, checked in one run of TLC: the tile kernels, the draft source,   *)
(* the certified argmax, the decode graph and fl_shadow_init.  They do not *)
(* interact with each other.  A behaviour is one of one part, chosen in    *)
(* the initial state; the variables of the others keep their first value,  *)
(* so the state spaces add up and do not multiply.                         *)
(***************************************************************************)
EXTENDS MCTileExecution, SuffixDraft, HeadCert, MCShadowCache, MCDecodeGraph

VARIABLE active

cacheRunVars == <<cacheVars, inits>>
partsVars == <<active, tvars, draftVars, certVars, cacheRunVars, vars>>

-----------------------------------------------------------------------------
(* Constants of the parts *)

\* Three hash values for eight grams: chains with collisions.
MCGramHash == [g \in [1..H -> DraftTokens] |-> (g[1] + 2 * g[2] + g[3]) % 3]

\* Rows with equal and opposite dots, so that ties occur within and outside the
\* anchors; roundings within the margin of 1.
CertRows == {<<2, 1, 0, 1>>, <<1, 1, 1, 1>>, <<-2, 1, 1, 0>>}
MCProblems == [w : [1..3 -> CertRows], h : {<<1, 1, 1, 1>>, <<2, -1, 1, 0>>}, hint : -1..2,
               round : {<<0, 0, 0>>, <<1, 0, -1>>, <<-1, 1, 0>>, <<0, 1, 1>>}, topk : 1..3]

-----------------------------------------------------------------------------
Idle(p) ==
    CASE p = "tiles" -> env = Plain /\ done = 0 /\ y = <<>>
      [] p = "cert" -> problem = None /\ topn_ = <<>> /\ winner = -1
      [] p = "draft" -> DraftInit
      [] p = "cache" -> BoundedCacheInit
      [] p = "graph" -> /\ config = PlainBatch /\ pc = "rest" /\ todo = <<>> /\ graph = EmptyGraph
                        /\ sigs = <<>> /\ deps = <<>> /\ ready = <<>> /\ seen = <<>> /\ sinks = {}
                        /\ terminal = 0 /\ before = <<>> /\ dirty = {} /\ right = {} /\ passes = 0

Runs(p) ==
    CASE p = "tiles" -> TileInit
      [] p = "cert" -> CertInit
      [] p = "graph" -> Init
      [] OTHER -> Idle(p)

Parts == {"tiles", "draft", "cert", "cache", "graph"}

Start(p) == (active = p /\ Runs(p)) \/ (active # p /\ Idle(p))
PartsInit ==
    /\ active \in Parts
    /\ Start("tiles") /\ Start("draft") /\ Start("cert") /\ Start("cache") /\ Start("graph")

PartsNext ==
    /\ UNCHANGED active
    /\ \/ active = "tiles" /\ TileNext /\ UNCHANGED <<draftVars, certVars, cacheRunVars, vars>>
       \/ active = "draft" /\ DraftNext /\ UNCHANGED <<tvars, certVars, cacheRunVars, vars>>
       \/ active = "cert" /\ CertNext /\ UNCHANGED <<tvars, draftVars, cacheRunVars, vars>>
       \/ active = "cache" /\ BoundedCacheNext /\ UNCHANGED <<tvars, draftVars, certVars, vars>>
       \/ active = "graph" /\ Next /\ UNCHANGED <<tvars, draftVars, certVars, cacheRunVars>>

PartsSpec == PartsInit /\ [][PartsNext]_partsVars
=============================================================================
