----------------------------- MODULE MCDecodeGraph -----------------------------
(***************************************************************************)
(* Batches for DecodeGraph: every option on somewhere, a weight of one     *)
(* tile, and a router signal with so many consumers that its relay tree    *)
(* chains a second trunk.                                                  *)
(***************************************************************************)
EXTENDS DecodeGraph

PlainBatch == [m |-> 1, layers |-> <<"dense", "moe">>, tiles |-> 1, heads |-> 2,
          used |-> 2, approxK |-> 0, multicol |-> FALSE, barrier |-> FALSE,
          cert |-> FALSE]

MCConfigs == {
  PlainBatch,
  [PlainBatch EXCEPT !.m = 3, !.tiles = 2],
  [PlainBatch EXCEPT !.m = 3, !.tiles = 2, !.layers = <<"moe">>, !.used = 3,
                !.approxK = 2],
  [PlainBatch EXCEPT !.m = 3, !.tiles = 3, !.layers = <<"moe">>, !.used = 3,
                !.barrier = TRUE],
  [PlainBatch EXCEPT !.m = 3, !.tiles = 2, !.multicol = TRUE, !.cert = TRUE],
  [PlainBatch EXCEPT !.m = 2, !.heads = 7, !.multicol = TRUE] }
================================================================================
