--------------------------- MODULE MCDataObjects ---------------------------
(* Small instances of DataObjects: one settings object and one of the      *)
(* cache, over a few days.                                                 *)
EXTENDS DataObjects, TLC

(* 7 and 30 days, 3 and 7, in proportion to a period of 7.                 *)
MCMissingGrace == ("normal" :> 1) @@ ("high" :> 1)
MCQuarantineGrace == ("normal" :> 2) @@ ("high" :> 1)
=============================================================================
