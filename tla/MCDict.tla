-------------------------------- MODULE MCDict --------------------------------
(***************************************************************************)
(* Values of Dict's constants for TLC: up to five keys, tables of 2, 4, 8   *)
(* buckets in place of 4, 8, 16, and growth when the table is full in      *)
(* place of three times full, so that a few keys make it grow twice.       *)
(***************************************************************************)
EXTENDS Dict, TLC

CONSTANTS k1, k2, k3, k4, k5

(* k1, k2 and k3 collide at size 2, k1 and k3 at size 4 too, none at size  *)
(* 8; k4 and k5 collide with each other at size 2 only.                    *)
MCHash ==
    [k \in Key |->
        ((k1 :> 0) @@ (k2 :> 2) @@ (k3 :> 4) @@ (k4 :> 1) @@ (k5 :> 3))[k]]

MCTableSizes == {2, 4, 8, 16}
===============================================================================
