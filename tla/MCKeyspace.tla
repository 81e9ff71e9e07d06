------------------------------ MODULE MCKeyspace ------------------------------
(***************************************************************************)
(* Values of Keyspace's constants for TLC.                                 *)
(***************************************************************************)
EXTENDS Keyspace, TLC

(* Every key has a bucket of its own ... *)
MCNoCollision == [k \in Key |-> {}]

(* ... or all share one, and a delete can lose any of the others. *)
MCAllCollide == [k \in Key |-> Key \ {k}]

(* Nothing depends on which value is which, as long as none is a big one. *)
MCSymmetry == Permutations(Val)
===============================================================================
