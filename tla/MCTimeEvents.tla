---------------------------- MODULE MCTimeEvents ----------------------------
(* Values for the constants of TimeEvents. *)
EXTENDS TimeEvents

MCDelays == {1, 5}
=============================================================================
