---------------------------- MODULE MCEventLoop ----------------------------
(* Values for the constants of EventLoop. *)
EXTENDS EventLoop

CONSTANTS c1, c2, c3

MCConn == {c1, c2, c3}
MCFds == {5, 6}
=============================================================================
