------------------------- MODULE MCServerSupervisor -------------------------
(***************************************************************************)
(* Bounds for ServerSupervisor: two windows, and two processes for them to  *)
(* start besides a server somebody may have started from a terminal.        *)
(***************************************************************************)
EXTENDS ServerSupervisor

CONSTANTS w1, w2, p1, p2
=============================================================================
