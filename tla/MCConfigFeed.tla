------------------------------ MODULE MCConfigFeed ------------------------------
(* The server's store and one renderer, for TLC.                           *)
EXTENDS ConfigFeed

CONSTANTS server, r1
=============================================================================
