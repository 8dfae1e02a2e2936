------------------------------- MODULE MCUplink -------------------------------
(***************************************************************************)
(* Bounds for Uplink: two ports and two configurations, one that holds      *)
(* requests and tries both ports, and one that passes them through and      *)
(* names the second port alone; a request through each kind of layer.       *)
(***************************************************************************)
EXTENDS Uplink

CONSTANTS r1, r2, e1, e2, both, moved

MCRequests == {r1, r2}
MCLayerOf == [r \in {r1, r2} |-> IF r = r1 THEN "stream" ELSE "socket"]
MCEndpoints == {e1, e2}
MCConfigs == {both, moved}
MCHolding == {both}
MCLocal == [c \in {both, moved} |-> IF c = both THEN e1 ELSE e2]
MCTunnel == [c \in {both, moved} |-> e2]
MCMode == [c \in {both, moved} |-> IF c = both THEN "auto" ELSE "local"]
=============================================================================
