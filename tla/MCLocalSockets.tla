---------------------------- MODULE MCLocalSockets ----------------------------
(***************************************************************************)
(* Bounds for the three ways to the local server: the socket that is handed *)
(* out before its destination is known, the connection the server tells the *)
(* protocol of, and the calls of a window's page.  A behaviour is one of     *)
(* the three; the others rest at an initial state.                          *)
(***************************************************************************)
EXTENDS DeferredSocket, ProtocolMultiplexer, RendererRoute

VARIABLE part   \* whose behaviour this is

mcVars == <<part, vars, muxVars, pageVars>>

MuxRests == speaks = "h2" /\ timer = TRUE /\ MuxInit
PageRests == serverUp = FALSE /\ claimed = FALSE /\ PageInit

MCInit ==
  \/ part = "socket" /\ MuxRests /\ PageRests /\ Init
  \/ part = "mux" /\ Init /\ PageRests /\ MuxInit
  \/ part = "page" /\ Init /\ MuxRests /\ PageInit

SocketSteps == part = "socket" /\ Next /\ UNCHANGED <<part, muxVars, pageVars>>
MuxSteps == part = "mux" /\ MuxNext /\ UNCHANGED <<part, vars, pageVars>>
PageSteps == part = "page" /\ PageNext /\ UNCHANGED <<part, vars, muxVars>>

MCNext == SocketSteps \/ MuxSteps \/ PageSteps

\* The fairness of each part, for its own behaviours: what rests owes nothing.
MCFairness ==
  /\ part = "socket" => Fairness
  /\ part = "mux" => MuxFairness
  /\ part = "page" => PageFairness

MCSpec == MCInit /\ [][MCNext]_mcVars /\ MCFairness
=============================================================================
