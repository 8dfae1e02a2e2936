-------------------------- MODULE MCSessionRegistry --------------------------
(***************************************************************************)
(* A small instance of SessionRegistry: a client that opens two streams on  *)
(* one id (a retry, or a second window) and one on another, and sends a run *)
(* request and another message on the first id.                             *)
(***************************************************************************)
EXTENDS SessionRegistry

CONSTANTS r1, r2, s1, s2, s3, a1, a2

MCIdOfStream == [s \in Streams |-> IF s = s3 THEN r2 ELSE r1]
MCIdOfAppend == [a \in Appends |-> r1]
=============================================================================
