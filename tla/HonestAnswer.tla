----------------------------- MODULE HonestAnswer -----------------------------
(***************************************************************************)
(* What the client of one HTTP exchange may rely on: one head, parts in     *)
(* order, then one end.  An answer relayed from the official API ends as    *)
(* complete only when all of it was relayed and its source was finished     *)
(* with it; an answer that cannot be finished is cut, and shows that it is. *)
(***************************************************************************)
EXTENDS Naturals

VARIABLES
  phase,   \* "none", "open" (the head went out), "whole" or "cut"
  from,    \* "server" or "upstream": who wrote the answer
  sent,    \* parts of it the client was sent
  given,   \* input: parts the source has produced
  source   \* input: "running", or how the source ended

vars == <<phase, from, sent, given, source>>

\* A source that closed its connection is taken to be finished.
Finished == {"complete", "closed"}

Init ==
  /\ phase = "none"
  /\ from = "server"
  /\ sent = 0
  /\ given = 0
  /\ source = "running"

\* The source moves in any step, and what it has given it has given.
Input ==
  /\ source' \in {"running", "broken"} \union Finished
  /\ given' \in Nat
  /\ from' = "upstream" => sent' <= given'

Begin == phase = "none" /\ phase' = "open" /\ from' \in {"server", "upstream"} /\ sent' = 0

Grow == phase = "open" /\ sent' = sent + 1 /\ UNCHANGED <<phase, from>>

Finish ==
  /\ phase \in {"none", "open"}
  /\ phase = "open" => from' = from /\ sent' = sent
  /\ from' = "server" => sent' = sent
  /\ from' = "upstream" => source' \in Finished /\ sent' = given'
  /\ phase' = "whole"

Cut == phase \in {"none", "open"} /\ phase' = "cut" /\ UNCHANGED <<from, sent>>

\* The response rests: the source may move on its own, and what it gives may
\* never be shown.
Wait == UNCHANGED <<phase, from, sent>>

Next == Input /\ (Begin \/ Grow \/ Finish \/ Cut \/ Wait)

Spec == Init /\ [][Next]_vars
=============================================================================
