------------------------------ MODULE TurnReply ------------------------------
(***************************************************************************)
(* What a client of a chat turn may rely on, whatever the turn did inside   *)
(* (packages/server/src/agent/turn.ts, the contract above `run`): the       *)
(* response ends once; until then it may show parts of the answer; it may   *)
(* end as a protocol error only while nothing of the answer was shown.      *)
(***************************************************************************)
VARIABLES
  reply,   \* "none", "open" (headers sent), "ended" or "failed"
  shown    \* a part of the answer was shown

vars == <<reply, shown>>

Unfinished == reply \in {"none", "open"}

Init ==
  /\ reply \in {"none", "open"}
  /\ shown = FALSE

Show ==
  /\ Unfinished
  /\ reply' = "open"
  /\ shown' = TRUE

Begin ==
  /\ reply = "none"
  /\ reply' = "open"
  /\ UNCHANGED shown

\* The last write may show something too.
End ==
  /\ Unfinished
  /\ reply' = "ended"
  /\ shown' \in {shown, TRUE}

Fail ==
  /\ Unfinished
  /\ ~shown
  /\ reply' = "failed"
  /\ UNCHANGED shown

Next == Show \/ Begin \/ End \/ Fail

Spec == Init /\ [][Next]_vars
=============================================================================
