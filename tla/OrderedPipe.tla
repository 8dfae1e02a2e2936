------------------------------ MODULE OrderedPipe ------------------------------
(***************************************************************************)
(* What a client of a socket may rely on when it writes: the peer gets the *)
(* chunks in the order they were written, each once and none that was not  *)
(* written, then the end if the client ended, and nothing more once the    *)
(* stream is broken.                                                       *)
(***************************************************************************)
EXTENDS Naturals, Sequences

CONSTANT MaxWritten \* bound: how many chunks the client writes

VARIABLES
    written, \* chunks written so far: the client's n-th chunk is the number n
    ended,   \* whether the client ended its side
    out,     \* what the peer is given: the chunks, and 0 for the end
    broken   \* whether the stream was destroyed

vars == <<written, ended, out, broken>>

Init == written = 0 /\ ended = FALSE /\ out = <<>> /\ broken = FALSE

EndGiven == \E i \in 1..Len(out) : out[i] = 0

Write == /\ ~ended /\ written < MaxWritten
         /\ written' = written + 1
         /\ UNCHANGED <<ended, out, broken>>

End == ended' = TRUE /\ UNCHANGED <<written, out, broken>>

Give == /\ ~broken /\ ~EndGiven /\ Len(out) < written
        /\ out' = Append(out, Len(out) + 1)
        /\ UNCHANGED <<written, ended, broken>>

GiveEnd == /\ ~broken /\ ~EndGiven /\ ended /\ Len(out) = written
           /\ out' = Append(out, 0)
           /\ UNCHANGED <<written, ended, broken>>

Break == broken' = TRUE /\ UNCHANGED <<written, ended, out>>

Next == Write \/ End \/ Give \/ GiveEnd \/ Break

Spec == Init /\ [][Next]_vars
=============================================================================
