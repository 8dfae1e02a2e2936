----------------------------- MODULE Rendezvous -----------------------------
(***************************************************************************)
(* What the session registry of the agent endpoint promises, without its   *)
(* queues, timers, sessions or sweeper: RunSSE streams and BidiAppend      *)
(* messages that carry the same request id are paired one to one, whichever *)
(* arrives first, and a stream never waits while a message for it is        *)
(* parked (packages/server/src/agent/session.ts, its header comment).       *)
(***************************************************************************)
CONSTANTS
  RequestIds,   \* request ids chosen by the client
  Streams,      \* RunSSE calls
  Appends,      \* BidiAppend calls, each with the message it carries
  IdOfStream,   \* the request id a RunSSE call carries
  IdOfAppend,   \* the request id a BidiAppend call carries
  NoMessage     \* the value of a stream that holds no message

VARIABLES
  parked,       \* messages accepted and not yet handed to a stream
  spent,        \* messages that were handed out or dropped
  waiting,      \* streams waiting for a message
  left,         \* streams that have a message or were told there is none
  got           \* the message each stream was given

vars == <<parked, spent, waiting, left, got>>

For(m) == {s \in waiting : IdOfStream[s] = IdOfAppend[m]}

Init ==
  /\ parked = {}
  /\ spent = {}
  /\ waiting = {}
  /\ left = {}
  /\ got = [s \in Streams |-> NoMessage]

\* A message goes to a waiting stream of its id, and is parked only when
\* there is none.
Send(m) ==
  /\ m \notin parked \cup spent
  /\ IF For(m) # {}
       THEN \E s \in For(m) :
              /\ waiting' = waiting \ {s}
              /\ left' = left \cup {s}
              /\ got' = [got EXCEPT ![s] = m]
              /\ spent' = spent \cup {m}
              /\ UNCHANGED parked
       ELSE /\ parked' = parked \cup {m}
            /\ UNCHANGED <<spent, waiting, left, got>>

\* A stream takes a parked message of its id, and waits only when there is
\* none.
Ask(s) ==
  /\ s \notin waiting \cup left
  /\ LET mine == {m \in parked : IdOfAppend[m] = IdOfStream[s]} IN
     IF mine # {}
       THEN \E m \in mine :
              /\ parked' = parked \ {m}
              /\ spent' = spent \cup {m}
              /\ left' = left \cup {s}
              /\ got' = [got EXCEPT ![s] = m]
              /\ UNCHANGED waiting
       ELSE /\ waiting' = waiting \cup {s}
            /\ UNCHANGED <<parked, spent, left, got>>

\* An id, or several at once, is forgotten: the messages parked for it are
\* dropped and every stream that waits on it is released empty-handed.
Forget(ids) ==
  LET released == {s \in waiting : IdOfStream[s] \in ids}
      dropped  == {m \in parked : IdOfAppend[m] \in ids}
  IN /\ released # {} \/ dropped # {}
     /\ waiting' = waiting \ released
     /\ left' = left \cup released
     /\ parked' = parked \ dropped
     /\ spent' = spent \cup dropped
     /\ UNCHANGED got

Next ==
  \/ \E m \in Appends : Send(m)
  \/ \E s \in Streams : Ask(s)
  \/ \E ids \in SUBSET RequestIds : Forget(ids)

Spec == Init /\ [][Next]_vars
=============================================================================
