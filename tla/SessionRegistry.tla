--------------------------- MODULE SessionRegistry ---------------------------
(***************************************************************************)
(* The native agent chat splits one turn over two calls: RunSSE opens the   *)
(* response stream and waits; BidiAppend brings the run request.  Both are  *)
(* correlated by a request id only.  This module models the registry where  *)
(* they meet (packages/server/src/agent/session.ts) with the two handlers   *)
(* that drive it (packages/server/src/rpc/handlers/agent-run.ts).           *)
(*                                                                         *)
(* An action is one run of the JavaScript event loop: a callback and the    *)
(* microtasks it triggers.  The promise a waiter holds is the exception:    *)
(* several request bodies may end in one tick, so the continuation of a     *)
(* stream that was given a message (Resume) is an action of its own.        *)
(* Timers are untimed: one may fire at any moment after it is set.          *)
(***************************************************************************)
EXTENDS Sequences, Naturals

CONSTANTS
  RequestIds,   \* request ids chosen by the client
  Streams,      \* RunSSE calls
  Appends,      \* BidiAppend calls, each with the message it carries
  IdOfStream,   \* the request id a RunSSE call carries
  IdOfAppend,   \* the request id a BidiAppend call carries
  RunRequests,  \* the messages decodeRunRequest accepts
  NoMessage     \* the value of a stream that holds no message

ASSUME SessionAssumption ==
  /\ IdOfStream \in [Streams -> RequestIds]
  /\ IdOfAppend \in [Appends -> RequestIds]
  /\ RunRequests \subseteq Appends
  /\ NoMessage \notin Appends

VARIABLES
  live,      \* the keys of the sessions map
  queued,    \* [id -> messages parked in its session, oldest first]
  waiters,   \* [id -> streams waiting in its session, oldest first]
  aged,      \* sessions created longer than sessionTtlMs ago
  sweeper,   \* the interval timer is set
  stream,    \* [stream -> where its handler is]; a call is "declined" when it
             \* is forwarded before, and "forwarded" when after, it asked the
             \* registry
  taken,     \* [stream -> the message next() gave it]
  append,    \* [append -> where its handler is]
  ready,     \* a schema is loaded and a model is configured
  disposed   \* the server has disposed of the registry

registry == <<live, queued, waiters, aged, sweeper>>
vars == <<registry, stream, taken, append, ready, disposed>>

StreamStates == {"new", "reading", "waiting", "holding", "serving", "answered",
                 "forwarded", "declined"}
AppendStates == {"new", "reading", "parked", "acked", "forwarded"}

TypeOK ==
  /\ live \subseteq RequestIds
  /\ queued \in [RequestIds -> Seq(Appends)]
  /\ waiters \in [RequestIds -> Seq(Streams)]
  /\ aged \subseteq live
  /\ sweeper \in BOOLEAN
  /\ stream \in [Streams -> StreamStates]
  /\ taken \in [Streams -> Appends \cup {NoMessage}]
  /\ append \in [Appends -> AppendStates]
  /\ ready \in BOOLEAN
  /\ disposed \in BOOLEAN

Init ==
  /\ live = {}
  /\ queued = [r \in RequestIds |-> <<>>]
  /\ waiters = [r \in RequestIds |-> <<>>]
  /\ aged = {}
  /\ sweeper = FALSE
  /\ stream = [s \in Streams |-> "new"]
  /\ taken = [s \in Streams |-> NoMessage]
  /\ append = [a \in Appends |-> "new"]
  /\ ready \in BOOLEAN
  /\ disposed = FALSE

-----------------------------------------------------------------------------
(* The registry.                                                           *)

\* Faulty: a session is created without arming the sweeper.
EnsureUnarmed(r) ==
  /\ live' = live \cup {r}
  /\ UNCHANGED <<aged, sweeper>>

\* session(): the session of an id, created on first use with the sweeper
\* armed.
Ensure(r) ==
  /\ live' = live \cup {r}
  /\ sweeper' = (sweeper \/ r \notin live)
  /\ UNCHANGED aged

\* Faulty: the creation time of a session outlives it, so that a new session
\* under the same id is born old.
RemoveKeepsAge(ids) ==
  /\ live' = live \ ids
  /\ queued' = [r \in RequestIds |-> IF r \in ids THEN <<>> ELSE queued[r]]
  /\ waiters' = [r \in RequestIds |-> IF r \in ids THEN <<>> ELSE waiters[r]]
  /\ UNCHANGED aged

\* close() of every id in ids: the sessions leave the map with their parked
\* messages, and the streams waiting in them are released without a message.
\* Their own handlers then find no session left to close and forward the call.
Remove(ids) ==
  /\ live' = live \ ids
  /\ aged' = aged \ ids
  /\ queued' = [r \in RequestIds |-> IF r \in ids THEN <<>> ELSE queued[r]]
  /\ waiters' = [r \in RequestIds |-> IF r \in ids THEN <<>> ELSE waiters[r]]

Release(ids, st) ==
  [s \in Streams |-> IF st[s] = "waiting" /\ IdOfStream[s] \in ids THEN "forwarded" ELSE st[s]]

\* close() by the handler of stream s, which then ends as outcome.
CloseFor(s, outcome) ==
  /\ Remove({IdOfStream[s]})
  /\ stream' = [Release({IdOfStream[s]}, stream) EXCEPT ![s] = outcome]
  /\ UNCHANGED <<sweeper, taken, append, ready, disposed>>

-----------------------------------------------------------------------------
(* handleRunSse.                                                           *)

\* The call arrives.  Without a schema or a model it is forwarded; otherwise
\* its body is awaited.
Open(s) ==
  /\ stream[s] = "new"
  /\ stream' = [stream EXCEPT ![s] = IF ready THEN "reading" ELSE "declined"]
  /\ UNCHANGED <<registry, taken, append, ready, disposed>>

\* The body carries no request id.
Unreadable(s) ==
  /\ stream[s] = "reading"
  /\ stream' = [stream EXCEPT ![s] = "declined"]
  /\ UNCHANGED <<registry, taken, append, ready, disposed>>

\* next(): the oldest parked message, or a place among the waiters.
Join(s) ==
  LET r == IdOfStream[s] IN
  /\ stream[s] = "reading"
  /\ Ensure(r)
  /\ \/ /\ queued[r] # <<>>
        /\ queued' = [queued EXCEPT ![r] = Tail(@)]
        /\ taken' = [taken EXCEPT ![s] = Head(queued[r])]
        /\ stream' = [stream EXCEPT ![s] = "holding"]
        /\ UNCHANGED waiters
     \/ /\ queued[r] = <<>>
        /\ waiters' = [waiters EXCEPT ![r] = Append(@, s)]
        /\ stream' = [stream EXCEPT ![s] = "waiting"]
        /\ UNCHANGED <<queued, taken>>
  /\ UNCHANGED <<append, ready, disposed>>

\* Faulty: the timer is kept per session, and a second waiter clears it.
TimeoutOfSession(s) ==
  /\ waiters[IdOfStream[s]] = <<s>>
  /\ CloseFor(s, "forwarded")

\* The first-message timer of a waiter fires (it lives in the waiter, and is
\* cleared whenever the waiter leaves the list): the handler closes the
\* session, which also releases every other waiter, and forwards the call.
Timeout(s) ==
  /\ \E i \in 1..Len(waiters[IdOfStream[s]]) : waiters[IdOfStream[s]][i] = s
  /\ CloseFor(s, "forwarded")

\* The handler has its message.  Only a run request is served; for any other
\* message the session is closed and the call forwarded.
Resume(s) ==
  /\ stream[s] = "holding"
  /\ \/ /\ taken[s] \in RunRequests
        /\ stream' = [stream EXCEPT ![s] = "serving"]
        /\ UNCHANGED <<registry, taken, append, ready, disposed>>
     \/ /\ taken[s] \notin RunRequests
        /\ CloseFor(s, "forwarded")

\* The turn ends, fails, or is aborted because the client is gone: in every
\* case the finally block ends the stream and closes the session.
Finish(s) ==
  /\ stream[s] = "serving"
  /\ CloseFor(s, "answered")

-----------------------------------------------------------------------------
(* handleBidiAppend.                                                       *)

Arrive(a) ==
  /\ append[a] = "new"
  /\ append' = [append EXCEPT ![a] = IF ready THEN "reading" ELSE "forwarded"]
  /\ UNCHANGED <<registry, stream, taken, ready, disposed>>

\* The body is read but carries no request id (forwarded), or no payload
\* (acknowledged, nothing to park).
Empty(a) ==
  /\ append[a] = "reading"
  /\ \E outcome \in {"forwarded", "acked"} : append' = [append EXCEPT ![a] = outcome]
  /\ UNCHANGED <<registry, stream, taken, ready, disposed>>

\* Faulty: append() parks the message without looking for a waiter.
ParkBlindly(a) ==
  /\ append[a] = "reading"
  /\ append' = [append EXCEPT ![a] = "parked"]
  /\ Ensure(IdOfAppend[a])
  /\ queued' = [queued EXCEPT ![IdOfAppend[a]] = Append(@, a)]
  /\ UNCHANGED <<waiters, taken, stream, ready, disposed>>

\* Faulty: append() gives the message to a waiter and parks it as well.
ParkTwice(a) ==
  LET r == IdOfAppend[a] IN
  /\ append[a] = "reading" /\ waiters[r] # <<>>
  /\ append' = [append EXCEPT ![a] = "parked"]
  /\ waiters' = [waiters EXCEPT ![r] = Tail(@)]
  /\ taken' = [taken EXCEPT ![Head(waiters[r])] = a]
  /\ stream' = [stream EXCEPT ![Head(waiters[r])] = "holding"]
  /\ queued' = [queued EXCEPT ![r] = Append(@, a)]
  /\ UNCHANGED <<live, aged, sweeper, ready, disposed>>

\* append(): the message goes to the oldest waiter, or is parked.  Either way
\* the call is acknowledged.
Park(a) ==
  LET r == IdOfAppend[a] IN
  /\ append[a] = "reading"
  /\ append' = [append EXCEPT ![a] = "parked"]
  /\ Ensure(r)
  /\ \/ /\ waiters[r] # <<>>
        /\ waiters' = [waiters EXCEPT ![r] = Tail(@)]
        /\ taken' = [taken EXCEPT ![Head(waiters[r])] = a]
        /\ stream' = [stream EXCEPT ![Head(waiters[r])] = "holding"]
        /\ UNCHANGED queued
     \/ /\ waiters[r] = <<>>
        /\ queued' = [queued EXCEPT ![r] = Append(@, a)]
        /\ UNCHANGED <<waiters, taken, stream>>
  /\ UNCHANGED <<ready, disposed>>

-----------------------------------------------------------------------------
(* Time, the sweeper, shutdown and configuration.                          *)

\* A session becomes older than sessionTtlMs.
Age(r) ==
  /\ r \in live \ aged
  /\ aged' = aged \cup {r}
  /\ UNCHANGED <<live, queued, waiters, sweeper, stream, taken, append, ready, disposed>>

\* The sweeper's tick drops the old sessions nobody waits in, and stops
\* itself when none is left.
Sweep ==
  LET stale == {r \in aged : waiters[r] = <<>>} IN
  /\ sweeper
  /\ Remove(stale)
  /\ sweeper' = (live \ stale # {})
  /\ UNCHANGED <<stream, taken, append, ready, disposed>>

\* The server closes: every session is closed and the sweeper stopped.  The
\* handlers in flight go on.
Dispose ==
  /\ ~disposed
  /\ disposed' = TRUE
  /\ Remove(live)
  /\ stream' = Release(live, stream)
  /\ sweeper' = FALSE
  /\ UNCHANGED <<taken, append, ready>>

\* A provider file or a schema is saved or removed while calls are in flight.
Reconfigure ==
  /\ ready' = ~ready
  /\ UNCHANGED <<registry, stream, taken, append, disposed>>

-----------------------------------------------------------------------------
Next ==
  \/ \E s \in Streams : Open(s) \/ Unreadable(s) \/ Join(s) \/ Timeout(s) \/ Resume(s) \/ Finish(s)
  \/ \E a \in Appends : Arrive(a) \/ Empty(a) \/ Park(a)
  \/ \E r \in RequestIds : Age(r)
  \/ Sweep
  \/ Dispose
  \/ Reconfigure

Spec == Init /\ [][Next]_vars

\* The runtime's own obligations: timers fire, continuations run, time passes.
\* Nothing is assumed of the client, of the provider or of the operator.
Fairness ==
  /\ \A s \in Streams : WF_vars(Timeout(s)) /\ WF_vars(Resume(s))
  /\ \A r \in RequestIds : WF_vars(Age(r))
  /\ WF_vars(Sweep)

FairSpec == Spec /\ Fairness

-----------------------------------------------------------------------------
(* Properties.                                                             *)

Queued(a) == \E i \in 1..Len(queued[IdOfAppend[a]]) : queued[IdOfAppend[a]][i] = a

\* The rendezvous never has both sides present and unpaired: no message is
\* parked in a session in which a stream waits (append and next).
NoMissedMeeting ==
  \A r \in RequestIds : queued[r] = <<>> \/ waiters[r] = <<>>

\* No stream waits forever: it is matched, timed out or released.
WaitEnds == \A s \in Streams : stream[s] = "waiting" ~> stream[s] # "waiting"

\* No session stays forever, claimed or not (the sweeper).
SessionReclaimed == \A r \in RequestIds : r \in live ~> r \notin live

\* Nothing of a turn that did not come together is kept: neither the stream
\* that waits nor the session it waits in.
NothingStays == WaitEnds /\ SessionReclaimed

-----------------------------------------------------------------------------
(* The abstract rendezvous this registry implements.                       *)

Abstract == INSTANCE Rendezvous WITH
  parked  <- {a \in Appends : Queued(a)},
  spent   <- {a \in Appends : append[a] = "parked" /\ ~Queued(a)},
  waiting <- {s \in Streams : stream[s] = "waiting"},
  left    <- {s \in Streams : stream[s] \in {"holding", "serving", "answered", "forwarded"}},
  got     <- taken

\* Every step of the registry is a step of the rendezvous or changes nothing
\* it can see.
ImplementsRendezvous == Abstract!Spec
=============================================================================
