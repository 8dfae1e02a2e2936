------------------------ MODULE SessionRegistryProofs ------------------------
(***************************************************************************)
(* Proofs about SessionRegistry, for every set of ids, streams and appends. *)
(* The inductive invariant is the conjunction of the type invariant and     *)
(* the four invariants that speak of the waiters, the queues and the        *)
(* sweeper: none is inductive alone, since handing a message to the head of *)
(* a list of waiters keeps the others reachable only if no stream is listed *)
(* twice and every listed stream waits.  The last part maps each step to     *)
(* steps of Rendezvous, for which it also matters what a queue holds.        *)
(***************************************************************************)
EXTENDS SessionRegistry, Integers, TLAPS

\* A stream that waits is listed, once, in a session that is still in the map,
\* whatever was closed or swept meanwhile: otherwise no later BidiAppend could
\* reach it (close, the sweeper's waiter test).
WaiterReachable ==
  /\ \A s \in Streams :
       stream[s] = "waiting" =>
         /\ IdOfStream[s] \in live
         /\ \E i \in 1..Len(waiters[IdOfStream[s]]) : waiters[IdOfStream[s]][i] = s
  /\ \A r \in RequestIds : \A i, j \in 1..Len(waiters[r]) :
       waiters[r][i] = waiters[r][j] => i = j

\* Every stream listed as a waiter does wait, and on that id: an append never
\* resolves a promise that already timed out, which would lose the message.
WaitersWait ==
  \A r \in RequestIds : \A i \in 1..Len(waiters[r]) :
    stream[waiters[r][i]] = "waiting" /\ IdOfStream[waiters[r][i]] = r

\* While any session exists the sweeper is armed, across close, dispose and
\* its own ticks; otherwise an abandoned payload would stay for the lifetime of
\* the process (ensureSweeper).
SweeperArmed == live # {} => sweeper

IInv ==
  /\ TypeOK
  /\ NoMissedMeeting
  /\ WaiterReachable
  /\ WaitersWait
  /\ SweeperArmed

\* The part of the state the invariant speaks of.
watched == <<live, queued, waiters, sweeper, stream>>

\* The first element and the rest of a nonempty sequence, by index.
LEMMA HeadTail ==
  ASSUME NEW T, NEW q \in Seq(T), q # <<>>
  PROVE  /\ Head(q) \in T
         /\ Head(q) = q[1]
         /\ Len(q) \in Nat /\ Len(q) >= 1
         /\ Tail(q) \in Seq(T)
         /\ Len(Tail(q)) = Len(q) - 1
         /\ \A i \in 1..Len(Tail(q)) : Tail(q)[i] = q[i + 1] /\ i + 1 \in 1..Len(q)
  OBVIOUS

\* The last element and the rest of an extended sequence, by index.
LEMMA Appended ==
  ASSUME NEW T, NEW q \in Seq(T), NEW e \in T
  PROVE  /\ Append(q, e) \in Seq(T)
         /\ Append(q, e) # <<>>
         /\ Len(q) \in Nat
         /\ Len(Append(q, e)) = Len(q) + 1
         /\ \A i \in 1..Len(q) : Append(q, e)[i] = q[i]
         /\ Append(q, e)[Len(q) + 1] = e
  OBVIOUS

\* Removing sessions and releasing the streams that wait in them keeps the
\* invariant: a released stream was the only one its list could reach.
LEMMA RemoveKeeps ==
  ASSUME IInv, NEW ids \in SUBSET RequestIds, Remove(ids),
         stream' \in [Streams -> StreamStates],
         \A s \in Streams : stream'[s] = "waiting" =>
            stream[s] = "waiting" /\ IdOfStream[s] \notin ids,
         \A s \in Streams : stream[s] = "waiting" /\ IdOfStream[s] \notin ids =>
            stream'[s] = "waiting",
         sweeper' \in BOOLEAN, live' # {} => sweeper',
         UNCHANGED <<taken, append>>, ready' \in BOOLEAN, disposed' \in BOOLEAN
  PROVE  IInv'
<1> USE SessionAssumption
<1>1. TypeOK'
  BY DEF IInv, TypeOK, Remove
<1>2. NoMissedMeeting'
  BY DEF IInv, TypeOK, Remove, NoMissedMeeting
<1>3. WaiterReachable'
  <2>1. \A r \in RequestIds : r \notin ids => waiters'[r] = waiters[r]
    BY DEF Remove
  <2>2. \A r \in RequestIds : r \in ids => waiters'[r] = <<>>
    BY DEF Remove
  <2>3. ASSUME NEW s \in Streams, stream'[s] = "waiting"
        PROVE  /\ IdOfStream[s] \in live'
               /\ \E i \in 1..Len(waiters'[IdOfStream[s]]) : waiters'[IdOfStream[s]][i] = s
    BY <2>1, <2>3 DEF IInv, WaiterReachable, Remove
  <2>4. ASSUME NEW r \in RequestIds, NEW i \in 1..Len(waiters'[r]), NEW j \in 1..Len(waiters'[r]),
               waiters'[r][i] = waiters'[r][j]
        PROVE  i = j
    <3>1. CASE r \in ids
      BY <2>2, <3>1
    <3>2. CASE r \notin ids
      BY <2>1, <2>4, <3>2 DEF IInv, WaiterReachable
    <3> QED BY <3>1, <3>2
  <2> QED BY <2>3, <2>4 DEF WaiterReachable
<1>4. WaitersWait'
  <2>1. ASSUME NEW r \in RequestIds, NEW i \in 1..Len(waiters'[r])
        PROVE  stream'[waiters'[r][i]] = "waiting" /\ IdOfStream[waiters'[r][i]] = r
    <3>1. r \notin ids /\ waiters'[r] = waiters[r]
      BY DEF Remove
    <3>2. waiters[r][i] \in Streams
      BY <3>1 DEF IInv, TypeOK
    <3> QED BY <3>1, <3>2 DEF IInv, WaitersWait
  <2> QED BY <2>1 DEF WaitersWait
<1>5. SweeperArmed'
  BY DEF SweeperArmed
<1> QED BY <1>1, <1>2, <1>3, <1>4, <1>5 DEF IInv
-----------------------------------------------------------------------------
LEMMA CloseKeeps ==
  ASSUME IInv, NEW s \in Streams, NEW outcome \in StreamStates \ {"waiting"},
         CloseFor(s, outcome)
  PROVE  IInv'
<1> DEFINE r == IdOfStream[s]
<1> USE SessionAssumption
<1>1. {r} \in SUBSET RequestIds /\ Remove({r})
  BY DEF CloseFor
<1>2. \A t \in Streams : stream'[t] =
        IF t = s THEN outcome
        ELSE IF stream[t] = "waiting" /\ IdOfStream[t] \in {r} THEN "forwarded" ELSE stream[t]
  BY DEF CloseFor, Release
<1>3. stream' \in [Streams -> StreamStates]
  BY DEF CloseFor, Release, IInv, TypeOK, StreamStates
<1>4. sweeper' \in BOOLEAN /\ (live' # {} => sweeper')
  BY DEF CloseFor, Remove, IInv, TypeOK, SweeperArmed
<1>5. UNCHANGED <<taken, append>> /\ ready' \in BOOLEAN /\ disposed' \in BOOLEAN
  BY DEF CloseFor, IInv, TypeOK
<1> QED BY <1>1, <1>2, <1>3, <1>4, <1>5, RemoveKeeps

\* A step that leaves the registry alone and moves no stream into or out of
\* the waiting state keeps the invariant.
LEMMA QuietKeeps ==
  ASSUME IInv, TypeOK', UNCHANGED registry,
         \A s \in Streams : stream'[s] = "waiting" <=> stream[s] = "waiting"
  PROVE  IInv'
<1> USE SessionAssumption
<1>1. UNCHANGED <<live, queued, waiters, aged, sweeper>>
  BY DEF registry
<1>2. NoMissedMeeting'
  BY <1>1 DEF IInv, NoMissedMeeting
<1>3. WaiterReachable'
  BY <1>1 DEF IInv, WaiterReachable
<1>4. WaitersWait'
  <2>1. \A r \in RequestIds : \A i \in 1..Len(waiters[r]) : waiters[r][i] \in Streams
    BY DEF IInv, TypeOK
  <2> QED BY <1>1, <2>1 DEF IInv, WaitersWait
<1>5. SweeperArmed'
  BY <1>1 DEF IInv, SweeperArmed
<1> QED BY <1>2, <1>3, <1>4, <1>5 DEF IInv

LEMMA JoinKeeps ==
  ASSUME IInv, NEW s \in Streams, Join(s)
  PROVE  IInv'
<1> DEFINE r == IdOfStream[s]
<1> USE SessionAssumption
<1>0. r \in RequestIds /\ Ensure(r) /\ stream[s] = "reading"
  BY DEF Join
<1>a. /\ live' = live \cup {r} /\ aged' = aged /\ sweeper' \in BOOLEAN
      /\ (live' # {} => sweeper')
  BY <1>0 DEF Ensure, IInv, TypeOK, SweeperArmed
<1>b. UNCHANGED <<append, ready, disposed>>
  BY DEF Join
<1>1. CASE queued[r] # <<>>
  <2>1. /\ queued' = [queued EXCEPT ![r] = Tail(@)] /\ waiters' = waiters
        /\ taken' = [taken EXCEPT ![s] = Head(queued[r])]
        /\ stream' = [stream EXCEPT ![s] = "holding"]
    BY <1>1 DEF Join
  <2>2. queued[r] \in Seq(Appends) /\ Head(queued[r]) \in Appends /\ Tail(queued[r]) \in Seq(Appends)
    BY <1>0, <1>1, HeadTail DEF IInv, TypeOK
  <2>3. TypeOK'
    BY <1>0, <1>a, <1>b, <2>1, <2>2 DEF IInv, TypeOK, StreamStates
  <2>4. NoMissedMeeting'
    <3>1. waiters[r] = <<>>
      BY <1>0, <1>1 DEF IInv, NoMissedMeeting
    <3> QED BY <1>0, <2>1, <3>1 DEF IInv, TypeOK, NoMissedMeeting
  <2>5. WaiterReachable'
    BY <1>0, <1>a, <2>1 DEF IInv, TypeOK, WaiterReachable
  <2>6. WaitersWait'
    BY <1>0, <2>1, SMTT(30) DEF IInv, TypeOK, WaitersWait
  <2>7. SweeperArmed'
    BY <1>a DEF SweeperArmed
  <2> QED BY <2>3, <2>4, <2>5, <2>6, <2>7 DEF IInv
<1>2. CASE queued[r] = <<>>
  <2>1. /\ waiters' = [waiters EXCEPT ![r] = Append(@, s)] /\ queued' = queued /\ taken' = taken
        /\ stream' = [stream EXCEPT ![s] = "waiting"]
    BY <1>2 DEF Join
  <2>2. waiters[r] \in Seq(Streams)
    BY <1>0 DEF IInv, TypeOK
  <2>3. waiters'[r] = Append(waiters[r], s)
    BY <1>0, <2>1 DEF IInv, TypeOK
  <2>4. /\ waiters'[r] \in Seq(Streams)
        /\ Len(waiters[r]) \in Nat
        /\ Len(waiters'[r]) = Len(waiters[r]) + 1
        /\ \A i \in 1..Len(waiters[r]) : waiters'[r][i] = waiters[r][i]
        /\ waiters'[r][Len(waiters[r]) + 1] = s
    BY <2>2, <2>3, Appended
  <2>5. \A q \in RequestIds : q # r => waiters'[q] = waiters[q]
    BY <2>1 DEF IInv, TypeOK
  <2>6. TypeOK'
    <3>1. waiters' \in [RequestIds -> Seq(Streams)]
      BY <1>0, <2>1, <2>2, Appended DEF IInv, TypeOK
    <3> QED BY <1>0, <1>a, <1>b, <2>1, <3>1 DEF IInv, TypeOK, StreamStates
  <2>7. NoMissedMeeting'
    BY <1>2, <2>1, <2>5 DEF IInv, NoMissedMeeting
  <2>8. \A i \in 1..Len(waiters[r]) : waiters[r][i] \in Streams /\ waiters[r][i] # s
    BY <1>0, <2>2 DEF IInv, WaitersWait
  <2>9. WaiterReachable'
    <3>1. ASSUME NEW t \in Streams, stream'[t] = "waiting"
          PROVE  /\ IdOfStream[t] \in live'
                 /\ \E i \in 1..Len(waiters'[IdOfStream[t]]) : waiters'[IdOfStream[t]][i] = t
      <4>1. CASE t = s
        BY <1>a, <2>4, <4>1
      <4>2. CASE t # s
        <5>1. stream[t] = "waiting"
          BY <2>1, <3>1, <4>2 DEF IInv, TypeOK
        <5>2. IdOfStream[t] \in live
          BY <5>1 DEF IInv, WaiterReachable
        <5>3. PICK i \in 1..Len(waiters[IdOfStream[t]]) : waiters[IdOfStream[t]][i] = t
          BY <5>1 DEF IInv, WaiterReachable
        <5>4. CASE IdOfStream[t] = r
          BY <1>a, <2>4, <5>2, <5>3, <5>4
        <5>5. CASE IdOfStream[t] # r
          BY <1>a, <2>5, <5>2, <5>3, <5>5
        <5> QED BY <5>4, <5>5
      <4> QED BY <4>1, <4>2
    <3>2. ASSUME NEW q \in RequestIds, NEW i \in 1..Len(waiters'[q]), NEW j \in 1..Len(waiters'[q]),
                 waiters'[q][i] = waiters'[q][j]
          PROVE  i = j
      <4>1. CASE q = r
        <5>1. \A k \in 1..Len(waiters'[r]) : k \in 1..Len(waiters[r]) \/ k = Len(waiters[r]) + 1
          BY <2>4
        <5>2. \A k, l \in 1..Len(waiters[r]) : waiters[r][k] = waiters[r][l] => k = l
          BY <1>0 DEF IInv, WaiterReachable
        <5> QED BY <2>4, <2>8, <3>2, <4>1, <5>1, <5>2
      <4>2. CASE q # r
        BY <2>5, <3>2, <4>2 DEF IInv, WaiterReachable
      <4> QED BY <4>1, <4>2
    <3> QED BY <3>1, <3>2 DEF WaiterReachable
  <2>10. WaitersWait'
    <3>1. ASSUME NEW q \in RequestIds, NEW i \in 1..Len(waiters'[q])
          PROVE  stream'[waiters'[q][i]] = "waiting" /\ IdOfStream[waiters'[q][i]] = q
      <4>1. CASE q = r /\ i \in 1..Len(waiters[r])
        BY <1>0, <2>1, <2>4, <2>8, <4>1 DEF IInv, TypeOK, WaitersWait
      <4>2. CASE q = r /\ i = Len(waiters[r]) + 1
        BY <2>1, <2>4, <4>2 DEF IInv, TypeOK
      <4>3. CASE q # r
        <5>1. waiters[q][i] \in Streams /\ waiters'[q][i] = waiters[q][i] /\ i \in 1..Len(waiters[q])
          BY <2>5, <4>3 DEF IInv, TypeOK
        <5> QED BY <1>0, <2>1, <5>1 DEF IInv, TypeOK, WaitersWait
      <4> QED BY <2>4, <4>1, <4>2, <4>3
    <3> QED BY <3>1 DEF WaitersWait
  <2>11. SweeperArmed'
    BY <1>a DEF SweeperArmed
  <2> QED BY <2>6, <2>7, <2>9, <2>10, <2>11 DEF IInv
<1> QED BY <1>1, <1>2
LEMMA ParkKeeps ==
  ASSUME IInv, NEW a \in Appends, Park(a)
  PROVE  IInv'
<1> DEFINE r == IdOfAppend[a]
<1> USE SessionAssumption
<1>0. r \in RequestIds /\ Ensure(r) /\ append' = [append EXCEPT ![a] = "parked"]
  BY DEF Park
<1>a. /\ live' = live \cup {r} /\ aged' = aged /\ sweeper' \in BOOLEAN
      /\ (live' # {} => sweeper')
  BY <1>0 DEF Ensure, IInv, TypeOK, SweeperArmed
<1>b. UNCHANGED <<ready, disposed>>
  BY DEF Park
<1>1. CASE waiters[r] = <<>>
  <2>1. queued' = [queued EXCEPT ![r] = Append(@, a)] /\ UNCHANGED <<waiters, taken, stream>>
    BY <1>1 DEF Park
  <2>2. queued' \in [RequestIds -> Seq(Appends)]
    BY <1>0, <2>1, Appended DEF IInv, TypeOK
  <2>3. TypeOK'
    BY <1>0, <1>a, <1>b, <2>1, <2>2 DEF IInv, TypeOK, AppendStates
  <2>4. NoMissedMeeting'
    BY <1>1, <2>1 DEF IInv, TypeOK, NoMissedMeeting
  <2>5. WaiterReachable'
    BY <1>a, <2>1 DEF IInv, WaiterReachable
  <2>6. WaitersWait'
    BY <2>1 DEF IInv, WaitersWait
  <2>7. SweeperArmed'
    BY <1>a DEF SweeperArmed
  <2> QED BY <2>3, <2>4, <2>5, <2>6, <2>7 DEF IInv
<1>2. CASE waiters[r] # <<>>
  <2> DEFINE s == Head(waiters[r])
  <2>1. /\ waiters' = [waiters EXCEPT ![r] = Tail(@)] /\ queued' = queued
        /\ taken' = [taken EXCEPT ![s] = a]
        /\ stream' = [stream EXCEPT ![s] = "holding"]
    BY <1>2 DEF Park
  <2>2. waiters[r] \in Seq(Streams)
    BY <1>0 DEF IInv, TypeOK
  <2>3. waiters'[r] = Tail(waiters[r]) /\ \A q \in RequestIds : q # r => waiters'[q] = waiters[q]
    BY <1>0, <2>1 DEF IInv, TypeOK
  <2>4. /\ s \in Streams /\ s = waiters[r][1]
        /\ Len(waiters[r]) \in Nat /\ Len(waiters[r]) >= 1
        /\ waiters'[r] \in Seq(Streams)
        /\ Len(waiters'[r]) = Len(waiters[r]) - 1
        /\ \A i \in 1..Len(waiters'[r]) :
             waiters'[r][i] = waiters[r][i + 1] /\ i + 1 \in 1..Len(waiters[r])
    BY <1>2, <2>2, <2>3, HeadTail
  <2>5. IdOfStream[s] = r
    BY <1>0, <2>4 DEF IInv, WaitersWait
  <2>6. TypeOK'
    <3>1. waiters' \in [RequestIds -> Seq(Streams)]
      BY <1>0, <2>1, <2>3, <2>4 DEF IInv, TypeOK
    <3> QED BY <1>0, <1>a, <1>b, <2>1, <2>4, <3>1 DEF IInv, TypeOK, StreamStates, AppendStates
  <2>7. NoMissedMeeting'
    <3>1. queued[r] = <<>>
      BY <1>0, <1>2 DEF IInv, NoMissedMeeting
    <3> QED BY <2>1, <2>3, <3>1 DEF IInv, NoMissedMeeting
  <2>8. \A k, l \in 1..Len(waiters[r]) : waiters[r][k] = waiters[r][l] => k = l
    BY <1>0 DEF IInv, WaiterReachable
  <2>9. WaiterReachable'
    <3>1. ASSUME NEW t \in Streams, stream'[t] = "waiting"
          PROVE  /\ IdOfStream[t] \in live'
                 /\ \E i \in 1..Len(waiters'[IdOfStream[t]]) : waiters'[IdOfStream[t]][i] = t
      <4>1. t # s /\ stream[t] = "waiting"
        BY <2>1, <2>4, <3>1 DEF IInv, TypeOK
      <4>2. IdOfStream[t] \in live
        BY <4>1 DEF IInv, WaiterReachable
      <4>3. PICK i \in 1..Len(waiters[IdOfStream[t]]) : waiters[IdOfStream[t]][i] = t
        BY <4>1 DEF IInv, WaiterReachable
      <4>4. CASE IdOfStream[t] = r
        <5>1. i - 1 \in 1..Len(waiters'[r]) /\ (i - 1) + 1 = i
          BY <2>4, <4>1, <4>3, <4>4
        <5>2. waiters'[r][i - 1] = t
          BY <2>4, <4>3, <4>4, <5>1
        <5> QED BY <1>a, <4>2, <4>4, <5>1, <5>2
      <4>5. CASE IdOfStream[t] # r
        BY <1>a, <2>3, <4>2, <4>3, <4>5
      <4> QED BY <4>4, <4>5
    <3>2. ASSUME NEW q \in RequestIds, NEW i \in 1..Len(waiters'[q]), NEW j \in 1..Len(waiters'[q]),
                 waiters'[q][i] = waiters'[q][j]
          PROVE  i = j
      <4>1. CASE q = r
        <5>1. i + 1 \in 1..Len(waiters[r]) /\ j + 1 \in 1..Len(waiters[r])
          BY <2>4, <3>2, <4>1
        <5>2. waiters[r][i + 1] = waiters[r][j + 1]
          BY <2>4, <3>2, <4>1
        <5>3. i + 1 = j + 1
          BY <2>8, <5>1, <5>2
        <5>4. Len(waiters'[r]) \in Nat
          BY <2>4
        <5>5. i \in Int /\ j \in Int
          BY <3>2, <4>1, <5>4
        <5> QED BY <5>3, <5>5
      <4>2. CASE q # r
        BY <2>3, <3>2, <4>2 DEF IInv, WaiterReachable
      <4> QED BY <4>1, <4>2
    <3> QED BY <3>1, <3>2 DEF WaiterReachable
  <2>10. WaitersWait'
    <3>1. ASSUME NEW q \in RequestIds, NEW i \in 1..Len(waiters'[q])
          PROVE  stream'[waiters'[q][i]] = "waiting" /\ IdOfStream[waiters'[q][i]] = q
      <4>1. CASE q = r
        <5>1. waiters'[r][i] = waiters[r][i + 1] /\ i + 1 \in 1..Len(waiters[r]) /\ i + 1 # 1
          BY <2>4, <4>1
        <5>2. waiters[r][i + 1] # s
          BY <2>4, <2>8, <5>1
        <5>3. waiters[r][i + 1] \in Streams
          BY <2>2, <5>1
        <5> QED BY <1>0, <2>1, <4>1, <5>1, <5>2, <5>3 DEF IInv, TypeOK, WaitersWait
      <4>2. CASE q # r
        <5>1. waiters'[q][i] = waiters[q][i] /\ i \in 1..Len(waiters[q]) /\ waiters[q][i] \in Streams
          BY <2>3, <4>2 DEF IInv, TypeOK
        <5>2. waiters[q][i] # s
          BY <2>5, <4>2, <5>1 DEF IInv, WaitersWait
        <5>3. stream[waiters[q][i]] = "waiting" /\ IdOfStream[waiters[q][i]] = q
          BY <5>1 DEF IInv, WaitersWait
        <5>4. stream'[waiters[q][i]] = stream[waiters[q][i]]
          BY <2>1, <5>1, <5>2
        <5> QED BY <5>1, <5>3, <5>4
      <4> QED BY <4>1, <4>2
    <3> QED BY <3>1 DEF WaitersWait
  <2>11. SweeperArmed'
    BY <1>a DEF SweeperArmed
  <2> QED BY <2>6, <2>7, <2>9, <2>10, <2>11 DEF IInv
<1> QED BY <1>1, <1>2

LEMMA SweepKeeps == ASSUME IInv, Sweep PROVE IInv'
<1> DEFINE stale == {r \in aged : waiters[r] = <<>>}
<1> USE SessionAssumption
<1>1. stale \in SUBSET RequestIds /\ Remove(stale) /\ sweeper' = (live \ stale # {})
  BY DEF Sweep, IInv, TypeOK
<1>2. UNCHANGED <<stream, taken, append, ready, disposed>>
  BY DEF Sweep
<1>3. \A s \in Streams : stream[s] = "waiting" => IdOfStream[s] \notin stale
  <2> SUFFICES ASSUME NEW s \in Streams, stream[s] = "waiting", waiters[IdOfStream[s]] = <<>>
               PROVE FALSE
    OBVIOUS
  <2>1. \E i \in 1..Len(waiters[IdOfStream[s]]) : waiters[IdOfStream[s]][i] = s
    BY DEF IInv, WaiterReachable
  <2> QED BY <2>1
<1>4. live' # {} => sweeper'
  BY <1>1 DEF Remove
<1> QED BY <1>1, <1>2, <1>3, <1>4, RemoveKeeps DEF IInv, TypeOK

LEMMA DisposeKeeps == ASSUME IInv, Dispose PROVE IInv'
<1> USE SessionAssumption
<1>1. live \in SUBSET RequestIds /\ Remove(live) /\ live' = {} /\ sweeper' = FALSE
  BY DEF Dispose, Remove, IInv, TypeOK
<1>2. \A t \in Streams : stream'[t] =
        IF stream[t] = "waiting" /\ IdOfStream[t] \in live THEN "forwarded" ELSE stream[t]
  BY DEF Dispose, Release
<1>3. stream' \in [Streams -> StreamStates]
  BY DEF Dispose, Release, IInv, TypeOK, StreamStates
<1>4. UNCHANGED <<taken, append>> /\ ready' \in BOOLEAN /\ disposed' \in BOOLEAN
  BY DEF Dispose, IInv, TypeOK
<1> QED BY <1>1, <1>2, <1>3, <1>4, RemoveKeeps

-----------------------------------------------------------------------------
\* The invariant is inductive: one step per action of the module.
LEMMA InitIInv == ASSUME Init PROVE IInv
<1> USE SessionAssumption DEF Init, IInv
<1>1. TypeOK
  <2>1. live \subseteq RequestIds /\ aged \subseteq live
    OBVIOUS
  <2>2. queued \in [RequestIds -> Seq(Appends)] /\ waiters \in [RequestIds -> Seq(Streams)]
    OBVIOUS
  <2>3. stream \in [Streams -> StreamStates] /\ append \in [Appends -> AppendStates]
    BY DEF StreamStates, AppendStates
  <2>4. taken \in [Streams -> Appends \cup {NoMessage}]
    OBVIOUS
  <2>5. sweeper \in BOOLEAN /\ ready \in BOOLEAN /\ disposed \in BOOLEAN
    OBVIOUS
  <2> QED BY <2>1, <2>2, <2>3, <2>4, <2>5 DEF TypeOK
<1>2. NoMissedMeeting /\ WaiterReachable /\ WaitersWait /\ SweeperArmed
  BY DEF NoMissedMeeting, WaiterReachable, WaitersWait, SweeperArmed
<1> QED BY <1>1, <1>2

LEMMA NextIInv == ASSUME IInv, [Next]_vars PROVE IInv'
<1> USE SessionAssumption
<1>1. ASSUME NEW s \in Streams, Open(s) PROVE IInv'
  BY <1>1, QuietKeeps DEF Open, IInv, TypeOK, StreamStates, registry
<1>2. ASSUME NEW s \in Streams, Unreadable(s) PROVE IInv'
  BY <1>2, QuietKeeps DEF Unreadable, IInv, TypeOK, StreamStates, registry
<1>3. ASSUME NEW s \in Streams, Join(s) PROVE IInv'
  BY <1>3, JoinKeeps
<1>4. ASSUME NEW s \in Streams, Timeout(s) PROVE IInv'
  BY <1>4, CloseKeeps DEF Timeout, StreamStates
<1>5. ASSUME NEW s \in Streams, Resume(s) PROVE IInv'
  <2>1. CASE CloseFor(s, "forwarded")
    BY <2>1, CloseKeeps DEF StreamStates
  <2>2. CASE stream[s] = "holding" /\ stream' = [stream EXCEPT ![s] = "serving"]
             /\ UNCHANGED <<registry, taken, append, ready, disposed>>
    BY <2>2, QuietKeeps DEF IInv, TypeOK, StreamStates, registry
  <2> QED BY <1>5, <2>1, <2>2 DEF Resume
<1>6. ASSUME NEW s \in Streams, Finish(s) PROVE IInv'
  BY <1>6, CloseKeeps DEF Finish, StreamStates
<1>7. ASSUME NEW a \in Appends, Arrive(a) PROVE IInv'
  BY <1>7, QuietKeeps DEF Arrive, IInv, TypeOK, AppendStates, registry
<1>8. ASSUME NEW a \in Appends, Empty(a) PROVE IInv'
  BY <1>8, QuietKeeps DEF Empty, IInv, TypeOK, AppendStates, registry
<1>9. ASSUME NEW a \in Appends, Park(a) PROVE IInv'
  BY <1>9, ParkKeeps
<1>10. ASSUME NEW r \in RequestIds, Age(r) PROVE IInv'
  BY <1>10 DEF Age, IInv, TypeOK, NoMissedMeeting, WaiterReachable, WaitersWait, SweeperArmed
<1>11. CASE Sweep
  BY <1>11, SweepKeeps
<1>12. CASE Dispose
  BY <1>12, DisposeKeeps
<1>13. CASE Reconfigure
  BY <1>13, QuietKeeps DEF Reconfigure, IInv, TypeOK, registry
<1>14. CASE UNCHANGED vars
  BY <1>14, QuietKeeps DEF vars, IInv, TypeOK, registry
<1> QED BY <1>1, <1>2, <1>3, <1>4, <1>5, <1>6, <1>7, <1>8, <1>9, <1>10, <1>11, <1>12, <1>13, <1>14
         DEF Next

\* The invariant holds in every state of every behaviour.
THEOREM Invariance == Spec => []IInv
<1>1. Init => IInv
  BY InitIInv
<1>2. IInv /\ [Next]_vars => IInv'
  BY NextIInv
<1> QED BY <1>1, <1>2, PTL DEF Spec

\* Types of the registry's state, in every instance.
THEOREM TypeCorrect == Spec => []TypeOK
BY Invariance, PTL DEF IInv

\* No message is parked where a stream waits (append and next).
THEOREM MeetingNeverMissed == Spec => []NoMissedMeeting
BY Invariance, PTL DEF IInv

\* A waiting stream stays reachable whatever is closed or swept (close, the
\* sweeper), and every listed waiter waits.
THEOREM WaitersReachable == Spec => [](WaiterReachable /\ WaitersWait)
BY Invariance, PTL DEF IInv

\* While a session exists the sweeper is armed (ensureSweeper).
THEOREM SweeperAlwaysArmed == Spec => []SweeperArmed
BY Invariance, PTL DEF IInv
-----------------------------------------------------------------------------
(* The registry implements the rendezvous.                                 *)

\* What is parked waits under its own id, once, and was acknowledged: an append
\* of another id, or a second handling of the same call, cannot get at it.
ParkedOnce ==
  \A r \in RequestIds :
    /\ \A i \in 1..Len(queued[r]) : IdOfAppend[queued[r][i]] = r /\ append[queued[r][i]] = "parked"
    /\ \A i, j \in 1..Len(queued[r]) : queued[r][i] = queued[r][j] => i = j

\* What the rendezvous sees of the registry.
Parked == {a \in Appends : Queued(a)}
Spent == {a \in Appends : append[a] = "parked" /\ ~Queued(a)}
Waiting == {s \in Streams : stream[s] = "waiting"}
Left == {s \in Streams : stream[s] \in {"holding", "serving", "answered", "forwarded"}}
seen == <<Parked, Spent, Waiting, Left, taken>>

\* Sessions are removed: what was parked there is spent.
LEMMA RemoveForgets ==
  ASSUME IInv, ParkedOnce, NEW ids \in SUBSET RequestIds, Remove(ids), UNCHANGED append
  PROVE  /\ ParkedOnce'
         /\ Parked' = Parked \ {a \in Parked : IdOfAppend[a] \in ids}
         /\ Spent' = Spent \cup {a \in Parked : IdOfAppend[a] \in ids}
<1>1. \A r \in RequestIds : queued'[r] = IF r \in ids THEN <<>> ELSE queued[r]
  BY DEF Remove
<1>2. ParkedOnce'
  BY <1>1 DEF ParkedOnce
<1>3. \A a \in Appends : Queued(a)' <=> Queued(a) /\ IdOfAppend[a] \notin ids
  BY <1>1, SessionAssumption DEF Queued
<1>4. \A a \in Parked : append[a] = "parked"
  BY SessionAssumption DEF ParkedOnce, Parked, Queued
<1> QED BY <1>2, <1>3, <1>4 DEF Parked, Spent

\* The steps of the rendezvous, in terms of what it sees.
LEMMA SeenForget ==
  ASSUME NEW ids \in SUBSET RequestIds,
         Waiting' = Waiting \ {s \in Waiting : IdOfStream[s] \in ids},
         Left' = Left \cup {s \in Waiting : IdOfStream[s] \in ids},
         Parked' = Parked \ {a \in Parked : IdOfAppend[a] \in ids},
         Spent' = Spent \cup {a \in Parked : IdOfAppend[a] \in ids},
         UNCHANGED taken
  PROVE  [Abstract!Next]_(Abstract!vars)
<1> DEFINE released == {s \in Waiting : IdOfStream[s] \in ids}
           dropped == {a \in Parked : IdOfAppend[a] \in ids}
<1>1. CASE released = {} /\ dropped = {}
  <2>1. UNCHANGED seen
    BY <1>1 DEF seen
  <2> QED BY <2>1 DEF seen, Abstract!vars, Parked, Spent, Waiting, Left
<1>2. CASE released # {} \/ dropped # {}
  <2>1. Abstract!Forget(ids)
    BY <1>2 DEF Abstract!Forget, Parked, Spent, Waiting, Left
  <2> QED BY <2>1 DEF Abstract!Next
<1> QED BY <1>1, <1>2

LEMMA SeenStutter ==
  ASSUME UNCHANGED seen
  PROVE  [Abstract!Next]_(Abstract!vars)
BY DEF seen, Abstract!vars, Parked, Spent, Waiting, Left

LEMMA SeenAsk ==
  ASSUME NEW s \in Streams, s \notin Waiting \cup Left,
         \/ /\ \A m \in Parked : IdOfAppend[m] # IdOfStream[s]
            /\ Waiting' = Waiting \cup {s}
            /\ UNCHANGED <<Parked, Spent, Left, taken>>
         \/ \E m \in Parked :
              /\ IdOfAppend[m] = IdOfStream[s]
              /\ Parked' = Parked \ {m}
              /\ Spent' = Spent \cup {m}
              /\ Left' = Left \cup {s}
              /\ taken' = [taken EXCEPT ![s] = m]
              /\ UNCHANGED Waiting
  PROVE  [Abstract!Next]_(Abstract!vars)
<1>1. Abstract!Ask(s)
  BY DEF Abstract!Ask, Parked, Spent, Waiting, Left
<1> QED BY <1>1 DEF Abstract!Next

LEMMA SeenSend ==
  ASSUME NEW m \in Appends, m \notin Parked \cup Spent,
         \/ /\ \A s \in Waiting : IdOfStream[s] # IdOfAppend[m]
            /\ Parked' = Parked \cup {m}
            /\ UNCHANGED <<Spent, Waiting, Left, taken>>
         \/ \E s \in Waiting :
              /\ IdOfStream[s] = IdOfAppend[m]
              /\ Waiting' = Waiting \ {s}
              /\ Left' = Left \cup {s}
              /\ taken' = [taken EXCEPT ![s] = m]
              /\ Spent' = Spent \cup {m}
              /\ UNCHANGED Parked
  PROVE  [Abstract!Next]_(Abstract!vars)
<1>1. Abstract!Send(m)
  BY DEF Abstract!Send, Abstract!For, Parked, Spent, Waiting, Left
<1> QED BY <1>1 DEF Abstract!Next

\* A session is closed by the handler of a stream.
LEMMA CloseImplements ==
  ASSUME IInv, ParkedOnce, NEW s \in Streams,
         NEW outcome \in {"answered", "forwarded"}, CloseFor(s, outcome),
         s \in Waiting \cup Left
  PROVE  ParkedOnce' /\ [Abstract!Next]_(Abstract!vars)
<1> DEFINE ids == {IdOfStream[s]}
<1>1. ids \in SUBSET RequestIds /\ Remove(ids) /\ UNCHANGED <<append, taken>>
  BY SessionAssumption DEF CloseFor
<1>2. \A t \in Streams : stream'[t] =
        IF t = s THEN outcome
        ELSE IF stream[t] = "waiting" /\ IdOfStream[t] \in ids THEN "forwarded" ELSE stream[t]
  BY DEF CloseFor, Release
<1>3. /\ Waiting' = Waiting \ {t \in Waiting : IdOfStream[t] \in ids}
      /\ Left' = Left \cup {t \in Waiting : IdOfStream[t] \in ids}
  BY <1>2 DEF Waiting, Left
<1> QED BY <1>1, <1>3, RemoveForgets, SeenForget

LEMMA JoinImplements ==
  ASSUME IInv, ParkedOnce, NEW s \in Streams, Join(s)
  PROVE  ParkedOnce' /\ [Abstract!Next]_(Abstract!vars)
<1> DEFINE r == IdOfStream[s]
<1> USE SessionAssumption
<1>1. r \in RequestIds /\ stream[s] = "reading" /\ s \notin Waiting \cup Left /\ UNCHANGED append
  BY DEF Join, Waiting, Left
<1>2. CASE queued[r] = <<>>
  <2>1. UNCHANGED <<queued, taken>> /\ stream' = [stream EXCEPT ![s] = "waiting"]
    BY <1>2 DEF Join
  <2>2. UNCHANGED <<Parked, Spent, Left, taken>> /\ Waiting' = Waiting \cup {s}
    BY <1>1, <2>1 DEF Parked, Spent, Left, Waiting, Queued, IInv, TypeOK
  <2>3. \A m \in Parked : IdOfAppend[m] # r
    BY <1>2 DEF Parked, Queued
  <2>4. ParkedOnce'
    BY <1>1, <2>1 DEF ParkedOnce
  <2> QED BY <1>1, <2>2, <2>3, <2>4, SeenAsk
<1>3. CASE queued[r] # <<>>
  <2> DEFINE m == Head(queued[r])
  <2>1. /\ queued' = [queued EXCEPT ![r] = Tail(@)]
        /\ taken' = [taken EXCEPT ![s] = m]
        /\ stream' = [stream EXCEPT ![s] = "holding"]
    BY <1>3 DEF Join
  <2>2. queued'[r] = Tail(queued[r]) /\ \A q \in RequestIds : q # r => queued'[q] = queued[q]
    BY <1>1, <2>1 DEF IInv, TypeOK
  <2>3. /\ m \in Appends /\ m = queued[r][1]
        /\ Len(queued[r]) \in Nat /\ Len(queued[r]) >= 1
        /\ Len(queued'[r]) = Len(queued[r]) - 1
        /\ \A i \in 1..Len(queued'[r]) :
             queued'[r][i] = queued[r][i + 1] /\ i + 1 \in 1..Len(queued[r])
    BY <1>1, <1>3, <2>2, HeadTail DEF IInv, TypeOK
  <2>4. \A i, j \in 1..Len(queued[r]) : queued[r][i] = queued[r][j] => i = j
    BY <1>1 DEF ParkedOnce
  <2>5. ParkedOnce'
    <3>1. ASSUME NEW q \in RequestIds
          PROVE  /\ \A i \in 1..Len(queued'[q]) : IdOfAppend[queued'[q][i]] = q /\ append[queued'[q][i]] = "parked"
                 /\ \A i, j \in 1..Len(queued'[q]) : queued'[q][i] = queued'[q][j] => i = j
      <4>1. CASE q = r
        <5>1. \A i \in 1..Len(queued'[r]) : IdOfAppend[queued'[r][i]] = r /\ append[queued'[r][i]] = "parked"
          BY <1>1, <2>3 DEF ParkedOnce
        <5>2. ASSUME NEW i \in 1..Len(queued'[r]), NEW j \in 1..Len(queued'[r]), queued'[r][i] = queued'[r][j]
              PROVE  i = j
          <6>1. i + 1 = j + 1
            BY <2>3, <2>4, <5>2
          <6>2. i \in Int /\ j \in Int
            BY <2>3
          <6> QED BY <6>1, <6>2
        <5> QED BY <4>1, <5>1, <5>2
      <4>2. CASE q # r
        BY <2>2, <4>2 DEF ParkedOnce
      <4> QED BY <4>1, <4>2
    <3> QED BY <1>1, <3>1 DEF ParkedOnce
  <2>6. IdOfAppend[m] = r /\ append[m] = "parked" /\ m \in Parked
    BY <1>1, <2>3 DEF ParkedOnce, Parked, Queued
  <2>7. \A a \in Appends : Queued(a)' <=> Queued(a) /\ a # m
    <3> SUFFICES ASSUME NEW a \in Appends
                 PROVE  Queued(a)' <=> Queued(a) /\ a # m
      OBVIOUS
    <3>1. CASE IdOfAppend[a] # r
      BY <2>2, <2>6, <3>1 DEF Queued
    <3>2. CASE IdOfAppend[a] = r
      <4>1. ASSUME NEW i \in 1..Len(queued'[r]), queued'[r][i] = a
            PROVE  Queued(a) /\ a # m
        <5>1. i + 1 \in 1..Len(queued[r]) /\ queued[r][i + 1] = a /\ i + 1 # 1
          BY <2>3, <4>1
        <5> QED BY <2>3, <2>4, <3>2, <5>1 DEF Queued
      <4>2. ASSUME NEW i \in 1..Len(queued[r]), queued[r][i] = a, a # m
            PROVE  Queued(a)'
        <5>1. i - 1 \in 1..Len(queued'[r]) /\ (i - 1) + 1 = i
          BY <2>3, <4>2
        <5>2. queued'[r][i - 1] = a
          BY <2>3, <4>2, <5>1
        <5> QED BY <3>2, <5>1, <5>2 DEF Queued
      <4> QED BY <3>2, <4>1, <4>2 DEF Queued
    <3> QED BY <3>1, <3>2
  <2>8. Parked' = Parked \ {m} /\ Spent' = Spent \cup {m}
    BY <1>1, <2>3, <2>6, <2>7 DEF Parked, Spent
  <2>9. Left' = Left \cup {s} /\ Waiting' = Waiting
    BY <1>1, <2>1 DEF Left, Waiting, IInv, TypeOK
  <2> QED BY <1>1, <2>1, <2>5, <2>6, <2>8, <2>9, SeenAsk
<1> QED BY <1>2, <1>3

LEMMA ParkImplements ==
  ASSUME IInv, ParkedOnce, NEW a \in Appends, Park(a)
  PROVE  ParkedOnce' /\ [Abstract!Next]_(Abstract!vars)
<1> DEFINE r == IdOfAppend[a]
<1> USE SessionAssumption
<1>1. r \in RequestIds /\ append[a] = "reading" /\ append' = [append EXCEPT ![a] = "parked"]
  BY DEF Park
<1>2. \A q \in RequestIds : \A i \in 1..Len(queued[q]) : queued[q][i] \in Appends /\ queued[q][i] # a
  BY <1>1 DEF IInv, TypeOK, ParkedOnce
<1>3. a \notin Parked \cup Spent
  BY <1>1, <1>2 DEF Parked, Spent, Queued
<1>4. \A b \in Appends : append'[b] = IF b = a THEN "parked" ELSE append[b]
  BY <1>1 DEF IInv, TypeOK
<1>5. CASE waiters[r] = <<>>
  <2>1. queued' = [queued EXCEPT ![r] = Append(@, a)] /\ UNCHANGED <<waiters, taken, stream>>
    BY <1>5 DEF Park
  <2>2. queued'[r] = Append(queued[r], a) /\ \A q \in RequestIds : q # r => queued'[q] = queued[q]
    BY <1>1, <2>1 DEF IInv, TypeOK
  <2>3. /\ Len(queued[r]) \in Nat /\ Len(queued'[r]) = Len(queued[r]) + 1
        /\ \A i \in 1..Len(queued[r]) : queued'[r][i] = queued[r][i]
        /\ queued'[r][Len(queued[r]) + 1] = a
    BY <1>1, <2>2, Appended DEF IInv, TypeOK
  <2>4. \A i \in 1..Len(queued'[r]) : i \in 1..Len(queued[r]) \/ i = Len(queued[r]) + 1
    BY <2>3
  <2>5. ParkedOnce'
    <3>1. ASSUME NEW q \in RequestIds
          PROVE  /\ \A i \in 1..Len(queued'[q]) : IdOfAppend[queued'[q][i]] = q /\ append'[queued'[q][i]] = "parked"
                 /\ \A i, j \in 1..Len(queued'[q]) : queued'[q][i] = queued'[q][j] => i = j
      <4>1. CASE q = r
        <5>1. \A i \in 1..Len(queued'[r]) : IdOfAppend[queued'[r][i]] = r /\ append'[queued'[r][i]] = "parked"
          BY <1>1, <1>2, <1>4, <2>3, <2>4 DEF ParkedOnce
        <5>2. \A i, j \in 1..Len(queued'[r]) : queued'[r][i] = queued'[r][j] => i = j
          BY <1>1, <1>2, <2>3, <2>4 DEF ParkedOnce
        <5> QED BY <4>1, <5>1, <5>2
      <4>2. CASE q # r
        BY <1>2, <1>4, <2>2, <4>2 DEF ParkedOnce
      <4> QED BY <4>1, <4>2
    <3> QED BY <3>1 DEF ParkedOnce
  <2>6. \A b \in Appends : Queued(b)' <=> Queued(b) \/ b = a
    <3> SUFFICES ASSUME NEW b \in Appends
                 PROVE  Queued(b)' <=> Queued(b) \/ b = a
      OBVIOUS
    <3>1. CASE IdOfAppend[b] # r
      BY <2>2, <3>1 DEF Queued
    <3>2. CASE IdOfAppend[b] = r
      <4>1. Queued(b)' <=> \E i \in 1..Len(queued'[r]) : queued'[r][i] = b
        BY <3>2 DEF Queued
      <4>2. Queued(b) <=> \E i \in 1..Len(queued[r]) : queued[r][i] = b
        BY <3>2 DEF Queued
      <4>3. 1..Len(queued'[r]) = (1..Len(queued[r])) \cup {Len(queued[r]) + 1}
        BY <2>3
      <4> QED BY <2>3, <4>1, <4>2, <4>3
    <3> QED BY <3>1, <3>2
  <2>7. Parked' = Parked \cup {a} /\ Spent' = Spent
    <3>1. Parked' = Parked \cup {a}
      BY <2>6 DEF Parked
    <3>2. \A b \in Appends : append'[b] = "parked" /\ ~Queued(b)' <=> append[b] = "parked" /\ ~Queued(b)
      BY <1>1, <1>4, <2>6
    <3>3. Spent' = Spent
      BY <3>2 DEF Spent
    <3> QED BY <3>1, <3>3
  <2>8. UNCHANGED <<Waiting, Left>>
    BY <2>1 DEF Waiting, Left
  <2>9. \A s \in Waiting : IdOfStream[s] # r
    BY <1>5 DEF Waiting, IInv, WaiterReachable
  <2> QED BY <1>3, <2>1, <2>5, <2>7, <2>8, <2>9, SeenSend
<1>6. CASE waiters[r] # <<>>
  <2> DEFINE s == Head(waiters[r])
  <2>1. /\ queued' = queued
        /\ taken' = [taken EXCEPT ![s] = a]
        /\ stream' = [stream EXCEPT ![s] = "holding"]
    BY <1>6 DEF Park
  <2>2. s \in Streams /\ s = waiters[r][1] /\ 1 \in 1..Len(waiters[r])
    BY <1>1, <1>6, HeadTail DEF IInv, TypeOK
  <2>3. s \in Waiting /\ IdOfStream[s] = r
    BY <1>1, <2>2 DEF IInv, WaitersWait, Waiting
  <2>4. ParkedOnce'
    BY <1>2, <1>4, <2>1 DEF ParkedOnce
  <2>5. Parked' = Parked /\ Spent' = Spent \cup {a}
    BY <1>2, <1>4, <2>1 DEF Parked, Spent, Queued
  <2>6. Waiting' = Waiting \ {s} /\ Left' = Left \cup {s}
    BY <2>1, <2>2 DEF Waiting, Left, IInv, TypeOK
  <2> QED BY <1>3, <2>1, <2>3, <2>4, <2>5, <2>6, SeenSend
<1> QED BY <1>5, <1>6

\* Every step keeps what is parked in order, and is a step of the rendezvous or
\* nothing to it.
LEMMA StepImplements ==
  ASSUME IInv, ParkedOnce, [Next]_vars
  PROVE  ParkedOnce' /\ [Abstract!Next]_(Abstract!vars)
<1> USE SessionAssumption
<1>1. ASSUME UNCHANGED <<queued, taken>>,
             \A b \in Appends : append'[b] = "parked" <=> append[b] = "parked",
             \A t \in Streams : /\ t \in Waiting' <=> t \in Waiting
                                /\ t \in Left' <=> t \in Left
      PROVE  ParkedOnce' /\ [Abstract!Next]_(Abstract!vars)
  <2>0. \A r \in RequestIds : \A i \in 1..Len(queued[r]) : queued[r][i] \in Appends
    BY DEF IInv, TypeOK
  <2>1. ParkedOnce'
    BY <1>1, <2>0 DEF ParkedOnce
  <2>2. \A b \in Appends : Queued(b)' <=> Queued(b)
    BY <1>1 DEF Queued
  <2>3. UNCHANGED seen
    BY <1>1, <2>2 DEF seen, Parked, Spent, Waiting, Left
  <2> QED BY <2>1, <2>3, SeenStutter
<1>2. ASSUME NEW s \in Streams, Open(s) \/ Unreadable(s)
      PROVE  ParkedOnce' /\ [Abstract!Next]_(Abstract!vars)
  BY <1>1, <1>2 DEF Open, Unreadable, registry, Waiting, Left, IInv, TypeOK
<1>3. ASSUME NEW s \in Streams, Timeout(s)
      PROVE  ParkedOnce' /\ [Abstract!Next]_(Abstract!vars)
  <2>1. s \in Waiting /\ CloseFor(s, "forwarded")
    BY <1>3 DEF Timeout, IInv, WaitersWait, Waiting
  <2> QED BY <2>1, CloseImplements
<1>4. ASSUME NEW s \in Streams, Resume(s)
      PROVE  ParkedOnce' /\ [Abstract!Next]_(Abstract!vars)
  <2>1. s \in Left
    BY <1>4 DEF Resume, Left
  <2>2. CASE CloseFor(s, "forwarded")
    BY <2>1, <2>2, CloseImplements
  <2>3. CASE stream' = [stream EXCEPT ![s] = "serving"] /\ UNCHANGED <<registry, taken, append, ready, disposed>>
    BY <1>1, <1>4, <2>3 DEF Resume, registry, Waiting, Left, IInv, TypeOK
  <2> QED BY <1>4, <2>2, <2>3 DEF Resume
<1>5. ASSUME NEW s \in Streams, Finish(s)
      PROVE  ParkedOnce' /\ [Abstract!Next]_(Abstract!vars)
  BY <1>5, CloseImplements DEF Finish, Left
<1>6. ASSUME NEW a \in Appends, Arrive(a) \/ Empty(a)
      PROVE  ParkedOnce' /\ [Abstract!Next]_(Abstract!vars)
  BY <1>1, <1>6 DEF Arrive, Empty, registry, Waiting, Left, IInv, TypeOK
<1>7. ASSUME NEW r \in RequestIds, Age(r)
      PROVE  ParkedOnce' /\ [Abstract!Next]_(Abstract!vars)
  BY <1>1, <1>7 DEF Age, Waiting, Left
<1>8. CASE Sweep
  <2> DEFINE stale == {r \in aged : waiters[r] = <<>>}
  <2>1. stale \in SUBSET RequestIds /\ Remove(stale) /\ UNCHANGED <<stream, taken, append>>
    BY <1>8 DEF Sweep, IInv, TypeOK
  <2>2. \A s \in Waiting : IdOfStream[s] \notin stale
    BY DEF Waiting, IInv, WaiterReachable
  <2>3. UNCHANGED <<Waiting, Left>>
    BY <2>1 DEF Waiting, Left
  <2> QED BY <2>1, <2>2, <2>3, RemoveForgets, SeenForget
<1>9. CASE Dispose
  <2>1. live \in SUBSET RequestIds /\ Remove(live) /\ UNCHANGED <<taken, append>>
    BY <1>9 DEF Dispose, IInv, TypeOK
  <2>2. \A t \in Streams : stream'[t] =
          IF stream[t] = "waiting" /\ IdOfStream[t] \in live THEN "forwarded" ELSE stream[t]
    BY <1>9 DEF Dispose, Release
  <2>3. /\ Waiting' = Waiting \ {t \in Waiting : IdOfStream[t] \in live}
        /\ Left' = Left \cup {t \in Waiting : IdOfStream[t] \in live}
    BY <2>2 DEF Waiting, Left
  <2> QED BY <2>1, <2>3, RemoveForgets, SeenForget
<1>10. CASE Reconfigure \/ UNCHANGED vars
  BY <1>1, <1>10 DEF Reconfigure, vars, registry, Waiting, Left
<1> QED BY <1>2, <1>3, <1>4, <1>5, <1>6, <1>7, <1>8, <1>9, <1>10, JoinImplements, ParkImplements DEF Next

LEMMA ParkedInvariance == Spec => []ParkedOnce
<1>1. Init => ParkedOnce
  <2> SUFFICES ASSUME Init PROVE ParkedOnce
    OBVIOUS
  <2>1. \A r \in RequestIds : queued[r] = <<>>
    BY DEF Init
  <2>2. 1..Len(<<>>) = {}
    OBVIOUS
  <2> QED BY <2>1, <2>2 DEF ParkedOnce
<1> QED BY <1>1, Invariance, StepImplements, PTL DEF Spec

\* Nothing is parked twice, nor under an id that is not its own, nor before the
\* call that brought it was acknowledged (append).
THEOREM EachParkedOnce == Spec => []ParkedOnce
BY ParkedInvariance

\* The registry implements the rendezvous: with its queues, its timers, the
\* sweeper and shutdown, every step pairs one stream with one message of its
\* id, or drops what belongs to a closed session, or is not seen.
THEOREM RegistryImplementsRendezvous == Spec => ImplementsRendezvous
<1>1. Init => Abstract!Init
  <2> SUFFICES ASSUME Init PROVE Abstract!Init
    OBVIOUS
  <2>1. \A a \in Appends : ~Queued(a) /\ append[a] = "new"
    BY SessionAssumption DEF Init, Queued
  <2>2. \A s \in Streams : stream[s] = "new"
    BY DEF Init
  <2>3. taken = [s \in Streams |-> NoMessage]
    BY DEF Init
  <2> QED BY <2>1, <2>2, <2>3 DEF Abstract!Init
<1> QED BY <1>1, Invariance, ParkedInvariance, StepImplements, PTL
        DEF Spec, ImplementsRendezvous, Abstract!Spec
=============================================================================
