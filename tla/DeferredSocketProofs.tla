-------------------------- MODULE DeferredSocketProofs --------------------------
(***************************************************************************)
(* Proofs about the local sockets.  DeferredSocket implements OrderedPipe  *)
(* for any number of chunks and whatever the factory, the real socket and  *)
(* the client do, and one that is destroyed leaves no socket open.         *)
(* ProtocolMultiplexer implements it too, for a preface of any length and  *)
(* any bytes in any pieces, and chooses the right parser.  RendererRoute:  *)
(* a fetch whose body can be sent twice fails with the official API only.  *)
(***************************************************************************)
EXTENDS DeferredSocket, ProtocolMultiplexer, RendererRoute, TLAPS

\* What the real socket is given when the first n chunks went through.
Chunks(n) == [i \in 1..n |-> i]

\* Before there is a connected socket, at most one write was handed over and it
\* waits; afterwards nothing waits, and what was sent is what was handed over,
\* then the end if _final was called.
Sending ==
    /\ written \in Nat /\ handed \in Nat /\ answered \in Nat /\ failed = 0
    /\ answered <= handed /\ handed <= written
    /\ ended \in BOOLEAN /\ finished \in BOOLEAN /\ connecting \in BOOLEAN
    /\ endRequested = finished
    /\ finished => ended /\ handed = written /\ answered = handed
    /\ connecting => /\ sent = <<>> /\ answered = 0 /\ handed \in {0, 1}
                     /\ pending = Chunks(handed)
    /\ ~connecting => /\ attached /\ pending = <<>>
                      /\ sent = IF finished THEN Append(Chunks(handed), 0) ELSE Chunks(handed)

\* The real socket is there and connected when the flag says so, and gone with
\* the stream.
Sockets ==
    /\ destroyed \in BOOLEAN
    /\ ~destroyed =>
         /\ attached \in BOOLEAN
         /\ factory = "busy" => ~attached
         /\ ~attached => sock = "none"
         /\ attached => sock \in {"connecting", "open", "closed"}
         /\ sock \in {"open", "closed"} <=> ~connecting
    /\ destroyed => sock \in {"none", "closed"}

PipeInv == Sockets /\ (~destroyed => Sending)

-----------------------------------------------------------------------------
(* The sequence of the first chunks.                                       *)

LEMMA ChunksFacts ==
  ASSUME NEW n \in Nat
  PROVE  /\ Chunks(n) \in Seq(Nat)
         /\ Len(Chunks(n)) = n
         /\ \A i \in 1..n : Chunks(n)[i] = i
  BY DEF Chunks

LEMMA ChunksGrow ==
  ASSUME NEW n \in Nat
  PROVE  Append(Chunks(n), n + 1) = Chunks(n + 1)
  BY DEF Chunks

LEMMA NoChunks == Chunks(0) = <<>>
  BY DEF Chunks

-----------------------------------------------------------------------------
(* The invariant.                                                          *)

LEMMA InitInv == Init => PipeInv
  <1> SUFFICES ASSUME Init PROVE PipeInv
    OBVIOUS
  <1>1. Sockets
    BY DEF Init, Sockets
  <1>2. Sending
    <2>1. /\ written = 0 /\ handed = 0 /\ answered = 0 /\ failed = 0
          /\ ended = FALSE /\ finished = FALSE /\ connecting = TRUE
          /\ endRequested = FALSE /\ sent = <<>> /\ pending = <<>>
      BY DEF Init
    <2>2. pending = Chunks(handed)
      BY <2>1, NoChunks
    <2>3. /\ written \in Nat /\ handed \in Nat /\ answered \in Nat
          /\ answered <= handed /\ handed <= written /\ handed \in {0, 1}
      BY <2>1
    <2>4. /\ ended \in BOOLEAN /\ finished \in BOOLEAN /\ connecting \in BOOLEAN
          /\ endRequested = finished /\ ~finished /\ connecting
      BY <2>1
    <2> QED
      BY <2>1, <2>2, <2>3, <2>4, Zenon DEF Sending
  <1> QED
    BY <1>1, <1>2 DEF PipeInv

\* Being destroyed keeps it, whatever else happens.
LEMMA DestroyInv == ASSUME PipeInv, Destroy PROVE PipeInv'
  BY DEF Destroy, PipeInv, Sockets

\* The real socket gets connected, with what waited and the end.
LEMMA ReadySent ==
  ASSUME Sending, connecting, Ready
  PROVE  /\ connecting' = FALSE /\ pending' = <<>>
         /\ finished => sent' = Append(Chunks(handed), 0)
         /\ ~finished => sent' = Chunks(handed)
         /\ finished => handed = 0
  <1>1. CASE finished
    <2>1. handed = 0 /\ pending = <<>> /\ sent = <<>> /\ endRequested = TRUE
      BY <1>1, NoChunks DEF Sending
    <2>2. sent' = <<>> \o <<>> \o <<0>>
      BY <2>1 DEF Ready
    <2>3. sent' = Append(<<>>, 0)
      BY <2>2
    <2> QED
      BY <1>1, <2>1, <2>3, NoChunks DEF Ready
  <1>2. CASE ~finished
    <2>1. sent' = <<>> \o Chunks(handed) \o <<>>
      BY <1>2 DEF Ready, Sending
    <2>2. handed \in Nat /\ Chunks(handed) \in Seq(Nat)
      BY ChunksFacts DEF Sending
    <2>3. sent' = Chunks(handed)
      BY <2>1, <2>2
    <2> QED
      BY <1>2, <2>3 DEF Ready
  <1> QED
    BY <1>1, <1>2 DEF Sending

LEMMA StepInv == ASSUME PipeInv, [Next]_vars PROVE PipeInv'
  <1> USE DEF PipeInv
  <1>1. CASE UNCHANGED vars
    <2>1. UNCHANGED <<client, node, self, real>>
      BY <1>1 DEF vars
    <2>2. Sockets' /\ (Sending => Sending')
      BY <2>1 DEF client, node, self, real, Sockets, Sending
    <2> QED
      BY <2>1, <2>2 DEF self
  <1>2. CASE ClientWrite \/ ClientEnd \/ AutoEnd
    <2>1. UNCHANGED <<node, self, real>> /\ ~destroyed /\ ~ended
      BY <1>2 DEF ClientWrite, ClientEnd, AutoEnd
    <2>2. Sockets' /\ Sending
      BY <2>1 DEF self, real, Sockets
    <2>3. /\ written \in Nat
          /\ written' = written \/ written' = written + 1
          /\ ended' = ended \/ ended' = TRUE
      BY <1>2, <2>2 DEF ClientWrite, ClientEnd, AutoEnd, Sending
    <2>4. written' \in Nat /\ handed' <= written'
      BY <2>1, <2>2, <2>3 DEF node, Sending
    <2>5. ~finished' /\ ended' \in BOOLEAN
      BY <2>1, <2>2, <2>3 DEF node, Sending
    <2>6. /\ handed' = handed /\ answered' = answered /\ failed' = failed
          /\ finished' = finished /\ connecting' = connecting /\ attached' = attached
          /\ pending' = pending /\ endRequested' = endRequested /\ sent' = sent
      BY <2>1 DEF node, self, real
    <2>7. Sending'
      BY <2>2, <2>4, <2>5, <2>6 DEF Sending
    <2> QED
      BY <2>2, <2>7
  <1>3. CASE ClientDestroy \/ AutoDestroy \/ SockError
    BY <1>3, DestroyInv DEF ClientDestroy, AutoDestroy, SockError
  <1>4. ASSUME NEW o \in Settings, ClientSets(o) PROVE PipeInv'
    BY <1>4 DEF ClientSets, node, Sockets, Sending
  <1>5. CASE Hand
    <2>1. Sending /\ ~destroyed /\ handed = answered /\ handed < written /\ ~finished
      BY <1>5 DEF Hand, Idle, Sending
    <2>2. handed' = handed + 1 /\ Append(Chunks(handed), handed + 1) = Chunks(handed + 1)
      BY <1>5, <2>1, ChunksGrow DEF Hand, Sending
    <2>3. CASE connecting
      <3>1. handed = 0 /\ pending = <<>> /\ pending' = Append(pending, 1) /\ sent' = sent
        BY <1>5, <2>1, <2>3, NoChunks DEF Hand, Sending
      <3>2. pending' = Chunks(1)
        BY <3>1, <2>2, NoChunks
      <3> QED
        BY <1>5, <2>1, <2>2, <2>3, <3>1, <3>2 DEF Hand, client, Sockets, Sending
    <2>4. CASE ~connecting
      <3>1. sent' = Append(sent, handed + 1) /\ pending' = pending
        BY <1>5, <2>1, <2>4 DEF Hand, Sending
      <3> QED
        BY <1>5, <2>1, <2>2, <2>4, <3>1 DEF Hand, client, Sockets, Sending
    <2> QED
      BY <2>1, <2>3, <2>4 DEF Sending
  <1>6. CASE Answer
    <2>1. CASE sock = "open" /\ answered' = answered + 1 /\ UNCHANGED <<self, failed, sock>>
      <3>1. ~destroyed /\ Sending /\ ~connecting /\ answered < handed
        BY <1>6, <2>1 DEF Answer, Idle, Sockets, Sending
      <3> QED
        BY <1>6, <2>1, <3>1 DEF Answer, client, self, Sockets, Sending
    <2>2. CASE Destroy
      BY <2>2, DestroyInv
    <2> QED
      BY <1>6, <2>1, <2>2 DEF Answer
  <1>7. CASE Final
    <2>1. Sending /\ ~destroyed /\ ~finished /\ handed = written /\ answered = handed
      BY <1>7 DEF Final, Idle, Sending
    <2> QED
      BY <1>7, <2>1 DEF Final, client, Sockets, Sending
  <1>8. CASE FactoryFails
    <2>1. CASE destroyed
      BY <1>8, <2>1 DEF FactoryFails, DestroyOnce, self, Sockets
    <2>2. CASE ~destroyed
      BY <1>8, <2>2, DestroyInv DEF FactoryFails, DestroyOnce
    <2> QED
      BY <2>1, <2>2
  <1>9. ASSUME NEW state \in {"connecting", "open"}, FactoryResolves(state) PROVE PipeInv'
    <2>1. CASE destroyed
      BY <1>9, <2>1 DEF FactoryResolves, Sockets
    <2>2. CASE ~destroyed /\ state = "connecting"
      BY <1>9, <2>2 DEF FactoryResolves, client, node, Sockets, Sending
    <2>3. CASE ~destroyed /\ state = "open"
      <3>1. Sending /\ connecting /\ Ready
        BY <1>9, <2>3 DEF FactoryResolves, Sockets, Sending
      <3> QED
        BY <1>9, <2>3, <3>1, ReadySent DEF FactoryResolves, client, node, Sockets, Sending
    <2> QED
      BY <2>1, <2>2, <2>3
  <1>10. CASE Connects
    <2>1. ~destroyed /\ Sending /\ connecting /\ Ready
      BY <1>10 DEF Connects, Sockets, Sending
    <2> QED
      BY <1>10, <2>1, ReadySent DEF Connects, client, node, Sockets, Sending
  <1>11. CASE SockClose \/ Data \/ Read \/ PeerEnd
    BY <1>11 DEF SockClose, Data, Read, PeerEnd, client, node, self, Sockets, Sending
  <1> QED
    BY <1>1, <1>2, <1>3, <1>4, <1>5, <1>6, <1>7, <1>8, <1>9, <1>10, <1>11 DEF Next

THEOREM Invariance == Spec => []PipeInv
  BY InitInv, StepInv, PTL DEF Spec

\* A destroyed stream leaves no socket behind, however late the socket came.
THEOREM NeverLeftOpen == Spec => []NothingLeftOpen
  <1>1. PipeInv => NothingLeftOpen
    BY DEF PipeInv, Sockets, NothingLeftOpen
  <1> QED
    BY <1>1, Invariance, PTL

-----------------------------------------------------------------------------
(* The pipe.                                                               *)

\* No chunk is taken for the end.
LEMMA NoEndYet ==
  ASSUME NEW n \in Nat, sent = Chunks(n)
  PROVE  Len(sent) = n /\ ~Pipe!EndGiven
  BY ChunksFacts DEF Pipe!EndGiven

\* What connecting does is a step of the pipe.
LEMMA ReadyStep ==
  ASSUME Sending, connecting, ~destroyed, Ready,
         UNCHANGED <<client, node, destroyed>>
  PROVE  [Pipe!Next]_Pipe!vars
  <1>1. sent = <<>> /\ sent = Chunks(0)
    BY NoChunks DEF Sending
  <1>2. Len(sent) = 0 /\ ~Pipe!EndGiven
    BY <1>1, NoEndYet
  <1>3. written' = written /\ ended' = ended
    BY DEF client
  <1>4. CASE finished
    <2>1. sent' = Append(sent, 0) /\ ended /\ Len(sent) = written
      BY <1>1, <1>2, <1>4, ReadySent DEF Sending
    <2> QED
      BY <1>2, <1>3, <2>1 DEF Pipe!Next, Pipe!GiveEnd
  <1>5. CASE ~finished /\ handed = 0
    <2>1. sent' = sent
      BY <1>1, <1>5, ReadySent
    <2> QED
      BY <1>3, <2>1 DEF Pipe!vars
  <1>6. CASE ~finished /\ handed = 1
    <2>1. sent' = Chunks(0 + 1)
      BY <1>6, ReadySent
    <2>2. sent' = Append(sent, Len(sent) + 1)
      BY <1>1, <1>2, <2>1, ChunksGrow
    <2>3. Len(sent) < written
      BY <1>2, <1>6 DEF Sending
    <2> QED
      BY <1>2, <1>3, <2>2, <2>3 DEF Pipe!Next, Pipe!Give
  <1> QED
    BY <1>4, <1>5, <1>6 DEF Sending

LEMMA PipeStep == ASSUME PipeInv, [Next]_vars PROVE [Pipe!Next]_Pipe!vars
  <1> USE DEF PipeInv
  <1>1. CASE UNCHANGED vars
    BY <1>1 DEF vars, client, node, self, real, Pipe!vars
  <1>2. CASE ClientWrite
    BY <1>2 DEF ClientWrite, self, real, Pipe!Next, Pipe!Write
  <1>3. CASE ClientEnd \/ AutoEnd
    BY <1>3 DEF ClientEnd, AutoEnd, self, real, Pipe!Next, Pipe!End
  <1>4. ASSUME Destroy, UNCHANGED client, sent' = sent PROVE [Pipe!Next]_Pipe!vars
    BY <1>4 DEF Destroy, client, Pipe!Next, Pipe!Break
  <1>5. CASE ClientDestroy \/ AutoDestroy \/ SockError
    BY <1>4, <1>5 DEF ClientDestroy, AutoDestroy, SockError
  <1>6. ASSUME UNCHANGED <<written, ended, sent, destroyed>> PROVE [Pipe!Next]_Pipe!vars
    BY <1>6 DEF Pipe!vars
  <1>7. ASSUME NEW o \in Settings, ClientSets(o) PROVE [Pipe!Next]_Pipe!vars
    BY <1>6, <1>7 DEF ClientSets
  <1>8. CASE Hand
    <2>1. CASE connecting
      BY <1>6, <1>8, <2>1 DEF Hand, client
    <2>2. CASE ~connecting
      <3>1. /\ Sending /\ ~destroyed /\ ~finished /\ handed < written /\ handed \in Nat
            /\ sent = Chunks(handed)
        BY <1>8, <2>2 DEF Hand, Idle, Sending
      <3>2. Len(sent) = handed /\ ~Pipe!EndGiven
        BY <3>1, NoEndYet
      <3>3. sent' = Append(sent, Len(sent) + 1)
        BY <1>8, <2>2, <3>1, <3>2 DEF Hand, Sending
      <3>4. UNCHANGED <<written, ended, destroyed>>
        BY <1>8 DEF Hand, client
      <3> QED
        BY <3>1, <3>2, <3>3, <3>4 DEF Pipe!Next, Pipe!Give
    <2> QED
      BY <2>1, <2>2
  <1>9. CASE Answer
    <2>1. CASE UNCHANGED self
      BY <1>6, <1>9, <2>1 DEF Answer, self, client
    <2>2. CASE Destroy
      BY <1>4, <1>9, <2>2 DEF Answer
    <2> QED
      BY <1>9, <2>1, <2>2 DEF Answer
  <1>10. CASE Final
    <2>1. CASE connecting
      BY <1>6, <1>10, <2>1 DEF Final, client
    <2>2. CASE ~connecting
      <3>1. /\ Sending /\ ~destroyed /\ ~finished /\ ended /\ handed = written /\ handed \in Nat
            /\ sent = Chunks(handed)
        BY <1>10, <2>2 DEF Final, Sending
      <3>2. Len(sent) = handed /\ ~Pipe!EndGiven
        BY <3>1, NoEndYet
      <3>3. sent' = Append(sent, 0)
        BY <1>10, <2>2, <3>1 DEF Final, Sending
      <3>4. UNCHANGED <<written, ended, destroyed>>
        BY <1>10 DEF Final, client
      <3> QED
        BY <3>1, <3>2, <3>3, <3>4 DEF Pipe!Next, Pipe!GiveEnd
    <2> QED
      BY <2>1, <2>2
  <1>11. CASE FactoryFails
    <2>1. CASE destroyed
      BY <1>6, <1>11, <2>1 DEF FactoryFails, DestroyOnce, self, client
    <2>2. CASE ~destroyed
      BY <1>4, <1>11, <2>2 DEF FactoryFails, DestroyOnce
    <2> QED
      BY <2>1, <2>2
  <1>12. ASSUME NEW state \in {"connecting", "open"}, FactoryResolves(state)
         PROVE  [Pipe!Next]_Pipe!vars
    <2>1. CASE destroyed \/ state = "connecting"
      BY <1>6, <1>12, <2>1 DEF FactoryResolves, client
    <2>2. CASE ~destroyed /\ state = "open"
      <3>1. Sending /\ connecting /\ Ready /\ UNCHANGED <<client, node, destroyed>>
        BY <1>12, <2>2 DEF FactoryResolves, Sockets, Sending
      <3> QED
        BY <2>2, <3>1, ReadyStep
    <2> QED
      BY <1>12, <2>1, <2>2
  <1>13. CASE Connects
    <2>1. ~destroyed /\ Sending /\ connecting /\ Ready /\ UNCHANGED <<client, node, destroyed>>
      BY <1>13 DEF Connects, Sockets, Sending
    <2> QED
      BY <2>1, ReadyStep
  <1>14. CASE SockClose \/ Data \/ Read \/ PeerEnd
    BY <1>6, <1>14 DEF SockClose, Data, Read, PeerEnd, client, self
  <1> QED
    BY <1>1, <1>2, <1>3, <1>5, <1>7, <1>8, <1>9, <1>10, <1>11, <1>12, <1>13, <1>14 DEF Next

\* The deferred socket is an ordered pipe to the real socket.
THEOREM SocketImplementsPipe == Spec => ImplementsPipe
  <1>1. Init => Pipe!Init
    BY DEF Init, Pipe!Init
  <1> QED
    BY <1>1, Invariance, PipeStep, PTL DEF Spec, ImplementsPipe, Pipe!Spec
-----------------------------------------------------------------------------
(* The connection whose protocol is told by its first bytes.               *)

LEMMA FirstBytes ==
  ASSUME NEW n \in Nat
  PROVE  /\ UpTo(1, n) \in Seq(Nat) /\ Len(UpTo(1, n)) = n
         /\ \A k \in 1..n : UpTo(1, n)[k] = k
  <1>1. (IF n < 1 THEN 0 ELSE n - 1 + 1) = n
    OBVIOUS
  <1>2. UpTo(1, n) = [k \in 1..n |-> 1 + k - 1]
    BY <1>1 DEF UpTo
  <1> QED
    BY <1>2

LEMMA LaterBytes ==
  ASSUME NEW m \in Nat, NEW n \in Nat, m <= n
  PROVE  /\ UpTo(m + 1, n) \in Seq(Nat) /\ Len(UpTo(m + 1, n)) = n - m
         /\ \A k \in 1..(n - m) : UpTo(m + 1, n)[k] = m + k
  <1>1. (IF n < m + 1 THEN 0 ELSE n - (m + 1) + 1) = n - m
    OBVIOUS
  <1>2. UpTo(m + 1, n) = [k \in 1..(n - m) |-> (m + 1) + k - 1]
    BY <1>1 DEF UpTo
  <1>3. n - m \in Nat
    OBVIOUS
  <1> QED
    BY <1>2, <1>3

LEMMA NoBytes ==
  ASSUME NEW n \in Nat
  PROVE  UpTo(n + 1, n) = <<>>
  <1>1. UpTo(n + 1, n) \in Seq(Nat) /\ Len(UpTo(n + 1, n)) = n - n
    BY LaterBytes
  <1> QED
    BY <1>1

LEMMA NothingLater ==
  ASSUME NEW m \in Nat, NEW n \in Nat, m <= n, UpTo(m + 1, n) = <<>>
  PROVE  m = n
  <1>1. Len(UpTo(m + 1, n)) = n - m
    BY LaterBytes
  <1>2. n - m = 0
    BY <1>1
  <1> QED
    BY <1>2

LEMMA NoFirstBytes == UpTo(1, 0) = <<>>
  <1>1. UpTo(1, 0) \in Seq(Nat) /\ Len(UpTo(1, 0)) = 0
    BY FirstBytes
  <1> QED
    BY <1>1

\* What follows what was read continues it.
LEMMA UpToJoins ==
  ASSUME NEW m \in Nat, NEW n \in Nat, m <= n
  PROVE  UpTo(1, m) \o UpTo(m + 1, n) = UpTo(1, n)
  <1> DEFINE first == UpTo(1, m)
             later == UpTo(m + 1, n)
             whole == UpTo(1, n)
  <1>1. first \in Seq(Nat) /\ Len(first) = m /\ \A k \in 1..m : first[k] = k
    BY FirstBytes
  <1>2. later \in Seq(Nat) /\ Len(later) = n - m /\ \A k \in 1..(n - m) : later[k] = m + k
    BY LaterBytes
  <1>3. whole \in Seq(Nat) /\ Len(whole) = n /\ \A k \in 1..n : whole[k] = k
    BY FirstBytes
  <1> HIDE DEF first, later, whole
  <1>4. first \o later \in Seq(Nat) /\ Len(first \o later) = n
    <2>1. first \in Seq(Nat) /\ later \in Seq(Nat)
      BY <1>1, <1>2
    <2>2. first \o later \in Seq(Nat) /\ Len(first \o later) = Len(first) + Len(later)
      BY <2>1
    <2>3. Len(first) = m /\ Len(later) = n - m
      BY <1>1, <1>2
    <2> QED
      BY <2>2, <2>3
  <1>5. ASSUME NEW k \in 1..n PROVE (first \o later)[k] = k
    <2>1. CASE k <= m
      BY <1>1, <1>2, <2>1
    <2>2. CASE k > m
      <3>1. (first \o later)[k] = later[k - m]
        BY <1>1, <1>2, <2>2
      <3>2. k - m \in 1..(n - m)
        BY <2>2
      <3>3. later[k - m] = m + (k - m)
        BY <1>2, <3>2
      <3>4. k \in Int /\ m + (k - m) = k
        OBVIOUS
      <3> QED
        BY <3>1, <3>3, <3>4, Zenon
    <2>3. k <= m \/ k > m
      OBVIOUS
    <2> QED
      BY <2>1, <2>2, <2>3, Zenon
  <1>6. first \o later = whole
    BY <1>3, <1>4, <1>5
  <1> QED
    BY <1>6 DEF first, later, whole

LEMMA UpToGrows ==
  ASSUME NEW n \in Nat
  PROVE  Append(UpTo(1, n), n + 1) = UpTo(1, n + 1)
  <1>1. /\ UpTo(1, n) \in Seq(Nat) /\ Len(UpTo(1, n)) = n
        /\ \A k \in 1..n : UpTo(1, n)[k] = k
    BY FirstBytes
  <1>2. /\ UpTo(1, n + 1) \in Seq(Nat) /\ Len(UpTo(1, n + 1)) = n + 1
        /\ \A k \in 1..(n + 1) : UpTo(1, n + 1)[k] = k
    BY FirstBytes
  <1> QED
    BY <1>1, <1>2

LEMMA UpToShrinks ==
  ASSUME NEW m \in Nat, NEW n \in Nat, m < n
  PROVE  /\ Head(UpTo(m + 1, n)) = m + 1
         /\ Tail(UpTo(m + 1, n)) = UpTo((m + 1) + 1, n)
  <1>1. /\ UpTo(m + 1, n) \in Seq(Nat) /\ Len(UpTo(m + 1, n)) = n - m
        /\ \A k \in 1..(n - m) : UpTo(m + 1, n)[k] = m + k
    BY LaterBytes
  <1>2. m + 1 \in Nat /\ m + 1 <= n
    OBVIOUS
  <1>3. /\ UpTo((m + 1) + 1, n) \in Seq(Nat) /\ Len(UpTo((m + 1) + 1, n)) = n - (m + 1)
        /\ \A k \in 1..(n - (m + 1)) : UpTo((m + 1) + 1, n)[k] = (m + 1) + k
    BY <1>2, LaterBytes
  <1> DEFINE all == UpTo(m + 1, n)
             rest == UpTo((m + 1) + 1, n)
  <1> HIDE DEF all, rest
  <1>4. /\ all \in Seq(Nat) /\ Len(all) = n - m /\ all # <<>>
        /\ \A k \in 1..(n - m) : all[k] = m + k
    BY <1>1 DEF all
  <1>5. /\ Tail(all) \in Seq(Nat) /\ Len(Tail(all)) = n - (m + 1)
        /\ \A k \in 1..(n - (m + 1)) : Tail(all)[k] = all[k + 1]
    BY <1>4
  <1>6. ASSUME NEW k \in 1..(n - (m + 1)) PROVE Tail(all)[k] = (m + 1) + k
    <2>1. k + 1 \in 1..(n - m)
      OBVIOUS
    <2>2. Tail(all)[k] = all[k + 1]
      BY <1>5
    <2>3. all[k + 1] = m + (k + 1)
      BY <1>4, <2>1, Zenon
    <2>4. m + (k + 1) = (m + 1) + k
      OBVIOUS
    <2> QED
      BY <2>2, <2>3, <2>4, Zenon
  <1>7. Tail(all) = rest
    <2> DEFINE l == n - (m + 1)
    <2>1. rest \in Seq(Nat) /\ Len(rest) = l /\ \A k \in 1..l : rest[k] = (m + 1) + k
      BY <1>3 DEF rest
    <2>2. Tail(all) \in Seq(Nat) /\ Len(Tail(all)) = l
      BY <1>5
    <2> HIDE DEF l
    <2>3. \A k \in 1..l : rest[k] = Tail(all)[k]
      BY <1>6, <2>1 DEF l
    <2> QED
      BY <2>1, <2>2, <2>3
  <1>8. Head(all) = m + 1
    BY <1>4
  <1> QED
    BY <1>7, <1>8 DEF all, rest

-----------------------------------------------------------------------------
(* Its invariant.                                                          *)

MuxTypeOK ==
  /\ speaks \in {"h2", "h1"} /\ agrees \in 0..Preface
  /\ agrees = Preface <=> speaks = "h2"
  /\ wrote \in Nat /\ taken \in Nat /\ taken <= wrote
  /\ closedBy \in {"nobody", "client", "network"} /\ dead \in BOOLEAN
  /\ flowing \in BOOLEAN /\ timer \in BOOLEAN /\ resuming \in BOOLEAN
  /\ server \in {"none", "http1", "http2", "nobody"}

\* While it is not decided, all that left the kernel was read to decide, too
\* little of it to tell; where there is no timer nothing was read.
Undecided ==
  /\ timer => server = "none"
  /\ server = "none" =>
       /\ parsed = <<>> /\ readable = <<>>
       /\ sniffed = UpTo(1, taken) /\ taken < Preface
       /\ ~timer => taken = 0

\* After an error before the decision nobody has the socket.
NobodyHasIt == server = "nobody" => dead

\* The parser was given the first bytes, and those put back are the next ones,
\* up to those still in the kernel; the end came after the last of them.
InFront ==
  ~dead /\ server \in {"http1", "http2"} =>
    \/ \E n \in 0..taken : parsed = UpTo(1, n) /\ readable = UpTo(n + 1, taken)
    \/ parsed = Append(UpTo(1, taken), 0)

MuxInv == MuxTypeOK /\ Undecided /\ NobodyHasIt /\ InFront /\ RightServer

LEMMA MuxInitInv == MuxInit => MuxInv
  <1> SUFFICES ASSUME MuxInit PROVE MuxInv
    OBVIOUS
  <1>1. MuxTypeOK
    <2>1. /\ speaks \in {"h2", "h1"}
          /\ speaks = "h2" => agrees = Preface
          /\ speaks # "h2" => agrees \in 0..(Preface - 1)
      BY DEF MuxInit
    <2>2. agrees \in 0..Preface /\ (agrees = Preface <=> speaks = "h2")
      BY <2>1, MuxAssumption
    <2>3. /\ speaks \in {"h2", "h1"} /\ wrote = 0 /\ closedBy = "nobody" /\ dead = FALSE
          /\ flowing = TRUE /\ taken = 0 /\ timer \in BOOLEAN /\ server = "none" /\ resuming = FALSE
      BY DEF MuxInit
    <2>4. wrote \in Nat /\ taken \in Nat /\ taken <= wrote
      BY <2>3
    <2> QED
      BY <2>2, <2>3, <2>4, Zenon DEF MuxTypeOK
  <1>2. UpTo(1, 0) = <<>>
    BY NoFirstBytes
  <1>3. Undecided
    BY <1>2, MuxAssumption DEF MuxInit, Undecided
  <1> QED
    BY <1>1, <1>3 DEF MuxInit, MuxInv, NobodyHasIt, InFront, RightServer

\* Handing the socket on puts what was read in front of the rest.
LEMMA HandToInv ==
  ASSUME MuxInv, server = "none", timer, UNCHANGED <<peer, dead, parsed>>,
         NEW target \in {"http1", "http2"}, HandTo(target),
         taken' \in Nat, taken' <= wrote, sniffed' = UpTo(1, taken'),
         target = "http2" => speaks = "h2",
         target = "http1" /\ speaks = "h2" => taken' < Preface
  PROVE  MuxInv'
  <1>1. MuxTypeOK'
    BY DEF MuxInv, MuxTypeOK, HandTo, peer, speaker
  <1>2. Undecided' /\ NobodyHasIt'
    BY DEF Undecided, NobodyHasIt, HandTo
  <1>3. Len(sniffed') = taken'
    BY FirstBytes
  <1>4. RightServer'
    BY <1>3 DEF RightServer, HandTo, peer, speaker
  <1>5. ASSUME ~dead PROVE parsed' = UpTo(1, 0) /\ readable' = UpTo(0 + 1, taken')
    <2>1. parsed' = <<>>
      BY DEF MuxInv, Undecided
    <2> QED
      BY <1>5, <2>1, NoFirstBytes DEF HandTo
  <1>6. InFront'
    BY <1>5 DEF InFront
  <1> QED
    BY <1>1, <1>2, <1>4, <1>6 DEF MuxInv

LEMMA MuxStepInv == ASSUME MuxInv, [MuxNext]_muxVars PROVE MuxInv'
  <1> USE DEF MuxInv
  <1>1. CASE UNCHANGED muxVars
    BY <1>1 DEF muxVars, MuxTypeOK, Undecided, NobodyHasIt, InFront, RightServer
  <1>2. CASE ClientWrites \/ ClientCloses
    <2>1. MuxTypeOK'
      BY <1>2 DEF ClientWrites, ClientCloses, MuxTypeOK, speaker, stream
    <2>2. /\ UNCHANGED <<speaks, dead, readable, taken, sniffed, timer, server, parsed>>
      BY <1>2 DEF ClientWrites, ClientCloses, speaker, stream
    <2> QED
      BY <2>1, <2>2 DEF Undecided, NobodyHasIt, InFront, RightServer
  <1>3. CASE Sniff
    <2>1. PICK n \in (taken + 1)..wrote : taken' = n /\ sniffed' = sniffed \o UpTo(taken + 1, n)
      BY <1>3 DEF Sniff
    <2>2. taken \in Nat /\ wrote \in Nat /\ taken <= n /\ n \in Nat /\ n <= wrote
      BY <2>1 DEF MuxTypeOK
    <2>3. server = "none" /\ timer /\ ~dead /\ UNCHANGED <<peer, dead, parsed>> /\ sniffed = UpTo(1, taken)
      BY <1>3 DEF Sniff, Undecided
    <2>4. sniffed' = UpTo(1, taken') /\ Len(sniffed') = taken'
      BY <2>1, <2>2, <2>3, UpToJoins, FirstBytes
    <2>5. CASE ~LooksLikePreface(sniffed') /\ HandTo("http1")
      <3>1. speaks # "h2"
        BY <2>1, <2>2, <2>4, <2>5 DEF LooksLikePreface, MuxTypeOK
      <3> QED
        BY <2>1, <2>2, <2>3, <2>4, <2>5, <3>1, HandToInv
    <2>6. CASE LooksLikePreface(sniffed') /\ Len(sniffed') >= Preface /\ HandTo("http2")
      <3>1. speaks = "h2"
        BY <2>1, <2>2, <2>4, <2>6, MuxAssumption DEF LooksLikePreface, MuxTypeOK
      <3> QED
        BY <2>1, <2>2, <2>3, <2>4, <2>6, <3>1, HandToInv
    <2>7. CASE Len(sniffed') < Preface /\ UNCHANGED <<readable, flowing, timer, server, resuming>>
      <3>1. MuxTypeOK'
        BY <2>1, <2>2, <2>3, <2>7 DEF MuxTypeOK, peer, speaker
      <3>2. Undecided'
        BY <2>3, <2>4, <2>7 DEF Undecided
      <3> QED
        BY <2>3, <2>7, <3>1, <3>2 DEF NobodyHasIt, InFront, RightServer
    <2> QED
      BY <1>3, <2>5, <2>6, <2>7 DEF Sniff
  <1>4. CASE SniffTimeout
    <2>1. server = "none" /\ timer /\ HandTo("http1") /\ UNCHANGED <<peer, dead, parsed>>
      BY <1>4 DEF SniffTimeout, Undecided
    <2>2. taken' = taken /\ sniffed' = UpTo(1, taken') /\ taken' < Preface
      BY <1>4, <2>1 DEF SniffTimeout, Undecided
    <2>3. taken' \in Nat /\ taken' <= wrote
      BY <2>2 DEF MuxTypeOK
    <2> QED
      BY <2>1, <2>2, <2>3, HandToInv
  <1>5. CASE EndWhileSniffed \/ SocketError
    <2>1. dead' /\ UNCHANGED <<peer, stream, sniffed, parsed>>
      BY <1>5 DEF EndWhileSniffed, SocketError
    <2>2. \/ server' = server /\ timer' = timer
          \/ server # "none" /\ server' = server /\ timer' = FALSE
          \/ server' = "nobody" /\ timer' = FALSE
      BY <1>5 DEF EndWhileSniffed, SocketError
    <2>3. MuxTypeOK'
      BY <1>5, <2>1, <2>2 DEF EndWhileSniffed, SocketError, MuxTypeOK, peer, speaker, stream
    <2>4. Undecided'
      BY <2>1, <2>2 DEF Undecided, stream
    <2> QED
      BY <2>1, <2>2, <2>3, <2>4 DEF NobodyHasIt, InFront, RightServer, peer, speaker
  <1>6. CASE Resume
    BY <1>6 DEF Resume, MuxTypeOK, Undecided, NobodyHasIt, InFront, RightServer, peer, speaker
  <1>7. CASE Flow
    <2>1. /\ server \in {"http1", "http2"} /\ ~dead /\ ~EndParsed
          /\ UNCHANGED <<peer, dead, flowing, sniffed, timer, server, resuming>>
      BY <1>7 DEF Flow
    <2>2. taken \in Nat /\ wrote \in Nat /\ taken <= wrote
      BY DEF MuxTypeOK
    <2>3. PICK n \in 0..taken : parsed = UpTo(1, n) /\ readable = UpTo(n + 1, taken)
      <3>1. UpTo(1, taken) \in Seq(Nat)
        BY <2>2, FirstBytes
      <3>2. parsed # Append(UpTo(1, taken), 0)
        BY <2>1, <3>1 DEF EndParsed, Last
      <3> QED
        BY <2>1, <3>2 DEF InFront
    <2>4. n \in Nat /\ n <= taken
      BY <2>2
    <2>5. CASE readable # <<>> /\ parsed' = Append(parsed, Head(readable))
               /\ readable' = Tail(readable) /\ taken' = taken
      <3>1. n < taken
        <4>1. n # taken
          BY <2>3, <2>4, <2>5, NoBytes
        <4> QED
          BY <2>2, <2>4, <4>1
      <3>2. Head(readable) = n + 1 /\ Tail(readable) = UpTo((n + 1) + 1, taken)
        BY <2>2, <2>3, <2>4, <3>1, UpToShrinks
      <3>4. parsed' = UpTo(1, n + 1) /\ readable' = UpTo((n + 1) + 1, taken)
        BY <2>3, <2>4, <2>5, <3>2, UpToGrows
      <3>3. InFront'
        BY <2>2, <2>4, <2>5, <3>1, <3>4, SMTT(30) DEF InFront
      <3> QED
        BY <2>1, <2>5, <3>3 DEF MuxTypeOK, Undecided, NobodyHasIt, RightServer, peer, speaker
    <2>6. CASE readable = <<>> /\ taken < wrote /\ taken' = taken + 1
               /\ parsed' = Append(parsed, taken') /\ readable' = readable
      <3>1. n = taken
        BY <2>2, <2>3, <2>4, <2>6, NothingLater
      <3>2. parsed' = UpTo(1, taken') /\ readable' = UpTo(taken' + 1, taken')
        <4>1. parsed' = Append(UpTo(1, taken), taken + 1) /\ taken' = taken + 1 /\ readable' = <<>>
          BY <2>3, <2>6, <3>1
        <4>2. UpTo(1, taken') = Append(UpTo(1, taken), taken + 1)
          BY <2>2, <4>1, UpToGrows
        <4>3. taken' \in Nat
          BY <2>2, <4>1
        <4>4. UpTo(taken' + 1, taken') = <<>>
          BY <4>3, NoBytes
        <4> QED
          BY <4>1, <4>2, <4>4
      <3>3. InFront' /\ taken' \in 0..taken'
        BY <2>2, <2>6, <3>2 DEF InFront
      <3> QED
        BY <2>1, <2>2, <2>6, <3>3 DEF MuxTypeOK, Undecided, NobodyHasIt, RightServer, peer, speaker
    <2>7. CASE readable = <<>> /\ taken = wrote /\ parsed' = Append(parsed, 0)
               /\ UNCHANGED <<readable, taken>>
      <3>1. n = taken
        BY <2>2, <2>3, <2>4, <2>7, NothingLater
      <3>2. InFront'
        BY <2>3, <2>7, <3>1 DEF InFront
      <3> QED
        BY <2>1, <2>7, <3>2 DEF MuxTypeOK, Undecided, NobodyHasIt, RightServer, peer, speaker
    <2> QED
      BY <1>7, <2>5, <2>6, <2>7 DEF Flow
  <1>8. CASE HandByAlpn
    <2>1. /\ server = "none" /\ ~timer /\ server' \in {"http1", "http2"}
          /\ server' = "http2" => speaks = "h2"
          /\ UNCHANGED <<peer, dead, stream, sniffed, timer, resuming, parsed>>
      BY <1>8 DEF HandByAlpn
    <2>2. parsed = <<>> /\ readable = <<>> /\ sniffed = UpTo(1, 0) /\ taken = 0
      BY <2>1 DEF Undecided
    <2>3. parsed' = UpTo(1, 0) /\ readable' = UpTo(0 + 1, 0) /\ taken' = 0
      BY <2>1, <2>2, NoFirstBytes DEF stream
    <2>4. InFront'
      BY <2>3 DEF InFront
    <2>5. Len(sniffed') < Preface
      BY <2>1, <2>2, FirstBytes, MuxAssumption
    <2>6. MuxTypeOK'
      BY <2>1 DEF MuxTypeOK, peer, speaker, stream
    <2> QED
      BY <2>1, <2>4, <2>5, <2>6 DEF Undecided, NobodyHasIt, RightServer, peer, speaker
  <1> QED
    BY <1>1, <1>2, <1>3, <1>4, <1>5, <1>6, <1>7, <1>8 DEF MuxNext

\* Every byte is in its place, whoever decided for which server and when.
THEOREM MuxInvariance == MuxSpec => []MuxInv
  BY MuxInitInv, MuxStepInv, PTL DEF MuxSpec

\* A server is only given a client of its protocol, or one that was too slow.
THEOREM ChosenRightly == MuxSpec => []RightServer
  <1>1. MuxInv => RightServer
    BY DEF MuxInv
  <1> QED
    BY <1>1, MuxInvariance, PTL
\* Bytes are not taken for the end.
LEMMA NoEndGiven ==
  ASSUME NEW n \in Nat, parsed = UpTo(1, n)
  PROVE  Len(parsed) = n /\ ~Connection!EndGiven
  BY FirstBytes DEF Connection!EndGiven

LEMMA ConnectionStep == ASSUME MuxInv, [MuxNext]_muxVars PROVE [Connection!Next]_Connection!vars
  <1> USE DEF MuxInv
  <1>1. ASSUME UNCHANGED <<wrote, closedBy, dead, parsed>> PROVE [Connection!Next]_Connection!vars
    BY <1>1 DEF Connection!vars
  <1>2. CASE UNCHANGED muxVars \/ Sniff \/ SniffTimeout \/ Resume \/ HandByAlpn
    BY <1>1, <1>2 DEF muxVars, Sniff, SniffTimeout, Resume, HandByAlpn, peer
  <1>3. CASE ClientWrites
    BY <1>3 DEF ClientWrites, Connection!Next, Connection!Write
  <1>4. CASE ClientCloses
    BY <1>4 DEF ClientCloses, Connection!Next, Connection!End
  <1>5. CASE EndWhileSniffed \/ SocketError
    BY <1>5 DEF EndWhileSniffed, SocketError, peer, Connection!Next, Connection!Break
  <1>6. CASE Flow
    <2>1. /\ server \in {"http1", "http2"} /\ ~dead /\ ~EndParsed
          /\ UNCHANGED <<wrote, closedBy, dead>>
      BY <1>6 DEF Flow, peer
    <2>2. taken \in Nat /\ wrote \in Nat /\ taken <= wrote
      BY DEF MuxTypeOK
    <2>3. PICK n \in 0..taken : parsed = UpTo(1, n) /\ readable = UpTo(n + 1, taken)
      <3>1. UpTo(1, taken) \in Seq(Nat)
        BY <2>2, FirstBytes
      <3>2. parsed # Append(UpTo(1, taken), 0)
        BY <2>1, <3>1 DEF EndParsed, Last
      <3> QED
        BY <2>1, <3>2 DEF InFront
    <2>4. n \in Nat /\ n <= taken
      BY <2>2
    <2>5. Len(parsed) = n /\ ~Connection!EndGiven
      BY <2>3, <2>4, NoEndGiven
    <2>6. CASE readable # <<>> /\ parsed' = Append(parsed, Head(readable))
      <3>1. n < taken
        <4>1. n # taken
          BY <2>3, <2>4, <2>6, NoBytes
        <4> QED
          BY <2>2, <2>4, <4>1
      <3>2. Head(readable) = Len(parsed) + 1
        BY <2>2, <2>3, <2>4, <2>5, <3>1, UpToShrinks
      <3>3. Len(parsed) < wrote
        BY <2>2, <2>4, <2>5, <3>1
      <3> QED
        BY <2>1, <2>5, <2>6, <3>2, <3>3 DEF Connection!Next, Connection!Give
    <2>7. CASE readable = <<>> /\ taken < wrote /\ parsed' = Append(parsed, taken + 1)
      <3>1. n = taken
        BY <2>2, <2>3, <2>4, <2>7, NothingLater
      <3> QED
        BY <2>1, <2>5, <2>7, <3>1 DEF Connection!Next, Connection!Give
    <2>8. CASE readable = <<>> /\ taken = wrote /\ closedBy = "client" /\ parsed' = Append(parsed, 0)
      <3>1. n = taken
        BY <2>2, <2>3, <2>4, <2>8, NothingLater
      <3> QED
        BY <2>1, <2>5, <2>8, <3>1 DEF Connection!Next, Connection!GiveEnd
    <2> QED
      BY <1>6, <2>6, <2>7, <2>8 DEF Flow
  <1> QED
    BY <1>2, <1>3, <1>4, <1>5, <1>6 DEF MuxNext

\* The connection is an ordered pipe from the client to the server that was
\* chosen, which gets what was read to choose it like all the rest.
THEOREM MuxImplementsPipe == MuxSpec => HandedInOrder
  <1>1. MuxInit => Connection!Init
    BY DEF MuxInit, Connection!Init
  <1> QED
    BY <1>1, MuxInvariance, ConnectionStep, PTL DEF MuxSpec, HandedInOrder, Connection!Spec
-----------------------------------------------------------------------------
(* The calls of a window's page.                                           *)

Places == {"idle", "native", "local", "waiting", "localFailed", "nativeFailed"}

PageTypeOK ==
  /\ calls \in [PageCalls -> [at : Places, kind : CallKinds]]
  /\ probing \in {"no", "asked", "well", "ill"}

\* A call that waits, waits for a probe that is under way, and is no WebSocket.
WaitsForAProbe ==
  \A c \in PageCalls : calls[c].at = "waiting" => probing # "no" /\ calls[c].kind # "websocket"

PageInv == PageTypeOK /\ WaitsForAProbe /\ FailsWithTheApi

LEMMA PageInitInv == PageInit => PageInv
  BY DEF PageInit, PageInv, PageTypeOK, WaitsForAProbe, FailsWithTheApi, Places, CallKinds

\* A call that goes from a place to another keeps the invariant if it may fail
\* where it fails.
LEMMA GoesInv ==
  ASSUME PageInv, UNCHANGED probing, NEW c \in PageCalls, NEW where \in Places, Goes(c, where),
         where # "waiting",
         where = "localFailed" => calls[c].kind \in {"onceOnly", "websocket"}
  PROVE  PageInv'
  <1>1. PageTypeOK'
    BY DEF PageInv, PageTypeOK, Goes
  <1>2. ASSUME NEW d \in PageCalls
        PROVE  calls'[d].kind = calls[d].kind /\ calls'[d].at = IF d = c THEN where ELSE calls[d].at
    BY DEF PageInv, PageTypeOK, Goes
  <1> QED
    BY <1>1, <1>2 DEF PageInv, WaitsForAProbe, FailsWithTheApi

\* So does a call that begins, and waits only for a probe.
LEMMA BeginsInv ==
  ASSUME PageInv, NEW c \in PageCalls, NEW kind \in CallKinds,
         NEW where \in {"native", "local", "waiting"},
         calls' = [calls EXCEPT ![c] = [at |-> where, kind |-> kind]],
         probing' = probing \/ Probe,
         where = "waiting" => Probe /\ kind # "websocket"
  PROVE  PageInv'
  <1>1. probing' \in {"no", "asked", "well", "ill"} /\ (probing # "no" => probing' = probing)
        /\ (where = "waiting" => probing' # "no")
    BY DEF PageInv, PageTypeOK, Probe
  <1>2. where \in Places
    BY DEF Places
  <1>3. PageTypeOK'
    BY <1>1, <1>2 DEF PageInv, PageTypeOK
  <1>4. ASSUME NEW d \in PageCalls
        PROVE  calls'[d] = IF d = c THEN [at |-> where, kind |-> kind] ELSE calls[d]
    BY DEF PageInv, PageTypeOK
  <1> QED
    BY <1>1, <1>3, <1>4 DEF PageInv, WaitsForAProbe, FailsWithTheApi

LEMMA PageStepInv == ASSUME PageInv, [PageNext]_pageVars PROVE PageInv'
  <1>1. CASE UNCHANGED <<probing, calls>>
    BY <1>1 DEF PageInv, PageTypeOK, WaitsForAProbe, FailsWithTheApi
  <1>2. CASE UNCHANGED pageVars \/ Expire \/ ServerFlips \/ Configured
    BY <1>1, <1>2 DEF pageVars, Expire, ServerFlips, Configured
  <1>3. CASE ProbeAnswered
    BY <1>3 DEF ProbeAnswered, PageInv, PageTypeOK, WaitsForAProbe, FailsWithTheApi
  <1>4. CASE ProbeSettles
    <2>1. ASSUME NEW c \in PageCalls
          PROVE  /\ calls'[c].kind = calls[c].kind /\ calls'[c] \in [at : Places, kind : CallKinds]
                 /\ calls'[c].at # "waiting"
                 /\ calls'[c].at = "localFailed" => calls[c].at = "localFailed"
      <3>1. calls[c] \in [at : Places, kind : CallKinds]
        BY DEF PageInv, PageTypeOK
      <3>2. \/ calls[c].at # "waiting" /\ calls'[c] = calls[c]
            \/ \E where \in {"native", "local"} : calls'[c] = [calls[c] EXCEPT !.at = where]
        BY <1>4 DEF ProbeSettles, ByVerdict
      <3> QED
        BY <3>1, <3>2 DEF Places
    <2>2. calls' = [c \in PageCalls |-> calls'[c]] /\ probing' = "no"
      BY <1>4 DEF ProbeSettles
    <2> QED
      BY <2>1, <2>2 DEF PageInv, PageTypeOK, WaitsForAProbe, FailsWithTheApi
  <1>5. ASSUME NEW c \in PageCalls, NEW kind \in CallKinds, Fetch(c, kind) PROVE PageInv'
    <2>1. PICK where \in {"native", "local", "waiting"} :
            /\ \/ where # "waiting" /\ probing' = probing
               \/ where = "waiting" /\ Probe
            /\ calls' = [calls EXCEPT ![c] = [at |-> where, kind |-> kind]]
      BY <1>5 DEF Fetch, ByVerdict
    <2>2. kind # "websocket"
      BY <1>5 DEF Fetch
    <2> QED
      BY <2>1, <2>2, BeginsInv
  <1>6. ASSUME NEW c \in PageCalls, Connect(c) PROVE PageInv'
    <2>1. PICK where \in {"native", "local"} :
            /\ probing' = probing \/ Probe
            /\ calls' = [calls EXCEPT ![c] = [at |-> where, kind |-> "websocket"]]
      BY <1>6 DEF Connect, ByVerdict
    <2>2. "websocket" \in CallKinds
      BY DEF CallKinds
    <2> QED
      BY <2>1, <2>2, BeginsInv
  <1>7. ASSUME NEW c \in PageCalls, RedirectFails(c) PROVE PageInv'
    <2>1. CASE calls[c].kind \in {"onceOnly", "websocket"} /\ Goes(c, "localFailed")
      BY <1>7, <2>1, GoesInv DEF RedirectFails, Places
    <2>2. CASE Goes(c, "native")
      BY <1>7, <2>2, GoesInv DEF RedirectFails, Places
    <2> QED
      BY <1>7, <2>1, <2>2 DEF RedirectFails
  <1>8. ASSUME NEW c \in PageCalls, LocalAnswers(c) \/ NativeEnds(c) \/ Noticed(c) PROVE PageInv'
    <2>1. UNCHANGED probing /\ \E where \in {"idle", "nativeFailed"} : Goes(c, where)
      BY <1>8 DEF LocalAnswers, NativeEnds, Noticed
    <2> QED
      BY <2>1, GoesInv DEF Places
  <1> QED
    BY <1>2, <1>3, <1>4, <1>5, <1>6, <1>7, <1>8 DEF PageNext

THEOREM PageInvariance == PageSpec => []PageInv
  BY PageInitInv, PageStepInv, PTL DEF PageSpec

\* Whatever the server, the probes and the configuration do, a call whose body
\* can be sent twice does not fail for the redirect.
THEOREM RedirectsAreHarmless == PageSpec => []FailsWithTheApi
  <1>1. PageInv => FailsWithTheApi
    BY DEF PageInv
  <1> QED
    BY <1>1, PageInvariance, PTL
=============================================================================
