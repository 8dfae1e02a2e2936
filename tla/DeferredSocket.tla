----------------------------- MODULE DeferredSocket -----------------------------
(***************************************************************************)
(* The stream that stands in for a socket whose destination is not known   *)
(* yet (interceptor/runtime/deferred-socket.ts).  The HTTP/2 client gets   *)
(* it at once and writes; the factory decides between the local server and *)
(* the official API; the stream then attaches to the real socket, hands it *)
(* what was written, and passes everything through.                        *)
(*                                                                         *)
(* What Node's stream classes do around the overridden methods is external *)
(* and modelled as this class relies on it: one _write at a time, _final   *)
(* after the last write was answered, _destroy once, the writable side     *)
(* ended when the readable one was (allowHalfOpen is false), and destroyed *)
(* when both are over.                                                     *)
(***************************************************************************)
EXTENDS Naturals, Sequences

CONSTANTS
    MaxWritten, \* bound: how many chunks the client writes
    MaxRead,    \* bound: how many chunks the peer sends
    Settings    \* the tuning calls a client makes, e.g. "noDelay", "timeout"

ASSUME BoundsAssumption == MaxWritten \in Nat /\ MaxRead \in Nat

VARIABLES
    \* the client
    written,      \* chunks written so far: the n-th chunk is the number n
    ended,        \* the client ended its side, or Node did for it
    asked,        \* the settings the client made
    \* Node's writable side
    handed,       \* chunks given to _write
    answered,     \* writes whose callback was called without an error
    failed,       \* writes whose callback was called with an error
    finished,     \* _final was called
    \* the class
    connecting,   \* the flag clients look at
    attached,     \* the real socket is known
    pending,      \* writes that wait for it
    endRequested,
    destroyed,
    recorded,     \* settings kept for later
    \* the factory and the real socket
    factory,      \* "busy" or "done"
    sock,         \* "none", "connecting", "open" or "closed"
    applied,      \* settings made on it
    sent,         \* what was written to it: chunks, and 0 for the end
    paused,
    received,     \* chunks the peer sent that were pushed to the client
    readEnded     \* the end of the readable side was pushed

client == <<written, ended, asked>>
node   == <<handed, answered, failed, finished>>
self   == <<connecting, attached, pending, endRequested, destroyed, recorded>>
real   == <<factory, sock, applied, sent, paused, received, readEnded>>
vars   == <<client, node, self, real>>

\* The tuning calls that the class remembers.
Remembered == Settings \cap {"noDelay", "keepAlive"}

TypeOK ==
    /\ written \in 0..MaxWritten /\ handed \in 0..written
    /\ answered \in Nat /\ failed \in Nat /\ answered + failed <= handed
    /\ {ended, finished, connecting, attached, endRequested, destroyed, paused, readEnded}
         \subseteq BOOLEAN
    /\ asked \subseteq Settings /\ recorded \subseteq Remembered /\ applied \subseteq Settings
    /\ pending \in Seq(1..MaxWritten) /\ Len(pending) <= 1
    /\ factory \in {"busy", "done"}
    /\ sock \in {"none", "connecting", "open", "closed"}
    /\ sent \in Seq(0..MaxWritten)
    /\ received \in 0..MaxRead

Init ==
    /\ written = 0 /\ ended = FALSE /\ asked = {}
    /\ handed = 0 /\ answered = 0 /\ failed = 0 /\ finished = FALSE
    /\ connecting = TRUE /\ attached = FALSE /\ pending = <<>>
    /\ endRequested = FALSE /\ destroyed = FALSE /\ recorded = {}
    /\ factory = "busy" /\ sock = "none" /\ applied = {} /\ sent = <<>>
    /\ paused = FALSE /\ received = 0 /\ readEnded = FALSE

-----------------------------------------------------------------------------
(* Being destroyed.                                                        *)

\* Faulty: the writes that wait for a socket are not answered.
DestroySilently ==
    /\ destroyed' = TRUE /\ connecting' = FALSE
    /\ pending' = <<>>
    /\ failed' = IF pending = <<>> THEN handed - answered ELSE failed
    /\ sock' = IF attached THEN "closed" ELSE sock
    /\ UNCHANGED <<attached, endRequested, recorded, answered>>

\* Faulty: writes that Node still keeps are answered by the class as well.
DestroyAnswersAll ==
    /\ destroyed' = TRUE /\ connecting' = FALSE
    /\ pending' = <<>>
    /\ failed' = written - answered
    /\ sock' = IF attached THEN "closed" ELSE sock
    /\ UNCHANGED <<attached, endRequested, recorded, answered>>

\* Everything waiting is answered with the error, by the class for what it
\* kept and by the real socket for what it was given, and the real socket, if
\* it is known, goes too.
Destroy ==
    /\ destroyed' = TRUE /\ connecting' = FALSE
    /\ pending' = <<>>
    /\ failed' = handed - answered
    /\ sock' = IF attached THEN "closed" ELSE sock
    /\ UNCHANGED <<attached, endRequested, recorded, answered>>

\* Node runs _destroy the first time only.
DestroyOnce == IF destroyed THEN UNCHANGED <<self, answered, failed, sock>> ELSE Destroy

-----------------------------------------------------------------------------
(* The client, and Node's writable side.                                   *)

ClientWrite ==
    /\ ~ended /\ ~destroyed /\ written < MaxWritten
    /\ written' = written + 1
    /\ UNCHANGED <<ended, asked, node, self, real>>

ClientEnd ==
    /\ ~ended /\ ~destroyed
    /\ ended' = TRUE
    /\ UNCHANGED <<written, asked, node, self, real>>

\* A tuning call: some are remembered, all reach a socket that is known.
ClientSets(o) ==
    /\ ~destroyed /\ o \notin asked
    /\ asked' = asked \cup {o}
    /\ recorded' = recorded \cup ({o} \cap Remembered)
    /\ applied' = IF attached THEN applied \cup {o} ELSE applied
    /\ UNCHANGED <<written, ended, node, connecting, attached, pending, endRequested,
                   destroyed, factory, sock, sent, paused, received, readEnded>>

ClientDestroy ==
    /\ ~destroyed
    /\ Destroy
    /\ UNCHANGED <<client, handed, finished, factory, applied, sent, paused, received, readEnded>>

Idle == handed = answered + failed

\* Node calls _write with the next chunk: it goes to the real socket if that
\* is connected, and waits otherwise.
Hand ==
    /\ Idle /\ handed < written /\ ~destroyed
    /\ handed' = handed + 1
    /\ IF attached /\ ~connecting
       THEN sent' = Append(sent, handed + 1) /\ UNCHANGED pending
       ELSE pending' = Append(pending, handed + 1) /\ UNCHANGED sent
    /\ UNCHANGED <<client, answered, failed, finished, connecting, attached, endRequested,
                   destroyed, recorded, factory, sock, applied, paused, received, readEnded>>

\* The real socket has written a chunk and calls its callback, without an
\* error, or with one if it closed meanwhile, which breaks the stream.
Answer ==
    /\ ~Idle /\ pending = <<>> /\ ~destroyed
    /\ \/ /\ sock = "open"
          /\ answered' = answered + 1
          /\ UNCHANGED <<self, failed, sock>>
       \/ sock = "closed" /\ Destroy
    /\ UNCHANGED <<client, handed, finished, factory, applied, sent, paused, received, readEnded>>

\* Faulty: the end overtakes the writes that wait.
FinalEarly ==
    /\ ended /\ ~finished /\ ~destroyed
    /\ finished' = TRUE
    /\ endRequested' = TRUE
    /\ sent' = IF attached /\ ~connecting THEN Append(sent, 0) ELSE sent
    /\ UNCHANGED <<client, handed, answered, failed, connecting, attached, pending, destroyed,
                   recorded, factory, sock, applied, paused, received, readEnded>>

\* Node calls _final once every write was answered.
Final ==
    /\ ended /\ handed = written /\ Idle /\ ~finished /\ ~destroyed
    /\ finished' = TRUE
    /\ endRequested' = TRUE
    /\ sent' = IF attached /\ ~connecting THEN Append(sent, 0) ELSE sent
    /\ UNCHANGED <<client, handed, answered, failed, connecting, attached, pending, destroyed,
                   recorded, factory, sock, applied, paused, received, readEnded>>

-----------------------------------------------------------------------------
(* The factory and the real socket.                                        *)

\* The real socket is connected: it gets what waited, then the end if it was
\* asked for.
Ready ==
    /\ connecting' = FALSE
    /\ pending' = <<>>
    /\ sent' = sent \o pending \o (IF endRequested THEN <<0>> ELSE <<>>)

\* The factory gives up, and the stream is destroyed with its error.
FactoryFails ==
    /\ factory = "busy"
    /\ factory' = "done"
    /\ DestroyOnce
    /\ UNCHANGED <<client, handed, finished, applied, sent, paused, received, readEnded>>

\* Faulty: nobody looks whether the stream is still wanted.
FactoryResolvesLate(state) ==
    /\ factory = "busy"
    /\ factory' = "done"
    /\ attached' = TRUE /\ sock' = state /\ applied' = recorded
    /\ IF state = "open" THEN Ready ELSE UNCHANGED <<connecting, pending, sent>>
    /\ UNCHANGED <<client, node, endRequested, destroyed, recorded, paused, received, readEnded>>

\* The factory returns a socket, most often one that is still connecting.  A
\* stream that was destroyed meanwhile has no use for it.
FactoryResolves(state) ==
    /\ factory = "busy"
    /\ factory' = "done"
    /\ IF destroyed
       THEN sock' = "closed" /\ UNCHANGED <<attached, applied, connecting, pending, sent>>
       ELSE /\ attached' = TRUE /\ sock' = state /\ applied' = recorded
            /\ IF state = "open" THEN Ready ELSE UNCHANGED <<connecting, pending, sent>>
    /\ UNCHANGED <<client, node, endRequested, destroyed, recorded, paused, received, readEnded>>

Connects ==
    /\ sock = "connecting"
    /\ sock' = "open"
    /\ Ready
    /\ UNCHANGED <<client, node, attached, endRequested, destroyed, recorded, factory, applied,
                   paused, received, readEnded>>

\* An error of the real socket, connected or not, breaks the stream.
SockError ==
    /\ sock \in {"connecting", "open"} /\ ~destroyed
    /\ Destroy
    /\ UNCHANGED <<client, handed, finished, factory, applied, sent, paused, received, readEnded>>

\* The connected socket closes with no error: the client is told the end.
SockClose ==
    /\ sock = "open"
    /\ sock' = "closed"
    /\ readEnded' = TRUE
    /\ UNCHANGED <<client, node, self, factory, applied, sent, paused, received>>

\* The peer sends a chunk; a client that reads too slowly pauses the socket,
Data ==
    /\ sock = "open" /\ ~paused /\ ~readEnded /\ received < MaxRead
    /\ received' = received + 1
    /\ paused' \in BOOLEAN
    /\ UNCHANGED <<client, node, self, factory, sock, applied, sent, readEnded>>

\* ... and lets it go on when it reads.
Read ==
    /\ paused
    /\ paused' = FALSE
    /\ UNCHANGED <<client, node, self, factory, sock, applied, sent, received, readEnded>>

PeerEnd ==
    /\ sock = "open" /\ ~paused /\ ~readEnded
    /\ readEnded' = TRUE
    /\ UNCHANGED <<client, node, self, factory, sock, applied, sent, paused, received>>

\* Node ends the writable side after the readable one, and destroys the stream
\* when both are over.
AutoEnd ==
    /\ readEnded /\ ~ended /\ ~destroyed
    /\ ended' = TRUE
    /\ UNCHANGED <<written, asked, node, self, real>>

AutoDestroy ==
    /\ readEnded /\ finished /\ ~destroyed
    /\ Destroy
    /\ UNCHANGED <<client, handed, finished, factory, applied, sent, paused, received, readEnded>>

-----------------------------------------------------------------------------

Next ==
    \/ ClientWrite \/ ClientEnd \/ ClientDestroy
    \/ \E o \in Settings : ClientSets(o)
    \/ Hand \/ Answer \/ Final \/ AutoEnd \/ AutoDestroy
    \/ FactoryFails
    \/ \E state \in {"connecting", "open"} : FactoryResolves(state)
    \/ Connects \/ SockError \/ SockClose
    \/ Data \/ Read \/ PeerEnd

\* The factory settles (its wait has a budget), a socket that connects either
\* does or fails, a connected one writes, and Node does its part; the client
\* reads what it gets.
Fairness ==
    /\ WF_vars(FactoryFails \/ \E state \in {"connecting", "open"} : FactoryResolves(state))
    /\ WF_vars(Connects \/ (sock = "connecting" /\ SockError))
    /\ WF_vars(Hand) /\ WF_vars(Answer) /\ WF_vars(Final)
    /\ WF_vars(AutoEnd) /\ WF_vars(AutoDestroy) /\ WF_vars(Read)

Spec == Init /\ [][Next]_vars /\ Fairness

-----------------------------------------------------------------------------
(* Properties.                                                             *)

\* The stream is an ordered pipe to the real socket: what was written before
\* there was one comes first, in order and once, and the end comes last.
Pipe == INSTANCE OrderedPipe WITH out <- sent, broken <- destroyed
ImplementsPipe == Pipe!Spec

\* A destroyed stream leaves no socket behind, also when the socket arrives
\* after the stream was destroyed.
NothingLeftOpen == destroyed => sock \in {"none", "closed"}

\* Every write is answered, with an error if it must be: a client that waits
\* for a callback is not left waiting by a destination that never came.
WritesAnswered == ~Idle ~> Idle

=============================================================================
