------------------------- MODULE ProtocolMultiplexer -------------------------
(***************************************************************************)
(* One connection to the plaintext port, where HTTP/1.1 and HTTP/2 are told *)
(* apart by the first bytes (packages/core/src/net/protocol-multiplexer.ts). *)
(* What was read to tell is put back, in front of what is still to come,    *)
(* before the server that was chosen gets the socket.                       *)
(*                                                                          *)
(* Bytes are counted: the client's n-th byte is the number n.  An HTTP/2    *)
(* client's first Preface bytes are the preface; another client's agree     *)
(* with it up to some byte before the last.                                 *)
(***************************************************************************)
EXTENDS Naturals, Sequences, SequencesExt

CONSTANTS
  Preface, \* HTTP2_PREFACE.length: 24 in the code
  MaxBytes \* bound: bytes the client writes

ASSUME MuxAssumption == Preface \in Nat \ {0} /\ MaxBytes \in Nat

VARIABLES
  \* the client
  speaks,   \* "h2" or "h1"
  agrees,   \* leading bytes that look like the preface
  wrote,    \* bytes written so far
  closedBy, \* "nobody", "client" (its side ended) or "network" (an error)
  dead,     \* whether the socket was destroyed
  \* the socket, between the kernel and the readers
  readable, \* bytes put back, and not given yet
  flowing,  \* whether it gives its reader what there is
  taken,    \* bytes that left the kernel
  \* the multiplexer
  sniffed,  \* buffered: bytes it read
  timer,    \* whether its timer runs; there is none for a connection over TLS
  server,   \* "none", "http1", "http2", or "nobody" after an error
  resuming, \* whether the resume of the next tick is due
  \* the inner server
  parsed    \* what its parser was given: bytes, and 0 for the end

muxVars == <<speaks, agrees, wrote, closedBy, dead, readable, flowing, taken,
             sniffed, timer, server, resuming, parsed>>
speaker == <<speaks, agrees>>
peer == <<speaker, wrote, closedBy>>
stream == <<readable, flowing, taken>>

UpTo(m, n) == [k \in 1..(IF n < m THEN 0 ELSE n - m + 1) |-> m + k - 1]

MuxInit ==
  /\ speaks \in {"h2", "h1"}
  /\ agrees \in IF speaks = "h2" THEN {Preface} ELSE 0..(Preface - 1)
  /\ wrote = 0 /\ closedBy = "nobody" /\ dead = FALSE
  /\ readable = <<>> /\ flowing = TRUE /\ taken = 0
  /\ sniffed = <<>> /\ timer \in BOOLEAN /\ server = "none" /\ resuming = FALSE
  /\ parsed = <<>>

\* Faulty: what was read is lost to the chosen server.
HandForgetting(target) ==
  /\ server' = target /\ timer' = FALSE
  /\ flowing' = FALSE /\ resuming' = TRUE
  /\ UNCHANGED readable

\* hand: no reader any more, the bytes that were read back in the paused socket
\* unless it is destroyed, the server its owner, the resume left to the next
\* tick.
HandTo(target) ==
  /\ server' = target /\ timer' = FALSE
  /\ flowing' = FALSE /\ resuming' = TRUE
  /\ readable' = IF dead THEN <<>> ELSE sniffed'

LooksLikePreface(bytes) == Len(bytes) <= agrees \/ (speaks = "h2" /\ Len(bytes) > Preface)

\* A chunk of any size arrives while the multiplexer listens.
Sniff ==
  /\ server = "none" /\ timer /\ ~dead
  /\ \E n \in (taken + 1)..wrote : taken' = n /\ sniffed' = sniffed \o UpTo(taken + 1, n)
  /\ \/ ~LooksLikePreface(sniffed') /\ HandTo("http1")
     \/ LooksLikePreface(sniffed') /\ Len(sniffed') >= Preface /\ HandTo("http2")
     \/ /\ LooksLikePreface(sniffed') /\ Len(sniffed') < Preface
        /\ UNCHANGED <<readable, flowing, timer, server, resuming>>
  /\ UNCHANGED <<peer, dead, parsed>>

\* The sniffing took its time.  The socket may be destroyed by then: nothing
\* looks at its end or its close, so the timer still hands it on.
SniffTimeout ==
  /\ timer
  /\ UNCHANGED sniffed
  /\ HandTo("http1")
  /\ UNCHANGED <<peer, dead, taken, parsed>>

\* The client ends while it is sniffed: the socket, which is not to stay half
\* open, is destroyed.
EndWhileSniffed ==
  /\ server = "none" /\ timer /\ ~dead
  /\ closedBy = "client" /\ taken = wrote
  /\ dead' = TRUE
  /\ UNCHANGED <<peer, stream, sniffed, timer, server, resuming, parsed>>

\* onError, while it listens; afterwards an error is the server's to handle.
SocketError ==
  /\ closedBy = "network" /\ ~dead
  /\ dead' = TRUE
  /\ server' = IF server = "none" THEN "nobody" ELSE server
  /\ timer' = FALSE
  /\ UNCHANGED <<peer, stream, sniffed, resuming, parsed>>

\* The tick after the hand-over: the parser is attached.
Resume ==
  /\ resuming
  /\ resuming' = FALSE /\ flowing' = TRUE
  /\ UNCHANGED <<peer, dead, readable, taken, sniffed, timer, server, parsed>>

EndParsed == parsed # <<>> /\ Last(parsed) = 0

\* The socket gives the parser what was put back, then what arrives.
Flow ==
  /\ server \in {"http1", "http2"} /\ flowing /\ ~dead /\ ~EndParsed
  /\ \/ /\ readable # <<>>
        /\ parsed' = Append(parsed, Head(readable))
        /\ readable' = Tail(readable)
        /\ UNCHANGED taken
     \/ /\ readable = <<>> /\ taken < wrote
        /\ taken' = taken + 1
        /\ parsed' = Append(parsed, taken')
        /\ UNCHANGED readable
     \/ /\ readable = <<>> /\ taken = wrote /\ closedBy = "client"
        /\ parsed' = Append(parsed, 0)
        /\ UNCHANGED <<readable, taken>>
  /\ UNCHANGED <<peer, dead, flowing, sniffed, timer, server, resuming>>

\* A connection over TLS is handed by the protocol its handshake agreed on;
\* nothing of it was read.  A client that offered none is taken for HTTP/1.1.
HandByAlpn ==
  /\ server = "none" /\ ~timer
  /\ server' \in {"http1"} \cup (IF speaks = "h2" THEN {"http2"} ELSE {})
  /\ UNCHANGED <<peer, dead, stream, sniffed, timer, resuming, parsed>>

ClientWrites ==
  /\ closedBy = "nobody" /\ wrote < MaxBytes
  /\ wrote' = wrote + 1
  /\ UNCHANGED <<speaker, closedBy, dead, stream, sniffed, timer, server, resuming, parsed>>

ClientCloses ==
  /\ closedBy = "nobody"
  /\ closedBy' \in {"client", "network"}
  /\ UNCHANGED <<speaker, wrote, dead, stream, sniffed, timer, server, resuming, parsed>>

MuxNext ==
  \/ ClientWrites \/ ClientCloses
  \/ Sniff \/ SniffTimeout \/ EndWhileSniffed \/ SocketError \/ Resume \/ Flow \/ HandByAlpn

MuxFairness == WF_muxVars(SniffTimeout) /\ WF_muxVars(Resume) /\ WF_muxVars(Flow) /\ WF_muxVars(HandByAlpn)

MuxSpec == MuxInit /\ [][MuxNext]_muxVars /\ MuxFairness

-----------------------------------------------------------------------------
Connection == INSTANCE OrderedPipe WITH
  MaxWritten <- MaxBytes, written <- wrote, ended <- closedBy # "nobody",
  out <- parsed, broken <- dead

\* The server that is chosen gets every byte of the client once and in order,
\* however the first ones were cut.
HandedInOrder == Connection!Spec

\* It gets no byte of the other protocol, unless the client was slower than the
\* sniffing.
RightServer ==
  /\ server = "http2" => speaks = "h2"
  /\ server = "http1" /\ speaks = "h2" => Len(sniffed) < Preface

\* Both; and what a client wrote does not wait for ever.
HandedWhole ==
  /\ HandedInOrder
  /\ []RightServer
  /\ (wrote > 0) ~> (dead \/ closedBy = "network" \/ Len(parsed) >= wrote)
=============================================================================
