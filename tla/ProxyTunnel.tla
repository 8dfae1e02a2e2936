---------------------------- MODULE ProxyTunnel ----------------------------
(***************************************************************************)
(* One attempt of a provider call, from the choice of its proxy to the head *)
(* of the response: packages/providers/src/transport/proxy.ts, and once and *)
(* openTunnel of http.ts.  What follows the head is in ProviderStream, the  *)
(* attempts one after the other are in AgentTurn.                           *)
(*                                                                          *)
(* A host is the sequence of its labels.  The proxy's answer to CONNECT is  *)
(* the sequence of its lines, which arrive in any pieces; of a line it      *)
(* matters whether it holds " 2xx ".  The first is the status line.         *)
(***************************************************************************)
EXTENDS Naturals, Sequences, SequencesExt

CONSTANTS
  Targets,       \* [host, secure, explicit]: the target and the configured proxy
  Environments,  \* [proxies, except]: variable |-> proxy, and the entries of NO_PROXY
  Direct,        \* no proxy
  Replies        \* what a proxy sends, to the blank line or short of it

\* A line with " 2xx ", one with another number, one with none, and the empty one.
ReplyLines == {"2xx", "other", "plain", "blank"}

ASSUME TunnelAssumption == Replies \subseteq Seq(ReplyLines)

VARIABLES
  asked,        \* the call
  env,          \* process.env, as far as proxies go
  connectReply, \* all the proxy sends before it closes or falls silent
  apiSpeaks,    \* the request is answered in the end, or its connection fails
  leg,          \* "new", "connecting", "connect", "issued" or "settled"
  banner,       \* how many lines of it arrived
  via,          \* the proxy of the attempt
  written,      \* the request was written
  aborted,      \* "no", "early" (nobody listened) or "heard"
  outcome       \* "none", "response", "failed" (to be retried), "refused", "aborted"

tunnelVars == <<asked, env, connectReply, apiSpeaks, leg, banner, via, written, aborted, outcome>>
world == <<asked, env, connectReply, apiSpeaks>>

-----------------------------------------------------------------------------
(* The proxy of a call.                                                     *)

\* localhost and what is below it, two addresses, and whatever starts as an
\* address of the loopback network does.
IsLoopback(host) ==
  \/ Last(host) = "localhost"
  \/ host \in {<<"::1">>, <<"0", "0", "0", "0">>}
  \/ Head(host) = "127" /\ Len(host) > 1

\* An entry of NO_PROXY, without its leading "." or "*.", is a host or a domain;
\* an empty one is none.
IsExempt(host, entries) ==
  \E k \in 1..Len(entries) :
    entries[k] # <<>> /\ (entries[k] = <<"*">> \/ IsSuffix(entries[k], host))

Candidates(secure) ==
  (IF secure THEN <<"HTTPS_PROXY", "https_proxy">> ELSE <<"HTTP_PROXY", "http_proxy">>)
    \o <<"ALL_PROXY", "all_proxy">>

\* A variable that is blank is passed over as one that is not set.
ResolveProxy(call, e) ==
  LET named == SelectSeq(Candidates(call.secure), LAMBDA v : v \in DOMAIN e.proxies)
  IN IF call.explicit # Direct THEN call.explicit
     ELSE IF IsLoopback(call.host) \/ IsExempt(call.host, e.except) \/ named = <<>> THEN Direct
     ELSE e.proxies[Head(named)]

-----------------------------------------------------------------------------
(* The attempt.                                                             *)

TunnelInit ==
  /\ asked \in Targets /\ env \in Environments /\ connectReply \in Replies /\ apiSpeaks \in BOOLEAN
  /\ leg = "new" /\ banner = 0 /\ via = Direct /\ written = FALSE
  /\ aborted = "no" /\ outcome = "none"

Settle(how) == leg' = "settled" /\ outcome' = how

\* Without a proxy, and in the clear, where the proxy is the next hop, the request
\* is issued at once; otherwise the proxy is connected to first.
Once ==
  /\ leg = "new"
  /\ via' = ResolveProxy(asked, env)
  /\ written' = (via' = Direct \/ ~asked.secure)
  /\ leg' = IF written' THEN "issued" ELSE "connecting"
  /\ UNCHANGED <<world, banner, aborted, outcome>>

Connected ==
  /\ leg = "connecting"
  /\ leg' = "connect"
  /\ UNCHANGED <<world, banner, via, written, aborted, outcome>>

\* socket.once('error'): an Error that is no ProviderError is one to retry after.
ProxyFails ==
  /\ leg \in {"connecting", "connect"}
  /\ Settle("failed")
  /\ UNCHANGED <<world, banner, via, written, aborted>>

\* Faulty: any line of the banner that holds " 2xx " is agreement.
AgreedAnywhere(lines) == \E k \in 1..Len(lines) : lines[k] = "2xx"

Agreed(lines) == lines[1] = "2xx"

\* The socket's data: up to the blank line it is gathered, then the status line
\* decides.  An end of the connection is no data, and nobody listens for it.
BannerArrives ==
  /\ leg = "connect" /\ banner < Len(connectReply)
  /\ banner' \in (banner + 1)..Len(connectReply)
  /\ LET lines == SubSeq(connectReply, 1, banner')
     IN IF ~Contains(lines, "blank") THEN UNCHANGED <<leg, written, outcome>>
        ELSE IF Agreed(lines)
        THEN leg' = "issued" /\ written' = TRUE /\ UNCHANGED outcome
        ELSE Settle("refused") /\ UNCHANGED written
  /\ UNCHANGED <<world, via, aborted>>

Responds ==
  /\ leg = "issued" /\ apiSpeaks
  /\ Settle("response")
  /\ UNCHANGED <<world, banner, via, written, aborted>>

\* The connection Node makes itself is timed; one it was handed, through a proxy,
\* is not: the request's "timeout" is never emitted there.
Timed == via = Direct

\* The request's "error" and "timeout".
RequestFails ==
  /\ leg = "issued" /\ (apiSpeaks \/ Timed)
  /\ Settle("failed")
  /\ UNCHANGED <<world, banner, via, written, aborted>>

\* The signal has a listener only while a request is issued.
Abort ==
  /\ aborted = "no" /\ leg # "settled"
  /\ IF leg = "issued" THEN aborted' = "heard" /\ Settle("aborted")
     ELSE aborted' = "early" /\ UNCHANGED <<leg, outcome>>
  /\ UNCHANGED <<world, banner, via, written>>

\* What nothing keeps from happening: the program's own step; the end of an attempt
\* to connect, with or without success; the arrival of what the proxy sends; and the
\* end of an issued request that is answered, breaks, or has a timeout.
Moves == Once \/ Connected \/ BannerArrives \/ Responds \/ RequestFails

TunnelNext == Moves \/ ProxyFails \/ Abort

TunnelSpec == TunnelInit /\ [][TunnelNext]_tunnelVars /\ WF_tunnelVars(Moves)

-----------------------------------------------------------------------------
(* Properties.                                                              *)

ReplyEnds == Contains(connectReply, "blank")

\* A request is written where the configuration and the environment say: through
\* the configured proxy if there is one, else to a local server directly whatever
\* the environment names; a secure one never into a tunnel the proxy did not agree
\* to in its status line, so that no proxy reads it.
GoesWhereItShould ==
  written =>
    /\ asked.explicit # Direct => via = asked.explicit
    /\ asked.explicit = Direct /\ IsLoopback(asked.host) => via = Direct
    /\ asked.secure /\ via # Direct =>
         banner > 0 /\ connectReply[1] = "2xx" /\ Contains(SubSeq(connectReply, 1, banner), "blank")

\* An attempt that was heard to be aborted has no response, and nothing is written once
\* it is settled.
AbortHolds ==
  /\ aborted = "heard" => outcome = "aborted"
  /\ outcome = "refused" => ~written

\* Nobody ends these waits: the proxy took the connection and never ended the answer
\* to CONNECT, and not even an abort is heard (http.ts:161 listens for data and errors,
\* no end, no timeout); or what is behind the proxy took the request and is silent
\* (http.ts:104-108), until an abort.
HeldByProxy ==
  \/ leg = "connect" /\ ~ReplyEnds
  \/ leg = "issued" /\ ~Timed /\ ~apiSpeaks

\* Both, and every attempt comes to an end but for the waits that nobody ends; one that
\* goes to its target directly meets none of them.
TunnelSettles ==
  /\ [](GoesWhereItShould /\ AbortHolds)
  /\ (leg # "new") ~> (leg = "settled" \/ HeldByProxy)
=============================================================================
