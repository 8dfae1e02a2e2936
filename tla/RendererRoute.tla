----------------------------- MODULE RendererRoute -----------------------------
(***************************************************************************)
(* How the calls of a window's page find their way                          *)
(* (packages/interceptor/src/renderer): fetch and WebSocket are wrapped, a  *)
(* call that a rule claims goes to the local server while a probe of it, at *)
(* most five seconds old, found it well, and to the official API otherwise  *)
(* or when the redirect fails.                                              *)
(***************************************************************************)
EXTENDS Naturals

CONSTANTS PageCalls \* calls a page makes at a time

\* A fetch of an address and options, of options whose body can be read once,
\* of a Request object; or a new WebSocket.
CallKinds == {"address", "onceOnly", "request", "websocket"}

VARIABLES
  serverUp,  \* whether the local server runs
  claimed,   \* whether the router, which the configuration replaces, claims calls
  verdict,   \* checkedAt and healthy: "none", "fresh" or "old", and what was found
  probing,   \* inFlight: "no", "asked", or the answer that is on its way
  calls      \* [call -> [at, kind]]: where it is, and after a failure what failed

pageVars == <<serverUp, claimed, verdict, probing, calls>>

PageInit ==
  /\ serverUp \in BOOLEAN /\ claimed \in BOOLEAN
  /\ verdict = [age |-> "none", healthy |-> FALSE]
  /\ probing = "asked"
  /\ calls = [c \in PageCalls |-> [at |-> "idle", kind |-> "address"]]

Goes(c, where) == calls' = [calls EXCEPT ![c].at = where]

\* Faulty: a verdict has no age.
KnownForEver == verdict.age # "none"

Known == verdict.age = "fresh"
ByVerdict(healthy) == IF healthy THEN "local" ELSE "native"

\* check, for one who does not know: concurrent callers share one probe.
Probe == probing' = IF probing = "no" THEN "asked" ELSE probing

\* Only the address is read before the decision, and the decision is not taken
\* again after the wait for the probe.
Fetch(c, kind) ==
  /\ calls[c].at = "idle" /\ kind # "websocket"
  /\ \E where \in {"native", "local", "waiting"} :
       /\ \/ ~claimed /\ where = "native" /\ UNCHANGED probing
          \/ claimed /\ Known /\ where = ByVerdict(verdict.healthy) /\ UNCHANGED probing
          \/ claimed /\ ~Known /\ where = "waiting" /\ Probe
       /\ calls' = [calls EXCEPT ![c] = [at |-> where, kind |-> kind]]
  /\ UNCHANGED <<serverUp, claimed, verdict>>

\* The constructor cannot wait: without a good verdict the socket is native,
\* and a probe is begun for the next one.
Connect(c) ==
  /\ calls[c].at = "idle"
  /\ \E where \in {"native", "local"} :
       /\ \/ ~claimed /\ where = "native" /\ UNCHANGED probing
          \/ claimed /\ Known /\ where = ByVerdict(verdict.healthy) /\ UNCHANGED probing
          \/ claimed /\ ~Known /\ where = "native" /\ Probe
       /\ calls' = [calls EXCEPT ![c] = [at |-> where, kind |-> "websocket"]]
  /\ UNCHANGED <<serverUp, claimed, verdict>>

\* The probe has 800 ms: a server that runs may still be too slow for it.
ProbeAnswered ==
  /\ probing = "asked"
  /\ probing' \in IF serverUp THEN {"well", "ill"} ELSE {"ill"}
  /\ UNCHANGED <<serverUp, claimed, verdict, calls>>

\* The verdict is taken down and those who wait for it go on, even when a
\* redirect that failed in the meantime had withdrawn the one before.
ProbeSettles ==
  /\ probing \in {"well", "ill"}
  /\ probing' = "no"
  /\ verdict' = [age |-> "fresh", healthy |-> probing = "well"]
  /\ calls' = [c \in PageCalls |->
                 IF calls[c].at = "waiting" THEN [calls[c] EXCEPT !.at = ByVerdict(probing = "well")] ELSE calls[c]]
  /\ UNCHANGED <<serverUp, claimed>>

Expire ==
  /\ Known
  /\ verdict' = [verdict EXCEPT !.age = "old"]
  /\ UNCHANGED <<serverUp, claimed, probing, calls>>

\* A redirect that fails withdraws the verdict and the call is made again as
\* the page made it, which a body that was read once does not survive.  What
\* becomes of a WebSocket is the page's affair.
RedirectFails(c) ==
  /\ calls[c].at = "local"
  /\ \/ /\ calls[c].kind = "websocket"
        /\ Goes(c, "localFailed")
        /\ UNCHANGED verdict
     \/ /\ calls[c].kind # "websocket"
        /\ Goes(c, IF calls[c].kind = "onceOnly" THEN "localFailed" ELSE "native")
        /\ verdict' = [verdict EXCEPT !.age = "none"]
  /\ UNCHANGED <<serverUp, claimed, probing>>

\* Nobody listens on the port of a server that is gone.
Refused(c) == ~serverUp /\ RedirectFails(c)

LocalAnswers(c) ==
  /\ serverUp /\ calls[c].at = "local"
  /\ Goes(c, "idle")
  /\ UNCHANGED <<serverUp, claimed, verdict, probing>>

NativeEnds(c) ==
  /\ calls[c].at = "native"
  /\ Goes(c, "idle") \/ Goes(c, "nativeFailed")
  /\ UNCHANGED <<serverUp, claimed, verdict, probing>>

\* The page has seen the failure.
Noticed(c) ==
  /\ calls[c].at \in {"localFailed", "nativeFailed"}
  /\ Goes(c, "idle")
  /\ UNCHANGED <<serverUp, claimed, verdict, probing>>

ServerFlips ==
  /\ serverUp' = ~serverUp
  /\ UNCHANGED <<claimed, verdict, probing, calls>>

Configured ==
  /\ claimed' = ~claimed
  /\ UNCHANGED <<serverUp, verdict, probing, calls>>

PageNext ==
  \/ ProbeAnswered \/ ProbeSettles \/ Expire
  \/ ServerFlips \/ Configured
  \/ \E c \in PageCalls :
       \/ \E kind \in CallKinds : Fetch(c, kind)
       \/ Connect(c) \/ RedirectFails(c) \/ LocalAnswers(c) \/ NativeEnds(c) \/ Noticed(c)

\* Timers, refused connections and settled promises; no peer has to answer.
PageFairness ==
  /\ WF_pageVars(ProbeAnswered) /\ WF_pageVars(ProbeSettles) /\ WF_pageVars(Expire)
  /\ \A c \in PageCalls : WF_pageVars(Refused(c))

PageSpec == PageInit /\ [][PageNext]_pageVars /\ PageFairness

-----------------------------------------------------------------------------
\* "A redirect that fails must not become a failed prompt" (layers.ts:81): a
\* fetch whose body can be sent twice only fails with the official API.
FailsWithTheApi ==
  \A c \in PageCalls : calls[c].at = "localFailed" => calls[c].kind \in {"onceOnly", "websocket"}

\* Nor does a fetch wait for ever on the probe it shares; and a page whose
\* server is gone for good is left with no call on its way to it, WebSockets,
\* whose failures withdraw no verdict, included.
GivesWay ==
  /\ []FailsWithTheApi
  /\ \A c \in PageCalls : calls[c].at = "waiting" ~> calls[c].at # "waiting"
  /\ <>[]~serverUp => <>[](\A c \in PageCalls : calls[c].at # "local")
=============================================================================
