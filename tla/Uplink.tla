-------------------------------- MODULE Uplink --------------------------------
(***************************************************************************)
(* How an intercepted request finds the local server: UplinkResolver        *)
(* (packages/interceptor/src/runtime/uplink.ts), RuntimeContext.awaitUplink *)
(* and the configuration listener (context.ts), and the two ways the layers *)
(* use them: http1, http2 and fetch take the endpoint they are given when   *)
(* they are given it ("stream"); the socket layer fixes its port before it  *)
(* waits ("socket").                                                       *)
(*                                                                         *)
(* Time is discrete.  It passes only when no timer is due, so a step takes  *)
(* no time of its own: what the bounds below add up is time spent waiting.  *)
(* An endpoint is a port; a server of ours is up there or not.              *)
(***************************************************************************)
EXTENDS Naturals, Sequences

CONSTANTS
  Requests,    \* intercepted requests
  LayerOf,     \* the layer each comes through
  Endpoints,   \* ports
  Configs,     \* configuration documents
  Local,       \* config.server, per configuration
  Tunnel,      \* config.uplink.tunnel, per configuration
  Mode,        \* config.uplink.mode, per configuration
  Holding,     \* configurations whose readiness.strategy holds requests; the
               \* others have "passthrough"
  Ttl,         \* uplink.probeTtlSeconds
  ProbeTime,   \* uplink.probeTimeoutMs
  Budget,      \* readiness.maxWaitMs
  Delay,       \* readiness.retryDelayMs
  MaxTime,     \* bound: the time at which the clock stops
  MaxChanges,  \* bound: changes of a server or of the configuration
  None         \* no target

ASSUME UplinkAssumption ==
  /\ LayerOf \in [Requests -> {"stream", "socket"}]
  /\ Local \in [Configs -> Endpoints] /\ Tunnel \in [Configs -> Endpoints]
  /\ Mode \in [Configs -> {"local", "tunnel", "auto"}]
  /\ Holding \subseteq Configs
  /\ Ttl \in Nat /\ ProbeTime \in Nat /\ Budget \in Nat /\ Delay \in Nat
  /\ MaxTime \in Nat \ {0}
  /\ MaxChanges \in Nat
  /\ None \notin Endpoints \cup {"upstream", "failed", "unknown"}
  /\ \A e \in Endpoints : e \notin {"upstream", "failed", "unknown"}

VARIABLES
  now,        \* the clock; it starts at 1, since 0 stands for "never"
  cfg,        \* the configuration in force
  up,         \* ports where our server answers
  cache,      \* [target, at] of the last probe; at = 0 when there is none
  probe,      \* the probe in flight: candidates left and when the first of
              \* them was asked; <<>> left when there is none
  exhausted,  \* exhaustedAt
  where,      \* [request -> "new", "wait" (on the probe), "sleep", "done"]
  deadline,   \* [request -> end of its budget; 0 when it has none]
  wake,       \* [request -> end of its sleep]
  port,       \* [request -> the port a socket-layer request has committed to]
  result,     \* [request -> where it went: a port, "upstream", or "failed"]
  since,      \* [request -> when it came]             (for the properties only)
  ended,      \* [request -> when it was decided]      (for the properties only)
  flipped,    \* [port -> when its server last came or went]     (likewise)
  cfgSince,   \* when the configuration last changed             (likewise)
  changes     \* counts the changes

resolver == <<cache, probe, exhausted>>
requests == <<where, deadline, wake, port, result, since, ended>>
world == <<now, cfg, up, flipped, cfgSince, changes>>
vars == <<resolver, requests, world>>

Targets == Endpoints \cup {None}

TypeOK ==
  /\ now \in 1..MaxTime /\ cfg \in Configs /\ up \subseteq Endpoints
  /\ cache \in [target : Targets, at : 0..now]
  /\ probe.at \in 0..now /\ probe.left \in Seq(Endpoints)
  /\ exhausted \in 0..now
  /\ where \in [Requests -> {"new", "wait", "sleep", "done"}]
  /\ deadline \in [Requests -> 0..now + Budget]
  /\ wake \in [Requests -> 0..now + Delay]
  /\ port \in [Requests -> Targets]
  /\ result \in [Requests -> Targets \cup {"upstream", "failed"}]
  /\ since \in [Requests -> 0..now] /\ ended \in [Requests -> 0..now]
  /\ flipped \in [Endpoints -> 0..now] /\ cfgSince \in 0..now
  /\ changes \in 0..MaxChanges
  /\ (\E r \in Requests : where[r] = "wait") => probe.left # <<>>

Init ==
  /\ now = 1 /\ cfg \in Configs /\ up \in SUBSET Endpoints
  /\ cache = [target |-> None, at |-> 0]
  /\ probe = [left |-> <<>>, at |-> 0]
  /\ exhausted = 0
  /\ where = [r \in Requests |-> "new"]
  /\ deadline = [r \in Requests |-> 0] /\ wake = [r \in Requests |-> 0]
  /\ port = [r \in Requests |-> None] /\ result = [r \in Requests |-> None]
  /\ since = [r \in Requests |-> 0] /\ ended = [r \in Requests |-> 0]
  /\ flipped = [e \in Endpoints |-> 0] /\ cfgSince = 0
  /\ changes = 0

-----------------------------------------------------------------------------
(* The resolver.                                                           *)

\* candidates()
Candidates(c) ==
  CASE Mode[c] = "local"  -> <<Local[c]>>
    [] Mode[c] = "tunnel" -> <<Tunnel[c]>>
    [] Mode[c] = "auto"   -> IF Local[c] = Tunnel[c] THEN <<Local[c]>> ELSE <<Local[c], Tunnel[c]>>

\* cached()
Cached == IF cache.at = 0 \/ now - cache.at > Ttl THEN "unknown" ELSE cache.target

\* Faulty: once a wait has failed, no later one is made.
WrittenOffForever == exhausted # 0

\* The server is written off: a wait failed less than a TTL ago.
WrittenOff == exhausted # 0 /\ now - exhausted < Ttl

\* refresh(): callers share the probe in flight.
Refresh ==
  probe' = IF probe.left # <<>> THEN probe ELSE [left |-> Candidates(cfg), at |-> now]

\* Faulty: the sleep is not counted, so that a wait ends one retry later.
BudgetSpentLate(r) == now > deadline[r]

\* The next retry would be past the deadline of the request.
BudgetSpent(r) == now + Delay > deadline[r]

\* Where a request goes that was given target t after waiting.
Outcome(r, t) ==
  IF LayerOf[r] = "stream"
  THEN IF t = None THEN "upstream" ELSE t
  ELSE IF t = None THEN "failed" ELSE port[r]

\* The requests in S are decided.
Decide(S, t) ==
  /\ result' = [r \in Requests |-> IF r \in S THEN Outcome(r, t) ELSE result[r]]
  /\ ended' = [r \in Requests |-> IF r \in S THEN now ELSE ended[r]]

\* Faulty: a probe that fails leaves its requests waiting for the next one.
ProbeEndsSilently(t) ==
  /\ t # None
  /\ cache' = [target |-> t, at |-> now]
  /\ probe' = [left |-> <<>>, at |-> 0]
  /\ UNCHANGED <<exhausted, requests, world>>

\* Faulty: the time a wait failed is not kept.
ProbeEndsForgetful(t) ==
  LET waiting == {r \in Requests : where[r] = "wait"}
      spent == IF t # None THEN waiting ELSE {r \in waiting : BudgetSpent(r)}
  IN
  /\ cache' = [target |-> t, at |-> now]
  /\ probe' = [left |-> <<>>, at |-> 0]
  /\ Decide(spent, t)
  /\ where' = [r \in Requests |-> IF r \in spent THEN "done"
                                  ELSE IF r \in waiting THEN "sleep" ELSE where[r]]
  /\ wake' = [r \in Requests |-> IF r \in waiting \ spent THEN now + Delay ELSE wake[r]]
  /\ UNCHANGED <<exhausted, deadline, port, since, world>>

\* The probe is over: the answer is cached, and every request that waits for it
\* goes on, in the same tick.  Requests without a budget have no part in
\* writing the server off.
ProbeEnds(t) ==
  LET waiting == {r \in Requests : where[r] = "wait"}
      patient == {r \in waiting : deadline[r] # 0}
      spent == IF t # None THEN waiting ELSE {r \in waiting : BudgetSpent(r)}
  IN
  /\ cache' = [target |-> t, at |-> now]
  /\ probe' = [left |-> <<>>, at |-> 0]
  /\ exhausted' = IF patient = {} THEN exhausted
                  ELSE IF t # None THEN 0
                  ELSE IF patient \cap spent # {} THEN now ELSE exhausted
  /\ Decide(spent, t)
  /\ where' = [r \in Requests |-> IF r \in spent THEN "done"
                                  ELSE IF r \in waiting THEN "sleep" ELSE where[r]]
  /\ wake' = [r \in Requests |-> IF r \in waiting \ spent THEN now + Delay ELSE wake[r]]
  /\ UNCHANGED <<deadline, port, since, world>>

\* The candidate being asked is healthy.
ProbeAnswered ==
  /\ probe.left # <<>>
  /\ Head(probe.left) \in up
  /\ ProbeEnds(Head(probe.left))

\* The candidate being asked is refused, answers wrongly or is silent.  A
\* server that was up all along does answer in time.
ProbeRefused ==
  /\ probe.left # <<>>
  /\ LET e == Head(probe.left) IN e \in up => flipped[e] >= probe.at
  /\ \/ /\ Len(probe.left) = 1
        /\ ProbeEnds(None)
     \/ /\ Len(probe.left) > 1
        /\ probe' = [left |-> Tail(probe.left), at |-> now]
        /\ UNCHANGED <<cache, exhausted, requests, world>>

-----------------------------------------------------------------------------
(* Requests.                                                               *)

\* A request is decided at once.
Immediately(r, where_to) ==
  /\ where' = [where EXCEPT ![r] = "done"]
  /\ result' = [result EXCEPT ![r] = where_to]
  /\ ended' = [ended EXCEPT ![r] = now]
  /\ UNCHANGED <<resolver, deadline, wake, port>>

\* awaitUplink and waitForTarget.
Await(r) ==
  IF cfg \in Holding /\ WrittenOff
  THEN Immediately(r, IF LayerOf[r] = "stream" THEN "upstream" ELSE "failed")
  ELSE /\ Refresh
       /\ where' = [where EXCEPT ![r] = "wait"]
       /\ deadline' = [deadline EXCEPT ![r] = IF cfg \in Holding THEN now + Budget ELSE 0]
       /\ port' = [port EXCEPT ![r] = IF LayerOf[r] = "socket" THEN Local[cfg] ELSE None]
       /\ UNCHANGED <<cache, exhausted, wake, result, ended>>

\* A request comes.  A fresh target is used at once; the socket layer also
\* takes a fresh negative answer, the other layers wait unless the server is
\* written off.
Request(r) ==
  /\ where[r] = "new"
  /\ since' = [since EXCEPT ![r] = now]
  /\ \/ Cached \in Endpoints /\ Immediately(r, Cached)
     \/ Cached = None /\ LayerOf[r] = "socket" /\ Immediately(r, "upstream")
     \/ Cached = None /\ LayerOf[r] = "stream" /\ Await(r)
     \/ Cached = "unknown" /\ Await(r)
  /\ UNCHANGED world

\* The retry delay of a request is over.
Wake(r) ==
  /\ where[r] = "sleep" /\ now >= wake[r]
  /\ Refresh
  /\ where' = [where EXCEPT ![r] = "wait"]
  /\ UNCHANGED <<cache, exhausted, deadline, wake, port, result, since, ended, world>>

-----------------------------------------------------------------------------
(* The rest of the world.                                                  *)

\* Bounds the changes of the world.
Change ==
  /\ changes < MaxChanges
  /\ changes' = changes + 1

\* The configuration store reports a change; invalidate().
Reconfigure(c) ==
  /\ c # cfg
  /\ Change
  /\ cfg' = c /\ cfgSince' = now
  /\ cache' = [target |-> None, at |-> 0]
  /\ exhausted' = 0
  /\ UNCHANGED <<probe, requests, now, up, flipped>>

\* A server starts or stops.
Flip(e) ==
  /\ Change
  /\ up' = IF e \in up THEN up \ {e} ELSE up \cup {e}
  /\ flipped' = [flipped EXCEPT ![e] = now]
  /\ UNCHANGED <<resolver, requests, now, cfg, cfgSince>>

\* Time passes, but neither past the end of a sleep nor past the timeout of a
\* probe: no listener keeps a probe's socket busy.
Tick ==
  /\ now < MaxTime
  /\ \A r \in Requests : where[r] = "sleep" => now < wake[r]
  /\ probe.left # <<>> => now < probe.at + ProbeTime
  /\ now' = now + 1
  /\ UNCHANGED <<resolver, requests, cfg, up, flipped, cfgSince, changes>>

Next ==
  \/ \E r \in Requests : Request(r) \/ Wake(r)
  \/ ProbeAnswered \/ ProbeRefused
  \/ \E c \in Configs : Reconfigure(c)
  \/ \E e \in Endpoints : Flip(e)
  \/ Tick

Spec == Init /\ [][Next]_vars

-----------------------------------------------------------------------------
(* Properties.                                                             *)

\* The longest a probe of every candidate takes.
Round == 2 * ProbeTime

InCandidates(e, c) == \E i \in 1..Len(Candidates(c)) : Candidates(c)[i] = e

\* Nothing has been different for longer than d.
Settled(t, d) == now - t > d

Decided(r) == where[r] = "done" /\ ended[r] = now

\* No request is held longer than its budget, if it has one, and one round of
\* probes (waitForTarget: "Waits up to budgetMs for a healthy server").
HeldBounded ==
  \A r \in Requests : where[r] \in {"wait", "sleep"} =>
    now <= since[r] + (IF deadline[r] # 0 THEN Budget ELSE 0) + Round

\* After a wait that ran its full budget no other request is held for a TTL, as
\* long as no server and no configuration came in between ("once a wait has run
\* its course, later requests pass straight through", waitForTarget).
OnlyFirstPays ==
  \A r, d \in Requests :
    /\ where[r] \in {"wait", "sleep"} /\ deadline[r] # 0
    /\ where[d] = "done" /\ deadline[d] # 0 /\ result[d] \in {"upstream", "failed"}
    /\ since[r] > ended[d]
    /\ cfgSince < ended[d]
    /\ \A e \in Endpoints : e \notin up /\ flipped[e] < ended[d]
    => now >= ended[d] + Ttl

\* A captured request goes to a candidate of the configuration where a server
\* of ours answered, unless the server went within the TTL, or the
\* configuration changed within the TTL and a round of probes (cached, probe,
\* invalidate).
AnsweredLately ==
  \A r \in Requests : Decided(r) /\ LayerOf[r] = "stream" /\ result[r] \in Endpoints =>
    /\ result[r] \in up \/ ~Settled(flipped[result[r]], Ttl)
    /\ InCandidates(result[r], cfg) \/ ~Settled(cfgSince, Ttl + Round)

\* Once a server of the current configuration has been up for a TTL and a round
\* of probes, no request is denied it any more, whatever failed before ("a
\* server that appears later is picked up rather than written off",
\* uplink.test.mjs).
Recovers ==
  \A r \in Requests : Decided(r) /\ result[r] \in {"upstream", "failed"} =>
    \A e \in up : InCandidates(e, cfg) =>
      ~Settled(flipped[e], Ttl + Round) \/ ~Settled(cfgSince, Ttl + Round)

\* Both: a request that is decided now is decided by the servers and the
\* configuration there were at most a TTL and a round of probes ago.
FollowsServers == AnsweredLately /\ Recovers
=============================================================================
