----------------------------- MODULE UplinkProofs -----------------------------
(***************************************************************************)
(* Proofs about Uplink, for any requests, ports, configurations and times.  *)
(*                                                                         *)
(* What is known of the past is kept in three places: the probe in flight,  *)
(* the cache and exhaustedAt.  The invariant says of each how old it can be *)
(* and what was true when it was made.                                      *)
(***************************************************************************)
EXTENDS Uplink, TLAPS

Asked == probe.left # <<>>

\* The probe in flight was begun at time t or before: its second candidate is
\* asked at most ProbeTime after its first.
BegunBy(t) == probe.at <= t + (IF Len(probe.left) = 2 THEN 0 ELSE ProbeTime)

\* At time t no candidate answered: a server that is up now came later, or the
\* configuration did, than a round of probes before.
Denied(t) ==
  \A e \in up : InCandidates(e, cfg) => t <= flipped[e] + Round \/ t <= cfgSince + Round

\* No candidate is waited for longer than ProbeTime; those that are not asked
\* any more did not answer, and those that are to be asked are of the
\* configuration in force.
ProbeInv ==
  Asked =>
    /\ Len(probe.left) \in {1, 2}
    /\ now <= probe.at + ProbeTime
    /\ \A i \in 1..Len(probe.left) : InCandidates(probe.left[i], cfg) \/ BegunBy(cfgSince)
    /\ \A e \in up : InCandidates(e, cfg) =>
         \/ \E i \in 1..Len(probe.left) : probe.left[i] = e
         \/ BegunBy(flipped[e])
         \/ BegunBy(cfgSince)

\* When a request that waits joined its probe, and when one that sleeps wakes.
WaitInv ==
  \A r \in Requests :
    /\ where[r] = "new" => deadline[r] = 0
    /\ deadline[r] # 0 => deadline[r] = since[r] + Budget
    /\ where[r] = "wait" => BegunBy(IF deadline[r] # 0 THEN deadline[r] ELSE since[r])
    /\ where[r] = "sleep" => deadline[r] # 0 /\ now <= wake[r] /\ wake[r] <= deadline[r]
    /\ where[r] \in {"wait", "sleep"} /\ LayerOf[r] = "socket" => port[r] \in Endpoints

\* What the cache says was so when it was written.
CacheInv ==
  cache.at # 0 =>
    IF cache.target = None THEN Denied(cache.at)
    ELSE /\ cache.target \in up \/ cache.at <= flipped[cache.target]
         /\ InCandidates(cache.target, cfg) \/ cache.at <= cfgSince + Round

ExhaustedInv == exhausted # 0 => Denied(exhausted)

\* A wait that failed is remembered until something changes.
FailedWait ==
  \A d \in Requests :
    where[d] = "done" /\ deadline[d] # 0 /\ result[d] \in {"upstream", "failed"} =>
      \/ exhausted >= ended[d]
      \/ cfgSince >= ended[d]
      \/ \E e \in Endpoints : e \in up \/ flipped[e] >= ended[d]

IInv ==
  /\ TypeOK /\ ProbeInv /\ WaitInv /\ CacheInv /\ ExhaustedInv /\ FailedWait
  /\ OnlyFirstPays /\ AnsweredLately /\ Recovers
-----------------------------------------------------------------------------
(* What the resolver asks, and types                                       *)

LEMMA CandidatesTyped ==
  ASSUME NEW c \in Configs
  PROVE  /\ Candidates(c) \in Seq(Endpoints) /\ Candidates(c) # <<>>
         /\ Len(Candidates(c)) \in {1, 2}
  BY UplinkAssumption DEF Candidates

LEMMA TailTyped ==
  ASSUME NEW s \in Seq(Endpoints), Len(s) > 1
  PROVE  Tail(s) \in Seq(Endpoints) /\ Tail(s) # <<>> /\ Len(Tail(s)) = Len(s) - 1
  <1>1. Tail(s) \in Seq(Endpoints) /\ Len(Tail(s)) = Len(s) - 1
    OBVIOUS
  <1>2. Len(Tail(s)) # Len(<<>>)
    BY <1>1
  <1> QED
    BY <1>1, <1>2

LEMMA Times ==
  ASSUME TypeOK
  PROVE  /\ now \in Nat /\ now + Delay \in 0..now + Delay /\ now + Budget \in 0..now + Budget
         /\ probe.left \in Seq(Endpoints) /\ cfg \in Configs
  BY UplinkAssumption DEF TypeOK

LEMMA WakeTyped ==
  ASSUME TypeOK, NEW r \in Requests
  PROVE  wake[r] \in 0..now + Delay
  BY DEF TypeOK

LEMMA RefreshTyped ==
  ASSUME TypeOK, Refresh
  PROVE  /\ probe'.at \in 0..now /\ probe'.left \in Seq(Endpoints) /\ probe'.left # <<>>
         /\ probe'.at <= now
  <1>1. CASE probe.left # <<>>
    BY <1>1 DEF TypeOK, Refresh
  <1>2. CASE probe.left = <<>>
    BY <1>2, CandidatesTyped DEF TypeOK, Refresh
  <1> QED
    BY <1>1, <1>2

\* What the end of a probe does to one request.
LEMMA EndsFor ==
  ASSUME TypeOK, NEW t \in Targets, ProbeEnds(t), NEW r \in Requests
  PROVE  \/ /\ where[r] # "wait" /\ where'[r] = where[r] /\ wake'[r] = wake[r]
            /\ result'[r] = result[r] /\ ended'[r] = ended[r]
         \/ /\ where[r] = "wait" /\ where'[r] = "done" /\ wake'[r] = wake[r]
            /\ t # None \/ BudgetSpent(r)
            /\ result'[r] = Outcome(r, t) /\ ended'[r] = now
         \/ /\ where[r] = "wait" /\ where'[r] = "sleep" /\ wake'[r] = now + Delay
            /\ t = None /\ ~BudgetSpent(r)
            /\ result'[r] = result[r] /\ ended'[r] = ended[r]
  BY DEF ProbeEnds, Decide

LEMMA EndTyped ==
  ASSUME TypeOK, NEW t \in Targets, ProbeEnds(t)
  PROVE  TypeOK'
  <1>1. cache' \in [target : Targets, at : 0..now'] /\ exhausted' \in 0..now'
    BY DEF TypeOK, ProbeEnds, world
  <1>2. where' \in [Requests -> {"new", "wait", "sleep", "done"}] /\ \A r \in Requests : where'[r] # "wait"
    BY DEF TypeOK, ProbeEnds
  <1>3. wake' \in [Requests -> 0..now' + Delay]
    <2>1. /\ \A r \in Requests : wake[r] \in 0..now + Delay
          /\ now + Delay \in 0..now + Delay
      BY WakeTyped, Times
    <2>2. now' = now
      BY DEF ProbeEnds, world
    <2> DEFINE waiting == {r \in Requests : where[r] = "wait"}
               spent == IF t # None THEN waiting ELSE {r \in waiting : BudgetSpent(r)}
    <2>3. wake' = [r \in Requests |-> IF r \in waiting \ spent THEN now + Delay ELSE wake[r]]
      BY DEF ProbeEnds
    <2> HIDE DEF waiting, spent
    <2> QED
      BY <2>1, <2>2, <2>3
  <1>4. result' \in [Requests -> Targets \cup {"upstream", "failed"}] /\ ended' \in [Requests -> 0..now']
    BY DEF TypeOK, ProbeEnds, world, Decide, Outcome
  <1>5. probe'.at \in 0..now' /\ probe'.left \in Seq(Endpoints)
    BY DEF TypeOK, ProbeEnds, world
  <1> QED
    BY <1>1, <1>2, <1>3, <1>4, <1>5 DEF TypeOK, ProbeEnds, world

LEMMA AwaitTyped ==
  ASSUME TypeOK, NEW r \in Requests, Await(r), UNCHANGED world, since' = [since EXCEPT ![r] = now]
  PROVE  TypeOK'
  <1>1. ASSUME NEW w \in {"upstream", "failed"}, Immediately(r, w)
        PROVE  TypeOK'
    BY <1>1, SMTT(30) DEF TypeOK, Immediately, resolver, world
  <1>2. CASE ~(cfg \in Holding /\ WrittenOff)
    <2>1. /\ Refresh
          /\ where' = [where EXCEPT ![r] = "wait"]
          /\ deadline' = [deadline EXCEPT ![r] = IF cfg \in Holding THEN now + Budget ELSE 0]
          /\ port' = [port EXCEPT ![r] = IF LayerOf[r] = "socket" THEN Local[cfg] ELSE None]
          /\ UNCHANGED <<cache, exhausted, wake, result, ended>>
      BY <1>2 DEF Await
    <2>2. probe'.at \in 0..now /\ probe'.left \in Seq(Endpoints) /\ probe'.left # <<>>
      BY <2>1, RefreshTyped
    <2>3. deadline \in [Requests -> 0..now + Budget] /\ 0 \in 0..now + Budget
      BY UplinkAssumption DEF TypeOK
    <2>4. deadline' \in [Requests -> 0..now + Budget]
      BY <2>1, <2>3, Times
    <2>5. port \in [Requests -> Targets] /\ Local[cfg] \in Targets /\ None \in Targets
      BY UplinkAssumption DEF TypeOK, Targets
    <2>6. port' \in [Requests -> Targets]
      BY <2>1, <2>5
    <2>7. where' \in [Requests -> {"new", "wait", "sleep", "done"}] /\ since' \in [Requests -> 0..now]
      BY <2>1 DEF TypeOK
    <2> QED
      BY <2>1, <2>2, <2>4, <2>6, <2>7 DEF TypeOK, world
  <1> QED
    BY <1>1, <1>2 DEF Await

LEMMA TypeStep ==
  ASSUME TypeOK, [Next]_vars
  PROVE  TypeOK'
  <1>1. ASSUME NEW r \in Requests, Request(r)
        PROVE  TypeOK'
    <2>1. ASSUME NEW w \in Endpoints \cup {"upstream"}, Immediately(r, w), UNCHANGED world,
                 since' = [since EXCEPT ![r] = now]
          PROVE  TypeOK'
      BY <2>1, SMTT(30) DEF TypeOK, Immediately, resolver, world, Targets
    <2> QED
      BY <1>1, <2>1, AwaitTyped DEF Request
  <1>2. ASSUME NEW r \in Requests, Wake(r)
        PROVE  TypeOK'
    <2>1. probe'.at \in 0..now /\ probe'.left \in Seq(Endpoints) /\ probe'.left # <<>>
      BY <1>2, RefreshTyped DEF Wake
    <2> QED
      BY <1>2, <2>1 DEF Wake, TypeOK, world
  <1>3. CASE ProbeAnswered
    <2>1. Head(probe.left) \in Targets
      BY <1>3 DEF ProbeAnswered, TypeOK, Targets
    <2> QED
      BY <1>3, <2>1, EndTyped DEF ProbeAnswered
  <1>4. CASE ProbeRefused
    <2>1. CASE ProbeEnds(None)
      BY <2>1, EndTyped DEF Targets
    <2>2. CASE /\ Len(probe.left) > 1
               /\ probe' = [left |-> Tail(probe.left), at |-> now]
               /\ UNCHANGED <<cache, exhausted, requests, world>>
      <3>1. Tail(probe.left) \in Seq(Endpoints) /\ Tail(probe.left) # <<>>
        BY <2>2, TailTyped, Times
      <3>2. probe'.at = now /\ probe'.left = Tail(probe.left) /\ now \in 0..now
        BY <2>2, Times
      <3> QED
        BY <2>2, <3>1, <3>2 DEF TypeOK, requests, world
    <2> QED
      BY <1>4, <2>1, <2>2 DEF ProbeRefused
  <1>5. ASSUME NEW c \in Configs, Reconfigure(c)
        PROVE  TypeOK'
    BY <1>5, UplinkAssumption DEF Reconfigure, Change, TypeOK, requests, Targets
  <1>6. ASSUME NEW e \in Endpoints, Flip(e)
        PROVE  TypeOK'
    BY <1>6, UplinkAssumption DEF Flip, Change, TypeOK, requests, resolver
  <1>7. CASE Tick
    BY <1>7, UplinkAssumption, SMTT(30) DEF Tick, TypeOK, requests, resolver
  <1>8. CASE UNCHANGED vars
    BY <1>8 DEF vars, resolver, requests, world, TypeOK
  <1> QED
    BY <1>1, <1>2, <1>3, <1>4, <1>5, <1>6, <1>7, <1>8 DEF Next

LEMMA TypeInit ==
  ASSUME Init
  PROVE  TypeOK
  BY UplinkAssumption DEF Init, TypeOK, Targets

\* The resolver's fields and the requests keep their types, and no request waits
\* for a probe that is over (uplink.ts, refresh).
THEOREM TypeCorrect == Spec => []TypeOK
  BY TypeInit, TypeStep, PTL DEF Spec
-----------------------------------------------------------------------------
(* The invariant is inductive                                              *)

LEMMA Numbers ==
  ASSUME TypeOK
  PROVE  /\ now \in Nat /\ now >= 1 /\ probe.at \in Nat /\ probe.at <= now
         /\ cfgSince \in Nat /\ cfgSince <= now /\ exhausted \in Nat /\ exhausted <= now
         /\ cache.at \in Nat /\ cache.at <= now /\ cache.target \in Targets
         /\ \A e \in Endpoints : flipped[e] \in Nat /\ flipped[e] <= now
         /\ \A r \in Requests : /\ since[r] \in Nat /\ since[r] <= now
                               /\ ended[r] \in Nat /\ ended[r] <= now
                               /\ deadline[r] \in Nat /\ wake[r] \in Nat
         /\ up \subseteq Endpoints /\ cfg \in Configs
         /\ Ttl \in Nat /\ ProbeTime \in Nat /\ Budget \in Nat /\ Delay \in Nat /\ Round \in Nat
         /\ Round = ProbeTime + ProbeTime
  BY UplinkAssumption DEF TypeOK, Round

LEMMA ConstantsTyped ==
  /\ Budget \in Nat /\ Delay \in Nat
  /\ \A n \in 1..MaxTime : n \in Nat /\ n + Budget \in Nat /\ n + Delay \in Nat
  BY UplinkAssumption

LEMMA NumbersAfter ==
  ASSUME TypeOK'
  PROVE  /\ now' \in Nat /\ probe'.at \in Nat
         /\ \A r \in Requests : since'[r] \in Nat /\ deadline'[r] \in Nat /\ wake'[r] \in Nat
  <1>1. now' \in Nat /\ now' + Budget \in Nat /\ now' + Delay \in Nat
    <2>1. now' \in 1..MaxTime
      BY DEF TypeOK
    <2> QED
      BY <2>1, ConstantsTyped
  <1>2. \A r \in Requests : since'[r] \in 0..now'
    BY DEF TypeOK
  <1>3. \A r \in Requests : deadline'[r] \in 0..now' + Budget
    BY DEF TypeOK
  <1>4. \A r \in Requests : wake'[r] \in 0..now' + Delay
    BY DEF TypeOK
  <1>5. probe'.at \in 0..now'
    BY DEF TypeOK
  <1> QED
    BY <1>1, <1>2, <1>3, <1>4, <1>5

\* A probe that was begun by time t is over by t and a round.
LEMMA OverInARound ==
  ASSUME TypeOK, ProbeInv, Asked, NEW t \in Nat, BegunBy(t)
  PROVE  now <= t + Round
  BY Numbers, SMTT(30) DEF ProbeInv, BegunBy

LEMMA BegunNow ==
  ASSUME TypeOK, NEW t \in Nat, probe.at <= t
  PROVE  BegunBy(t)
  BY Numbers DEF BegunBy

\* A probe that is shared stays as it is; a new one asks for all candidates.
LEMMA RefreshKeeps ==
  ASSUME IInv, Refresh, UNCHANGED world
  PROVE  ProbeInv' /\ BegunBy(now)' /\ (Asked => probe' = probe)
  <1>1. CASE Asked
    BY <1>1, BegunNow, Numbers DEF IInv, Refresh, Asked, ProbeInv, BegunBy, world, InCandidates
  <1>2. CASE ~Asked
    <2>1. probe' = [left |-> Candidates(cfg), at |-> now]
      BY <1>2 DEF Refresh, Asked
    <2>2. /\ now' = now /\ cfg' = cfg /\ up' = up
          /\ probe'.left = Candidates(cfg) /\ probe'.at = now
      BY <2>1 DEF world
    <2>3. Candidates(cfg)' = Candidates(cfg)
      BY <2>2 DEF Candidates
    <2>4. Len(Candidates(cfg)) \in {1, 2}
      BY CandidatesTyped, Numbers DEF IInv
    <2>5. \A i \in 1..Len(probe'.left) : InCandidates(probe'.left[i], cfg)
      BY <2>2 DEF InCandidates
    <2>6. \A e \in up : InCandidates(e, cfg) => \E i \in 1..Len(probe'.left) : probe'.left[i] = e
      BY <2>2 DEF InCandidates
    <2>7. now <= now + ProbeTime /\ (now <= now + (IF Len(probe'.left) = 2 THEN 0 ELSE ProbeTime))
      BY Numbers DEF IInv
    <2>8. \A e : InCandidates(e, cfg)' <=> InCandidates(e, cfg)
      BY <2>3 DEF InCandidates
    <2> QED
      BY <1>2, <2>2, <2>4, <2>5, <2>6, <2>7, <2>8 DEF ProbeInv, BegunBy
  <1> QED
    BY <1>1, <1>2
\* What the invariant says of the past does not change with the requests.
LEMMA PastKept ==
  ASSUME IInv, UNCHANGED world, UNCHANGED <<cache, exhausted>>
  PROVE  CacheInv' /\ ExhaustedInv'
  <1>1. \A e : InCandidates(e, cfg)' <=> InCandidates(e, cfg)
    BY DEF InCandidates, Candidates, world
  <1> QED
    BY <1>1 DEF IInv, CacheInv, ExhaustedInv, Denied, world

\* Nothing of the request q changes.
Untouched(q) ==
  /\ where'[q] = where[q] /\ deadline'[q] = deadline[q] /\ wake'[q] = wake[q]
  /\ port'[q] = port[q] /\ result'[q] = result[q] /\ since'[q] = since[q] /\ ended'[q] = ended[q]

\* The wait of d failed, and nothing has happened since.
PaidFor(d) ==
  /\ where[d] = "done" /\ deadline[d] # 0 /\ result[d] \in {"upstream", "failed"}
  /\ cfgSince < ended[d]
  /\ \A e \in Endpoints : e \notin up /\ flipped[e] < ended[d]

LEMMA FirstPays ==
  OnlyFirstPays <=>
    \A r, d \in Requests :
      where[r] \in {"wait", "sleep"} /\ deadline[r] # 0 /\ PaidFor(d) /\ since[r] > ended[d]
      => now >= ended[d] + Ttl
  BY DEF OnlyFirstPays, PaidFor

\* A request begins to wait for a probe.
LEMMA Joins ==
  ASSUME IInv, TypeOK', NEW r \in Requests, Refresh, UNCHANGED world, UNCHANGED <<cache, exhausted>>,
         \A q \in Requests : q # r => Untouched(q),
         where[r] \in {"new", "sleep"}, where'[r] = "wait",
         deadline'[r] # 0 => deadline'[r] = since'[r] + Budget,
         now <= IF deadline'[r] # 0 THEN deadline'[r] ELSE since'[r],
         LayerOf[r] = "socket" => port'[r] \in Endpoints,
         \A d \in Requests : deadline'[r] # 0 /\ PaidFor(d) /\ since'[r] > ended[d] => now >= ended[d] + Ttl
  PROVE  IInv'
  <1>1. ProbeInv' /\ BegunBy(now)' /\ (Asked => probe' = probe)
    BY RefreshKeeps
  <1>2. CacheInv' /\ ExhaustedInv'
    BY PastKept
  <1>3. /\ now' = now /\ cfg' = cfg /\ up' = up /\ flipped' = flipped /\ cfgSince' = cfgSince
        /\ exhausted' = exhausted
    BY DEF world
  <1>4. WaitInv'
    <2> SUFFICES ASSUME NEW q \in Requests
                 PROVE  /\ where'[q] = "new" => deadline'[q] = 0
                        /\ deadline'[q] # 0 => deadline'[q] = since'[q] + Budget
                        /\ where'[q] = "wait" => BegunBy(IF deadline[q] # 0 THEN deadline[q] ELSE since[q])'
                        /\ where'[q] = "sleep" => deadline'[q] # 0 /\ now' <= wake'[q] /\ wake'[q] <= deadline'[q]
                        /\ where'[q] \in {"wait", "sleep"} /\ LayerOf[q] = "socket" => port'[q] \in Endpoints
      BY DEF WaitInv
    <2>1. CASE q = r
      <3>1. BegunBy(IF deadline[r] # 0 THEN deadline[r] ELSE since[r])'
        <4> DEFINE t == IF deadline'[r] # 0 THEN deadline'[r] ELSE since'[r]
        <4>1. t \in Nat /\ now \in Nat /\ now <= t /\ ProbeTime \in Nat
          BY Numbers, NumbersAfter DEF IInv
        <4>2. probe'.at \in Nat
          BY NumbersAfter
        <4> HIDE DEF t
        <4>3. probe'.at <= t + (IF Len(probe'.left) = 2 THEN 0 ELSE ProbeTime)
          BY <1>1, <1>3, <4>1, <4>2 DEF BegunBy
        <4> QED
          BY <4>3 DEF BegunBy, t
      <3> QED
        BY <2>1, <3>1
    <2>2. CASE q # r
      <3>1. Untouched(q)
        BY <2>2
      <3>2. where[q] = "wait" => probe' = probe
        BY <1>1 DEF IInv, TypeOK, Asked
      <3> QED
        BY <1>3, <3>1, <3>2 DEF IInv, WaitInv, Untouched, BegunBy
    <2> QED
      BY <2>1, <2>2
  <1>5. FailedWait'
    BY <1>3 DEF IInv, FailedWait, Untouched
  <1>6. OnlyFirstPays'
    <2> SUFFICES ASSUME NEW q \in Requests, NEW d \in Requests,
                        where'[q] \in {"wait", "sleep"}, deadline'[q] # 0, PaidFor(d)', since'[q] > ended'[d]
                 PROVE  now' >= ended'[d] + Ttl
      BY DEF OnlyFirstPays, PaidFor
    <2>1. where'[d] = "done"
      BY DEF PaidFor
    <2>2. d # r /\ Untouched(d)
      BY <2>1
    <2>3. PaidFor(d) /\ ended'[d] = ended[d]
      BY <1>3, <2>2 DEF PaidFor, Untouched
    <2>4. CASE q = r
      BY <1>3, <2>3, <2>4
    <2>5. CASE q # r
      <3>1. Untouched(q)
        BY <2>5
      <3> QED
        BY <1>3, <2>3, <3>1, FirstPays DEF Untouched, IInv
    <2> QED
      BY <2>4, <2>5
  <1>7. \A e : InCandidates(e, cfg)' <=> InCandidates(e, cfg)
    BY <1>3 DEF InCandidates, Candidates
  <1>8. \A q \in Requests : Decided(q)' => q # r /\ Decided(q) /\ Untouched(q)
    BY <1>3 DEF Decided, Untouched
  <1>9. AnsweredLately' /\ Recovers'
    BY <1>3, <1>7, <1>8 DEF AnsweredLately, Recovers, IInv, Settled, Untouched
  <1> QED
    BY <1>1, <1>2, <1>4, <1>5, <1>6, <1>9 DEF IInv
\* A request is decided at once, by what is known already.
LEMMA DecidedAtOnce ==
  ASSUME IInv, TypeOK', NEW r \in Requests, NEW w \in Endpoints \cup {"upstream", "failed"},
         where[r] = "new", Immediately(r, w), UNCHANGED world,
         \A q \in Requests : q # r => since'[q] = since[q],
         w \in Endpoints => /\ w \in up \/ now - flipped[w] <= Ttl
                            /\ InCandidates(w, cfg) \/ now - cfgSince <= Ttl + Round,
         w \notin Endpoints => \A e \in up : InCandidates(e, cfg) =>
                                 now - flipped[e] <= Ttl + Round \/ now - cfgSince <= Ttl + Round
  PROVE  IInv'
  <1>1. /\ now' = now /\ cfg' = cfg /\ up' = up /\ flipped' = flipped /\ cfgSince' = cfgSince
        /\ cache' = cache /\ probe' = probe /\ exhausted' = exhausted
    BY DEF world, resolver, Immediately
  <1>2. \A q \in Requests : q # r => Untouched(q)
    BY DEF Immediately, Untouched, IInv, TypeOK
  <1>3. where'[r] = "done" /\ result'[r] = w /\ ended'[r] = now /\ deadline'[r] = 0
    BY DEF Immediately, IInv, TypeOK, WaitInv
  <1>4. CacheInv' /\ ExhaustedInv'
    BY <1>1, PastKept
  <1>5. \A e : InCandidates(e, cfg)' <=> InCandidates(e, cfg)
    BY <1>1 DEF InCandidates, Candidates
  <1>6. ProbeInv'
    BY <1>1, <1>5 DEF IInv, ProbeInv, BegunBy, Asked
  <1>7. WaitInv'
    BY <1>1, <1>2, <1>3 DEF IInv, WaitInv, BegunBy, Untouched
  <1>8. FailedWait'
    BY <1>1, <1>2, <1>3 DEF IInv, FailedWait, Untouched
  <1>9. OnlyFirstPays'
    <2> SUFFICES ASSUME NEW q \in Requests, NEW d \in Requests,
                        where'[q] \in {"wait", "sleep"}, deadline'[q] # 0, PaidFor(d)', since'[q] > ended'[d]
                 PROVE  now' >= ended'[d] + Ttl
      BY DEF OnlyFirstPays, PaidFor
    <2>1. deadline'[d] # 0
      BY DEF PaidFor
    <2>2. d # r /\ q # r /\ Untouched(d) /\ Untouched(q)
      BY <1>2, <1>3, <2>1
    <2>3. PaidFor(d)
      BY <1>1, <2>2 DEF PaidFor, Untouched
    <2> QED
      BY <1>1, <2>2, <2>3, FirstPays DEF Untouched, IInv
  <1>10. \A q \in Requests : q # r /\ Decided(q)' => Decided(q) /\ Untouched(q)
    BY <1>1, <1>2 DEF Decided, Untouched
  <1>11. AnsweredLately'
    <2> SUFFICES ASSUME NEW q \in Requests, Decided(q)', LayerOf[q] = "stream", result'[q] \in Endpoints
                 PROVE  /\ result'[q] \in up \/ ~(now - flipped[result'[q]] > Ttl)
                        /\ InCandidates(result'[q], cfg) \/ ~(now - cfgSince > Ttl + Round)
      BY <1>1, <1>5 DEF AnsweredLately, Settled
    <2>1. CASE q = r
      BY <1>3, <2>1, Numbers DEF IInv
    <2>2. CASE q # r
      BY <1>10, <2>2 DEF IInv, AnsweredLately, Settled, Untouched
    <2> QED
      BY <2>1, <2>2
  <1>12. Recovers'
    <2> SUFFICES ASSUME NEW q \in Requests, Decided(q)', result'[q] \in {"upstream", "failed"},
                        NEW e \in up, InCandidates(e, cfg)
                 PROVE  ~(now - flipped[e] > Ttl + Round) \/ ~(now - cfgSince > Ttl + Round)
      BY <1>1, <1>5 DEF Recovers, Settled
    <2>1. CASE q = r
      <3>1. w \notin Endpoints
        BY <1>3, <2>1, UplinkAssumption
      <3> QED
        BY <3>1, Numbers DEF IInv
    <2>2. CASE q # r
      BY <1>10, <2>2 DEF IInv, Recovers, Settled, Untouched
    <2> QED
      BY <2>1, <2>2
  <1> QED
    BY <1>4, <1>6, <1>7, <1>8, <1>9, <1>11, <1>12 DEF IInv
\* A probe is over, and it found out what is so now.
LEMMA Ends ==
  ASSUME IInv, TypeOK', Asked, NEW t \in Targets, ProbeEnds(t),
         t # None => t \in up /\ (InCandidates(t, cfg) \/ BegunBy(cfgSince)),
         t = None => Denied(now)
  PROVE  IInv'
  <1>1. /\ now' = now /\ cfg' = cfg /\ up' = up /\ flipped' = flipped /\ cfgSince' = cfgSince
        /\ cache' = [target |-> t, at |-> now] /\ probe'.left = <<>>
        /\ deadline' = deadline /\ port' = port /\ since' = since
    BY DEF ProbeEnds, world
  <1>2. \A e : InCandidates(e, cfg)' <=> InCandidates(e, cfg)
    BY <1>1 DEF InCandidates, Candidates
  <1>3. ProbeInv'
    BY <1>1 DEF ProbeInv, Asked
  <1>4. exhausted' = exhausted \/ exhausted' = 0 \/ (exhausted' = now /\ t = None)
    BY DEF ProbeEnds
  <1>5. Denied(now)' <=> Denied(now)
    BY <1>1, <1>2 DEF Denied
  <1>6. BegunBy(cfgSince) => now <= cfgSince + Round
    BY OverInARound, Numbers DEF IInv
  <1>7. CacheInv'
    BY <1>1, <1>2, <1>5, <1>6 DEF CacheInv, Denied
  <1>8. ExhaustedInv'
    <2>1. Denied(exhausted)' <=> \A e \in up : InCandidates(e, cfg) =>
            exhausted' <= flipped[e] + Round \/ exhausted' <= cfgSince + Round
      BY <1>1, <1>2 DEF Denied
    <2> QED
      BY <1>4, <2>1 DEF ExhaustedInv, IInv, Denied
  <1>9. WaitInv'
    <2> SUFFICES ASSUME NEW q \in Requests
                 PROVE  /\ where'[q] = "new" => deadline[q] = 0
                        /\ deadline[q] # 0 => deadline[q] = since[q] + Budget
                        /\ where'[q] # "wait"
                        /\ where'[q] = "sleep" => deadline[q] # 0 /\ now <= wake'[q] /\ wake'[q] <= deadline[q]
                        /\ where'[q] \in {"wait", "sleep"} /\ LayerOf[q] = "socket" => port[q] \in Endpoints
      BY <1>1 DEF WaitInv
    <2>1. where[q] \in {"new", "wait", "sleep", "done"}
      BY DEF IInv, TypeOK
    <2>2. CASE where[q] # "wait"
      BY <2>1, <2>2, EndsFor DEF IInv, WaitInv
    <2>3. CASE where[q] = "wait"
      <3>1. ~BudgetSpent(q) => deadline[q] # 0 /\ now <= now + Delay /\ now + Delay <= deadline[q]
        BY Numbers DEF BudgetSpent, IInv
      <3> QED
        BY <2>3, <3>1, EndsFor DEF IInv, WaitInv
    <2> QED
      BY <2>2, <2>3
  \* Who is decided by this probe, and who was before.
  <1>10. ASSUME NEW q \in Requests, where'[q] = "done"
         PROVE  \/ where[q] = "done" /\ result'[q] = result[q] /\ ended'[q] = ended[q]
                \/ /\ where[q] = "wait" /\ ended'[q] = now /\ result'[q] = Outcome(q, t)
                   /\ t = None => BudgetSpent(q)
    BY <1>10, EndsFor DEF IInv
  <1>11. ASSUME NEW q \in Requests, where[q] = "wait", t # None
         PROVE  /\ Outcome(q, t) \in Endpoints /\ Outcome(q, t) \notin {"upstream", "failed"}
                /\ LayerOf[q] = "stream" => Outcome(q, t) = t
    BY <1>11, UplinkAssumption DEF Outcome, IInv, WaitInv, Targets
  <1>12. ASSUME NEW q \in Requests, where[q] = "wait", t = None
         PROVE  Outcome(q, t) \notin Endpoints
    BY <1>12, UplinkAssumption DEF Outcome
  <1>13. FailedWait'
    <2> SUFFICES ASSUME NEW d \in Requests, where'[d] = "done", deadline[d] # 0,
                        result'[d] \in {"upstream", "failed"}
                 PROVE  \/ exhausted' >= ended'[d] \/ cfgSince >= ended'[d]
                        \/ \E e \in Endpoints : e \in up \/ flipped[e] >= ended'[d]
      BY <1>1 DEF FailedWait
    <2>1. CASE t # None
      BY <2>1, Numbers DEF IInv
    <2>2. CASE t = None /\ where[d] = "wait"
      <3>1. exhausted' = now
        <4>1. d \in {q \in Requests : where[q] = "wait"} /\ BudgetSpent(d)
          BY <1>10, <2>2
        <4> QED
          BY <2>2, <4>1 DEF ProbeEnds
      <3>2. ended'[d] = now
        BY <1>10, <2>2
      <3> QED
        BY <3>1, <3>2, Numbers DEF IInv
    <2>3. CASE t = None /\ where[d] # "wait"
      <3>1. where[d] = "done" /\ result'[d] = result[d] /\ ended'[d] = ended[d]
        BY <1>10, <2>3
      <3>2. exhausted' = exhausted \/ exhausted' = now
        BY <2>3 DEF ProbeEnds
      <3> QED
        BY <3>1, <3>2, Numbers DEF IInv, FailedWait
    <2> QED
      BY <2>1, <2>2, <2>3
  <1>14. OnlyFirstPays'
    <2> SUFFICES ASSUME NEW q \in Requests, NEW d \in Requests,
                        where'[q] \in {"wait", "sleep"}, deadline'[q] # 0, PaidFor(d)', since'[q] > ended'[d]
                 PROVE  now' >= ended'[d] + Ttl
      BY DEF OnlyFirstPays, PaidFor
    <2>1. where[q] \in {"wait", "sleep"}
      <3>1. where[q] = "wait" \/ where'[q] = where[q]
        BY EndsFor DEF IInv
      <3> QED
        BY <3>1
    <2>2. where'[d] = "done" /\ ended'[d] # now
      BY <1>1, Numbers DEF IInv, PaidFor
    <2>3. PaidFor(d) /\ ended'[d] = ended[d]
      BY <1>1, <1>10, <2>2 DEF PaidFor
    <2> QED
      BY <1>1, <2>1, <2>3, FirstPays DEF IInv
  <1>15. AnsweredLately'
    <2> SUFFICES ASSUME NEW q \in Requests, where'[q] = "done", ended'[q] = now,
                        LayerOf[q] = "stream", result'[q] \in Endpoints
                 PROVE  /\ result'[q] \in up \/ ~(now - flipped[result'[q]] > Ttl)
                        /\ InCandidates(result'[q], cfg) \/ ~(now - cfgSince > Ttl + Round)
      BY <1>1, <1>2 DEF AnsweredLately, Settled, Decided
    <2>1. CASE where[q] = "done"
      <3>1. result'[q] = result[q] /\ ended[q] = now
        BY <1>10, <2>1
      <3> QED
        BY <2>1, <3>1 DEF IInv, AnsweredLately, Settled, Decided
    <2>2. CASE where[q] = "wait"
      <3>1. t # None /\ result'[q] = t
        BY <1>10, <1>11, <1>12, <2>2
      <3> QED
        BY <1>6, <3>1, Numbers DEF IInv
    <2> QED
      BY <1>10, <2>1, <2>2
  <1>16. Recovers'
    <2> SUFFICES ASSUME NEW q \in Requests, where'[q] = "done", ended'[q] = now,
                        result'[q] \in {"upstream", "failed"}, NEW e \in up, InCandidates(e, cfg)
                 PROVE  ~(now - flipped[e] > Ttl + Round) \/ ~(now - cfgSince > Ttl + Round)
      BY <1>1, <1>2 DEF Recovers, Settled, Decided
    <2>1. CASE where[q] = "done"
      <3>1. result'[q] = result[q] /\ ended[q] = now
        BY <1>10, <2>1
      <3> QED
        BY <2>1, <3>1 DEF IInv, Recovers, Settled, Decided
    <2>2. CASE where[q] = "wait"
      <3>1. Denied(now)
        BY <1>10, <1>11, <2>2
      <3>2. now <= flipped[e] + Round \/ now <= cfgSince + Round
        BY <3>1 DEF Denied
      <3> QED
        BY <3>2, Numbers DEF IInv
    <2> QED
      BY <1>10, <2>1, <2>2
  <1> QED
    BY <1>3, <1>7, <1>8, <1>9, <1>13, <1>14, <1>15, <1>16 DEF IInv
\* The first candidate did not answer and the second is asked.
LEMMA Advances ==
  ASSUME IInv, TypeOK', Asked, Len(probe.left) > 1,
         Head(probe.left) \in up => flipped[Head(probe.left)] >= probe.at,
         probe' = [left |-> Tail(probe.left), at |-> now],
         UNCHANGED <<cache, exhausted, requests, world>>
  PROVE  IInv'
  <1>1. /\ now' = now /\ cfg' = cfg /\ up' = up /\ flipped' = flipped /\ cfgSince' = cfgSince
        /\ cache' = cache /\ exhausted' = exhausted
        /\ where' = where /\ deadline' = deadline /\ wake' = wake /\ port' = port
        /\ result' = result /\ since' = since /\ ended' = ended
    BY DEF requests, world
  <1>2. \A e : InCandidates(e, cfg)' <=> InCandidates(e, cfg)
    BY <1>1 DEF InCandidates, Candidates
  <1>3. Len(probe.left) = 2 /\ probe.left \in Seq(Endpoints) /\ now <= probe.at + ProbeTime
    BY Times DEF IInv, ProbeInv
  <1>4. /\ probe'.at = now /\ probe'.left \in Seq(Endpoints) /\ Len(probe'.left) = 1
        /\ probe'.left[1] = probe.left[2] /\ Head(probe.left) = probe.left[1]
    BY <1>3
  <1>5. ASSUME NEW t \in Nat, BegunBy(t) \/ probe.at <= t
        PROVE  now <= t + (IF Len(probe'.left) = 2 THEN 0 ELSE ProbeTime)
    <2>1. probe.at <= t
      <3>1. CASE BegunBy(t)
        BY <1>3, <3>1 DEF BegunBy
      <3> QED
        BY <1>5, <3>1
    <2>2. now <= t + ProbeTime
      BY <1>3, <2>1, Numbers DEF IInv
    <2>3. Len(probe'.left) # 2
      <3> DEFINE n == Len(probe'.left)
      <3>1. n = 1
        BY <1>4, Zenon
      <3> HIDE DEF n
      <3>2. n # 2
        BY <3>1
      <3> QED
        BY <3>2 DEF n
    <2> QED
      BY <2>2, <2>3
  <1>6. ProbeInv'
    <2>1. now <= now + ProbeTime
      BY Numbers DEF IInv
    <2>2. InCandidates(probe.left[2], cfg) \/ BegunBy(cfgSince)
      BY <1>3 DEF IInv, ProbeInv
    <2>3. ASSUME NEW e \in up, InCandidates(e, cfg)
          PROVE  e = probe.left[2] \/ BegunBy(cfgSince) \/ BegunBy(flipped[e]) \/ probe.at <= flipped[e]
      <3>1. \/ \E i \in 1..Len(probe.left) : probe.left[i] = e
            \/ BegunBy(flipped[e]) \/ BegunBy(cfgSince)
        BY <2>3 DEF IInv, ProbeInv
      <3>2. e = probe.left[1] => probe.at <= flipped[e]
        BY <1>4, Numbers DEF IInv
      <3> QED
        BY <1>3, <3>1, <3>2
    <2>4. cfgSince \in Nat /\ \A e \in up : flipped[e] \in Nat
      BY Numbers DEF IInv
    <2> DEFINE Late(x) == now <= x + (IF Len(probe'.left) = 2 THEN 0 ELSE ProbeTime)
    <2>5. \A x \in Nat : BegunBy(x) \/ probe.at <= x => Late(x)
      BY <1>5
    <2>6. InCandidates(probe'.left[1], cfg) \/ Late(cfgSince)
      BY <1>4, <2>2, <2>4, <2>5
    <2>7. ASSUME NEW e \in up, InCandidates(e, cfg)
          PROVE  e = probe'.left[1] \/ Late(flipped[e]) \/ Late(cfgSince)
      BY <1>4, <2>3, <2>4, <2>5, <2>7
    <2>8. 1..Len(probe'.left) = {1}
      BY <1>4
    <2> HIDE DEF Late
    <2>9. /\ \A i \in 1..Len(probe'.left) : InCandidates(probe'.left[i], cfg) \/ Late(cfgSince)
          /\ \A e \in up : InCandidates(e, cfg) =>
               \/ \E i \in 1..Len(probe'.left) : probe'.left[i] = e
               \/ Late(flipped[e]) \/ Late(cfgSince)
      BY <2>6, <2>7, <2>8
    <2> QED
      BY <1>1, <1>2, <1>4, <2>1, <2>9 DEF ProbeInv, BegunBy, Late
  <1>7. WaitInv'
    <2>1. ASSUME NEW q \in Requests, where[q] = "wait"
          PROVE  now <= (IF deadline[q] # 0 THEN deadline[q] ELSE since[q])
                        + (IF Len(probe'.left) = 2 THEN 0 ELSE ProbeTime)
      <3>1. BegunBy(IF deadline[q] # 0 THEN deadline[q] ELSE since[q])
        BY <2>1 DEF IInv, WaitInv
      <3> QED
        BY <1>5, <3>1, Numbers DEF IInv
    <2> QED
      BY <1>1, <1>4, <2>1 DEF IInv, WaitInv, BegunBy
  <1>8. CacheInv' /\ ExhaustedInv'
    BY <1>1, PastKept
  <1>9. FailedWait' /\ OnlyFirstPays'
    <2>1. FailedWait'
      BY <1>1 DEF IInv, FailedWait
    <2>2. OnlyFirstPays'
      BY <1>1 DEF IInv, OnlyFirstPays
    <2> QED
      BY <2>1, <2>2
  <1>10. AnsweredLately' /\ Recovers'
    <2>1. \A q \in Requests : Decided(q)' <=> Decided(q)
      BY <1>1 DEF Decided
    <2>2. AnsweredLately'
      BY <1>1, <1>2, <2>1 DEF IInv, AnsweredLately, Settled
    <2>3. Recovers'
      BY <1>1, <1>2, <2>1 DEF IInv, Recovers, Settled
    <2> QED
      BY <2>2, <2>3
  <1> QED
    BY <1>6, <1>7, <1>8, <1>9, <1>10 DEF IInv

LEMMA Requested ==
  ASSUME IInv, TypeOK', NEW r \in Requests, Request(r)
  PROVE  IInv'
  <1>1. /\ where[r] = "new" /\ since' = [since EXCEPT ![r] = now] /\ UNCHANGED world
        /\ since'[r] = now
        /\ \A q \in Requests : q # r => since'[q] = since[q]
    BY DEF Request, IInv, TypeOK
  <1>2. ASSUME Cached # "unknown"
        PROVE  cache.at # 0 /\ now - cache.at <= Ttl /\ Cached = cache.target
    BY <1>2, Numbers DEF Cached, IInv
  \* A fresh target is near a server that is up and a configuration in force.
  <1>3. CASE Cached \in Endpoints /\ Immediately(r, Cached)
    <2>1. Cached # "unknown" /\ Cached # None
      BY <1>3, UplinkAssumption
    <2>2. /\ Cached \in up \/ cache.at <= flipped[Cached]
          /\ InCandidates(Cached, cfg) \/ cache.at <= cfgSince + Round
      BY <1>2, <2>1 DEF IInv, CacheInv
    <2>3. /\ Cached \in up \/ now - flipped[Cached] <= Ttl
          /\ InCandidates(Cached, cfg) \/ now - cfgSince <= Ttl + Round
      BY <1>2, <1>3, <2>1, <2>2, Numbers DEF IInv
    <2> QED
      BY <1>1, <1>3, <2>3, DecidedAtOnce
  <1>4. ASSUME NEW at \in Nat, now - at <= Ttl, Denied(at)
        PROVE  \A e \in up : InCandidates(e, cfg) =>
                 now - flipped[e] <= Ttl + Round \/ now - cfgSince <= Ttl + Round
    BY <1>4, Numbers DEF Denied, IInv
  <1>5. "upstream" \notin Endpoints /\ "failed" \notin Endpoints
    BY UplinkAssumption
  <1>6. CASE Cached = None /\ LayerOf[r] = "socket" /\ Immediately(r, "upstream")
    <2>1. Cached # "unknown"
      BY <1>6, UplinkAssumption
    <2>2. Denied(cache.at) /\ cache.at \in Nat /\ now - cache.at <= Ttl
      BY <1>2, <1>6, <2>1, Numbers DEF IInv, CacheInv
    <2> QED
      BY <1>1, <1>4, <1>5, <1>6, <2>2, DecidedAtOnce
  <1>7. CASE Await(r)
    <2>1. CASE cfg \in Holding /\ WrittenOff
      <3>1. PICK w \in {"upstream", "failed"} : Immediately(r, w)
        BY <1>7, <2>1 DEF Await
      <3>2. Denied(exhausted) /\ exhausted \in Nat /\ now - exhausted <= Ttl
        BY <2>1, Numbers DEF IInv, ExhaustedInv, WrittenOff
      <3> QED
        BY <1>1, <1>4, <1>5, <3>1, <3>2, DecidedAtOnce
    <2>2. CASE ~(cfg \in Holding /\ WrittenOff)
      <3>1. /\ Refresh
            /\ where' = [where EXCEPT ![r] = "wait"]
            /\ deadline' = [deadline EXCEPT ![r] = IF cfg \in Holding THEN now + Budget ELSE 0]
            /\ port' = [port EXCEPT ![r] = IF LayerOf[r] = "socket" THEN Local[cfg] ELSE None]
            /\ UNCHANGED <<cache, exhausted, wake, result, ended>>
        BY <1>7, <2>2 DEF Await
      <3>2. /\ where'[r] = "wait"
            /\ deadline'[r] = IF cfg \in Holding THEN now + Budget ELSE 0
            /\ port'[r] = IF LayerOf[r] = "socket" THEN Local[cfg] ELSE None
        BY <3>1 DEF IInv, TypeOK
      <3>3. \A q \in Requests : q # r => Untouched(q)
        BY <1>1, <3>1 DEF Untouched
      <3>4. LayerOf[r] = "socket" => port'[r] \in Endpoints
        BY <3>2, Numbers, UplinkAssumption DEF IInv
      <3>5. deadline'[r] # 0 => deadline'[r] = since'[r] + Budget
        BY <1>1, <3>2
      <3>6. now <= IF deadline'[r] # 0 THEN deadline'[r] ELSE since'[r]
        BY <1>1, <3>2, Numbers DEF IInv
      <3>7. ASSUME NEW d \in Requests, deadline'[r] # 0, PaidFor(d), since'[r] > ended[d]
            PROVE  now >= ended[d] + Ttl
        <4>1. cfg \in Holding /\ ~WrittenOff
          BY <2>2, <3>2, <3>7
        <4>2. exhausted >= ended[d]
          BY <3>7, Numbers DEF IInv, FailedWait, PaidFor
        <4>3. cfgSince < ended[d] /\ ended[d] \in Nat
          BY <3>7, Numbers DEF IInv, PaidFor
        <4>4. exhausted # 0
          BY <4>2, <4>3, Numbers DEF IInv
        <4> QED
          BY <4>1, <4>2, <4>3, <4>4, Numbers DEF WrittenOff, IInv
      <3> QED
        BY <1>1, <3>1, <3>2, <3>3, <3>4, <3>5, <3>6, <3>7, Joins
    <2> QED
      BY <2>1, <2>2
  <1> QED
    BY <1>3, <1>6, <1>7 DEF Request

LEMMA Woken ==
  ASSUME IInv, TypeOK', NEW r \in Requests, Wake(r)
  PROVE  IInv'
  <1>1. /\ where[r] = "sleep" /\ Refresh /\ where' = [where EXCEPT ![r] = "wait"]
        /\ UNCHANGED <<cache, exhausted, deadline, wake, port, result, since, ended, world>>
    BY DEF Wake
  <1>2. where'[r] = "wait" /\ \A q \in Requests : q # r => where'[q] = where[q]
    BY <1>1 DEF IInv, TypeOK
  <1>3. \A q \in Requests : q # r => Untouched(q)
    BY <1>1, <1>2 DEF Untouched
  <1>4. /\ deadline[r] # 0 /\ deadline[r] = since[r] + Budget /\ now <= wake[r] /\ wake[r] <= deadline[r]
        /\ LayerOf[r] = "socket" => port[r] \in Endpoints
    BY <1>1 DEF IInv, WaitInv
  <1>5. now <= IF deadline'[r] # 0 THEN deadline'[r] ELSE since'[r]
    BY <1>1, <1>4, Numbers DEF IInv
  <1>6. ASSUME NEW d \in Requests, deadline'[r] # 0, PaidFor(d), since'[r] > ended[d]
        PROVE  now >= ended[d] + Ttl
    BY <1>1, <1>6, FirstPays DEF IInv
  <1> QED
    BY <1>1, <1>2, <1>3, <1>4, <1>5, <1>6, Joins
LEMMA Answered ==
  ASSUME IInv, TypeOK', ProbeAnswered
  PROVE  IInv'
  <1>1. /\ Asked /\ Head(probe.left) = probe.left[1] /\ 1 \in 1..Len(probe.left)
        /\ Head(probe.left) \in Targets /\ Head(probe.left) # None
    <2>1. probe.left \in Seq(Endpoints) /\ probe.left # <<>>
      BY Times DEF ProbeAnswered, IInv
    <2>2. Head(probe.left) = probe.left[1] /\ 1 \in 1..Len(probe.left) /\ Head(probe.left) \in Endpoints
      BY <2>1
    <2> QED
      BY <2>1, <2>2, UplinkAssumption DEF Asked, Targets
  <1>2. InCandidates(Head(probe.left), cfg) \/ BegunBy(cfgSince)
    BY <1>1 DEF IInv, ProbeInv
  <1> QED
    BY <1>1, <1>2, Ends DEF ProbeAnswered

LEMMA Refused ==
  ASSUME IInv, TypeOK', ProbeRefused
  PROVE  IInv'
  <1>1. Asked /\ probe.left \in Seq(Endpoints)
    BY Times DEF ProbeRefused, Asked, IInv
  <1>2. CASE Len(probe.left) = 1 /\ ProbeEnds(None)
    <2>1. ASSUME NEW e \in up, InCandidates(e, cfg)
          PROVE  now <= flipped[e] + Round \/ now <= cfgSince + Round
      <3>1. \/ \E i \in 1..Len(probe.left) : probe.left[i] = e
            \/ BegunBy(flipped[e]) \/ BegunBy(cfgSince)
        BY <1>1, <2>1 DEF IInv, ProbeInv
      <3>2. cfgSince \in Nat /\ flipped[e] \in Nat
        BY Numbers DEF IInv
      <3>3. CASE BegunBy(flipped[e]) \/ BegunBy(cfgSince)
        BY <1>1, <3>2, <3>3, OverInARound DEF IInv
      <3>4. CASE probe.left[1] = e
        <4>1. flipped[e] >= probe.at
          BY <1>1, <1>2, <3>4 DEF ProbeRefused
        <4>2. BegunBy(flipped[e])
          BY <3>2, <4>1, BegunNow, Numbers DEF IInv
        <4> QED
          BY <1>1, <3>2, <4>2, OverInARound DEF IInv
      <3> QED
        BY <1>2, <3>1, <3>3, <3>4
    <2>2. Denied(now)
      BY <2>1 DEF Denied
    <2> QED
      BY <1>1, <1>2, <2>2, Ends DEF Targets
  <1>3. CASE /\ Len(probe.left) > 1
             /\ probe' = [left |-> Tail(probe.left), at |-> now]
             /\ UNCHANGED <<cache, exhausted, requests, world>>
    <2>1. Head(probe.left) \in up => flipped[Head(probe.left)] >= probe.at
      BY DEF ProbeRefused
    <2> QED
      BY <1>1, <1>3, <2>1, Advances
  <1> QED
    BY <1>2, <1>3 DEF ProbeRefused

LEMMA Reconfigured ==
  ASSUME IInv, TypeOK', NEW c \in Configs, Reconfigure(c)
  PROVE  IInv'
  <1>1. /\ now' = now /\ cfg' = c /\ cfgSince' = now /\ up' = up /\ flipped' = flipped
        /\ cache'.at = 0 /\ exhausted' = 0 /\ probe' = probe
        /\ where' = where /\ deadline' = deadline /\ wake' = wake /\ port' = port
        /\ result' = result /\ since' = since /\ ended' = ended
    BY DEF Reconfigure, requests
  <1>2. probe'.at <= cfgSince' + (IF Len(probe'.left) = 2 THEN 0 ELSE ProbeTime)
    BY <1>1, Numbers DEF IInv
  <1>3. ProbeInv'
    BY <1>1, <1>2 DEF IInv, ProbeInv, BegunBy, Asked
  <1>4. WaitInv' /\ CacheInv' /\ ExhaustedInv'
    BY <1>1 DEF IInv, WaitInv, BegunBy, CacheInv, ExhaustedInv
  <1>5. FailedWait'
    BY <1>1, Numbers DEF IInv, FailedWait
  <1>6. OnlyFirstPays'
    <2>1. \A d \in Requests : ~(cfgSince' < ended'[d])
      BY <1>1, Numbers DEF IInv
    <2> QED
      BY <2>1 DEF OnlyFirstPays
  <1>7. ~Settled(cfgSince, Ttl + Round)'
    BY <1>1, Numbers DEF Settled, IInv
  <1>8. \A r \in Requests : Decided(r)' <=> Decided(r)
    BY <1>1 DEF Decided
  <1>9. AnsweredLately'
    BY <1>1, <1>7, <1>8 DEF IInv, AnsweredLately, Settled
  <1>10. Recovers'
    BY <1>7 DEF Recovers
  <1> QED
    BY <1>3, <1>4, <1>5, <1>6, <1>9, <1>10 DEF IInv

LEMMA Flipped ==
  ASSUME IInv, TypeOK', NEW s \in Endpoints, Flip(s)
  PROVE  IInv'
  <1>1. /\ now' = now /\ cfg' = cfg /\ cfgSince' = cfgSince
        /\ cache' = cache /\ exhausted' = exhausted /\ probe' = probe
        /\ where' = where /\ deadline' = deadline /\ wake' = wake /\ port' = port
        /\ result' = result /\ since' = since /\ ended' = ended
    BY DEF Flip, requests, resolver
  <1>2. /\ flipped'[s] = now
        /\ \A e \in Endpoints : e # s => flipped'[e] = flipped[e] /\ (e \in up' <=> e \in up)
        /\ up' \subseteq Endpoints
    BY Numbers DEF Flip, IInv, TypeOK
  <1>3. \A e : InCandidates(e, cfg)' <=> InCandidates(e, cfg)
    BY <1>1 DEF InCandidates, Candidates
  <1>4. probe.at <= now + (IF Len(probe.left) = 2 THEN 0 ELSE ProbeTime)
    BY Numbers DEF IInv
  <1>5. ProbeInv'
    <2> SUFFICES ASSUME Asked
                 PROVE  \A e \in up' : InCandidates(e, cfg) =>
                          \/ \E i \in 1..Len(probe.left) : probe.left[i] = e
                          \/ probe.at <= flipped'[e] + (IF Len(probe.left) = 2 THEN 0 ELSE ProbeTime)
                          \/ BegunBy(cfgSince)
      BY <1>1, <1>3 DEF IInv, ProbeInv, BegunBy, Asked
    <2> QED
      BY <1>2, <1>4 DEF IInv, ProbeInv, BegunBy
  <1>6. WaitInv'
    BY <1>1 DEF IInv, WaitInv, BegunBy
  <1>7. ASSUME NEW t \in Nat, t <= now, Denied(t)
        PROVE  \A e \in up' : InCandidates(e, cfg) => t <= flipped'[e] + Round \/ t <= cfgSince + Round
    BY <1>2, <1>7, Numbers DEF Denied, IInv
  <1>8. CacheInv'
    <2> SUFFICES ASSUME cache.at # 0
                 PROVE  /\ cache.target = None =>
                             \A e \in up' : InCandidates(e, cfg) =>
                               cache.at <= flipped'[e] + Round \/ cache.at <= cfgSince + Round
                        /\ cache.target # None =>
                             /\ cache.target \in up' \/ cache.at <= flipped'[cache.target]
                             /\ InCandidates(cache.target, cfg) \/ cache.at <= cfgSince + Round
      BY <1>1, <1>3 DEF CacheInv, Denied
    <2>1. CASE cache.target = None
      BY <1>7, <2>1, Numbers DEF IInv, CacheInv
    <2>2. CASE cache.target # None
      <3>1. cache.target \in Endpoints
        BY <2>2, Numbers DEF IInv, Targets
      <3> QED
        BY <1>2, <2>2, <3>1, Numbers DEF IInv, CacheInv
    <2> QED
      BY <2>1, <2>2
  <1>9. ExhaustedInv'
    BY <1>1, <1>3, <1>7, Numbers DEF IInv, ExhaustedInv, Denied
  <1>10. FailedWait'
    <2>1. \A d \in Requests : flipped'[s] >= ended'[d]
      BY <1>1, <1>2, Numbers DEF IInv
    <2> QED
      BY <2>1 DEF FailedWait
  <1>11. OnlyFirstPays'
    <2>1. \A d \in Requests : ~(flipped'[s] < ended'[d])
      BY <1>1, <1>2, Numbers DEF IInv
    <2> QED
      BY <2>1 DEF OnlyFirstPays
  <1>12. \A r \in Requests : Decided(r)' <=> Decided(r)
    BY <1>1 DEF Decided
  <1>13. ~(now - flipped'[s] > Ttl) /\ ~(now - flipped'[s] > Ttl + Round)
    BY <1>2, Numbers DEF IInv
  <1>14. AnsweredLately'
    <2> SUFFICES ASSUME NEW r \in Requests, Decided(r), LayerOf[r] = "stream", result[r] \in Endpoints
                 PROVE  /\ result[r] \in up' \/ ~(now - flipped'[result[r]] > Ttl)
                        /\ InCandidates(result[r], cfg) \/ ~(now - cfgSince > Ttl + Round)
      BY <1>1, <1>3, <1>12 DEF AnsweredLately, Settled
    <2>1. /\ result[r] \in up \/ ~(now - flipped[result[r]] > Ttl)
          /\ InCandidates(result[r], cfg) \/ ~(now - cfgSince > Ttl + Round)
      BY DEF IInv, AnsweredLately, Settled
    <2> QED
      BY <1>2, <1>13, <2>1
  <1>15. Recovers'
    <2> SUFFICES ASSUME NEW r \in Requests, Decided(r), result[r] \in {"upstream", "failed"},
                        NEW e \in up', InCandidates(e, cfg)
                 PROVE  ~(now - flipped'[e] > Ttl + Round) \/ ~(now - cfgSince > Ttl + Round)
      BY <1>1, <1>3, <1>12 DEF Recovers, Settled
    <2>1. CASE e = s
      BY <1>13, <2>1
    <2>2. CASE e # s
      <3>1. e \in up /\ flipped'[e] = flipped[e]
        BY <1>2, <2>2
      <3> QED
        BY <3>1 DEF IInv, Recovers, Settled
    <2> QED
      BY <2>1, <2>2
  <1> QED
    BY <1>5, <1>6, <1>8, <1>9, <1>10, <1>11, <1>14, <1>15 DEF IInv

LEMMA Ticked ==
  ASSUME IInv, TypeOK', Tick
  PROVE  IInv'
  <1>1. /\ now' = now + 1 /\ cfg' = cfg /\ cfgSince' = cfgSince /\ up' = up /\ flipped' = flipped
        /\ cache' = cache /\ exhausted' = exhausted /\ probe' = probe
        /\ where' = where /\ deadline' = deadline /\ wake' = wake /\ port' = port
        /\ result' = result /\ since' = since /\ ended' = ended
    BY DEF Tick, requests, resolver
  <1>2. \A e : InCandidates(e, cfg)' <=> InCandidates(e, cfg)
    BY <1>1 DEF InCandidates, Candidates
  <1>3. ProbeInv'
    <2>1. Asked => now + 1 <= probe.at + ProbeTime
      BY Numbers DEF Tick, Asked, IInv
    <2> QED
      BY <1>1, <1>2, <2>1 DEF IInv, ProbeInv, BegunBy, Asked
  <1>4. WaitInv'
    <2>1. \A r \in Requests : where[r] = "sleep" => now + 1 <= wake[r]
      BY Numbers DEF Tick, IInv
    <2> QED
      BY <1>1, <2>1 DEF IInv, WaitInv, BegunBy
  <1>5. CacheInv' /\ ExhaustedInv'
    BY <1>1, <1>2 DEF IInv, CacheInv, ExhaustedInv, Denied
  <1>6. FailedWait'
    BY <1>1 DEF IInv, FailedWait
  <1>7. OnlyFirstPays'
    <2> SUFFICES ASSUME NEW q \in Requests, NEW d \in Requests,
                        where'[q] \in {"wait", "sleep"}, deadline'[q] # 0, PaidFor(d)', since'[q] > ended'[d]
                 PROVE  now' >= ended'[d] + Ttl
      BY DEF OnlyFirstPays, PaidFor
    <2>1. PaidFor(d) /\ now >= ended[d] + Ttl
      BY <1>1, FirstPays DEF PaidFor, IInv
    <2> QED
      BY <1>1, <2>1, Numbers DEF IInv
  <1>8. \A r \in Requests : ~Decided(r)'
    BY <1>1, Numbers DEF Decided, IInv
  <1>9. AnsweredLately' /\ Recovers'
    BY <1>8 DEF AnsweredLately, Recovers
  <1> QED
    BY <1>3, <1>4, <1>5, <1>6, <1>7, <1>9 DEF IInv
LEMMA InitInv ==
  ASSUME Init
  PROVE  IInv
  <1>1. /\ ~Asked /\ cache.at = 0 /\ exhausted = 0
        /\ \A r \in Requests : where[r] = "new" /\ deadline[r] = 0
    BY DEF Init, Asked
  <1>2. ProbeInv /\ WaitInv /\ CacheInv /\ ExhaustedInv
    BY <1>1 DEF ProbeInv, WaitInv, CacheInv, ExhaustedInv
  <1>3. FailedWait /\ OnlyFirstPays /\ AnsweredLately /\ Recovers
    BY <1>1 DEF FailedWait, OnlyFirstPays, AnsweredLately, Recovers, Decided
  <1> QED
    BY <1>2, <1>3, TypeInit DEF IInv

LEMMA StepInv ==
  ASSUME IInv, [Next]_vars
  PROVE  IInv'
  <1>1. TypeOK'
    BY TypeStep DEF IInv
  <1>2. CASE \E r \in Requests : Request(r) \/ Wake(r)
    BY <1>1, <1>2, Requested, Woken
  <1>3. CASE ProbeAnswered \/ ProbeRefused
    BY <1>1, <1>3, Answered, Refused
  <1>4. CASE \E c \in Configs : Reconfigure(c)
    BY <1>1, <1>4, Reconfigured
  <1>5. CASE \E e \in Endpoints : Flip(e)
    BY <1>1, <1>5, Flipped
  <1>6. CASE Tick
    BY <1>1, <1>6, Ticked
  <1>7. CASE UNCHANGED vars
    <2>1. /\ now' = now /\ cfg' = cfg /\ cfgSince' = cfgSince /\ up' = up /\ flipped' = flipped
          /\ cache' = cache /\ exhausted' = exhausted /\ probe' = probe
          /\ where' = where /\ deadline' = deadline /\ wake' = wake /\ port' = port
          /\ result' = result /\ since' = since /\ ended' = ended
      BY <1>7 DEF vars, requests, resolver, world
    <2>2. \A e : InCandidates(e, cfg)' <=> InCandidates(e, cfg)
      BY <2>1 DEF InCandidates, Candidates
    <2>3. ProbeInv' /\ WaitInv'
      BY <2>1, <2>2 DEF IInv, ProbeInv, WaitInv, BegunBy, Asked
    <2>4. CacheInv' /\ ExhaustedInv'
      BY <2>1, <2>2 DEF IInv, CacheInv, ExhaustedInv, Denied
    <2>5. FailedWait'
      BY <2>1 DEF IInv, FailedWait
    <2>6. OnlyFirstPays'
      BY <2>1 DEF IInv, OnlyFirstPays
    <2>7. \A r \in Requests : Decided(r)' <=> Decided(r)
      BY <2>1 DEF Decided
    <2>8. AnsweredLately'
      BY <2>1, <2>2, <2>7 DEF IInv, AnsweredLately, Settled
    <2>9. Recovers'
      BY <2>1, <2>2, <2>7 DEF IInv, Recovers, Settled
    <2> QED
      BY <1>1, <2>3, <2>4, <2>5, <2>6, <2>8, <2>9 DEF IInv
  <1> QED
    BY <1>2, <1>3, <1>4, <1>5, <1>6, <1>7 DEF Next

LEMMA AlwaysInv == Spec => []IInv
  BY InitInv, StepInv, PTL DEF Spec
-----------------------------------------------------------------------------
(* What a request can rely on                                              *)

\* A request that waits has joined a probe within its budget, and one that
\* sleeps wakes within it: neither is held longer than the budget and a round of
\* probes (waitForTarget, "Waits up to budgetMs for a healthy server").
THEOREM HoldsAreBounded == Spec => []HeldBounded
  <1>1. IInv => HeldBounded
    <2> SUFFICES ASSUME IInv, NEW r \in Requests, where[r] \in {"wait", "sleep"}
                 PROVE  now <= since[r] + (IF deadline[r] # 0 THEN Budget ELSE 0) + Round
      BY DEF HeldBounded
    <2> DEFINE end == IF deadline[r] # 0 THEN deadline[r] ELSE since[r]
    <2>1. end = since[r] + (IF deadline[r] # 0 THEN Budget ELSE 0) /\ end \in Nat
      BY Numbers DEF IInv, WaitInv
    <2>2. CASE where[r] = "wait"
      <3>1. Asked /\ BegunBy(end)
        BY <2>2 DEF IInv, TypeOK, WaitInv, Asked
      <3>2. now <= end + Round
        BY <2>1, <3>1, OverInARound DEF IInv
      <3> QED
        BY <2>1, <3>2
    <2>3. CASE where[r] = "sleep"
      <3>1. deadline[r] # 0 /\ now <= deadline[r]
        BY <2>3, Numbers DEF IInv, WaitInv
      <3> QED
        BY <2>1, <3>1, Numbers DEF IInv
    <2> QED
      BY <2>2, <2>3
  <1> QED
    BY <1>1, AlwaysInv, PTL

\* Once a wait has run its whole budget in vain, no request that comes later is
\* held until a TTL has passed or something has changed (exhaustedAt in
\* waitForTarget, invalidate).
THEOREM OneRequestPays == Spec => []OnlyFirstPays
  <1>1. IInv => OnlyFirstPays
    BY DEF IInv
  <1> QED
    BY <1>1, AlwaysInv, PTL

\* Where a request goes follows the servers and the configuration: what the
\* cache, the shared probe and a failed wait remember is never older than a TTL
\* and a round of probes (cached, refresh, waitForTarget).
THEOREM DecisionsFollowServers == Spec => []FollowsServers
  <1>1. IInv => FollowsServers
    BY DEF IInv, FollowsServers
  <1> QED
    BY <1>1, AlwaysInv, PTL
=============================================================================
