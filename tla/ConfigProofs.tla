------------------------------ MODULE ConfigProofs ------------------------------
(***************************************************************************)
(* Proofs about what is kept in files.  ConfigStore and ConfigFeed: types, *)
(* revision numbers and last-known-good retention for any number of stores,*)
(* writes and restarts, and the feed's promise for any number of renderers.*)
(* DescriptorStore: the server's schema follows its document, for any      *)
(* number of documents and releases.  KnowledgeStore: what was acknowledged*)
(* is kept, for any number of servers and notes.  LiteralReader: whatever  *)
(* the text, the reader moves on, and ends where the brackets match.       *)
(***************************************************************************)
EXTENDS
  ConfigFeed, KnowledgeStore, DescriptorStore, LiteralReader,
  WellFoundedInduction, SequenceTheorems, TLAPS

-----------------------------------------------------------------------------
(* Facts about the operators.                                              *)

LEMMA DefaultIsDoc == Default \in Docs
  BY DEF Default, Docs

\* What is built from a file and a number is a revision, with that number.
LEMMA BuildIsRevision ==
  ASSUME NEW f \in Files, NEW n \in Nat
  PROVE  /\ Build(f, n) \in Revisions
         /\ Build(f, n).revision = n
         /\ Build(f, n).status = f.status
         /\ Build(f, n).doc \in Docs
  BY DefaultIsDoc DEF Build, Files, Revisions

LEMMA CompleteIsFile ==
  ASSUME NEW d \in Docs
  PROVE  Complete(d) \in Files /\ Complete(d).status = "loaded"
  BY DEF Complete, Files, Statuses

LEMMA BrokenIsFile ==
  /\ Missing \in Files
  /\ \A d \in Docs : Damaged(d) \in Files
  BY DefaultIsDoc DEF Missing, Damaged, Files, Statuses

\* Changing one field of a document gives a document.
LEMMA EditedIsDoc ==
  ASSUME NEW d \in Docs
  PROVE  /\ [d EXCEPT !.byok = ~ @] \in Docs
         /\ \A w \in 0..1 : [d EXCEPT !.web = w] \in Docs
  BY DEF Docs

-----------------------------------------------------------------------------
(* Steps of a store, and of the writers, one kind of effect at a time.     *)

\* The effect of a reload on revisions and counters.
LEMMA ReloadEffect ==
  ASSUME TypeOK, NEW s \in Stores, NEW f \in Files, Reload(s, f)
  PROVE  /\ active' \in [Stores -> Revisions]
         /\ counter' \in [Stores -> Nat]
         /\ loaded' \in Nat
         /\ \A t \in Stores : t # s => active'[t] = active[t] /\ counter'[t] = counter[t]
         /\ \/ active'[s] = active[s] /\ counter'[s] = counter[s]
            \/ /\ active'[s] = Build(f, counter[s] + 1)
               /\ counter'[s] = counter[s] + 1
               /\ f.status # "invalid" \/ active[s].status = "invalid"
  <1>1. counter[s] + 1 \in Nat
    BY DEF TypeOK
  <1>2. Build(f, counter[s] + 1) \in Revisions /\ Build(f, counter[s] + 1).status = f.status
    BY <1>1, BuildIsRevision
  <1> QED
    BY <1>1, <1>2 DEF Reload, TypeOK

\* What a step that is not a store's own leaves of the stores' state.
LEMMA WriteEffect ==
  ASSUME TypeOK, ServerAssumption, Write
  PROVE  /\ up' = up
         /\ UNCHANGED <<active, counter, loaded>> \/ (up[Server] /\ \E f \in Files : f.status = "loaded" /\ Reload(Server, f))
  <1>1. CASE Toggle
    <2>1. active[Server].doc \in Docs
      BY DEF TypeOK, Revisions, ServerAssumption
    <2>2. [active[Server].doc EXCEPT !.byok = ~ @] \in Docs
      BY <2>1, EditedIsDoc
    <2> QED
      BY <1>1, <2>2, CompleteIsFile DEF Toggle
  <1> QED
    BY <1>1 DEF Write, PanelSave, FallbackToggle, ExtWrite, Install, HandSave, HandBegin,
        HandFinish, HandProviders, store

-----------------------------------------------------------------------------
(* Type correctness.                                                       *)

LEMMA InitType == ASSUME Init PROVE TypeOK
  <1>1. file \in Files
    BY CompleteIsFile, BrokenIsFile DEF Init
  <1>2. Build(Missing, 0) \in Revisions
    BY BrokenIsFile, BuildIsRevision
  <1> QED
    BY <1>1, <1>2 DEF Init, TypeOK

LEMMA WriteType ==
  ASSUME TypeOK, ServerAssumption, Write
  PROVE  TypeOK'
  <1>1. /\ up' \in [Stores -> BOOLEAN]
        /\ active' \in [Stores -> Revisions]
        /\ counter' \in [Stores -> Nat]
        /\ loaded' \in Nat
    BY WriteEffect, ReloadEffect DEF TypeOK, ServerAssumption
  <1>2. watching' = watching /\ timer' = timer /\ outages' = outages
    BY DEF Write, Toggle, PanelSave, FallbackToggle, ExtWrite, Install, HandSave, HandBegin,
       HandFinish, HandProviders, store
  <1>3. /\ file' \in Files
        /\ hand' \in SUBSET Docs
        /\ ext' \in SUBSET Edits
    <2>1. CASE Toggle
      <3>1. active[Server].doc \in Docs
        BY DEF TypeOK, Revisions, ServerAssumption
      <3> QED
        BY <2>1, <3>1, EditedIsDoc, CompleteIsFile DEF Toggle, Replace, TypeOK
    <2>2. CASE \E w \in 0..1 : PanelSave(w)
      <3>1. Build(file, 0).doc \in Docs /\ file \in Files
        BY BuildIsRevision DEF TypeOK
      <3>2. PICK w \in 0..1 : PanelSave(w)
        BY <2>2
      <3>3. [Build(file, 0).doc EXCEPT !.web = w] \in Docs
        BY <3>1, EditedIsDoc
      <3> QED
        BY <3>1, <3>2, <3>3 DEF PanelSave, Edits, TypeOK
    <2>3. CASE FallbackToggle
      <3>1. Build(file, 0).doc \in Docs /\ file \in Files
        BY BuildIsRevision DEF TypeOK
      <3>2. [Build(file, 0).doc EXCEPT !.byok = ~ @] \in Docs
        BY <3>1, EditedIsDoc
      <3> QED
        BY <2>3, <3>1, <3>2 DEF FallbackToggle, Edits, TypeOK
    <2>4. CASE ExtWrite
      BY <2>4, CompleteIsFile DEF ExtWrite, Replace, Edits, TypeOK
    <2>5. CASE Install
      BY <2>5, CompleteIsFile, DefaultIsDoc DEF Install, Replace, TypeOK
    <2>6. CASE \E d \in HandDocs : HandSave(d)
      BY <2>6, CompleteIsFile DEF HandSave, HandDocs, Replace, TypeOK
    <2>7. CASE \E d \in HandDocs : HandBegin(d)
      BY <2>7, BrokenIsFile DEF HandBegin, HandDocs, TypeOK
    <2>8. CASE HandFinish
      BY <2>8, CompleteIsFile DEF HandFinish, Replace, TypeOK
    <2>9. CASE HandProviders
      BY <2>9 DEF HandProviders, TypeOK
    <2> QED
      BY <2>1, <2>2, <2>3, <2>4, <2>5, <2>6, <2>7, <2>8, <2>9 DEF Write
  <1>4. home' \in BOOLEAN
    BY DEF Write, Toggle, PanelSave, FallbackToggle, ExtWrite, Install, HandSave, HandBegin,
       HandFinish, HandProviders, Replace, TypeOK
  <1>5. providers' \in Nat /\ writes' \in Nat
    <2>1. providers \in Nat /\ writes \in Nat
      BY DEF TypeOK
    <2> QED
      BY <2>1 DEF Write, Toggle, PanelSave, FallbackToggle, ExtWrite, Install, HandSave,
         HandBegin, HandFinish, HandProviders, Start
  <1>6. events' \in [Stores -> SUBSET {"config", "providers"}]
    BY DEF Write, Toggle, PanelSave, FallbackToggle, ExtWrite, Install, HandSave, HandBegin,
       HandFinish, HandProviders, Replace, Reported, store, TypeOK
  <1> QED
    BY <1>1, <1>2, <1>3, <1>4, <1>5, <1>6 DEF TypeOK

LEMMA StepType ==
  ASSUME TypeOK, NEW s \in Stores, Step(s)
  PROVE  TypeOK'
  <1>1. CASE Open(s)
    <2>1. Build(file, 1) \in Revisions
      BY BuildIsRevision DEF TypeOK
    <2> QED
      BY <1>1, <2>1 DEF Open, TypeOK
  <1>2. CASE Close(s)
    BY <1>2 DEF Close, disk, TypeOK
  <1>3. CASE FsEvent(s)
    BY <1>3 DEF FsEvent, disk, TypeOK
  <1>4. CASE TimerFires(s)
    <2>1. Reload(s, file) /\ file \in Files
      BY <1>4 DEF TimerFires, TypeOK
    <2> QED
      BY <1>4, <2>1, ReloadEffect DEF TimerFires, disk, TypeOK
  <1> QED
    BY <1>1, <1>2, <1>3, <1>4 DEF Step

LEMMA NextType ==
  ASSUME TypeOK, ServerAssumption, [Next]_vars
  PROVE  TypeOK'
  <1>1. CASE UNCHANGED vars
    BY <1>1 DEF vars, disk, store, TypeOK
  <1> QED
    BY <1>1, WriteType, StepType DEF Next

\* The documents, revisions, counters and timers stay what they are declared
\* to be, for any stores and any bounds.
THEOREM TypeCorrect == Spec => []TypeOK
  <1> USE ServerAssumption
  <1>1. Init => TypeOK
    BY InitType
  <1>2. TypeOK /\ [Next]_vars => TypeOK'
    BY NextType
  <1> QED
    BY <1>1, <1>2, PTL DEF Spec

-----------------------------------------------------------------------------
(* Revision numbers.                                                       *)

\* The number of the published revision is the store's counter, although a
\* retained reload takes a number and gives it back.
Counted == \A s \in Stores : up[s] => active[s].revision = counter[s]

LEMMA CountedStep ==
  ASSUME TypeOK, ServerAssumption, Counted, [Next]_vars
  PROVE  Counted'
  <1>1. CASE UNCHANGED vars
    BY <1>1 DEF vars, store, Counted
  <1>2. ASSUME NEW s \in Stores, NEW f \in Files, Reload(s, f), up' = up PROVE Counted'
    <2>1. counter[s] + 1 \in Nat
      BY DEF TypeOK
    <2>2. Build(f, counter[s] + 1).revision = counter[s] + 1
      BY <2>1, BuildIsRevision
    <2> QED
      BY <1>2, <2>2, ReloadEffect DEF Counted
  <1>3. CASE Write
    BY <1>2, <1>3, WriteEffect DEF Counted, ServerAssumption
  <1>4. ASSUME NEW s \in Stores, Step(s) PROVE Counted'
    <2>1. CASE Open(s)
      <3>1. Build(file, 1).revision = 1
        BY BuildIsRevision DEF TypeOK
      <3> QED
        BY <2>1, <3>1 DEF Open, Counted, TypeOK
    <2>2. CASE Close(s)
      BY <2>2 DEF Close, Counted, TypeOK
    <2>3. CASE FsEvent(s)
      BY <2>3 DEF FsEvent, Counted
    <2>4. CASE TimerFires(s)
      <3>1. Reload(s, file) /\ file \in Files /\ up' = up
        BY <2>4 DEF TimerFires, TypeOK
      <3> QED
        BY <3>1, <1>2
    <2> QED
      BY <1>4, <2>1, <2>2, <2>3, <2>4 DEF Step
  <1> QED
    BY <1>1, <1>3, <1>4 DEF Next

\* In one process, a revision number is given to one published document only,
\* and later documents have later numbers, although a retained reload takes a
\* number and gives it back (store.ts:94).
RevisionsGrow ==
    [][\A s \in Stores :
          up[s] /\ up'[s] /\ active'[s] # active[s]
          => active'[s].revision > active[s].revision]_vars

\* Later documents have later numbers, and a number is not given twice.
THEOREM NumbersGrow == Spec => RevisionsGrow
  <1> USE ServerAssumption
  <1> DEFINE Grow == \A s \in Stores : up[s] /\ up'[s] /\ active'[s] # active[s]
                                        => active'[s].revision > active[s].revision
  <1>1. Init => TypeOK /\ Counted
    BY InitType DEF Init, Counted
  <1>2. TypeOK /\ Counted /\ [Next]_vars => TypeOK' /\ Counted'
    BY NextType, CountedStep
  <1>3. TypeOK /\ Counted /\ [Next]_vars => [Grow]_vars
    <2> SUFFICES ASSUME TypeOK, Counted, Next, NEW t \in Stores, up[t], up'[t], active'[t] # active[t]
                 PROVE  active'[t].revision > active[t].revision
      OBVIOUS
    <2>1. counter[t] \in Nat /\ active[t].revision = counter[t]
      BY DEF TypeOK, Counted
    <2>2. ASSUME NEW s \in Stores, NEW f \in Files, Reload(s, f)
          PROVE  active'[t] = Build(f, counter[t] + 1)
      BY <2>2, ReloadEffect
    <2>3. ASSUME NEW f \in Files PROVE Build(f, counter[t] + 1).revision = counter[t] + 1
      BY <2>1, BuildIsRevision
    <2>4. CASE Write
      BY <2>4, <2>1, <2>2, <2>3, WriteEffect DEF ServerAssumption
    <2>5. ASSUME NEW s \in Stores, Step(s) PROVE active'[t].revision > active[t].revision
      <3>1. CASE Open(s)
        BY <3>1 DEF Open, TypeOK
      <3>2. CASE Close(s) \/ FsEvent(s)
        BY <3>2 DEF Close, FsEvent
      <3>3. CASE TimerFires(s)
        <4>1. Reload(s, file) /\ file \in Files
          BY <3>3 DEF TimerFires, TypeOK
        <4> QED
          BY <4>1, <2>1, <2>2, <2>3
      <3> QED
        BY <2>5, <3>1, <3>2, <3>3 DEF Step
    <2> QED
      BY <2>4, <2>5 DEF Next
  <1> QED
    BY <1>1, <1>2, <1>3, PTL DEF Spec, RevisionsGrow

-----------------------------------------------------------------------------
(* The last good revision.                                                 *)

\* No step takes a store from a good document to another kind of revision while
\* the document is there.
Kept == \A s \in Stores : up[s] /\ up'[s] /\ active[s].status = "loaded" /\ file.status # "absent"
                            => active'[s].status = "loaded"

LEMMA KeptStep ==
  ASSUME TypeOK, ServerAssumption, [Next]_vars
  PROVE  [Kept]_vars
  <1>1. ASSUME Next PROVE Kept
    <2> SUFFICES ASSUME NEW t \in Stores,
                        up[t], up'[t], active[t].status = "loaded", file.status # "absent"
                 PROVE  active'[t].status = "loaded"
      BY DEF Kept
    <2>1. ASSUME NEW s \in Stores, NEW f \in Files, f.status # "absent", Reload(s, f)
          PROVE  active'[t].status = "loaded"
      <3>1. counter[s] + 1 \in Nat
        BY DEF TypeOK
      <3>2. Build(f, counter[s] + 1).status = f.status
        BY <3>1, BuildIsRevision
      <3>3. f.status \in {"invalid", "loaded"}
        BY <2>1 DEF Files, Statuses
      <3> QED
        BY <2>1, <3>2, <3>3, ReloadEffect
    <2>2. CASE Write
      BY <2>1, <2>2, WriteEffect DEF ServerAssumption
    <2>3. ASSUME NEW s \in Stores, Step(s) PROVE active'[t].status = "loaded"
      <3>1. CASE Open(s)
        BY <3>1 DEF Open, TypeOK
      <3>2. CASE Close(s) \/ FsEvent(s)
        BY <3>2 DEF Close, FsEvent
      <3>3. CASE TimerFires(s)
        <4>1. Reload(s, file) /\ file \in Files /\ file.status # "absent"
          BY <3>3 DEF TimerFires, TypeOK
        <4> QED
          BY <4>1, <2>1
      <3> QED
        BY <2>3, <3>1, <3>2, <3>3 DEF Step
    <2> QED
      BY <1>1, <2>2, <2>3 DEF Next
  <1> QED
    BY <1>1

\* A store that has published a good document never falls back to the defaults
\* while the document is there.
THEOREM LastGoodRetained == Spec => LastGoodKept
  <1> USE ServerAssumption
  <1>1. Init => TypeOK
    BY InitType
  <1>2. TypeOK /\ [Next]_vars => TypeOK'
    BY NextType
  <1>3. TypeOK /\ [Next]_vars => [Kept]_vars
    BY KeptStep
  <1> QED
    BY <1>1, <1>2, <1>3, PTL DEF Spec, LastGoodKept, Kept

-----------------------------------------------------------------------------
(* The feed.                                                               *)

\* The newest document on its way to a renderer, or the one it has.
Latest(r) == IF stream[r] = <<>> THEN view[r] ELSE stream[r][Len(stream[r])]

\* The inductive invariant of the feed: a stream is open only to a server that
\* runs, and the newest document in it is what that server has active.
FeedInv ==
    \A r \in Renderers :
        /\ subscribed[r] => up[Server] /\ Latest(r) = Sent(active[Server].doc)
        /\ ~subscribed[r] => stream[r] = <<>>

LEMMA SentIsView == ASSUME NEW d \in Docs PROVE Sent(d) \in Views
  BY DEF Docs, Sent, Views

\* The last element of a sequence after one is appended, and after the first
\* of several is taken.
LEMMA LastOfAppend ==
  ASSUME NEW q \in Seq(Views), NEW v \in Views
  PROVE  /\ Append(q, v) \in Seq(Views)
         /\ Append(q, v) # <<>>
         /\ Append(q, v)[Len(Append(q, v))] = v
  OBVIOUS

LEMMA LastOfTail ==
  ASSUME NEW q \in Seq(Views), q # <<>>
  PROVE  /\ Head(q) \in Views
         /\ Tail(q) \in Seq(Views)
         /\ Tail(q) = <<>> => Head(q) = q[Len(q)]
         /\ Tail(q) # <<>> => Tail(q)[Len(Tail(q))] = q[Len(q)]
  <1>1. /\ Len(q) \in Nat /\ Len(q) > 0
        /\ Head(q) = q[1]
        /\ Tail(q) \in Seq(Views)
        /\ Len(Tail(q)) = Len(q) - 1
        /\ \A i \in 1 .. Len(q) - 1 : Tail(q)[i] = q[i + 1]
    OBVIOUS
  <1>2. q[1] \in Views
    BY <1>1
  <1>3. Tail(q) = <<>> => Len(q) = 1
    BY <1>1
  <1>4. ASSUME Tail(q) # <<>> PROVE Tail(q)[Len(Tail(q))] = q[Len(q)]
    <2>1. Len(Tail(q)) > 0
      BY <1>1, <1>4
    <2> QED
      BY <1>1, <2>1
  <1> QED
    BY <1>1, <1>2, <1>3, <1>4

LEMMA FeedTypeStep ==
  ASSUME TypeOK, FeedTypeOK, ServerAssumption, [FeedNext]_feedVars
  PROVE  TypeOK' /\ FeedTypeOK'
  <1>1. CASE UNCHANGED feedVars
    <2>1. UNCHANGED vars /\ UNCHANGED feed
      BY <1>1 DEF feedVars
    <2>2. TypeOK'
      BY <2>1, NextType
    <2>3. FeedTypeOK'
      BY <2>1, <2>2 DEF feed, FeedTypeOK
    <2> QED
      BY <2>2, <2>3
  <1>2. CASE Next /\ React
    <2>1. TypeOK'
      BY <1>2, NextType
    <2>2. Sent(active'[Server].doc) \in Views
      BY <2>1, SentIsView DEF TypeOK, Revisions, ServerAssumption
    <2>3. \A r \in Renderers : Append(stream[r], Sent(active'[Server].doc)) \in Seq(Views)
      BY <2>2, LastOfAppend DEF FeedTypeOK
    <2>4. <<>> \in Seq(Views)
      OBVIOUS
    <2>5. CASE Hangup
      BY <2>1, <2>4, <2>5 DEF Hangup, FeedTypeOK
    <2>6. CASE Broadcast(active'[Server].doc)
      BY <2>1, <2>3, <2>6 DEF Broadcast, FeedTypeOK
    <2>7. CASE UNCHANGED feed
      BY <2>1, <2>7 DEF feed, FeedTypeOK
    <2> QED
      BY <1>2, <2>5, <2>6, <2>7 DEF React
  <1>3. ASSUME NEW r \in Renderers, Connect(r) PROVE TypeOK' /\ FeedTypeOK'
    <2>1. TypeOK'
      BY <1>3, NextType DEF Connect
    <2>2. Sent(active[Server].doc) \in Views
      BY SentIsView DEF TypeOK, Revisions, ServerAssumption
    <2>3. Append(stream[r], Sent(active[Server].doc)) \in Seq(Views)
      BY <2>2, LastOfAppend DEF FeedTypeOK
    <2> QED
      BY <1>3, <2>1, <2>3 DEF Connect, FeedTypeOK
  <1>4. ASSUME NEW r \in Renderers, Deliver(r) PROVE TypeOK' /\ FeedTypeOK'
    <2>1. TypeOK'
      BY <1>4, NextType DEF Deliver
    <2>2. Head(stream[r]) \in Views /\ Tail(stream[r]) \in Seq(Views)
      BY <1>4, LastOfTail DEF Deliver, FeedTypeOK
    <2> QED
      BY <1>4, <2>1, <2>2 DEF Deliver, FeedTypeOK
  <1>5. ASSUME NEW r \in Renderers, Drop(r) PROVE TypeOK' /\ FeedTypeOK'
    <2>1. TypeOK'
      BY <1>5 DEF Drop, disk, TypeOK
    <2>2. Baked \in Views
      BY DefaultIsDoc, SentIsView DEF Baked
    <2> QED
      BY <1>5, <2>1, <2>2 DEF Drop, FeedTypeOK
  <1> QED
    BY <1>1, <1>2, <1>3, <1>4, <1>5 DEF FeedNext

LEMMA FeedInvStep ==
  ASSUME TypeOK, FeedTypeOK, FeedInv, ServerAssumption, [FeedNext]_feedVars
  PROVE  FeedInv'
  <1>0. \A r \in Renderers : stream[r] \in Seq(Views)
    BY DEF FeedTypeOK
  <1>1. CASE UNCHANGED feedVars
    BY <1>1 DEF feedVars, feed, vars, store, FeedInv, Latest
  <1>2. CASE Next /\ React
    <2>1. CASE Ended
      BY <1>2, <2>1 DEF React, Hangup, FeedInv
    <2>2. CASE ~Ended /\ Published
      <3>1. TypeOK'
        BY <1>2, NextType
      <3>2. Sent(active'[Server].doc) \in Views
        BY <3>1, SentIsView DEF TypeOK, Revisions, ServerAssumption
      <3> DEFINE d == Sent(active'[Server].doc)
      <3>3. \A r \in Renderers : /\ Append(stream[r], d) # <<>>
                                 /\ Append(stream[r], d)[Len(Append(stream[r], d))] = d
        BY <1>0, <3>2, LastOfAppend
      <3>4. /\ subscribed' = subscribed
            /\ stream' = [r \in Renderers |-> IF subscribed[r] THEN Append(stream[r], d) ELSE stream[r]]
            /\ up'[Server]
        BY <1>2, <2>2 DEF React, Broadcast, Published
      <3> QED
        BY <3>3, <3>4 DEF FeedInv, Latest
    <2>3. CASE ~Ended /\ ~Published
      <3>1. subscribed' = subscribed /\ stream' = stream /\ view' = view
        BY <1>2, <2>3 DEF React, feed
      <3>2. up[Server] => up'[Server] /\ active'[Server] = active[Server]
        BY <2>3 DEF Ended, Published
      <3> QED
        BY <3>1, <3>2 DEF FeedInv, Latest
    <2> QED
      BY <2>1, <2>2, <2>3
  <1>3. ASSUME NEW r \in Renderers, Connect(r) PROVE FeedInv'
    <2>1. Sent(active[Server].doc) \in Views
      BY SentIsView DEF TypeOK, Revisions, ServerAssumption
    <2> DEFINE q == Append(stream[r], Sent(active[Server].doc))
    <2>2. q # <<>> /\ q[Len(q)] = Sent(active[Server].doc)
      BY <1>0, <2>1, LastOfAppend
    <2>3. /\ stream' = [stream EXCEPT ![r] = q]
          /\ subscribed' = [subscribed EXCEPT ![r] = TRUE]
          /\ view' = view /\ up' = up /\ active' = active /\ up[Server]
      BY <1>3 DEF Connect, vars, store
    <2> HIDE DEF q
    <2> QED
      BY <2>2, <2>3 DEF FeedInv, Latest, FeedTypeOK
  <1>4. ASSUME NEW r \in Renderers, Deliver(r) PROVE FeedInv'
    <2> DEFINE q == stream[r]
    <2>1. /\ q \in Seq(Views) /\ q # <<>>
          /\ stream' = [stream EXCEPT ![r] = Tail(q)]
          /\ view' = [view EXCEPT ![r] = Head(q)]
          /\ subscribed' = subscribed /\ up' = up /\ active' = active
      BY <1>0, <1>4 DEF Deliver, vars, store
    <2>2. /\ Tail(q) = <<>> => Head(q) = q[Len(q)]
          /\ Tail(q) # <<>> => Tail(q)[Len(Tail(q))] = q[Len(q)]
      BY <2>1, LastOfTail
    <2>3. subscribed[r] /\ Latest(r) = q[Len(q)]
      BY <2>1 DEF FeedInv, Latest
    <2>4. Latest(r)' = Latest(r)
      BY <2>1, <2>2, <2>3 DEF Latest, FeedTypeOK
    <2>5. \A t \in Renderers : t # r => stream'[t] = stream[t] /\ view'[t] = view[t]
      BY <2>1 DEF FeedTypeOK
    <2> HIDE DEF q
    <2> QED
      BY <2>1, <2>3, <2>4, <2>5 DEF FeedInv, Latest
  <1>5. ASSUME NEW r \in Renderers, Drop(r) PROVE FeedInv'
    <2>1. /\ stream' = [stream EXCEPT ![r] = <<>>]
          /\ subscribed' = [subscribed EXCEPT ![r] = FALSE]
          /\ \A t \in Renderers : t # r => view'[t] = view[t]
          /\ up' = up /\ active' = active
      BY <1>5 DEF Drop, FeedTypeOK
    <2> QED
      BY <2>1 DEF FeedInv, Latest, FeedTypeOK
  <1> QED
    BY <1>1, <1>2, <1>3, <1>4, <1>5 DEF FeedNext

\* The feed's invariant, with the types it rests on.
THEOREM FeedInvariance == FeedSpec => [](TypeOK /\ FeedTypeOK /\ FeedInv)
  <1> USE ServerAssumption
  <1>1. FeedInit => TypeOK /\ FeedTypeOK /\ FeedInv
    <2> SUFFICES ASSUME FeedInit PROVE TypeOK /\ FeedTypeOK /\ FeedInv
      OBVIOUS
    <2>1. TypeOK
      BY InitType DEF FeedInit
    <2>2. Baked \in Views
      BY DefaultIsDoc, SentIsView DEF Baked
    <2> QED
      BY <2>1, <2>2 DEF FeedInit, FeedTypeOK, FeedInv
  <1>2. TypeOK /\ FeedTypeOK /\ FeedInv /\ [FeedNext]_feedVars
        => TypeOK' /\ FeedTypeOK' /\ FeedInv'
    BY FeedTypeStep, FeedInvStep
  <1> QED
    BY <1>1, <1>2, PTL DEF FeedSpec

\* Files, revisions, streams and views keep their types.
THEOREM FeedTypeCorrect == FeedSpec => []FeedTypeOK
  BY FeedInvariance, PTL

\* A renderer that is connected and has got all that was sent to it routes by
\* what the server has active, for any number of renderers, stores and writes.
THEOREM FeedCaughtUp == FeedSpec => []CaughtUp
  <1>1. FeedInv => CaughtUp
    BY DEF FeedInv, Latest, CaughtUp
  <1> QED
    BY <1>1, FeedInvariance, PTL

\* With renderers connecting, losing their streams and coming back, too, a store
\* never falls back from a good document while the document is there.
THEOREM FeedKeepsLastGood == FeedSpec => LastGoodKept
  <1>1. TypeOK /\ [FeedNext]_feedVars => [Kept]_vars
    <2> SUFFICES ASSUME TypeOK, [FeedNext]_feedVars PROVE [Kept]_vars
      OBVIOUS
    <2>1. CASE UNCHANGED feedVars
      BY <2>1 DEF feedVars
    <2>2. CASE Next /\ React
      BY <2>2, ServerAssumption, KeptStep
    <2>3. ASSUME NEW r \in Renderers, Connect(r) \/ Deliver(r) PROVE [Kept]_vars
      BY <2>3 DEF Connect, Deliver
    <2>4. ASSUME NEW r \in Renderers, Drop(r) PROVE [Kept]_vars
      BY <2>4 DEF Drop, Kept
    <2> QED
      BY <2>1, <2>2, <2>3, <2>4 DEF FeedNext
  <1> QED
    BY <1>1, FeedInvariance, PTL DEF FeedSpec, LastGoodKept, Kept
-----------------------------------------------------------------------------
(* The descriptor store and the schema command: no assumption is made on    *)
(* how many documents and releases there are.                               *)

SchemaTypeOK ==
  /\ installed \in Nat /\ documents \in Nat
  /\ schemaFile \in [state : {"absent", "good", "broken"}, at : Nat, of : Nat, says : Nat]
  /\ held \in Nat /\ heldBefore \in Nat /\ loadedMtime \in Nat
  /\ available \in BOOLEAN /\ touched \in BOOLEAN /\ overtaken \in BOOLEAN
  /\ polling \in {"rest", "reload", "read", "stat"}
  /\ command \in [step : {"none", "extract", "write"}, version : Nat, of : Nat, dry : BOOLEAN]

\* A time is that of one document: what was read or noted earlier has another
\* time than a file that came later, and none is zero.
TimesTellApart ==
  /\ held <= documents /\ loadedMtime <= documents
  /\ schemaFile.state = "absent" => schemaFile.at = 0
  /\ schemaFile.state # "absent" => 0 < schemaFile.at /\ schemaFile.at <= documents
  /\ schemaFile.state # "absent" => loadedMtime <= schemaFile.at
  /\ schemaFile.state = "broken" => held # schemaFile.at

\* What the noted time says of the registry, and what a request knows of the file
\* between its calls: the time it saw is not the noted one, nothing was assigned
\* before the parse, and the parsed document is the file unless that changed.
RequestKnows ==
  /\ (schemaFile.state = "good" /\ schemaFile.at = loadedMtime /\ ~overtaken) => held = schemaFile.at
  /\ (polling # "rest" /\ schemaFile.state # "absent") => schemaFile.at # loadedMtime
  /\ polling \in {"reload", "read"} => held = heldBefore
  /\ (polling = "reload" /\ schemaFile.state = "absent" /\ ~touched) => heldBefore = 0
  /\ (polling = "stat" /\ ~touched) => schemaFile.state = "good" /\ held = schemaFile.at

\* A document names a release no later than the one its bundles were of, and no
\* bundles are of a release that was not installed yet.
NamedNoLater ==
  /\ schemaFile.state # "absent" => schemaFile.says <= schemaFile.of /\ schemaFile.of <= installed
  /\ command.version <= installed /\ command.of <= installed
  /\ command.step = "write" => command.version <= command.of

SchemaInv == SchemaTypeOK /\ TimesTellApart /\ RequestKnows /\ NamedNoLater /\ ServesTheFile

LEMMA SchemaInvInit == SchemaInit => SchemaInv
<1> SUFFICES ASSUME SchemaInit PROVE SchemaInv
  OBVIOUS
<1>1. SchemaTypeOK
  <2>1. schemaFile \in [state : {"absent", "good", "broken"}, at : Nat, of : Nat, says : Nat]
    BY DEF SchemaInit, Absent
  <2>2. command \in [step : {"none", "extract", "write"}, version : Nat, of : Nat, dry : BOOLEAN]
    BY DEF SchemaInit, NoRun
  <2> QED BY <2>1, <2>2 DEF SchemaInit, SchemaTypeOK
<1>2. TimesTellApart /\ RequestKnows /\ NamedNoLater /\ ServesTheFile
  BY DEF SchemaInit, Absent, NoRun, TimesTellApart, RequestKnows, NamedNoLater, ServesTheFile
<1> QED BY <1>1, <1>2 DEF SchemaInv

\* A file that is put in place, whole or damaged: it has a time of its own, and a
\* request that was under way has seen the file change.
LEMMA FilePut ==
  ASSUME SchemaInv, NEW copy \in [state : {"good", "broken"}, at : Nat, of : Nat, says : Nat],
         copy.says <= copy.of, copy.of <= installed,
         PutFile(copy), command' \in {command, NoRun}, UNCHANGED <<installed, serverVars>>
  PROVE  SchemaInv'
<1>1. /\ schemaFile'.state = copy.state /\ schemaFile'.at = documents + 1
      /\ schemaFile'.of = copy.of /\ schemaFile'.says = copy.says
      /\ schemaFile' \in [state : {"good", "broken"}, at : Nat, of : Nat, says : Nat]
      /\ documents' = documents + 1 /\ touched' = TRUE
  BY DEF PutFile, SchemaInv, SchemaTypeOK
<1>2. SchemaTypeOK'
  <2>1. schemaFile' \in [state : {"absent", "good", "broken"}, at : Nat, of : Nat, says : Nat]
    BY <1>1
  <2>2. NoRun \in [step : {"none", "extract", "write"}, version : Nat, of : Nat, dry : BOOLEAN]
    BY DEF NoRun
  <2> QED BY <1>1, <2>1, <2>2 DEF SchemaInv, SchemaTypeOK, serverVars
<1>3. TimesTellApart'
  BY <1>1 DEF SchemaInv, SchemaTypeOK, TimesTellApart, serverVars
<1>4. RequestKnows' /\ ServesTheFile'
  BY <1>1 DEF SchemaInv, SchemaTypeOK, TimesTellApart, RequestKnows, ServesTheFile, serverVars
<1>5. NamedNoLater'
  BY <1>1 DEF SchemaInv, SchemaTypeOK, NamedNoLater, NoRun, serverVars
<1> QED BY <1>2, <1>3, <1>4, <1>5 DEF SchemaInv

\* The command and an upgrade: neither the file nor the server is concerned.
LEMMA FileRests ==
  ASSUME SchemaInv, UNCHANGED <<schemaFile, documents, touched, serverVars>>,
         installed' \in Nat, installed <= installed',
         command' \in [step : {"none", "extract", "write"}, version : Nat, of : Nat, dry : BOOLEAN],
         command'.version <= installed', command'.of <= installed',
         command'.step = "write" => command'.version <= command'.of
  PROVE  SchemaInv'
<1>1. SchemaTypeOK' /\ TimesTellApart'
  BY DEF SchemaInv, SchemaTypeOK, TimesTellApart, serverVars
<1>2. RequestKnows' /\ ServesTheFile'
  BY DEF SchemaInv, RequestKnows, ServesTheFile, serverVars
<1>3. NamedNoLater'
  BY DEF SchemaInv, SchemaTypeOK, NamedNoLater
<1> QED BY <1>1, <1>2, <1>3 DEF SchemaInv

LEMMA SchemaInvStep == SchemaInv /\ [SchemaNext]_schemaVars => SchemaInv'
<1> SUFFICES ASSUME SchemaInv, [SchemaNext]_schemaVars PROVE SchemaInv'
  OBVIOUS
<1> USE DEF SchemaInv
<1>1. CASE UNCHANGED schemaVars
  BY <1>1 DEF schemaVars, diskVars, serverVars, SchemaTypeOK, TimesTellApart, RequestKnows,
              NamedNoLater, ServesTheFile
<1>2. CASE RefreshIfChanged \/ ReloadSchema \/ ReadDocument \/ NoteTime
  <2> USE <1>2 DEF RefreshIfChanged, ReloadSchema, ReadDocument, NoteTime, diskVars
  <2>1. SchemaTypeOK'
    <3>1. schemaFile.at \in Nat
      BY DEF SchemaTypeOK
    <3>2. UNCHANGED <<installed, schemaFile, documents, command>>
      OBVIOUS
    <3>3. held' \in Nat /\ heldBefore' \in Nat /\ loadedMtime' \in Nat
      BY <3>1 DEF SchemaTypeOK
    <3>4. available' \in BOOLEAN /\ touched' \in BOOLEAN /\ overtaken' \in BOOLEAN
      BY DEF SchemaTypeOK
    <3>5. polling' \in {"rest", "reload", "read", "stat"}
      BY DEF SchemaTypeOK
    <3> QED BY <3>2, <3>3, <3>4, <3>5 DEF SchemaTypeOK
  <2>2. TimesTellApart'
    BY DEF SchemaTypeOK, TimesTellApart
  <2>3. RequestKnows'
    <3>1. CASE RefreshIfChanged
      BY <3>1 DEF SchemaTypeOK, TimesTellApart, RequestKnows
    <3>2. CASE ReloadSchema
      BY <3>2 DEF SchemaTypeOK, TimesTellApart, RequestKnows
    <3>3. CASE ReadDocument
      BY <3>3 DEF SchemaTypeOK, TimesTellApart, RequestKnows
    <3>4. CASE NoteTime
      BY <3>4 DEF SchemaTypeOK, TimesTellApart, RequestKnows
    <3> QED BY <3>1, <3>2, <3>3, <3>4
  <2>4. NamedNoLater'
    BY DEF NamedNoLater
  <2>5. ServesTheFile'
    <3>1. CASE RefreshIfChanged
      BY <3>1 DEF SchemaTypeOK, TimesTellApart, RequestKnows, ServesTheFile
    <3>2. CASE ReloadSchema
      BY <3>2 DEF SchemaTypeOK, TimesTellApart, RequestKnows, ServesTheFile
    <3>3. CASE ReadDocument
      BY <3>3 DEF SchemaTypeOK, TimesTellApart, RequestKnows, ServesTheFile
    <3>4. CASE NoteTime
      BY <3>4 DEF SchemaTypeOK, TimesTellApart, RequestKnows, ServesTheFile
    <3> QED BY <3>1, <3>2, <3>3, <3>4
  <2> QED BY <2>1, <2>2, <2>3, <2>4, <2>5
<1>3. ASSUME NEW force \in BOOLEAN, NEW dry \in BOOLEAN, RunSchema(force, dry)
      PROVE  SchemaInv'
  BY <1>3, FileRests DEF RunSchema, diskVars, SchemaTypeOK, NamedNoLater
<1>4. CASE Extract
  <2>1. /\ command' = [step |-> "write", version |-> command.version, of |-> installed,
                       dry |-> command.dry]
        /\ command.version \in Nat /\ command.dry \in BOOLEAN /\ installed \in Nat
    BY <1>4 DEF Extract, SchemaTypeOK
  <2> QED BY <1>4, <2>1, FileRests DEF Extract, diskVars, NamedNoLater
<1>5. CASE EndWithoutWriting
  BY <1>5, FileRests DEF EndWithoutWriting, diskVars, NoRun, SchemaTypeOK, NamedNoLater
<1>6. CASE WriteDocument
  BY <1>6, FilePut DEF WriteDocument, SchemaTypeOK, NamedNoLater
<1>7. CASE Upgrade
  BY <1>7, FileRests DEF Upgrade, SchemaTypeOK, NamedNoLater
<1>8. CASE Damage
  <2>1. [schemaFile EXCEPT !.state = "broken"]
          \in [state : {"good", "broken"}, at : Nat, of : Nat, says : Nat]
    BY DEF SchemaTypeOK
  <2> QED BY <1>8, <2>1, FilePut DEF Damage, SchemaTypeOK, NamedNoLater
<1>9. CASE Delete
  <2>1. schemaFile' = Absent /\ touched' = TRUE /\ UNCHANGED <<installed, documents, command, serverVars>>
    BY <1>9 DEF Delete
  <2>2. SchemaTypeOK'
    BY <2>1 DEF SchemaTypeOK, Absent, serverVars
  <2>3. TimesTellApart' /\ RequestKnows' /\ NamedNoLater' /\ ServesTheFile'
    BY <2>1 DEF Absent, serverVars, TimesTellApart, RequestKnows, NamedNoLater, ServesTheFile
  <2> QED BY <2>2, <2>3
<1> QED
  BY <1>1, <1>2, <1>3, <1>4, <1>5, <1>6, <1>7, <1>8, <1>9 DEF SchemaNext

THEOREM SchemaInvariance == SchemaSpec => []SchemaInv
  BY SchemaInvInit, SchemaInvStep, PTL DEF SchemaSpec

\* However the command, an upgrade, damage and deletions fall between the calls of
\* a request, the server decodes with the file that was there throughout it, or with
\* what it held; and a document that says it is of the installed release is.
THEOREM SchemaIsFollowed == SchemaSpec => []SchemaFollows
<1>1. SchemaInv => SchemaFollows
  BY DEF SchemaInv, SchemaFollows, SkipIsSound, ExistingIsOf, SchemaTypeOK, NamedNoLater
<1> QED BY <1>1, SchemaInvariance, PTL
-----------------------------------------------------------------------------
(* The knowledge base, for any number of servers, notes and changes.        *)

NoteEntries == [id : Nat, text : Nat, origin : Origins, at : Nat]

Documents == {noteFile.entries} \cup {holder[s].entries : s \in NoteServers}

NotesTypeOK ==
  /\ made \in Nat /\ now \in Nat /\ changes \in Nat
  /\ noteFile \in [state : {"absent", "damaged", "good"}, entries : SUBSET NoteEntries]
  /\ holder \in [NoteServers -> [up : BOOLEAN, loaded : BOOLEAN, entries : SUBSET NoteEntries]]
  /\ unsaved \in SUBSET NoteServers /\ stale \in SUBSET NoteServers

\* Every note was made, with a text that some change wrote, and what does not
\* change of it is the same in every document.
OneNotePerId ==
  \A D, F \in Documents : \A d \in D, f \in F :
    /\ d.id <= made /\ d.text <= changes
    /\ d.id = f.id => d.origin = f.origin

\* Callers know of notes that were made; only a server that holds the document is
\* behind, or has something the file lacks.
HoldersOnly ==
  /\ DOMAIN told \in SUBSET (1..made)
  /\ \A s \in NoteServers : holder[s].loaded => holder[s].up
  /\ \A s \in unsaved \cup stale : holder[s].up /\ holder[s].loaded

Known == DOMAIN told \ lost

\* A server that is not behind finds what the file has.
FindsTheFile ==
  \A s \in NoteServers \ stale : \A id \in Known :
    Noted(noteFile.entries, id) => Noted(Loaded(s), id)

\* What the callers know of is somewhere.
SomewhereNoted ==
  \A id \in Known : Noted(noteFile.entries, id) \/ \E s \in unsaved : Noted(holder[s].entries, id)

ListingHolds ==
  listing.server # "" =>
    /\ \A j, k \in DOMAIN listing.entries : j < k => listing.entries[j].at >= listing.entries[k].at
    /\ listing.limit = 0 /\ listing.server \notin stale =>
         \A e \in noteFile.entries :
           Applies(e, listing.origin) /\ e.id \in Known /\ e.text = told[e.id]
             => \E k \in DOMAIN listing.entries : listing.entries[k].id = e.id /\ listing.entries[k].text = e.text

NotesInv == NotesTypeOK /\ OneNotePerId /\ HoldersOnly /\ FindsTheFile /\ SomewhereNoted /\ ListingHolds

\* What a call that changes the document of s leaves in it and tells of it: every
\* other note stays as it was, and of this one the callers know the new text, or
\* nothing.
Changed(s, entries, id) ==
  /\ entries \in SUBSET NoteEntries
  /\ \A e \in entries : e.id <= made' /\ e.text <= changes'
  /\ \A e \in entries : \A D \in Documents : \A d \in D : e.id = d.id => e.origin = d.origin
  /\ \A d, e \in entries : d.id = e.id => d.origin = e.origin
  /\ \A e \in Loaded(s) : e.id # id => e \in entries
  /\ DOMAIN told' \in SUBSET (1..made')
  /\ \A other \in DOMAIN told' : other # id => other \in DOMAIN told /\ told'[other] = told[other]
  /\ id \in DOMAIN told' =>
       /\ \E e \in entries : e.id = id /\ e.text = told'[id]
       /\ \A D \in Documents : \A d \in D : d.id = id => d.text # told'[id]

\* Whether or not the write succeeds, over whatever others have written meanwhile.
LEMMA SaveKeeps ==
  ASSUME NotesInv, NEW s \in NoteServers, NEW entries, NEW id,
         holder[s].up, Changed(s, entries, id), Holds(s, entries), SaveNotes(s, entries),
         listing' = NoList, made' \in Nat, now' \in Nat, changes' \in Nat,
         made <= made', changes <= changes'
  PROVE  NotesInv'
<1> USE DEF NotesInv
<1>1. /\ holder'[s] = [up |-> TRUE, loaded |-> TRUE, entries |-> entries]
      /\ \A t \in NoteServers : t # s => holder'[t] = holder[t]
  BY DEF Holds, NotesTypeOK
<1>2. \/ noteFile'.entries = entries \/ noteFile' = noteFile
  BY DEF SaveNotes
<1>3. \A D \in Documents' : D = entries \/ D \in Documents
  BY <1>1, <1>2 DEF Documents
<1>4. NotesTypeOK'
  <2>1. holder' \in [NoteServers -> [up : BOOLEAN, loaded : BOOLEAN, entries : SUBSET NoteEntries]]
    BY DEF Holds, NotesTypeOK, Changed
  <2>2. /\ noteFile' \in [state : {"absent", "damaged", "good"}, entries : SUBSET NoteEntries]
        /\ unsaved' \in SUBSET NoteServers /\ stale' \in SUBSET NoteServers
    BY DEF SaveNotes, NotesTypeOK, Changed
  <2> QED BY <2>1, <2>2 DEF NotesTypeOK
<1>5. OneNotePerId'
  <2> SUFFICES ASSUME NEW D \in Documents', NEW F \in Documents', NEW d \in D, NEW f \in F
               PROVE  d.id <= made' /\ d.text <= changes' /\ (d.id = f.id => d.origin = f.origin)
    BY DEF OneNotePerId
  <2>0. \A G \in Documents : \A g \in G : g.id \in Nat /\ g.text \in Nat
    BY DEF Documents, NotesTypeOK, NoteEntries
  <2>1. d.id <= made' /\ d.text <= changes'
    BY <1>3, <2>0 DEF OneNotePerId, NotesTypeOK, Changed
  <2>2. d.id = f.id => d.origin = f.origin
    BY <1>3 DEF OneNotePerId, Changed
  <2> QED BY <2>1, <2>2
<1>6. HoldersOnly'
  <2>1. \A t \in unsaved' \cup stale' : t = s \/ (t # s /\ t \in NoteServers /\ holder[t].loaded)
    BY DEF SaveNotes, HoldersOnly, NotesTypeOK
  <2>2. \A t \in unsaved' \cup stale' : t = s \/ holder[t].up
    BY <2>1 DEF SaveNotes, HoldersOnly
  <2> QED BY <1>1, <2>1, <2>2 DEF HoldersOnly, Changed
<1>7. \A other \in Known' : other # id => other \in Known /\ told'[other] = told[other]
  BY DEF Known, Changed, SaveNotes
<1>8. \A other \in Known' : other # id =>
        /\ Noted(Loaded(s), other) => \E e \in entries : e.id = other /\ e.text = told'[other]
        /\ Noted(noteFile.entries, other) <=> \E e \in noteFile.entries : e.id = other /\ e.text = told'[other]
  BY <1>7 DEF Changed, Noted
<1>9. CASE noteFile' = [state |-> "good", entries |-> entries] /\ unsaved' = unsaved \ {s}
           /\ stale' = {t \in NoteServers \ {s} : holder[t].loaded}
           /\ lost' = lost \cup (IF s \in stale THEN Ids(noteFile.entries \ Loaded(s)) ELSE {})
  <2>1. FindsTheFile'
    BY <1>1, <1>9 DEF FindsTheFile, Loaded, Noted
  <2>2. ASSUME NEW other \in Known', other # id, Noted(noteFile.entries, other)
        PROVE  Noted(Loaded(s), other)
    <3>1. CASE s \notin stale
      BY <1>7, <2>2, <3>1 DEF FindsTheFile
    <3>2. CASE s \in stale
      BY <1>9, <2>2, <3>2 DEF Known, Ids, Noted
    <3> QED BY <3>1, <3>2
  <2>3. ASSUME NEW other \in Known', other # id
        PROVE  Noted(noteFile.entries, other)' \/ \E t \in unsaved' : Noted(holder[t].entries, other)'
    <3>1. CASE Noted(noteFile.entries, other)
      BY <1>8, <1>9, <2>2, <2>3, <3>1 DEF Noted
    <3>2. CASE s \in unsaved /\ Noted(holder[s].entries, other)
      <4>1. Loaded(s) = holder[s].entries
        BY <3>2 DEF HoldersOnly, Loaded
      <4> QED BY <1>8, <1>9, <2>3, <3>2, <4>1 DEF Noted
    <3>3. ASSUME NEW t \in unsaved, t # s, Noted(holder[t].entries, other)
          PROVE  t \in unsaved' /\ Noted(holder[t].entries, other)'
      BY <1>1, <1>7, <1>9, <2>3, <3>3 DEF Noted, NotesTypeOK
    <3> QED BY <1>7, <2>3, <3>1, <3>2, <3>3 DEF SomewhereNoted
  <2>4. id \in Known' => Noted(noteFile.entries, id)'
    BY <1>9 DEF Known, Changed, Noted
  <2>5. SomewhereNoted'
    BY <2>3, <2>4 DEF SomewhereNoted
  <2> QED BY <1>4, <1>5, <1>6, <2>1, <2>5 DEF ListingHolds, NoList
<1>10. CASE unsaved' = unsaved \cup {s} /\ UNCHANGED <<noteFile, stale, lost>>
  <2>1. ASSUME NEW t \in NoteServers, t \notin stale', NEW other \in Known',
               Noted(noteFile.entries, other)'
        PROVE  Noted(Loaded(t), other)'
    <3>1. other # id
      BY <1>10, <2>1 DEF Known, Changed, Noted, Documents
    <3>2. Noted(noteFile.entries, other)
      BY <1>8, <1>10, <2>1, <3>1 DEF Noted
    <3>3. Noted(Loaded(t), other)
      BY <1>7, <1>10, <2>1, <3>1, <3>2 DEF FindsTheFile
    <3>4. CASE t = s
      <4>1. Loaded(t)' = entries
        BY <1>1, <3>4 DEF Loaded
      <4> QED BY <1>8, <3>1, <3>3, <3>4, <4>1 DEF Noted
    <3>5. CASE t # s
      <4>1. Loaded(t)' = Loaded(t)
        BY <1>1, <1>10, <3>5 DEF Loaded
      <4> QED BY <1>7, <3>1, <3>3, <4>1 DEF Noted
    <3> QED BY <3>4, <3>5
  <2>2. FindsTheFile'
    BY <2>1 DEF FindsTheFile
  <2>3. ASSUME NEW other \in Known', other # id
        PROVE  Noted(noteFile.entries, other)' \/ \E t \in unsaved' : Noted(holder[t].entries, other)'
    <3>1. CASE Noted(noteFile.entries, other)
      BY <1>7, <1>10, <2>3, <3>1 DEF Noted
    <3>2. CASE s \in unsaved /\ Noted(holder[s].entries, other)
      <4>1. Loaded(s) = holder[s].entries
        BY <3>2 DEF HoldersOnly, Loaded
      <4> QED BY <1>1, <1>8, <1>10, <2>3, <3>2, <4>1 DEF Noted
    <3>3. ASSUME NEW t \in unsaved, t # s, Noted(holder[t].entries, other)
          PROVE  t \in unsaved' /\ Noted(holder[t].entries, other)'
      BY <1>1, <1>7, <1>10, <2>3, <3>3 DEF Noted, NotesTypeOK
    <3> QED BY <1>7, <2>3, <3>1, <3>2, <3>3 DEF SomewhereNoted
  <2>4. id \in Known' => s \in unsaved' /\ Noted(holder[s].entries, id)'
    BY <1>1, <1>10 DEF Known, Changed, Noted
  <2>5. SomewhereNoted'
    BY <2>3, <2>4 DEF SomewhereNoted
  <2> QED BY <1>4, <1>5, <1>6, <2>2, <2>5 DEF ListingHolds, NoList
<1> QED BY <1>9, <1>10 DEF SaveNotes
\* A call that finds nothing to change, and one that only lists: the document is
\* loaded now, which no other server can tell.
LEMMA LoadKeeps ==
  ASSUME NotesInv, NEW s \in NoteServers, holder[s].up, Holds(s, Loaded(s)), NotSaved,
         changes' \in Nat, changes <= changes', UNCHANGED <<made, now, told>>, ListingHolds'
  PROVE  NotesInv'
<1> USE DEF NotesInv
<1>1. /\ holder'[s] = [up |-> TRUE, loaded |-> TRUE, entries |-> Loaded(s)]
      /\ \A t \in NoteServers : t # s => holder'[t] = holder[t]
  BY DEF Holds, NotesTypeOK
<1>2. Loaded(s) \in Documents /\ Loaded(s) \in SUBSET NoteEntries
  BY DEF Loaded, Documents, NotesTypeOK
<1>3. NotesTypeOK'
  <2>1. holder' \in [NoteServers -> [up : BOOLEAN, loaded : BOOLEAN, entries : SUBSET NoteEntries]]
    BY <1>2 DEF NotesTypeOK, Holds
  <2>2. noteFile' = noteFile /\ unsaved' = unsaved /\ stale' = stale /\ made' = made /\ now' = now
    BY DEF NotSaved
  <2>3. /\ made \in Nat /\ now \in Nat
        /\ noteFile \in [state : {"absent", "damaged", "good"}, entries : SUBSET NoteEntries]
        /\ unsaved \in SUBSET NoteServers /\ stale \in SUBSET NoteServers
    BY DEF NotesTypeOK
  <2> HIDE DEF NotesInv
  <2> QED BY <2>1, <2>2, <2>3 DEF NotesTypeOK
<1>4. \A D \in Documents' : D \in Documents
  BY <1>1, <1>2 DEF Documents, NotSaved
<1>5. \A G \in Documents : \A g \in G : g.text \in Nat
  BY DEF Documents, NotesTypeOK, NoteEntries
<1>6. OneNotePerId'
  BY <1>4, <1>5 DEF OneNotePerId, NotesTypeOK
<1>7. HoldersOnly'
  <2>1. unsaved' = unsaved /\ stale' = stale /\ DOMAIN told' \in SUBSET (1..made')
    BY DEF HoldersOnly, NotSaved
  <2>2. \A t \in NoteServers : holder'[t].loaded => holder'[t].up
    BY <1>1 DEF HoldersOnly
  <2>3. \A t \in unsaved \cup stale : holder'[t].up /\ holder'[t].loaded
    BY <1>1 DEF HoldersOnly, NotesTypeOK
  <2> QED BY <2>1, <2>2, <2>3 DEF HoldersOnly
<1>8. \A t \in NoteServers : Loaded(t)' = Loaded(t)
  BY <1>1 DEF Loaded, NotSaved
<1>9. Known' = Known /\ \A D, id : Noted(D, id)' = Noted(D, id)
  BY DEF Known, NotSaved, Noted
<1>10. FindsTheFile'
  BY <1>8, <1>9 DEF FindsTheFile, NotSaved, Noted
<1>11. SomewhereNoted'
  <2>1. \A t \in unsaved : holder'[t].entries = holder[t].entries
    BY <1>1 DEF HoldersOnly, Loaded, NotesTypeOK
  <2> QED BY <1>9, <2>1 DEF SomewhereNoted, NotSaved, Noted
<1> QED BY <1>3, <1>6, <1>7, <1>10, <1>11

\* A list is sorted, and has every note that applies.
LEMMA ListIsWhole ==
  ASSUME NotesInv, NEW s \in NoteServers, NEW origin \in Origins, NEW limit \in 0..1,
         ListNotes(s, origin, limit)
  PROVE  ListingHolds'
<1> USE DEF NotesInv
<1> DEFINE matching == {e \in Loaded(s) : Applies(e, origin)}
<1>1. PICK ordered \in NewestFirst(matching) :
        listing' = [server |-> s, origin |-> origin, limit |-> limit,
                    entries |-> IF limit \in 1..Len(ordered) THEN SubSeq(ordered, 1, limit) ELSE ordered]
  BY DEF ListNotes
<1>2. /\ ordered \in [1..Cardinality(matching) -> matching]
      /\ \A e \in matching : \E k \in DOMAIN ordered : ordered[k] = e
      /\ \A j, k \in DOMAIN ordered : j < k => Before(ordered[j], ordered[k])
  BY DEF NewestFirst, Bijection, Injection, Surjection, IsInjective
<1>3. Loaded(s) \in Documents /\ Loaded(s) \in SUBSET NoteEntries
  BY DEF Loaded, Documents, NotesTypeOK
<1>4. \A j, k \in DOMAIN ordered : j < k => ordered[j].at >= ordered[k].at
  BY <1>2, <1>3, SMTT(30) DEF Before, NoteEntries
<1>5. \A j, k \in DOMAIN listing'.entries : j < k => listing'.entries[j].at >= listing'.entries[k].at
  <2>1. CASE limit \in 1..Len(ordered)
    <3>1. limit = 1
      BY <2>1
    <3>2. DOMAIN listing'.entries = 1..1
      BY <1>1, <2>1, <3>1
    <3> QED BY <3>2
  <2>2. CASE limit \notin 1..Len(ordered)
    BY <1>1, <1>4, <2>2
  <2> QED BY <2>1, <2>2
<1>6. ASSUME limit = 0, s \notin stale, NEW e \in noteFile.entries, Applies(e, origin),
             e.id \in Known, e.text = told[e.id]
      PROVE  \E k \in DOMAIN ordered : ordered[k].id = e.id /\ ordered[k].text = e.text
  <2>1. Noted(Loaded(s), e.id)
    BY <1>6 DEF FindsTheFile, Noted
  <2>2. PICK d \in Loaded(s) : d.id = e.id /\ d.text = e.text
    BY <1>6, <2>1 DEF Noted
  <2>3. d.origin = e.origin
    <3>1. noteFile.entries \in Documents
      BY DEF Documents
    <3> QED BY <1>3, <1>6, <2>2, <3>1 DEF OneNotePerId
  <2>4. d \in matching
    BY <1>6, <2>2, <2>3 DEF Applies
  <2> QED BY <1>2, <2>2, <2>4
<1>7. UNCHANGED <<noteFile, stale, lost, told>>
  BY DEF ListNotes, NotSaved
<1>8. limit = 0 => listing'.entries = ordered
  BY <1>1
<1>9. listing'.server = s /\ listing'.origin = origin /\ listing'.limit = limit
  BY <1>1
<1>10. ASSUME listing'.limit = 0, listing'.server \notin stale', NEW e \in noteFile'.entries,
              Applies(e, listing'.origin), e.id \in Known', e.text = told'[e.id]
       PROVE  \E k \in DOMAIN listing'.entries :
                listing'.entries[k].id = e.id /\ listing'.entries[k].text = e.text
  BY <1>6, <1>7, <1>8, <1>9, <1>10 DEF Known
<1> QED BY <1>5, <1>10 DEF ListingHolds, Applies
\* What the handler may tell of a call that changed one note.
LEMMA ToldOfOne ==
  ASSUME NEW id, NEW text, Told(id, text)
  PROVE  /\ DOMAIN told' \in {DOMAIN told \ {id}, DOMAIN told \cup {id}}
         /\ \A other \in DOMAIN told' : other # id => other \in DOMAIN told /\ told'[other] = told[other]
         /\ id \in DOMAIN told' => told'[id] = text
  BY DEF Told, Without

LEMMA NoListHolds ==
  ASSUME listing' = NoList
  PROVE  ListingHolds'
<1>1. listing'.server = ""
  BY DEF NoList
<1> QED BY <1>1 DEF ListingHolds

LEMMA ListingRests ==
  ASSUME ListingHolds, UNCHANGED <<listing, noteFile, stale, told, lost>>
  PROVE  ListingHolds'
  BY DEF ListingHolds, Known, Applies

LEMMA AddKeeps ==
  ASSUME NotesInv, NEW s \in NoteServers, NEW origin \in Origins, AddNote(s, origin)
  PROVE  NotesInv'
<1> USE DEF NotesInv
<1> DEFINE note == [id |-> made', text |-> 0, origin |-> origin, at |-> now']
           entries == Loaded(s) \cup {note}
<1>1. /\ holder[s].up /\ made' = made + 1 /\ now' \in {now, now + 1} /\ changes' = changes
      /\ Holds(s, entries) /\ SaveNotes(s, entries) /\ Told(made', 0) /\ listing' = NoList
  BY DEF AddNote
<1>2. Loaded(s) \in Documents /\ Loaded(s) \in SUBSET NoteEntries
  BY DEF Loaded, Documents, NotesTypeOK
<1>3. made \in Nat /\ now \in Nat /\ changes \in Nat /\ note \in NoteEntries
  BY <1>1 DEF NotesTypeOK, NoteEntries
<1>4. \A D \in Documents : \A d \in D : d.id \in Nat /\ d.id <= made /\ d.text <= changes
  BY DEF OneNotePerId, Documents, NotesTypeOK, NoteEntries
<1>5. \A D \in Documents : \A d \in D : d.id # made'
  BY <1>1, <1>3, <1>4
<1>6. Changed(s, entries, made')
  <2>1. entries \in SUBSET NoteEntries
    BY <1>2, <1>3
  <2>2. \A e \in entries : e.id <= made' /\ e.text <= changes'
    BY <1>1, <1>2, <1>3, <1>4
  <2>3. \A e \in entries : \A D \in Documents : \A d \in D : e.id = d.id => e.origin = d.origin
    BY <1>2, <1>5 DEF OneNotePerId
  <2>4. \A d, e \in entries : d.id = e.id => d.origin = e.origin
    BY <1>2, <1>5 DEF OneNotePerId
  <2>5. DOMAIN told' \in SUBSET (1..made')
    <3>1. DOMAIN told' \in SUBSET (DOMAIN told \cup {made'})
      BY <1>1, ToldOfOne
    <3>2. 1..made \in SUBSET (1..made') /\ made' \in 1..made'
      BY <1>1, <1>3
    <3> QED BY <3>1, <3>2 DEF HoldersOnly
  <2>6. made' \in DOMAIN told' => told'[made'] = 0
    BY <1>1, ToldOfOne
  <2>7. note \in entries /\ note.id = made' /\ note.text = 0
    OBVIOUS
  <2>8. \A e \in Loaded(s) : e.id # made' => e \in entries
    OBVIOUS
  <2> HIDE DEF entries, note
  <2>9. made' \in DOMAIN told' =>
          /\ \E e \in entries : e.id = made' /\ e.text = told'[made']
          /\ \A D \in Documents : \A d \in D : d.id = made' => d.text # told'[made']
    BY <1>5, <2>6, <2>7
  <2> QED BY <1>1, <2>1, <2>2, <2>3, <2>4, <2>5, <2>8, <2>9, ToldOfOne DEF Changed
<1> QED BY <1>1, <1>3, <1>6, SaveKeeps

LEMMA UpdateKeeps ==
  ASSUME NotesInv, NEW s \in NoteServers, NEW id \in 1..made, UpdateNote(s, id)
  PROVE  NotesInv'
<1> USE DEF NotesInv
<1>1. /\ holder[s].up /\ changes' = changes + 1 /\ listing' = NoList /\ UNCHANGED <<made, now>>
      /\ made \in Nat /\ now \in Nat /\ changes \in Nat
  BY DEF UpdateNote, CountedCall, NotesTypeOK
<1>2. CASE RefuseNote(s, id)
  <2>1. Holds(s, Loaded(s)) /\ NotSaved /\ UNCHANGED told
    BY <1>2 DEF RefuseNote
  <2> QED BY <1>1, <2>1, NoListHolds, LoadKeeps
<1>3. CASE ~RefuseNote(s, id)
  <2> DEFINE entries == {[e EXCEPT !.text = IF e.id = id THEN changes' ELSE @] : e \in Loaded(s)}
  <2>1. /\ id \in Ids(Loaded(s)) /\ Holds(s, entries) /\ SaveNotes(s, entries) /\ Told(id, changes')
    BY <1>3 DEF UpdateNote
  <2>2. Loaded(s) \in Documents /\ Loaded(s) \in SUBSET NoteEntries
    BY DEF Loaded, Documents, NotesTypeOK
  <2>3. \A D \in Documents : \A d \in D : d.text \in Nat /\ d.id <= made /\ d.text <= changes
    BY DEF OneNotePerId, Documents, NotesTypeOK, NoteEntries
  <2>4. \A e \in entries : \E d \in Loaded(s) :
          /\ e = [id |-> d.id, text |-> IF d.id = id THEN changes' ELSE d.text,
                  origin |-> d.origin, at |-> d.at]
    BY <2>2 DEF NoteEntries
  <2>5. \A d \in Loaded(s) : d.id # id => d \in entries
    BY <2>2 DEF NoteEntries
  <2>6. \E e \in entries : e.id = id /\ e.text = changes'
    <3>1. PICK d \in Loaded(s) : d.id = id
      BY <2>1 DEF Ids
    <3>2. [d EXCEPT !.text = IF d.id = id THEN changes' ELSE @] \in entries
      BY <3>1
    <3>3. /\ [d EXCEPT !.text = changes'].id = id
          /\ [d EXCEPT !.text = changes'].text = changes'
      BY <2>2, <3>1 DEF NoteEntries
    <3>4. [d EXCEPT !.text = IF d.id = id THEN changes' ELSE @] = [d EXCEPT !.text = changes']
      BY <3>1
    <3> QED BY <3>2, <3>3, <3>4
  <2>7. Changed(s, entries, id)
    <3>1. entries \in SUBSET NoteEntries
      BY <1>1, <2>2, <2>4 DEF NoteEntries
    <3>2. \A e \in entries : e.id <= made' /\ e.text <= changes'
      BY <1>1, <2>2, <2>3, <2>4
    <3>3. \A e \in entries : \A D \in Documents : \A d \in D : e.id = d.id => e.origin = d.origin
      BY <2>2, <2>4 DEF OneNotePerId
    <3>4. \A d, e \in entries : d.id = e.id => d.origin = e.origin
      BY <2>2, <2>4 DEF OneNotePerId
    <3>5. DOMAIN told' \in SUBSET (1..made')
      BY <1>1, <2>1, ToldOfOne DEF HoldersOnly
    <3>6. id \in DOMAIN told' => told'[id] = changes'
      BY <2>1, ToldOfOne
    <3>7. \A D \in Documents : \A d \in D : d.text # changes'
      BY <1>1, <2>3
    <3> QED BY <2>1, <2>5, <2>6, <3>1, <3>2, <3>3, <3>4, <3>5, <3>6, <3>7, ToldOfOne DEF Changed
  <2> QED BY <1>1, <2>1, <2>7, SaveKeeps
<1> QED BY <1>2, <1>3

LEMMA RemoveKeeps ==
  ASSUME NotesInv, NEW s \in NoteServers, NEW id \in 1..made, RemoveNote(s, id)
  PROVE  NotesInv'
<1> USE DEF NotesInv
<1>1. /\ holder[s].up /\ changes' = changes + 1 /\ listing' = NoList /\ UNCHANGED <<made, now>>
      /\ made \in Nat /\ now \in Nat /\ changes \in Nat
  BY DEF RemoveNote, CountedCall, NotesTypeOK
<1>2. CASE RefuseNote(s, id)
  <2>1. Holds(s, Loaded(s)) /\ NotSaved /\ UNCHANGED told
    BY <1>2 DEF RefuseNote
  <2> QED BY <1>1, <2>1, NoListHolds, LoadKeeps
<1>3. CASE ~RefuseNote(s, id)
  <2> DEFINE entries == {e \in Loaded(s) : e.id # id}
  <2>1. /\ Holds(s, entries) /\ SaveNotes(s, entries) /\ told' = Without(id)
    BY <1>3 DEF RemoveNote
  <2>2. Loaded(s) \in Documents /\ Loaded(s) \in SUBSET NoteEntries
    BY DEF Loaded, Documents, NotesTypeOK
  <2>3. \A D \in Documents : \A d \in D : d.text \in Nat /\ d.id <= made /\ d.text <= changes
    BY DEF OneNotePerId, Documents, NotesTypeOK, NoteEntries
  <2>4. /\ DOMAIN told' = DOMAIN told \ {id}
        /\ \A other \in DOMAIN told' : told'[other] = told[other]
    BY <2>1 DEF Without
  <2>5. \A e \in entries : e.id <= made' /\ e.text <= changes'
    BY <1>1, <2>2, <2>3
  <2>6. Changed(s, entries, id)
    BY <1>1, <2>2, <2>4, <2>5 DEF Changed, OneNotePerId, HoldersOnly
  <2> QED BY <1>1, <2>1, <2>6, SaveKeeps
<1> QED BY <1>2, <1>3
\* A start, an end, and a damaged file.
LEMMA StartKeeps ==
  ASSUME NotesInv, NEW s \in NoteServers, StartServer(s)
  PROVE  NotesInv'
<1> USE DEF NotesInv
<1>1. /\ ~holder[s].up /\ NotSaved /\ UNCHANGED <<made, now, changes, listing, told>>
      /\ holder'[s] = [up |-> TRUE, loaded |-> FALSE, entries |-> {}]
      /\ \A t \in NoteServers : t # s => holder'[t] = holder[t]
  BY DEF StartServer, NoProcess, NotesTypeOK
<1>2. holder' \in [NoteServers -> [up : BOOLEAN, loaded : BOOLEAN, entries : SUBSET NoteEntries]]
  BY DEF StartServer, NoProcess, NotesTypeOK
<1>3. noteFile' = noteFile /\ unsaved' = unsaved /\ stale' = stale /\ lost' = lost
  BY <1>1 DEF NotSaved
<1>4. s \notin unsaved \cup stale /\ ~holder[s].loaded
  BY <1>1 DEF HoldersOnly
<1>5. NotesTypeOK'
  BY <1>1, <1>2, <1>3 DEF NotesTypeOK
<1>6. \A D \in Documents' : D = {} \/ D \in Documents
  BY <1>1, <1>3 DEF Documents
<1>7. OneNotePerId'
  BY <1>1, <1>6 DEF OneNotePerId
<1>8. HoldersOnly'
  BY <1>1, <1>3, <1>4 DEF HoldersOnly, NotesTypeOK
<1>9. Known' = Known /\ \A D, id : Noted(D, id)' = Noted(D, id)
  BY <1>1, <1>3 DEF Known, Noted
<1>10. \A t \in NoteServers : Loaded(t)' = Loaded(t)
  BY <1>1, <1>3, <1>4 DEF Loaded
<1>11. FindsTheFile' /\ ListingHolds'
  BY <1>1, <1>3, <1>9, <1>10, ListingRests DEF FindsTheFile, Noted
<1>12. SomewhereNoted'
  BY <1>1, <1>3, <1>4, <1>9 DEF SomewhereNoted, Noted, NotesTypeOK
<1> QED BY <1>5, <1>7, <1>8, <1>11, <1>12

LEMMA EndKeeps ==
  ASSUME NotesInv, NEW s \in NoteServers, EndServer(s)
  PROVE  NotesInv'
<1> USE DEF NotesInv
<1>1. /\ listing' = NoList /\ UNCHANGED <<noteFile, made, now, changes, told>>
      /\ unsaved' = unsaved \ {s} /\ stale' = stale \ {s}
      /\ lost' = IF s \in unsaved THEN lost \cup Ids(holder[s].entries) ELSE lost
      /\ holder'[s] = [up |-> FALSE, loaded |-> FALSE, entries |-> {}]
      /\ \A t \in NoteServers : t # s => holder'[t] = holder[t]
  BY DEF EndServer, NoProcess, NotesTypeOK
<1>2. holder' \in [NoteServers -> [up : BOOLEAN, loaded : BOOLEAN, entries : SUBSET NoteEntries]]
  BY DEF EndServer, NoProcess, NotesTypeOK
<1>3. NotesTypeOK'
  BY <1>1, <1>2 DEF NotesTypeOK
<1>4. \A D \in Documents' : D = {} \/ D \in Documents
  BY <1>1 DEF Documents
<1>5. OneNotePerId'
  BY <1>1, <1>4 DEF OneNotePerId
<1>6. HoldersOnly'
  BY <1>1 DEF HoldersOnly, NotesTypeOK
<1>7. Known' \in SUBSET Known /\ told' = told
  BY <1>1 DEF Known
<1>8. FindsTheFile'
  <2>1. ASSUME NEW t \in NoteServers \ stale', NEW id \in Known', Noted(noteFile.entries, id)'
        PROVE  Noted(Loaded(t), id)'
    <3>1. CASE t = s
      BY <1>1, <2>1, <3>1 DEF Loaded, Noted
    <3>2. CASE t # s
      <4>1. Loaded(t)' = Loaded(t)
        BY <1>1, <3>2 DEF Loaded
      <4> QED BY <1>1, <1>7, <2>1, <3>2, <4>1 DEF FindsTheFile, Noted
    <3> QED BY <3>1, <3>2
  <2> QED BY <2>1 DEF FindsTheFile
<1>9. SomewhereNoted'
  <2>1. ASSUME NEW id \in Known'
        PROVE  Noted(noteFile.entries, id)' \/ \E t \in unsaved' : Noted(holder[t].entries, id)'
    <3>1. CASE Noted(noteFile.entries, id)
      BY <1>1, <3>1 DEF Noted
    <3>2. s \in unsaved => ~Noted(holder[s].entries, id)
      BY <1>1, <2>1 DEF Known, Ids, Noted
    <3>3. ASSUME NEW t \in unsaved, t # s, Noted(holder[t].entries, id)
          PROVE  t \in unsaved' /\ Noted(holder[t].entries, id)'
      BY <1>1, <3>3 DEF Noted, NotesTypeOK
    <3> QED BY <1>7, <2>1, <3>1, <3>2, <3>3 DEF SomewhereNoted
  <2> QED BY <2>1 DEF SomewhereNoted
<1> QED BY <1>1, <1>3, <1>5, <1>6, <1>8, <1>9, NoListHolds

LEMMA DamageKeeps ==
  ASSUME NotesInv, DamageNotes
  PROVE  NotesInv'
<1> USE DEF NotesInv
<1>1. /\ noteFile' = [state |-> "damaged", entries |-> {}]
      /\ lost' = lost \cup Ids(noteFile.entries)
      /\ listing' = NoList /\ changes' = changes + 1
      /\ UNCHANGED <<holder, made, now, told, unsaved, stale>>
  BY DEF DamageNotes, CountedCall
<1>2. NotesTypeOK'
  BY <1>1 DEF NotesTypeOK
<1>3. \A D \in Documents' : D = {} \/ D \in Documents
  BY <1>1 DEF Documents
<1>4. \A D \in Documents : \A d \in D : d.text \in Nat
  BY DEF Documents, NotesTypeOK, NoteEntries
<1>5. OneNotePerId'
  BY <1>1, <1>3, <1>4 DEF OneNotePerId, NotesTypeOK
<1>6. HoldersOnly'
  BY <1>1 DEF HoldersOnly
<1>7. FindsTheFile'
  BY <1>1 DEF FindsTheFile, Noted
<1>8. SomewhereNoted'
  <2>1. \A id \in Known' : id \in Known /\ ~Noted(noteFile.entries, id)
    BY <1>1 DEF Known, Ids, Noted
  <2> QED BY <1>1, <2>1 DEF SomewhereNoted, Noted
<1> QED BY <1>1, <1>2, <1>5, <1>6, <1>7, <1>8, NoListHolds

LEMMA NotesInvInit == NotesInit => NotesInv
<1> SUFFICES ASSUME NotesInit PROVE NotesInv
  OBVIOUS
<1>1. \A D \in Documents : D = {}
  BY DEF NotesInit, NoProcess, Documents
<1>2. NotesTypeOK
  BY DEF NotesInit, NoProcess, NotesTypeOK
<1>3. OneNotePerId
  BY <1>1 DEF OneNotePerId
<1>4. DOMAIN told = {} /\ Known = {}
  BY DEF NotesInit, Known
<1>5. HoldersOnly /\ FindsTheFile /\ SomewhereNoted /\ ListingHolds
  BY <1>4 DEF NotesInit, NoProcess, NoList, HoldersOnly, FindsTheFile, SomewhereNoted, ListingHolds
<1> QED BY <1>2, <1>3, <1>5 DEF NotesInv

LEMMA NotesInvStep == NotesInv /\ [NotesNext]_notesVars => NotesInv'
<1> SUFFICES ASSUME NotesInv, [NotesNext]_notesVars PROVE NotesInv'
  OBVIOUS
<1>1. CASE UNCHANGED notesVars
  <2>1. ListingHolds'
    BY <1>1, ListingRests DEF notesVars, NotesInv
  <2> QED BY <1>1, <2>1 DEF notesVars, NotesInv, NotesTypeOK, OneNotePerId, HoldersOnly,
                            FindsTheFile, SomewhereNoted, Documents, Known, Noted, Loaded
<1>2. CASE DamageNotes
  BY <1>2, DamageKeeps
<1>3. ASSUME NEW s \in NoteServers, StartServer(s) \/ EndServer(s) PROVE NotesInv'
  BY <1>3, StartKeeps, EndKeeps
<1>4. ASSUME NEW s \in NoteServers, NEW origin \in Origins, AddNote(s, origin) PROVE NotesInv'
  BY <1>4, AddKeeps
<1>5. ASSUME NEW s \in NoteServers, NEW id \in 1..made, UpdateNote(s, id) \/ RemoveNote(s, id)
      PROVE  NotesInv'
  BY <1>5, UpdateKeeps, RemoveKeeps
<1>6. ASSUME NEW s \in NoteServers, NEW origin \in Origins, NEW limit \in 0..1,
             ListNotes(s, origin, limit)
      PROVE  NotesInv'
  <2>1. /\ holder[s].up /\ changes' = changes + 1 /\ Holds(s, Loaded(s)) /\ NotSaved
        /\ UNCHANGED <<made, now, told>>
    BY <1>6 DEF ListNotes, CountedCall
  <2>2. changes \in Nat
    BY DEF NotesInv, NotesTypeOK
  <2> QED BY <1>6, <2>1, <2>2, ListIsWhole, LoadKeeps
<1> QED BY <1>1, <1>2, <1>3, <1>4, <1>5, <1>6 DEF NotesNext, NoteCall

THEOREM NotesInvariance == NotesSpec => []NotesInv
  BY NotesInvInit, NotesInvStep, PTL DEF NotesSpec

\* However many servers hold the document, a success that a caller was told of is
\* kept, and a server that is not behind lists it, in order; what is lost went with
\* a damaged file, with a server that could not write, or under a stale write.
THEOREM NotesAreKept == NotesSpec => []NotesKept
<1>1. NotesInv => NotesKept
  BY DEF NotesInv, SomewhereNoted, ListingHolds, Known, NotesKept
<1> QED BY <1>1, NotesInvariance, PTL

-----------------------------------------------------------------------------
(* The reader of the literals in the bundles.                               *)

-----------------------------------------------------------------------------
(* Induction over numbers, and values that follow from one another.         *)

\* A set of numbers that is not empty has a least one.
LEMMA LeastOf ==
  ASSUME NEW S \in SUBSET Nat, S # {}
  PROVE  Min(S) \in S /\ \A k \in S : Min(S) <= k
  <1>1. PICK x \in S : \A y \in S : ~(<<y, x>> \in OpToRel(<, Nat))
    BY WFMin, NatLessThanWellFounded
  <1>2. ASSUME NEW y \in S PROVE x <= y
    <2>1. SUFFICES ASSUME y < x PROVE FALSE
      OBVIOUS
    <2>2. <<y, x>> \in OpToRel(<, Nat)
      BY <2>1 DEF OpToRel
    <2> QED
      BY <1>1, <2>2
  <1> QED
    BY <1>2 DEF Min

\* A set of numbers that holds 0 and the successor of each of its own holds all.
LEMMA Inductive ==
  ASSUME NEW S \in SUBSET Nat, 0 \in S, \A n \in S : n + 1 \in S
  PROVE  S = Nat
  <1> DEFINE T == Nat \ S
             x == Min(T)
  <1>1. SUFFICES ASSUME T # {} PROVE FALSE
    OBVIOUS
  <1>2. x \in T /\ \A y \in T : x <= y
    BY <1>1, LeastOf
  <1> HIDE DEF x
  <1>3. x - 1 \in Nat /\ x - 1 \notin T
    BY <1>2
  <1>4. x - 1 \in S /\ (x - 1) + 1 = x
    BY <1>2, <1>3
  <1> QED
    BY <1>2, <1>4

\* From a value, one step after the other, m steps.
Follows(g, V, base, step, m) ==
  /\ g \in [0..m -> V] /\ g[0] = base
  /\ \A n \in 1..m : g[n] = step[g[n - 1]]

\* Such values exist.
LEMMA Iterates ==
  ASSUME NEW V, NEW base \in V, NEW step \in [V -> V], NEW m \in Nat
  PROVE  \E g : Follows(g, V, base, step, m)
  <1> DEFINE S == {n \in Nat : \E g : Follows(g, V, base, step, n)}
  <1>1. 0 \in S
    <2> DEFINE g == [n \in 0..0 |-> base]
    <2>1. Follows(g, V, base, step, 0)
      BY DEF Follows
    <2> QED
      BY <2>1
  <1>2. ASSUME NEW k \in S PROVE k + 1 \in S
    <2>1. PICK g : Follows(g, V, base, step, k)
      OBVIOUS
    <2> DEFINE more == [n \in 0..(k + 1) |-> IF n = k + 1 THEN step[g[k]] ELSE g[n]]
    <2>2. g[k] \in V /\ step[g[k]] \in V
      BY <2>1 DEF Follows
    <2>3. more \in [0..(k + 1) -> V]
      <3>1. \A n \in 0..(k + 1) : n # k + 1 => n \in 0..k
        OBVIOUS
      <3>2. \A n \in 0..k : g[n] \in V
        BY <2>1 DEF Follows
      <3> QED
        BY <2>2, <3>1, <3>2
    <2>4. more[0] = base
      BY <2>1 DEF Follows
    <2>5. \A n \in 1..(k + 1) : more[n] = step[more[n - 1]]
      <3> TAKE n \in 1..(k + 1)
      <3>1. n - 1 \in 0..k /\ more[n - 1] = g[n - 1]
        OBVIOUS
      <3>2. CASE n = k + 1
        BY <3>1, <3>2
      <3>3. CASE n # k + 1
        <4>1. n \in 1..k /\ more[n] = g[n]
          BY <3>3
        <4>2. g[n] = step[g[n - 1]]
          BY <2>1, <4>1 DEF Follows
        <4> HIDE DEF more
        <4> QED
          BY <3>1, <4>1, <4>2
      <3> QED
        BY <3>2, <3>3
    <2>6. Follows(more, V, base, step, k + 1)
      BY <2>3, <2>4, <2>5 DEF Follows
    <2> QED
      BY <2>6
  <1> HIDE DEF S
  <1>3. S = Nat
    <2>1. S \in SUBSET Nat
      BY DEF S
    <2> QED
      BY <1>1, <1>2, <2>1, Inductive
  <1> QED
    BY <1>3 DEF S

\* Where a step changes nothing, nothing changes any more.
LEMMA Stuck ==
  ASSUME NEW V, NEW base, NEW step, NEW m \in Nat, NEW g, Follows(g, V, base, step, m)
  PROVE  \A n \in 0..m : step[g[n]] = g[n] => \A k \in n..m : g[k] = g[n]
  <1> TAKE n \in 0..m
  <1> HAVE step[g[n]] = g[n]
  <1> DEFINE S == {j \in Nat : n + j \in 0..m => g[n + j] = g[n]}
  <1>1. 0 \in S
    OBVIOUS
  <1>2. ASSUME NEW j \in S PROVE j + 1 \in S
    <2> SUFFICES ASSUME n + (j + 1) \in 0..m PROVE g[n + (j + 1)] = g[n]
      OBVIOUS
    <2>1. n + j \in 0..m /\ n + (j + 1) \in 1..m /\ (n + (j + 1)) - 1 = n + j
      OBVIOUS
    <2>2. g[n + j] = g[n]
      BY <2>1
    <2>3. g[n + (j + 1)] = step[g[(n + (j + 1)) - 1]]
      BY <2>1 DEF Follows
    <2> QED
      BY <2>1, <2>2, <2>3
  <1> HIDE DEF S
  <1>3. S = Nat
    <2>1. S \in SUBSET Nat
      BY DEF S
    <2> QED
      BY <1>1, <1>2, <2>1, Inductive
  <1> TAKE k \in n..m
  <1>4. k - n \in S /\ n + (k - n) = k /\ k \in 0..m
    BY <1>3
  <1> QED
    BY <1>4 DEF S

\* And so it is at the end.
LEMMA StuckAtTheEnd ==
  ASSUME NEW V, NEW base, NEW step, NEW m \in Nat, NEW g, Follows(g, V, base, step, m)
  PROVE  \A n \in 0..m : step[g[n]] = g[n] => g[m] = g[n]
  <1> TAKE n \in 0..m
  <1> HAVE step[g[n]] = g[n]
  <1>1. \A k \in n..m : g[k] = g[n]
    BY Stuck
  <1>2. m \in n..m
    OBVIOUS
  <1> QED
    BY <1>1, <1>2

\* Steps that change something go up in rank.
Climbs(V, step, rank) ==
  /\ rank \in [V -> Int]
  /\ \A x \in V : step[x] \in V /\ (step[x] = x \/ rank[step[x]] > rank[x])

\* Then n steps go up by n, unless there was nothing left to change.
LEMMA Climbing ==
  ASSUME NEW V, NEW base, NEW step, NEW m \in Nat, NEW g, Follows(g, V, base, step, m),
         NEW rank, Climbs(V, step, rank)
  PROVE  /\ \A n \in 0..m : step[g[n]] = g[n] \/ rank[g[n]] >= rank[base] + n
         /\ \A n \in 0..m, k \in 0..m : n <= k => rank[g[n]] <= rank[g[k]]
         /\ \A n \in 0..m : rank[g[n]] \in Int /\ g[n] \in V
  <1>1. \A n \in 0..m : g[n] \in V /\ rank[g[n]] \in Int
    BY DEF Follows, Climbs
  <1>2. \A n \in 0..m : n + 1 \in 0..m =>
          g[n + 1] = step[g[n]] /\ rank[g[n]] <= rank[g[n + 1]]
    <2> TAKE n \in 0..m
    <2> SUFFICES ASSUME n + 1 \in 0..m PROVE g[n + 1] = step[g[n]] /\ rank[g[n]] <= rank[g[n + 1]]
      OBVIOUS
    <2>1. n + 1 \in 1..m /\ (n + 1) - 1 = n
      OBVIOUS
    <2>2. g[n + 1] = step[g[n]]
      BY <2>1 DEF Follows
    <2>3. g[n + 1] = g[n] \/ rank[g[n + 1]] > rank[g[n]]
      BY <1>1, <2>2 DEF Climbs
    <2>4. rank[g[n]] \in Int /\ rank[g[n + 1]] \in Int
      BY <1>1
    <2> QED
      BY <2>2, <2>3, <2>4
  <1> DEFINE S == {n \in Nat : n \in 0..m => step[g[n]] = g[n] \/ rank[g[n]] >= rank[base] + n}
  <1>3. 0 \in S
    <2>1. g[0] = base /\ rank[g[0]] \in Int
      BY <1>1 DEF Follows
    <2> QED
      BY <2>1
  <1>4. ASSUME NEW n \in S PROVE n + 1 \in S
    <2> SUFFICES ASSUME n + 1 \in 0..m, step[g[n + 1]] # g[n + 1] PROVE rank[g[n + 1]] >= rank[base] + (n + 1)
      OBVIOUS
    <2>1. n \in 0..m /\ n \in Nat
      OBVIOUS
    <2>2. g[n + 1] = step[g[n]]
      BY <1>2, <2>1
    <2>3. step[g[n]] # g[n]
      BY <2>2
    <2>4. rank[g[n]] >= rank[base] + n
      BY <2>1, <2>3
    <2>5. rank[g[n + 1]] > rank[g[n]]
      BY <1>1, <2>1, <2>2, <2>3 DEF Climbs
    <2>6. rank[g[n]] \in Int /\ rank[g[n + 1]] \in Int /\ rank[base] \in Int
      <3>1. g[0] = base /\ 0 \in 0..m
        BY DEF Follows
      <3> QED
        BY <1>1, <2>1, <3>1
    <2> QED
      BY <2>1, <2>4, <2>5, <2>6
  <1> HIDE DEF S
  <1>5. S = Nat
    <2>1. S \in SUBSET Nat
      BY DEF S
    <2> QED
      BY <1>3, <1>4, <2>1, Inductive
  <1>6. \A n \in 0..m : step[g[n]] = g[n] \/ rank[g[n]] >= rank[base] + n
    BY <1>5 DEF S
  <1>7. ASSUME NEW n \in 0..m PROVE \A k \in n..m : rank[g[n]] <= rank[g[k]]
    <2> DEFINE T == {j \in Nat : n + j \in 0..m => rank[g[n]] <= rank[g[n + j]]}
    <2>1. 0 \in T
      BY <1>1
    <2>2. ASSUME NEW j \in T PROVE j + 1 \in T
      <3> SUFFICES ASSUME n + (j + 1) \in 0..m PROVE rank[g[n]] <= rank[g[n + (j + 1)]]
        OBVIOUS
      <3>1. n + j \in 0..m /\ (n + j) + 1 = n + (j + 1)
        OBVIOUS
      <3>2. rank[g[n]] <= rank[g[n + j]]
        BY <3>1
      <3>3. rank[g[n + j]] <= rank[g[n + (j + 1)]]
        BY <1>2, <3>1
      <3>4. rank[g[n]] \in Int /\ rank[g[n + j]] \in Int /\ rank[g[n + (j + 1)]] \in Int
        BY <1>1, <3>1
      <3> QED
        BY <3>2, <3>3, <3>4
    <2> HIDE DEF T
    <2>3. T = Nat
      <3>1. T \in SUBSET Nat
        BY DEF T
      <3> QED
        BY <2>1, <2>2, <3>1, Inductive
    <2> TAKE k \in n..m
    <2>4. k - n \in T /\ n + (k - n) = k /\ k \in 0..m
      BY <2>3
    <2> QED
      BY <2>4 DEF T
  <1>8. \A n \in 0..m, k \in 0..m : n <= k => rank[g[n]] <= rank[g[k]]
    BY <1>7
  <1> QED
    BY <1>1, <1>6, <1>8

\* Two that start alike and take the same steps are alike.
Steps(g, step, N) == \A n \in 1..N : g[n] = step[g[n - 1]]
StepsAgree(g, step, move, N) == \A n \in 1..N : step[g[n - 1]] = move[g[n - 1]]
Agree(g, h, N) == \A n \in 0..N : h[n] = g[n]

\* Two that start alike and take the same steps are alike.
LEMMA Alike ==
  ASSUME NEW N \in Nat, NEW g, NEW h, NEW step, NEW move, g[0] = h[0],
         Steps(g, step, N), Steps(h, move, N), StepsAgree(g, step, move, N)
  PROVE  Agree(g, h, N)
  <1> USE DEF Steps, StepsAgree, Agree
  <1> DEFINE S == {n \in Nat : n \in 0..N => h[n] = g[n]}
  <1>1. 0 \in S
    OBVIOUS
  <1>2. ASSUME NEW n \in S PROVE n + 1 \in S
    <2> SUFFICES ASSUME n + 1 \in 0..N PROVE h[n + 1] = g[n + 1]
      OBVIOUS
    <2>1. n \in 0..N /\ n + 1 \in 1..N /\ (n + 1) - 1 = n
      OBVIOUS
    <2>2. h[n] = g[n]
      BY <2>1
    <2>3. g[n + 1] = step[g[n]] /\ h[n + 1] = move[h[n]] /\ step[g[n]] = move[g[n]]
      BY <2>1
    <2> QED
      BY <2>2, <2>3
  <1> HIDE DEF S
  <1>3. S = Nat
    <2>1. S \in SUBSET Nat
      BY DEF S
    <2> QED
      BY <1>1, <1>2, <2>1, Inductive
  <1> QED
    BY <1>3 DEF S

-----------------------------------------------------------------------------
(* Strings.                                                                 *)

Texts == Seq(STRING)
QuoteStates == [closed : BOOLEAN, value : Texts, end : Nat \ {0}]
Unread(start) == [closed |-> FALSE, value |-> <<>>, end |-> start + 1]

\* One character of a literal, or the one after a backslash.
LEMMA QuoteStepMoves ==
  ASSUME NEW text \in Texts, NEW was \in QuoteStates, NEW quote, NEW stop \in Int
  PROVE  /\ QuoteStep(text, was, quote, stop) \in QuoteStates
         /\ \/ QuoteStep(text, was, quote, stop) = was
            \/ QuoteStep(text, was, quote, stop).end > was.end
         /\ was.closed => QuoteStep(text, was, quote, stop) = was
         /\ was.end >= stop => QuoteStep(text, was, quote, stop) = was
         /\ was.end > Len(text) => QuoteStep(text, was, quote, stop) = was
         /\ ~was.closed /\ QuoteStep(text, was, quote, stop).closed =>
              /\ QuoteStep(text, was, quote, stop).end = was.end + 1
              /\ was.end < stop /\ was.end <= Len(text)
  <1> DEFINE i == was.end
             r == QuoteStep(text, was, quote, stop)
             stays == was.closed \/ i >= stop \/ i > Len(text)
  <1>1. i \in Nat /\ i > 0 /\ was.value \in Texts /\ was.closed \in BOOLEAN /\ Len(text) \in Nat
    BY DEF QuoteStates, Texts
  <1>2. stays => r = was
    BY DEF QuoteStep
  <1>3. ASSUME ~stays, text[i] = "\\"
        PROVE  r \in QuoteStates /\ ~r.closed /\ r.end = i + 2
    <2> DEFINE s == IF i < Len(text) THEN <<text[i + 1]>> ELSE <<>>
    <2>1. r = [closed |-> FALSE, value |-> was.value \o s, end |-> i + 2]
      BY <1>3 DEF QuoteStep
    <2>2. s \in Texts
      <3>1. <<>> \in Texts
        BY DEF Texts
      <3>2. i < Len(text) => text[i + 1] \in STRING
        BY <1>1 DEF Texts
      <3>3. i < Len(text) => <<text[i + 1]>> \in Texts
        BY <3>2 DEF Texts
      <3> QED
        BY <3>1, <3>3
    <2> HIDE DEF s
    <2>3. was.value \o s \in Texts
      BY <1>1, <2>2, ConcatProperties DEF Texts
    <2> DEFINE v == was.value \o s
    <2>5. v \in Texts /\ r = [closed |-> FALSE, value |-> v, end |-> i + 2]
      BY <2>1, <2>3
    <2> HIDE DEF r, v, stays
    <2> QED
      BY <1>1, <2>5 DEF QuoteStates
  <1>4. ASSUME ~stays, text[i] # "\\", text[i] = quote
        PROVE  r \in QuoteStates /\ r.closed /\ r.end = i + 1
    <2>1. r = [closed |-> TRUE, value |-> was.value, end |-> i + 1]
      BY <1>4 DEF QuoteStep
    <2> HIDE DEF r
    <2> QED
      BY <1>1, <2>1 DEF QuoteStates
  <1>5. ASSUME ~stays, text[i] # "\\", text[i] # quote
        PROVE  r \in QuoteStates /\ ~r.closed /\ r.end = i + 1
    <2>1. r = [closed |-> FALSE, value |-> was.value \o <<text[i]>>, end |-> i + 1]
      BY <1>5 DEF QuoteStep
    <2>2. text[i] \in STRING
      BY <1>1, <1>5 DEF Texts
    <2>4. <<text[i]>> \in Texts
      BY <2>2 DEF Texts
    <2>3. was.value \o <<text[i]>> \in Texts
      BY <1>1, <2>4, ConcatProperties DEF Texts
    <2> DEFINE v == was.value \o <<text[i]>>
    <2>5. v \in Texts /\ r = [closed |-> FALSE, value |-> v, end |-> i + 1]
      BY <2>1, <2>3
    <2> HIDE DEF r, v, stays
    <2> QED
      BY <1>1, <2>5 DEF QuoteStates
  <1> HIDE DEF r
  <1>6. r \in QuoteStates /\ (r = was \/ r.end > i)
    <2> HIDE DEF stays
    <2>1. CASE stays
      BY <1>2, <2>1
    <2>2. CASE ~stays /\ text[i] = "\\"
      BY <1>1, <1>3, <2>2
    <2>3. CASE ~stays /\ text[i] # "\\" /\ text[i] = quote
      BY <1>1, <1>4, <2>3
    <2>4. CASE ~stays /\ text[i] # "\\" /\ text[i] # quote
      BY <1>1, <1>5, <2>4
    <2> QED
      BY <2>1, <2>2, <2>3, <2>4
  <1>7. ~was.closed /\ r.closed => r.end = i + 1 /\ i < stop /\ i <= Len(text)
    <2>1. CASE stays
      BY <1>2, <2>1
    <2>2. CASE ~stays /\ text[i] = "\\"
      BY <1>1, <1>3, <2>2
    <2>3. CASE ~stays /\ text[i] # "\\" /\ text[i] = quote
      BY <1>1, <1>4, <2>3
    <2>4. CASE ~stays /\ text[i] # "\\" /\ text[i] # quote
      BY <1>1, <1>5, <2>4
    <2> QED
      BY <2>1, <2>2, <2>3, <2>4
  <1> QED
    BY <1>1, <1>2, <1>6, <1>7 DEF r

\* What follows from a value with the same steps: there is one, and any is typed.
LEMMA Chosen ==
  ASSUME NEW V, NEW base \in V, NEW step \in [V -> V], NEW m \in Nat, NEW f,
         f[0] = base, \A n \in 1..m : f[n - 1] \in V => f[n] = step[f[n - 1]],
         f = [n \in 0..m |-> f[n]]
  PROVE  Follows(f, V, base, step, m)
  <1> DEFINE S == {n \in Nat : n \in 0..m => f[n] \in V}
  <1>1. 0 \in S
    OBVIOUS
  <1>2. ASSUME NEW n \in S PROVE n + 1 \in S
    <2> SUFFICES ASSUME n + 1 \in 0..m PROVE f[n + 1] \in V
      OBVIOUS
    <2>1. n \in 0..m /\ n + 1 \in 1..m /\ (n + 1) - 1 = n
      OBVIOUS
    <2>2. f[n] \in V
      BY <2>1
    <2>3. f[n + 1] = step[f[n]]
      BY <2>1, <2>2
    <2> QED
      BY <2>2, <2>3
  <1> HIDE DEF S
  <1>3. S = Nat
    <2>1. S \in SUBSET Nat
      BY DEF S
    <2> QED
      BY <1>1, <1>2, <2>1, Inductive
  <1>4. \A n \in 0..m : f[n] \in V
    BY <1>3 DEF S
  <1>5. \A n \in 1..m : n - 1 \in 0..m
    OBVIOUS
  <1>6. \A n \in 1..m : f[n] = step[f[n - 1]]
    BY <1>4, <1>5
  <1>7. f \in [0..m -> V]
    BY <1>4
  <1> QED
    BY <1>6, <1>7 DEF Follows

QuoteMove(text, start, stop) == [was \in QuoteStates |-> QuoteStep(text, was, text[start], stop)]
Ends == [was \in QuoteStates |-> was.end]

\* A step through a literal moves forward or changes nothing.
LEMMA QuoteClimbs ==
  ASSUME NEW text \in Texts, NEW start \in 1..Len(text), NEW stop \in Int
  PROVE  /\ Unread(start) \in QuoteStates
         /\ QuoteMove(text, start, stop) \in [QuoteStates -> QuoteStates]
         /\ Climbs(QuoteStates, QuoteMove(text, start, stop), Ends)
  <1>1. Unread(start) \in QuoteStates
    BY DEF Unread, QuoteStates, Texts
  <1>2. \A was \in QuoteStates : QuoteStep(text, was, text[start], stop) \in QuoteStates
    BY QuoteStepMoves
  <1>3. \A was \in QuoteStates : was.end \in Int
    BY DEF QuoteStates
  <1>4. \A was \in QuoteStates : LET r == QuoteStep(text, was, text[start], stop)
                                 IN r = was \/ r.end > was.end
    BY QuoteStepMoves
  <1> HIDE DEF QuoteStates
  <1> QED
    BY <1>1, <1>2, <1>3, <1>4 DEF QuoteMove, Ends, Climbs

\* ReadQuoted, step by step.
LEMMA QuoteUnfolds ==
  ASSUME NEW text \in Texts, NEW start \in 1..Len(text), NEW stop \in Int
  PROVE  \E g : /\ Follows(g, QuoteStates, Unread(start), QuoteMove(text, start, stop), Len(text))
                /\ ReadQuoted(text, start, stop) = g[Len(text)]
  <1> DEFINE m == Len(text)
             step == QuoteMove(text, start, stop)
             base == Unread(start)
             after(f, n) == IF n = 0 THEN [closed |-> FALSE, value |-> <<>>, end |-> start + 1]
                            ELSE QuoteStep(text, f[n - 1], text[start], stop)
             Reads(f) == f = [n \in 0..m |-> after(f, n)]
  <1>1. m \in Nat /\ base \in QuoteStates /\ step \in [QuoteStates -> QuoteStates]
    BY QuoteClimbs DEF Texts
  <1>2. \A was \in QuoteStates : step[was] = QuoteStep(text, was, text[start], stop)
    BY DEF QuoteMove
  <1> DEFINE read == CHOOSE f : f = [n \in 0..m |->
                       IF n = 0 THEN [closed |-> FALSE, value |-> <<>>, end |-> start + 1]
                       ELSE QuoteStep(text, f[n - 1], text[start], stop)]
  <1>3. ReadQuoted(text, start, stop) = read[m]
    BY DEF ReadQuoted
  <1>4. read = CHOOSE f : Reads(f)
    OBVIOUS
  <1> HIDE DEF m, step, read
  <1>5. PICK g : Follows(g, QuoteStates, base, step, m)
    BY <1>1, Iterates
  <1>6. Reads(g)
    <2>1. ASSUME NEW n \in 0..m PROVE g[n] = after(g, n)
      <3>1. CASE n = 0
        BY <1>5, <3>1 DEF Follows, Unread
      <3>2. CASE n # 0
        <4>1. n \in 1..m /\ n - 1 \in 0..m
          BY <1>1, <3>2
        <4>2. g[n] = step[g[n - 1]] /\ g[n - 1] \in QuoteStates
          BY <1>5, <4>1 DEF Follows
        <4> QED
          BY <1>2, <3>2, <4>2
      <3> QED
        BY <3>1, <3>2
    <2>2. g \in [0..m -> QuoteStates]
      BY <1>5 DEF Follows
    <2> HIDE DEF after
    <2> QED
      BY <2>1, <2>2
  <1> HIDE DEF Reads
  <1>7. Reads(read)
    BY <1>4, <1>6
  <1>8. read = [n \in 0..m |-> after(read, n)]
    BY <1>7 DEF Reads
  <1> HIDE DEF after
  <1>9. \A n \in 0..m : read[n] = after(read, n)
    BY <1>8
  <1>10. read[0] = base
    <2>1. 0 \in 0..m
      BY <1>1
    <2>2. read[0] = after(read, 0)
      BY <1>9, <2>1
    <2> QED
      BY <2>2 DEF after, Unread
  <1>11. ASSUME NEW n \in 1..m, read[n - 1] \in QuoteStates PROVE read[n] = step[read[n - 1]]
    <2>1. n \in 0..m /\ n # 0
      BY <1>1
    <2> QED
      BY <1>2, <1>9, <1>11, <2>1 DEF after
  <1>12. read = [n \in 0..m |-> read[n]]
    BY <1>8
  <1>13. Follows(read, QuoteStates, base, step, m)
    <2> HIDE DEF base
    <2> QED
      BY <1>1, <1>10, <1>11, <1>12, Chosen
  <1>14. /\ Follows(read, QuoteStates, Unread(start), QuoteMove(text, start, stop), Len(text))
         /\ ReadQuoted(text, start, stop) = read[Len(text)]
    BY <1>3, <1>13 DEF m, step
  <1> QED
    BY <1>14

\* The steps as functions, at a state.
LEMMA MoveIs ==
  ASSUME NEW text \in Texts, NEW start, NEW stop, NEW was \in QuoteStates
  PROVE  QuoteMove(text, start, stop)[was] = QuoteStep(text, was, text[start], stop) /\ Ends[was] = was.end
  BY DEF QuoteMove, Ends

\* A literal that was closed ends behind its quote, before where the reader had to stop.
LEMMA QuoteEnds ==
  ASSUME NEW text \in Texts, NEW start \in 1..Len(text), NEW stop \in Int,
         ReadQuoted(text, start, stop).closed
  PROVE  /\ ReadQuoted(text, start, stop) \in QuoteStates
         /\ ReadQuoted(text, start, stop).end \in (start + 2)..(Len(text) + 1)
         /\ ReadQuoted(text, start, stop).end <= stop
         /\ \E n \in 1..(ReadQuoted(text, start, stop).end - start - 1) :
              \E g : /\ n <= Len(text)
                     /\ Follows(g, QuoteStates, Unread(start), QuoteMove(text, start, stop), Len(text))
                     /\ g[n] = ReadQuoted(text, start, stop)
                     /\ \A k \in 0..(n - 1) :
                          /\ ~g[k].closed /\ g[k] \in QuoteStates
                          /\ g[k].end < ReadQuoted(text, start, stop).end
                          /\ g[k].end < stop /\ g[k].end <= Len(text)
  <1> DEFINE m == Len(text)
             step == QuoteMove(text, start, stop)
             r == ReadQuoted(text, start, stop)
  <1>1. m \in Nat /\ start \in Nat
    BY DEF Texts
  <1>2. PICK g : Follows(g, QuoteStates, Unread(start), step, m) /\ r = g[m]
    BY QuoteUnfolds
  <1>3. Climbs(QuoteStates, step, Ends) /\ step \in [QuoteStates -> QuoteStates]
    BY QuoteClimbs
  <1>4. \A was \in QuoteStates : step[was] = QuoteStep(text, was, text[start], stop) /\ Ends[was] = was.end
    BY MoveIs
  <1>5. Unread(start) \in QuoteStates /\ Unread(start).end = start + 1 /\ ~Unread(start).closed
    BY DEF Unread, QuoteStates, Texts
  <1>6. ReadQuoted(text, start, stop).closed
    OBVIOUS
  <1> DEFINE S == {n \in 0..m : g[n].closed}
             N == Min(S)
  <1> HIDE DEF m, step, r
  <1>7. r.closed
    BY <1>6 DEF r
  <1>8. N \in 0..m /\ g[N].closed /\ \A n \in 0..(N - 1) : ~g[n].closed
    <2>1. m \in S
      BY <1>1, <1>2, <1>7
    <2>2. S \in SUBSET Nat
      BY <1>1
    <2>3. N \in S /\ \A k \in S : N <= k
      BY <2>1, <2>2, LeastOf
    <2> HIDE DEF N
    <2>4. \A n \in 0..(N - 1) : n \in 0..m /\ ~(N <= n)
      BY <1>1, <2>3
    <2> QED
      BY <2>3, <2>4
  <1> HIDE DEF N, S
  <1>9. g[0] = Unread(start) /\ N # 0
    BY <1>2, <1>5, <1>8 DEF Follows
  <1>10. \A n \in 0..m : g[n] \in QuoteStates
    BY <1>2 DEF Follows
  <1>11. /\ \A n \in 0..m : step[g[n]] = g[n] \/ Ends[g[n]] >= Ends[Unread(start)] + n
         /\ \A n \in 0..m, k \in 0..m : n <= k => Ends[g[n]] <= Ends[g[k]]
    BY <1>1, <1>2, <1>3, Climbing
  <1>12. g[N] = r
    <2>1. step[g[N]] = g[N]
      BY <1>4, <1>8, <1>10, QuoteStepMoves
    <2> DEFINE base == Unread(start)
    <2>2. Follows(g, QuoteStates, base, step, m)
      BY <1>2
    <2> HIDE DEF base
    <2>3. m \in Nat
      BY <1>1
    <2>4. \A n \in 0..m : step[g[n]] = g[n] => g[m] = g[n]
      BY <2>2, <2>3, StuckAtTheEnd
    <2> QED
      BY <1>2, <1>8, <2>1, <2>4
  <1>13. ASSUME NEW k \in 0..(N - 1)
         PROVE  step[g[k]] # g[k] /\ g[k].end < stop /\ g[k].end <= m
    <2>1. k \in 0..m /\ ~g[k].closed
      BY <1>1, <1>8
    <2>2. step[g[k]] # g[k]
      <3>1. SUFFICES ASSUME step[g[k]] = g[k] PROVE FALSE
        OBVIOUS
      <3>2. \A n \in 0..m : step[g[n]] = g[n] => g[m] = g[n]
        BY <1>1, <1>2, StuckAtTheEnd
      <3>3. g[m] = g[k]
        BY <2>1, <3>1, <3>2
      <3> QED
        BY <1>2, <1>7, <2>1, <3>3
    <2>3. g[k] \in QuoteStates /\ step[g[k]] = QuoteStep(text, g[k], text[start], stop)
      BY <1>4, <1>10, <2>1
    <2>4. ~(g[k].end >= stop) /\ ~(g[k].end > m)
      BY <2>2, <2>3, QuoteStepMoves DEF m
    <2>5. g[k].end \in Int
      BY <2>3 DEF QuoteStates
    <2> QED
      BY <1>1, <2>2, <2>4, <2>5
  <1>14. N - 1 \in 0..m /\ N \in 1..m /\ N - 1 \in 0..(N - 1)
    BY <1>1, <1>8, <1>9
  <1>15. r.end = g[N - 1].end + 1 /\ g[N - 1].end < stop /\ g[N - 1].end <= m /\ g[N - 1] \in QuoteStates
    <2>1. g[N] = step[g[N - 1]] /\ ~g[N - 1].closed /\ g[N - 1] \in QuoteStates
      BY <1>2, <1>8, <1>10, <1>14 DEF Follows
    <2>2. step[g[N - 1]] = QuoteStep(text, g[N - 1], text[start], stop)
      BY <1>4, <2>1
    <2> QED
      BY <1>7, <1>12, <2>1, <2>2, QuoteStepMoves DEF m
  <1>16. \A n \in 0..m : g[n].end \in Nat /\ Ends[g[n]] = g[n].end
    BY <1>4, <1>10 DEF QuoteStates
  <1>17. g[N - 1].end >= start + 1 + (N - 1)
    <2>1. Ends[g[N - 1]] >= Ends[Unread(start)] + (N - 1)
      BY <1>11, <1>13, <1>14
    <2>2. Ends[Unread(start)] = start + 1
      BY <1>4, <1>5
    <2> QED
      BY <1>14, <1>16, <2>1, <2>2
  <1>18. \A k \in 0..(N - 1) : g[k].end <= g[N - 1].end
    BY <1>1, <1>11, <1>14, <1>16
  <1>19. r.end \in (start + 2)..(m + 1) /\ r.end <= stop /\ N \in 1..(r.end - start - 1) /\ N <= m
    <2> DEFINE e == g[N - 1].end
               d == r.end
    <2>1. e \in Nat /\ d = e + 1 /\ e < stop /\ e <= m /\ e >= start + 1 + (N - 1)
      BY <1>14, <1>15, <1>16, <1>17
    <2>2. N \in Nat /\ N >= 1 /\ N <= m
      BY <1>1, <1>14
    <2> HIDE DEF d, e
    <2>3. d \in (start + 2)..(m + 1) /\ d <= stop /\ N \in 1..(d - start - 1)
      BY <1>1, <2>1, <2>2
    <2> QED
      BY <2>2, <2>3 DEF d
  <1>20. \A k \in 0..(N - 1) : /\ ~g[k].closed /\ g[k] \in QuoteStates /\ g[k].end < r.end
                               /\ g[k].end < stop /\ g[k].end <= m
    BY <1>1, <1>8, <1>10, <1>13, <1>14, <1>15, <1>16, <1>18
  <1>21. r \in QuoteStates
    BY <1>8, <1>10, <1>12
  <1>22. /\ N <= m
         /\ Follows(g, QuoteStates, Unread(start), step, m)
         /\ g[N] = r
         /\ \A k \in 0..(N - 1) : /\ ~g[k].closed /\ g[k] \in QuoteStates /\ g[k].end < r.end
                                /\ g[k].end < stop /\ g[k].end <= m
    BY <1>2, <1>12, <1>19, <1>20
  <1>23. \E n \in 1..(r.end - start - 1) : \E f :
            /\ n <= m
            /\ Follows(f, QuoteStates, Unread(start), step, m)
            /\ f[n] = r
            /\ \A k \in 0..(n - 1) : /\ ~f[k].closed /\ f[k] \in QuoteStates /\ f[k].end < r.end
                                    /\ f[k].end < stop /\ f[k].end <= m
    BY <1>19, <1>22
  <1> QED
    BY <1>19, <1>21, <1>23 DEF m, step, r

\* Of a literal that was closed, neither what comes after it nor a bound beyond its end
\* matters.
LEMMA QuoteSame ==
  ASSUME NEW text \in Texts, NEW start \in 1..Len(text), NEW stop \in Int,
         NEW part \in Texts, NEW limit \in Int
  PROVE  LET r == ReadQuoted(text, start, stop)
         IN /\ r.closed /\ r.end <= Len(part) + 1 /\ r.end <= limit
            /\ \A k \in 1..(r.end - 1) : part[k] = text[k]
            => ReadQuoted(part, start, limit) = r
  <1> DEFINE r == ReadQuoted(text, start, stop)
             e == r.end
             m == Len(text)
             l == Len(part)
             step == QuoteMove(text, start, stop)
             move == QuoteMove(part, start, limit)
  <1>5. SUFFICES ASSUME r.closed /\ e <= l + 1 /\ e <= limit /\ \A k \in 1..(e - 1) : part[k] = text[k]
                 PROVE  ReadQuoted(part, start, limit) = r
    OBVIOUS
  <1>1. m \in Nat /\ l \in Nat /\ start \in Nat /\ start > 0
    BY DEF Texts
  <1>2. r \in QuoteStates /\ e \in (start + 2)..(m + 1)
    BY <1>5, QuoteEnds
  <1>3. PICK N \in 1..(e - start - 1) :
           \E g : /\ N <= Len(text)
                  /\ Follows(g, QuoteStates, Unread(start), step, Len(text))
                  /\ g[N] = r
                  /\ \A k \in 0..(N - 1) : /\ ~g[k].closed /\ g[k] \in QuoteStates
                                          /\ g[k].end < e /\ g[k].end < stop /\ g[k].end <= Len(text)
    BY <1>5, QuoteEnds
  <1>4. PICK g : /\ N <= m
                 /\ Follows(g, QuoteStates, Unread(start), step, m)
                 /\ g[N] = r
                 /\ \A k \in 0..(N - 1) : /\ ~g[k].closed /\ g[k] \in QuoteStates
                                         /\ g[k].end < e /\ g[k].end < stop /\ g[k].end <= m
    BY <1>3
  <1> HIDE DEF r, m, l, step, move, e
  <1>6. start \in 1..l /\ N \in 1..l /\ N \in 1..m /\ part[start] = text[start] /\ N \in Nat
    BY <1>1, <1>2, <1>4, <1>5
  <1>7. PICK h : Follows(h, QuoteStates, Unread(start), move, l) /\ ReadQuoted(part, start, limit) = h[l]
    BY <1>6, QuoteUnfolds DEF move, l
  <1>8. \A was \in QuoteStates : step[was] = QuoteStep(text, was, text[start], stop)
                              /\ move[was] = QuoteStep(part, was, part[start], limit)
    BY MoveIs DEF step, move
  <1>9. ASSUME NEW k \in 0..(N - 1) PROVE step[g[k]] = move[g[k]]
    <2> DEFINE s == g[k]
               i == s.end
               after == QuoteStep(text, s, text[start], stop)
    <2>1. s \in QuoteStates /\ ~s.closed /\ i < e /\ i < stop /\ i <= m
      BY <1>4
    <2>2. i \in Nat /\ i > 0 /\ i < limit /\ i <= l /\ part[i] = text[i]
      <3>1. i \in Nat /\ i > 0 /\ i \in 1..(e - 1)
        BY <1>2, <2>1 DEF QuoteStates, e
      <3> HIDE DEF i
      <3> QED
        BY <1>1, <1>2, <1>5, <2>1, <3>1
    <2>3. k + 1 \in 1..N /\ k + 1 \in 1..m /\ (k + 1) - 1 = k
      <3>1. N \in Nat /\ m \in Nat /\ N <= m /\ k \in Nat /\ k <= N - 1
        BY <1>1, <1>6
      <3> HIDE DEF i, s, after
      <3> QED
        BY <3>1
    <2>4. g[k + 1] = after
      <3>1. g[k + 1] = step[g[k]]
        BY <1>4, <2>3 DEF Follows
      <3> QED
        BY <1>8, <2>1, <3>1
    <2>5. CASE text[i] # "\\"
      <3>1. QuoteStep(part, s, part[start], limit) = after
        <4> HIDE DEF s
        <4> QED
        BY <1>1, <1>6, <2>1, <2>2, <2>5 DEF QuoteStep, m, l
      <3> QED
        BY <1>8, <2>1, <3>1
    <2>6. CASE text[i] = "\\"
      <3>1. after = [closed |-> FALSE,
                     value |-> s.value \o IF i < m THEN <<text[i + 1]>> ELSE <<>>, end |-> i + 2]
        <4> HIDE DEF s
        <4> QED
          BY <2>1, <2>2, <2>6 DEF QuoteStep, m
      <3>2. after.closed = FALSE /\ after.end = i + 2
        BY <3>1
      <3> HIDE DEF after
      <3>3. k + 1 \in 0..(N - 1)
        <4>1. k + 1 # N
          BY <1>4, <1>5, <2>4, <3>2
        <4> QED
          BY <2>3, <4>1
      <3>4. i + 2 < e
        BY <1>4, <2>4, <3>2, <3>3
      <3>5. i < m /\ i < l /\ part[i + 1] = text[i + 1]
        <4> HIDE DEF i
        <4>1. i + 1 \in 1..(e - 1)
          BY <1>1, <1>2, <2>2, <3>4
        <4> QED
          BY <1>1, <1>2, <1>5, <2>2, <3>4, <4>1
      <3>6. QuoteStep(part, s, part[start], limit) =
              [closed |-> FALSE, value |-> s.value \o IF i < l THEN <<part[i + 1]>> ELSE <<>>, end |-> i + 2]
        <4> HIDE DEF s
        <4> QED
          BY <1>1, <2>1, <2>2, <2>6 DEF QuoteStep, l
      <3>7. QuoteStep(part, s, part[start], limit) = after
        <4> HIDE DEF i, s
        <4> QED
          BY <3>1, <3>5, <3>6
      <3> QED
        BY <1>8, <2>1, <3>7 DEF after
    <2> QED
      BY <2>5, <2>6
  <1>10. h[N] = g[N]
    <2>1. g[0] = h[0]
      BY <1>4, <1>7 DEF Follows
    <2>2. \A n \in 1..N : n \in 1..m /\ n \in 1..l /\ n - 1 \in 0..(N - 1)
      BY <1>1, <1>6
    <2>3. \A n \in 1..N : g[n] = step[g[n - 1]]
      BY <1>4, <2>2 DEF Follows
    <2>4. \A n \in 1..N : h[n] = move[h[n - 1]]
      BY <1>7, <2>2 DEF Follows
    <2>5. \A n \in 1..N : step[g[n - 1]] = move[g[n - 1]]
      BY <1>9, <2>2
    <2>6. N \in Nat /\ N \in 0..N
      BY <1>6
    <2>7. Agree(g, h, N)
      <3>1. Steps(g, step, N) /\ Steps(h, move, N) /\ StepsAgree(g, step, move, N)
        BY <2>3, <2>4, <2>5 DEF Steps, StepsAgree
      <3> QED
        BY <2>1, <2>6, <3>1, Alike
    <2> QED
      BY <2>6, <2>7 DEF Agree
  <1>11. h[l] = h[N]
    <2>1. h[N] \in QuoteStates /\ h[N].closed
      BY <1>2, <1>4, <1>5, <1>10 DEF r
    <2>2. move[h[N]] = h[N]
      BY <1>8, <2>1, QuoteStepMoves
    <2>3. N \in 0..l
      BY <1>1, <1>6
    <2> DEFINE base == Unread(start)
    <2>4. Follows(h, QuoteStates, base, move, l)
      BY <1>7
    <2> HIDE DEF base
    <2>5. l \in Nat
      BY <1>1
    <2>6. \A n \in 0..l : move[h[n]] = h[n] => h[l] = h[n]
      BY <2>4, <2>5, StuckAtTheEnd
    <2> QED
      BY <2>2, <2>3, <2>6
  <1> QED
    BY <1>4, <1>7, <1>10, <1>11 DEF r

-----------------------------------------------------------------------------
(* Scans.                                                                   *)

\* A string that is passed over ends behind its quote and in the text, or at its end.
LEMMA SkipEnds ==
  ASSUME NEW text \in Texts, NEW i \in 1..Len(text)
  PROVE  SkipString(text, i) \in (i + 1)..(Len(text) + 1)
  <1>1. Len(text) \in Nat
    BY DEF Texts
  <1>2. ReadQuoted(text, i, Len(text) + 1).closed =>
          ReadQuoted(text, i, Len(text) + 1).end \in (i + 2)..(Len(text) + 1)
    BY <1>1, QuoteEnds
  <1> QED
    BY <1>1, <1>2 DEF SkipString

\* The scan passes a string over as the reader reads it.
LEMMA ReadSkips ==
  ASSUME NEW text \in Texts, NEW i \in 1..Len(text), NEW stop \in Int,
         ReadQuoted(text, i, stop).closed
  PROVE  SkipString(text, i) = ReadQuoted(text, i, stop).end
  <1>1. Len(text) \in Nat
    BY DEF Texts
  <1> DEFINE limit == Len(text) + 1
             r == ReadQuoted(text, i, stop)
  <1>2. r.end \in (i + 2)..(Len(text) + 1) /\ r.closed /\ r.end <= limit
    BY <1>1, QuoteEnds
  <1>3. limit \in Int
    BY <1>1
  <1> HIDE DEF limit
  <1>4. ReadQuoted(text, i, limit) = r
    BY <1>1, <1>2, <1>3, QuoteSame
  <1> QED
    BY <1>2, <1>4 DEF SkipString, limit

\* And so it does in the part of a text that goes beyond the string.
LEMMA SkipsAlike ==
  ASSUME NEW text \in Texts, NEW i \in 1..Len(text), NEW part \in Texts
  PROVE  /\ SkipString(text, i) <= Len(text) /\ SkipString(text, i) <= Len(part) + 1
         /\ \A k \in 1..(SkipString(text, i) - 1) : part[k] = text[k]
         => SkipString(part, i) = SkipString(text, i)
  <1> DEFINE stop == Len(text) + 1
             limit == Len(part) + 1
             r == ReadQuoted(text, i, stop)
  <1>1. SUFFICES ASSUME SkipString(text, i) <= Len(text), SkipString(text, i) <= Len(part) + 1,
                        \A k \in 1..(SkipString(text, i) - 1) : part[k] = text[k]
                 PROVE  SkipString(part, i) = SkipString(text, i)
    OBVIOUS
  <1>2. Len(text) \in Nat /\ Len(part) \in Nat /\ stop \in Int /\ limit \in Int
    BY DEF Texts
  <1>3. r.closed /\ SkipString(text, i) = r.end
    BY <1>1, <1>2 DEF SkipString
  <1>4. r.end <= Len(part) + 1 /\ r.end <= limit /\ \A k \in 1..(r.end - 1) : part[k] = text[k]
    BY <1>1, <1>3
  <1> HIDE DEF stop, limit
  <1>5. ReadQuoted(part, i, limit) = r
    BY <1>2, <1>3, <1>4, QuoteSame
  <1> QED
    BY <1>3, <1>5 DEF SkipString, limit

ScanStates == [at : Nat \ {0}, depth : Int, matched : BOOLEAN]
On(i, depth) == [at |-> i, depth |-> depth, matched |-> FALSE]
ScanMove(text, open, stop) == [was \in ScanStates |-> ScanStep(text, was, open, stop)]
Places == [was \in ScanStates |-> was.at]

\* One step of a scan, by what it meets.
LEMMA ScanStepMoves ==
  ASSUME NEW text \in Texts, NEW was \in ScanStates, NEW open, NEW stop \in Int
  PROVE  LET r == ScanStep(text, was, open, stop)
             i == was.at
         IN /\ r \in ScanStates
            /\ r = was \/ r.at > i
            /\ was.matched \/ i >= stop \/ i > Len(text) => r = was
            /\ ~(was.matched \/ i >= stop \/ i > Len(text)) =>
                 /\ text[i] \in Quotes => r = On(SkipString(text, i), was.depth)
                 /\ text[i] \notin Quotes /\ text[i] = open => r = On(i + 1, was.depth + 1)
                 /\ text[i] \notin Quotes /\ text[i] # open /\ text[i] # Closing[open] =>
                      r = On(i + 1, was.depth)
                 /\ text[i] \notin Quotes /\ text[i] # open /\ text[i] = Closing[open] =>
                      r = [at |-> i + 1, depth |-> was.depth - 1, matched |-> was.depth = 1]
  <1> DEFINE r == ScanStep(text, was, open, stop)
             i == was.at
             stays == was.matched \/ i >= stop \/ i > Len(text)
  <1>1. i \in Nat /\ i > 0 /\ was.depth \in Int /\ was.matched \in BOOLEAN /\ Len(text) \in Nat
    BY DEF ScanStates, Texts
  <1>2. stays => r = was
    BY DEF ScanStep
  <1>3. ~stays => SkipString(text, i) \in Nat /\ SkipString(text, i) > i
    <2> HIDE DEF i
    <2> QED
      BY <1>1, SkipEnds
  <1>4. ~stays /\ text[i] \in Quotes => r = On(SkipString(text, i), was.depth)
    BY DEF ScanStep, On
  <1>5. ~stays /\ text[i] \notin Quotes /\ text[i] = open => r = On(i + 1, was.depth + 1)
    BY DEF ScanStep, On
  <1>6. ~stays /\ text[i] \notin Quotes /\ text[i] # open /\ text[i] # Closing[open] => r = On(i + 1, was.depth)
    BY DEF ScanStep, On
  <1>7. ~stays /\ text[i] \notin Quotes /\ text[i] # open /\ text[i] = Closing[open] =>
          r = [at |-> i + 1, depth |-> was.depth - 1, matched |-> was.depth = 1]
    BY DEF ScanStep
  <1>8. \A j \in Nat, d \in Int : j > 0 => On(j, d) \in ScanStates /\ On(j, d).at = j
    BY DEF On, ScanStates
  <1>9. [at |-> i + 1, depth |-> was.depth - 1, matched |-> was.depth = 1] \in ScanStates
    BY <1>1 DEF ScanStates
  <1> HIDE DEF r, i
  <1>10. r \in ScanStates /\ (r = was \/ r.at > i)
    <2> HIDE DEF stays
    <2>1. CASE stays
      BY <1>2, <2>1
    <2>2. CASE ~stays /\ text[i] \in Quotes
      BY <1>1, <1>3, <1>4, <1>8, <2>2
    <2>3. CASE ~stays /\ text[i] \notin Quotes /\ text[i] = open
      BY <1>1, <1>5, <1>8, <2>3
    <2>4. CASE ~stays /\ text[i] \notin Quotes /\ text[i] # open /\ text[i] # Closing[open]
      BY <1>1, <1>6, <1>8, <2>4
    <2>5. CASE ~stays /\ text[i] \notin Quotes /\ text[i] # open /\ text[i] = Closing[open]
      BY <1>1, <1>7, <1>9, <2>5
    <2> QED
      BY <2>1, <2>2, <2>3, <2>4, <2>5
  <1> QED
    BY <1>2, <1>4, <1>5, <1>6, <1>7, <1>10 DEF r, i, stays

\* The steps of a scan as functions, at a state.
LEMMA ScanMoveIs ==
  ASSUME NEW text, NEW open, NEW stop, NEW was \in ScanStates
  PROVE  ScanMove(text, open, stop)[was] = ScanStep(text, was, open, stop) /\ Places[was] = was.at
  BY DEF ScanMove, Places

\* The fields of a scan that goes on.
LEMMA OnIs ==
  /\ \A i \in Nat \ {0}, depth \in Int : On(i, depth) \in ScanStates
  /\ \A i, depth : On(i, depth).at = i /\ On(i, depth).depth = depth /\ ~On(i, depth).matched
  BY DEF On, ScanStates

\* A step of a scan moves forward or changes nothing.
LEMMA ScanClimbs ==
  ASSUME NEW text \in Texts, NEW open, NEW stop \in Int
  PROVE  /\ ScanMove(text, open, stop) \in [ScanStates -> ScanStates]
         /\ Climbs(ScanStates, ScanMove(text, open, stop), Places)
  <1>1. \A was \in ScanStates : ScanStep(text, was, open, stop) \in ScanStates
    BY ScanStepMoves
  <1>2. \A was \in ScanStates : was.at \in Int
    BY DEF ScanStates
  <1>3. \A was \in ScanStates : LET r == ScanStep(text, was, open, stop) IN r = was \/ r.at > was.at
    BY ScanStepMoves
  <1> HIDE DEF ScanStates
  <1> QED
    BY <1>1, <1>2, <1>3 DEF ScanMove, Places, Climbs

\* Scan, step by step.
LEMMA ScanUnfolds ==
  ASSUME NEW text \in Texts, NEW start \in Nat \ {0}, NEW depth \in Int, NEW open, NEW stop \in Int
  PROVE  Follows(Scan(text, start, depth, open, stop), ScanStates, On(start, depth),
                 ScanMove(text, open, stop), Len(text))
  <1> DEFINE m == Len(text)
             step == ScanMove(text, open, stop)
             base == On(start, depth)
             after(f, n) == IF n = 0 THEN [at |-> start, depth |-> depth, matched |-> FALSE]
                            ELSE ScanStep(text, f[n - 1], open, stop)
             Scans(f) == f = [n \in 0..m |-> after(f, n)]
  <1>1. m \in Nat /\ base \in ScanStates /\ step \in [ScanStates -> ScanStates]
    BY ScanClimbs, OnIs DEF Texts
  <1>2. \A was \in ScanStates : step[was] = ScanStep(text, was, open, stop)
    BY ScanMoveIs
  <1> DEFINE scan == CHOOSE f : f = [n \in 0..m |->
                       IF n = 0 THEN [at |-> start, depth |-> depth, matched |-> FALSE]
                       ELSE ScanStep(text, f[n - 1], open, stop)]
  <1>3. Scan(text, start, depth, open, stop) = scan
    BY DEF Scan
  <1>4. scan = CHOOSE f : Scans(f)
    OBVIOUS
  <1> HIDE DEF m, step, scan
  <1>5. PICK g : Follows(g, ScanStates, base, step, m)
    BY <1>1, Iterates
  <1>6. Scans(g)
    <2>1. ASSUME NEW n \in 0..m PROVE g[n] = after(g, n)
      <3>1. CASE n = 0
        BY <1>5, <3>1 DEF Follows, On
      <3>2. CASE n # 0
        <4>1. n \in 1..m /\ n - 1 \in 0..m
          BY <1>1, <3>2
        <4>2. g[n] = step[g[n - 1]] /\ g[n - 1] \in ScanStates
          BY <1>5, <4>1 DEF Follows
        <4> QED
          BY <1>2, <3>2, <4>2
      <3> QED
        BY <3>1, <3>2
    <2>2. g \in [0..m -> ScanStates]
      BY <1>5 DEF Follows
    <2> HIDE DEF after
    <2> QED
      BY <2>1, <2>2
  <1> HIDE DEF Scans
  <1>7. Scans(scan)
    BY <1>4, <1>6
  <1>8. scan = [n \in 0..m |-> after(scan, n)]
    BY <1>7 DEF Scans
  <1> HIDE DEF after
  <1>9. \A n \in 0..m : scan[n] = after(scan, n)
    BY <1>8
  <1>10. scan[0] = base
    <2>1. 0 \in 0..m
      BY <1>1
    <2>2. scan[0] = after(scan, 0)
      BY <1>9, <2>1
    <2> QED
      BY <2>2 DEF after, On
  <1>11. ASSUME NEW n \in 1..m, scan[n - 1] \in ScanStates PROVE scan[n] = step[scan[n - 1]]
    <2>1. n \in 0..m /\ n # 0
      BY <1>1
    <2> QED
      BY <1>2, <1>9, <1>11, <2>1 DEF after
  <1>12. scan = [n \in 0..m |-> scan[n]]
    BY <1>8
  <1>13. Follows(scan, ScanStates, base, step, m)
    <2> HIDE DEF base
    <2> QED
      BY <1>1, <1>10, <1>11, <1>12, Chosen
  <1> QED
    BY <1>3, <1>13 DEF m, step

\* A scan that matched goes on from every place before the bracket that was matched.
LEMMA ScanGoesOn ==
  ASSUME NEW text \in Texts, NEW start \in Nat \ {0}, NEW depth \in Int, NEW open, NEW stop \in Int,
         NEW n \in 0..Len(text)
  PROVE  LET scan == Scan(text, start, depth, open, stop)
         IN scan[Len(text)].matched /\ ~scan[n].matched =>
              /\ scan[n] \in ScanStates
              /\ scan[n].at < stop /\ scan[n].at <= Len(text)
              /\ scan[n].at >= start + n
              /\ n + 1 \in 1..Len(text)
              /\ scan[n + 1] = ScanStep(text, scan[n], open, stop)
              /\ scan[n + 1].matched => scan[Len(text)] = scan[n + 1]
  <1> DEFINE m == Len(text)
             step == ScanMove(text, open, stop)
             base == On(start, depth)
             scan == Scan(text, start, depth, open, stop)
  <1>1. SUFFICES ASSUME scan[m].matched, ~scan[n].matched
                 PROVE  /\ scan[n] \in ScanStates
                        /\ scan[n].at < stop /\ scan[n].at <= m
                        /\ scan[n].at >= start + n
                        /\ n + 1 \in 1..m
                        /\ scan[n + 1] = ScanStep(text, scan[n], open, stop)
                        /\ scan[n + 1].matched => scan[m] = scan[n + 1]
    OBVIOUS
  <1>2. m \in Nat /\ n \in 0..m /\ n \in Nat
    BY DEF Texts
  <1>3. Follows(scan, ScanStates, base, step, m)
    BY ScanUnfolds
  <1>4. Climbs(ScanStates, step, Places)
    BY ScanClimbs
  <1>5. \A was \in ScanStates : step[was] = ScanStep(text, was, open, stop) /\ Places[was] = was.at
    BY ScanMoveIs
  <1>6. base \in ScanStates /\ base.at = start
    BY OnIs
  <1> HIDE DEF m, step, base, scan
  <1>7. scan[n] \in ScanStates
    BY <1>2, <1>3 DEF Follows
  <1>8. step[scan[n]] # scan[n]
    <2>1. m \in Nat
      BY <1>2
    <2>2. \A k \in 0..m : step[scan[k]] = scan[k] => scan[m] = scan[k]
      BY <1>3, <2>1, StuckAtTheEnd
    <2> QED
      BY <1>1, <1>2, <2>2
  <1>9. scan[n].at < stop /\ scan[n].at <= m
    <2>1. ~(scan[n].at >= stop) /\ ~(scan[n].at > m)
      BY <1>5, <1>7, <1>8, ScanStepMoves DEF m
    <2>2. scan[n].at \in Int
      BY <1>7 DEF ScanStates
    <2> QED
      BY <1>2, <2>1, <2>2
  <1>10. scan[n].at >= start + n
    <2>1. Places[scan[n]] >= Places[base] + n
      BY <1>2, <1>3, <1>4, <1>8, Climbing
    <2> QED
      BY <1>5, <1>6, <1>7, <2>1
  <1>11. n + 1 \in 1..m /\ (n + 1) - 1 = n /\ n + 1 \in 0..m
    <2>1. n # m
      BY <1>1
    <2> QED
      BY <1>2, <2>1
  <1>12. scan[n + 1] = step[scan[n]] /\ scan[n + 1] \in ScanStates
    BY <1>3, <1>11 DEF Follows
  <1>13. ASSUME scan[n + 1].matched PROVE scan[m] = scan[n + 1]
    <2>1. step[scan[n + 1]] = scan[n + 1]
      BY <1>5, <1>12, <1>13, ScanStepMoves
    <2>2. m \in Nat
      BY <1>2
    <2>3. \A k \in 0..m : step[scan[k]] = scan[k] => scan[m] = scan[k]
      BY <1>3, <2>2, StuckAtTheEnd
    <2> QED
      BY <1>11, <2>1, <2>3
  <1> QED
    BY <1>5, <1>7, <1>9, <1>10, <1>11, <1>12, <1>13

\* Where a scan first matched.
LEMMA FirstMatch ==
  ASSUME NEW text \in Texts, NEW start \in Nat \ {0}, NEW depth \in Int, NEW open, NEW stop \in Int
  PROVE  LET scan == Scan(text, start, depth, open, stop)
         IN scan[Len(text)].matched =>
              \E N \in 1..Len(text) :
                /\ scan[N] = scan[Len(text)] /\ scan[N].matched
                /\ scan[N] = ScanStep(text, scan[N - 1], open, stop)
                /\ \A k \in 0..(N - 1) : ~scan[k].matched
                /\ scan[N].at = scan[N - 1].at + 1
                /\ scan[N].at \in (start + N)..(Len(text) + 1)
  <1> DEFINE m == Len(text)
             base == On(start, depth)
             step == ScanMove(text, open, stop)
             scan == Scan(text, start, depth, open, stop)
             S == {n \in 0..m : scan[n].matched}
             N == Min(S)
  <1>1. SUFFICES ASSUME scan[m].matched
                 PROVE  \E n \in 1..m :
                          /\ scan[n] = scan[m] /\ scan[n].matched
                          /\ scan[n] = ScanStep(text, scan[n - 1], open, stop)
                          /\ \A k \in 0..(n - 1) : ~scan[k].matched
                          /\ scan[n].at = scan[n - 1].at + 1
                          /\ scan[n].at \in (start + n)..(m + 1)
    OBVIOUS
  <1>2. m \in Nat
    BY DEF Texts
  <1>3. Follows(scan, ScanStates, base, step, m)
    BY ScanUnfolds
  <1>4. ~base.matched
    BY OnIs
  <1>5. \A n \in 0..m : scan[m].matched /\ ~scan[n].matched =>
              /\ scan[n] \in ScanStates
              /\ scan[n].at < stop /\ scan[n].at <= m
              /\ scan[n].at >= start + n
              /\ n + 1 \in 1..m
              /\ scan[n + 1] = ScanStep(text, scan[n], open, stop)
              /\ scan[n + 1].matched => scan[m] = scan[n + 1]
    BY ScanGoesOn
  <1> HIDE DEF m, base, step, scan
  <1>6. N \in 0..m /\ scan[N].matched /\ \A n \in 0..(N - 1) : ~scan[n].matched
    <2>1. m \in S /\ S \in SUBSET Nat
      BY <1>1, <1>2
    <2>2. N \in S /\ \A k \in S : N <= k
      BY <2>1, LeastOf
    <2> HIDE DEF N
    <2>3. \A n \in 0..(N - 1) : n \in 0..m /\ ~(N <= n)
      BY <1>2, <2>2
    <2> QED
      BY <2>2, <2>3
  <1> HIDE DEF N, S
  <1>7. N # 0
    BY <1>3, <1>4, <1>6 DEF Follows
  <1>8. N - 1 \in 0..m /\ N - 1 \in 0..(N - 1) /\ (N - 1) + 1 = N /\ N \in 1..m
    BY <1>2, <1>6, <1>7
  <1> DEFINE was == scan[N - 1]
             i == was.at
  <1>9. /\ was \in ScanStates /\ ~was.matched /\ i < stop /\ i <= m /\ i >= start + (N - 1)
        /\ scan[N] = ScanStep(text, was, open, stop) /\ scan[m] = scan[N]
    BY <1>1, <1>5, <1>6, <1>8
  <1>10. scan[N].at = i + 1
    <2>1. i \in Nat
      BY <1>9 DEF ScanStates
    <2> HIDE DEF was
    <2>2. ~(was.matched \/ i >= stop \/ i > Len(text))
      BY <1>2, <1>9, <2>1 DEF m
    <2>3. \A j, d : ~On(j, d).matched
      BY OnIs
    <2>4. CASE text[i] \in Quotes
      BY <1>6, <1>9, <2>2, <2>3, <2>4, ScanStepMoves
    <2>5. CASE text[i] \notin Quotes /\ text[i] = open
      BY <1>6, <1>9, <2>2, <2>3, <2>5, ScanStepMoves
    <2>6. CASE text[i] \notin Quotes /\ text[i] # open /\ text[i] # Closing[open]
      BY <1>6, <1>9, <2>2, <2>3, <2>6, ScanStepMoves
    <2>7. CASE text[i] \notin Quotes /\ text[i] # open /\ text[i] = Closing[open]
      BY <1>6, <1>9, <2>2, <2>3, <2>7, ScanStepMoves
    <2> QED
      BY <2>4, <2>5, <2>6, <2>7
  <1>11. scan[N].at \in (start + N)..(m + 1)
    <2>1. i \in Nat
      BY <1>9 DEF ScanStates
    <2> HIDE DEF was, i
    <2> QED
      BY <1>2, <1>8, <1>9, <1>10, <2>1
  <1> QED
    BY <1>6, <1>8, <1>9, <1>10, <1>11

\* The bounds are numbers.
LEMMA BoundsAre == MaxSpan \in Nat /\ MaxDepth \in Nat /\ MaxString \in Nat
  BY LiteralAssumption, Zenon

\* The matching bracket is behind the one it matches.
LEMMA MatchEnds ==
  ASSUME NEW text \in Texts, NEW start \in 1..Len(text), MatchBracket(text, start) # -1
  PROVE  /\ MatchBracket(text, start) \in (start + 1)..(Len(text) + 1)
         /\ Scan(text, start, 0, text[start], start + MaxSpan)[Len(text)].matched
         /\ MatchBracket(text, start) = Scan(text, start, 0, text[start], start + MaxSpan)[Len(text)].at
  <1> DEFINE open == text[start]
             stop == start + MaxSpan
             scan == Scan(text, start, 0, open, stop)
             m == Len(text)
  <1>1. m \in Nat /\ start \in Nat \ {0} /\ stop \in Int
    BY BoundsAre DEF Texts
  <1>2. scan[m].matched /\ MatchBracket(text, start) = scan[m].at
    BY DEF MatchBracket
  <1> HIDE DEF stop, open
  <1>3. PICK N \in 1..m : scan[m].at \in (start + N)..(m + 1)
    BY <1>1, <1>2, FirstMatch
  <1> QED
    BY <1>1, <1>2, <1>3 DEF open, stop

\* What is before the end of a matching bracket matches by itself.
LEMMA MatchedPart ==
  ASSUME NEW text \in Texts, Len(text) > 0, MatchBracket(text, 1) # -1
  PROVE  LET end == MatchBracket(text, 1)
             part == SubSeq(text, 1, end - 1)
         IN /\ end \in 2..(Len(text) + 1)
            /\ part \in Texts /\ Len(part) = end - 1
            /\ \A k \in 1..Len(part) : part[k] = text[k]
            /\ MatchBracket(part, 1) = end
  <1> DEFINE m == Len(text)
             end == MatchBracket(text, 1)
             part == SubSeq(text, 1, end - 1)
             l == Len(part)
             open == text[1]
             stop == 1 + MaxSpan
             base == On(1, 0)
             step == ScanMove(text, open, stop)
             move == ScanMove(part, open, stop)
             g == Scan(text, 1, 0, open, stop)
             h == Scan(part, 1, 0, open, stop)
  <1>1. m \in Nat /\ 1 \in 1..m /\ stop \in Int
    BY BoundsAre DEF Texts
  <1>2. end \in 2..(m + 1) /\ g[m].matched /\ end = g[m].at
    BY <1>1, MatchEnds
  <1>3. part \in Texts /\ l = end - 1 /\ \A k \in 1..l : part[k] = text[k]
    <2>1. \A k \in 1..(end - 1) : text[k] \in STRING
      BY <1>1, <1>2 DEF Texts
    <2> HIDE DEF end
    <2>2. /\ SubSeq(text, 1, end - 1) \in Seq(STRING)
          /\ Len(SubSeq(text, 1, end - 1)) = IF 1 <= end - 1 THEN (end - 1) - 1 + 1 ELSE 0
          /\ \A k \in 1..((end - 1) - 1 + 1) : SubSeq(text, 1, end - 1)[k] = text[1 + k - 1]
      BY <1>1, <1>2, <2>1, SubSeqProperties
    <2>3. Len(SubSeq(text, 1, end - 1)) = end - 1
      BY <1>1, <1>2, <2>2
    <2>4. \A k \in 1..(end - 1) : k \in 1..((end - 1) - 1 + 1) /\ 1 + k - 1 = k
      BY <1>1, <1>2
    <2> QED
      BY <2>2, <2>3, <2>4 DEF Texts
  <1>4. part[1] = open /\ l \in Nat /\ l > 0 /\ l <= m /\ end = l + 1
    BY <1>1, <1>2, <1>3
  <1>5. MatchBracket(part, 1) = IF h[l].matched THEN h[l].at ELSE -1
    BY <1>4 DEF MatchBracket
  <1> HIDE DEF stop, open
  <1>6. PICK N \in 1..m :
                /\ g[N] = g[m] /\ g[N].matched
                /\ g[N] = ScanStep(text, g[N - 1], open, stop)
                /\ \A k \in 0..(N - 1) : ~g[k].matched
                /\ g[N].at = g[N - 1].at + 1
                /\ g[N].at \in (1 + N)..(m + 1)
    BY <1>1, <1>2, FirstMatch
  <1>7. Follows(g, ScanStates, base, step, m) /\ Follows(h, ScanStates, base, move, l)
    <2>1. 1 \in Nat \ {0} /\ 0 \in Int /\ part \in Texts /\ stop \in Int
      BY <1>1, <1>3
    <2>2. Follows(g, ScanStates, base, step, m)
      BY <2>1, ScanUnfolds
    <2>3. Follows(h, ScanStates, base, move, l)
      <3> HIDE DEF part
      <3> QED
        BY <2>1, ScanUnfolds
    <2> QED
      BY <2>2, <2>3
  <1>8. \A n \in 0..m : g[m].matched /\ ~g[n].matched =>
              /\ g[n] \in ScanStates
              /\ g[n].at < stop /\ g[n].at <= m
              /\ n + 1 \in 1..m
              /\ g[n + 1] = ScanStep(text, g[n], open, stop)
    BY <1>1, ScanGoesOn
  <1>9. Climbs(ScanStates, step, Places)
    BY <1>1, ScanClimbs
  <1>10. \A was \in ScanStates : /\ step[was] = ScanStep(text, was, open, stop)
                                 /\ move[was] = ScanStep(part, was, open, stop)
                                 /\ Places[was] = was.at
    BY ScanMoveIs
  <1>11. \A n \in 0..m, k \in 0..m : n <= k => Places[g[n]] <= Places[g[k]]
    <2> HIDE DEF m, base, step, g
    <2> QED
      BY <1>1, <1>7, <1>9, Climbing
  <1> HIDE DEF m, l, base, step, move, g, h, end, part
  <1>12. \A n \in 0..m : g[n] \in ScanStates /\ g[n].at \in Nat /\ g[n].at > 0 /\ Places[g[n]] = g[n].at
    <2>1. \A n \in 0..m : g[n] \in ScanStates
      BY <1>7 DEF Follows
    <2> QED
      BY <1>10, <2>1 DEF ScanStates
  <1>13. N \in Nat /\ N > 0 /\ N \in 1..l /\ N - 1 \in 0..m /\ g[N - 1].at = l
    <2>1. N \in Nat /\ N > 0 /\ N - 1 \in 0..m /\ N <= m
      BY <1>1, <1>6
    <2>2. g[N].at = end /\ g[N - 1].at \in Nat
      BY <1>2, <1>6, <1>12, <2>1
    <2>3. end >= 1 + N
      BY <1>1, <1>6, <2>2
    <2> QED
      BY <1>4, <1>6, <2>1, <2>2, <2>3
  <1>14. \A k \in 0..(N - 1) : k \in 0..m /\ k <= N - 1 /\ k + 1 \in 1..N
    BY <1>1, <1>4, <1>13
  <1>15. ASSUME NEW k \in 0..(N - 1) PROVE step[g[k]] = move[g[k]]
    <2> DEFINE s == g[k]
               i == s.at
    <2>1. /\ s \in ScanStates /\ ~s.matched /\ i < stop /\ i <= m /\ i \in Nat /\ i > 0
          /\ g[k + 1] = ScanStep(text, s, open, stop)
      BY <1>2, <1>6, <1>8, <1>12, <1>14
    <2>2. i <= l
      BY <1>11, <1>12, <1>13, <1>14
    <2>3. i \in 1..l /\ i \in 1..m /\ part[i] = text[i]
      <3> HIDE DEF i
      <3> QED
        BY <1>1, <1>3, <1>4, <2>1, <2>2
    <2>4. ~(s.matched \/ i >= stop \/ i > m) /\ ~(s.matched \/ i >= stop \/ i > l)
      <3> HIDE DEF i, s
      <3>1. stop \in Int
        BY <1>1
      <3> QED
        BY <1>1, <1>4, <2>1, <2>2, <3>1
    <2>5. CASE text[i] \notin Quotes
      <3>1. ScanStep(text, s, open, stop) = ScanStep(part, s, open, stop)
        <4>1. part[i] \notin Quotes
          BY <2>3, <2>5
        <4> HIDE DEF s
        <4> QED
          BY <2>3, <2>4, <2>5, <4>1 DEF ScanStep, m, l
      <3> QED
        BY <1>10, <2>1, <3>1
    <2>6. CASE text[i] \in Quotes
      <3> DEFINE e == SkipString(text, i)
      <3>1. g[k + 1] = On(e, s.depth)
        <4>1. stop \in Int /\ ~(s.matched \/ i >= stop \/ i > Len(text))
          BY <1>1, <2>4 DEF m
        <4>2. s \in ScanStates /\ g[k + 1] = ScanStep(text, s, open, stop)
          BY <2>1
        <4> HIDE DEF s
        <4>3. ScanStep(text, s, open, stop) = On(SkipString(text, s.at), s.depth)
          BY <2>6, <4>1, <4>2, ScanStepMoves
        <4> QED
          BY <4>2, <4>3
      <3>2. ~g[k + 1].matched /\ g[k + 1].at = e
        BY <3>1, OnIs
      <3>3. e \in Nat /\ e > i
        <4> HIDE DEF i
        <4> QED
          BY <1>1, <2>3, SkipEnds DEF m
      <3>4. k + 1 \in 0..(N - 1)
        <4>1. k + 1 # N
          BY <1>6, <3>2
        <4> QED
          BY <1>13, <1>14, <4>1
      <3>5. e <= l
        BY <1>11, <1>12, <1>13, <1>14, <3>2, <3>4
      <3>6. \A j \in 1..(e - 1) : part[j] = text[j]
        <4> HIDE DEF e
        <4> QED
          BY <1>3, <1>4, <3>3, <3>5
      <3>7. SkipString(part, i) = e
        <4>1. e <= m /\ e <= l + 1
          <5> HIDE DEF e
          <5> QED
            BY <1>1, <1>4, <3>3, <3>5
        <4> HIDE DEF i
        <4> QED
          BY <1>3, <2>3, <3>6, <4>1, SkipsAlike DEF m, l
      <3>8. ScanStep(part, s, open, stop) = On(e, s.depth)
        <4> HIDE DEF e
        <4>1. part[i] \in Quotes
          BY <2>3, <2>6
        <4> QED
          BY <1>1, <1>3, <2>1, <2>4, <3>7, <4>1, ScanStepMoves DEF l
      <3> QED
        BY <1>10, <2>1, <3>1, <3>8
    <2> QED
      BY <2>5, <2>6
  <1>16. h[N] = g[N]
    <2>1. g[0] = h[0]
      BY <1>7 DEF Follows
    <2>2. \A n \in 1..N : n \in 1..m /\ n \in 1..l /\ n - 1 \in 0..(N - 1)
      BY <1>1, <1>4, <1>13
    <2>3. Steps(g, step, N) /\ Steps(h, move, N)
      BY <1>7, <2>2 DEF Follows, Steps
    <2>4. StepsAgree(g, step, move, N)
      BY <1>15, <2>2 DEF StepsAgree
    <2>5. N \in Nat /\ N \in 0..N
      BY <1>13
    <2>6. Agree(g, h, N)
      BY <2>1, <2>3, <2>4, <2>5, Alike
    <2> QED
      BY <2>5, <2>6 DEF Agree
  <1>17. h[l] = h[N]
    <2>1. N \in 0..l
      BY <1>4, <1>13
    <2>2. h[N] \in ScanStates /\ h[N].matched
      BY <1>6, <1>7, <1>16, <2>1 DEF Follows
    <2>3. move[h[N]] = h[N]
      BY <1>1, <1>3, <1>10, <2>2, ScanStepMoves
    <2>4. l \in Nat
      BY <1>4
    <2>5. Follows(h, ScanStates, base, move, l)
      BY <1>7
    <2>6. \A n \in 0..l : move[h[n]] = h[n] => h[l] = h[n]
      BY <2>4, <2>5, StuckAtTheEnd
    <2> QED
      BY <2>1, <2>3, <2>6
  <1>18. MatchBracket(part, 1) = end
    BY <1>2, <1>5, <1>6, <1>16, <1>17
  <1> QED
    BY <1>2, <1>3, <1>18 DEF m, l, end, part

-----------------------------------------------------------------------------
(* The path of the scan from the first bracket.                            *)

Openers == {"[", "{"}

\* A text that ends with the bracket that matches its first.
Whole(text) ==
  /\ text \in Texts /\ Len(text) > 0 /\ text[1] \in Openers
  /\ MatchBracket(text, 1) = Len(text) + 1

\* The scan comes to i with so many brackets open.
OnPath(text, i, depth) ==
  \E n \in 0..Len(text) : Scan(text, 1, 0, text[1], 1 + MaxSpan)[n] = On(i, depth)

\* A character the scan passes by.
Plain(c, open) == c \notin Quotes /\ c # open /\ c # Closing[open]

\* Brackets are no quotes, and an opening one is no closing one.
LEMMA OpenersAre ==
  ASSUME NEW open \in Openers
  PROVE  open \notin Quotes /\ open # Closing[open] /\ Closing[open] \notin Quotes
  <1>1. CASE open = "["
    <2>1. Closing["["] = "]"
      BY Zenon DEF Closing
    <2> QED
      BY <1>1, <2>1, Zenon DEF Quotes
  <1>2. CASE open = "{"
    <2>1. Closing["{"] = "}"
      BY Zenon DEF Closing
    <2> QED
      BY <1>2, <2>1, Zenon DEF Quotes
  <1> QED
    BY <1>1, <1>2, Zenon DEF Openers

\* What the scan does at a place on its path; only at the end of the text is the
\* first bracket closed.
LEMMA PathStep ==
  ASSUME NEW text, Whole(text), NEW i \in Nat \ {0}, NEW d \in Int, OnPath(text, i, d)
  PROVE  /\ i \in 1..Len(text)
         /\ text[i] \in Quotes => OnPath(text, SkipString(text, i), d)
         /\ Plain(text[i], text[1]) => OnPath(text, i + 1, d)
         /\ text[i] = text[1] => OnPath(text, i + 1, d + 1)
         /\ text[i] = Closing[text[1]] /\ d # 1 => OnPath(text, i + 1, d - 1)
         /\ text[i] = Closing[text[1]] /\ d = 1 => i = Len(text)
  <1> DEFINE m == Len(text)
             open == text[1]
             stop == 1 + MaxSpan
             scan == Scan(text, 1, 0, open, stop)
             was == On(i, d)
             r == ScanStep(text, was, open, stop)
  <1>1. /\ m \in Nat /\ m > 0 /\ text \in Texts /\ 1 \in 1..m /\ stop \in Int
        /\ MatchBracket(text, 1) # -1 /\ MatchBracket(text, 1) = m + 1
    BY BoundsAre DEF Whole, Texts
  <1>2. scan[m].matched /\ scan[m].at = m + 1
    BY <1>1, MatchEnds
  <1>3. open \in Openers
    BY DEF Whole
  <1>4. PICK n \in 0..m : scan[n] = was
    BY DEF OnPath
  <1>5. was \in ScanStates /\ ~was.matched /\ was.at = i /\ was.depth = d
    BY OnIs
  <1>6. scan[m].matched /\ ~scan[n].matched =>
              /\ scan[n].at < stop /\ scan[n].at <= m
              /\ n + 1 \in 1..m
              /\ scan[n + 1] = ScanStep(text, scan[n], open, stop)
              /\ scan[n + 1].matched => scan[m] = scan[n + 1]
    <2>1. 1 \in Nat \ {0} /\ 0 \in Int
      OBVIOUS
    <2> HIDE DEF open, stop
    <2> QED
      BY <1>1, <2>1, ScanGoesOn
  <1>7. /\ i < stop /\ i <= m /\ n + 1 \in 1..m /\ scan[n + 1] = r
        /\ r.matched => scan[m] = r
    BY <1>2, <1>4, <1>5, <1>6
  <1>8. i \in 1..m /\ ~(was.matched \/ i >= stop \/ i > m)
    BY <1>1, <1>5, <1>7
  <1>9. /\ text[i] \in Quotes => r = On(SkipString(text, i), d)
        /\ text[i] \notin Quotes /\ text[i] = open => r = On(i + 1, d + 1)
        /\ text[i] \notin Quotes /\ text[i] # open /\ text[i] # Closing[open] => r = On(i + 1, d)
        /\ text[i] \notin Quotes /\ text[i] # open /\ text[i] = Closing[open] =>
             r = [at |-> i + 1, depth |-> d - 1, matched |-> d = 1]
    <2> HIDE DEF was, open, stop
    <2> QED
      BY <1>1, <1>5, <1>8, ScanStepMoves
  <1>10. n + 1 \in 0..m /\ \A j, e : r = On(j, e) => OnPath(text, j, e)
    <2>1. n + 1 \in 0..m
      BY <1>7
    <2>2. \A j, e : r = On(j, e) => scan[n + 1] = On(j, e)
      BY <1>7
    <2> HIDE DEF r
    <2> QED
      BY <2>1, <2>2 DEF OnPath
  <1> HIDE DEF r
  <1>11. open \notin Quotes /\ open # Closing[open] /\ Closing[open] \notin Quotes
    BY <1>3, OpenersAre
  <1>12. text[i] \in Quotes => OnPath(text, SkipString(text, i), d)
    BY <1>9, <1>10
  <1>13. Plain(text[i], open) => OnPath(text, i + 1, d)
    BY <1>9, <1>10 DEF Plain
  <1>14. text[i] = open => OnPath(text, i + 1, d + 1)
    BY <1>9, <1>10, <1>11
  <1>15. text[i] = Closing[open] => r = [at |-> i + 1, depth |-> d - 1, matched |-> d = 1]
    BY <1>9, <1>11
  <1>16. text[i] = Closing[open] /\ d # 1 => OnPath(text, i + 1, d - 1)
    <2>1. d # 1 => [at |-> i + 1, depth |-> d - 1, matched |-> d = 1] = On(i + 1, d - 1)
      BY DEF On
    <2> QED
      BY <1>10, <1>15, <2>1
  <1>17. text[i] = Closing[open] /\ d = 1 => i = m
    <2>1. SUFFICES ASSUME text[i] = Closing[open], d = 1 PROVE i = m
      OBVIOUS
    <2>2. r.matched /\ r.at = i + 1
      <3>1. r = [at |-> i + 1, depth |-> d - 1, matched |-> d = 1]
        BY <1>15, <2>1
      <3>2. (d = 1) = TRUE
        BY <2>1
      <3>3. r = [at |-> i + 1, depth |-> d - 1, matched |-> TRUE]
        BY <3>1, <3>2
      <3> QED
        BY <3>3
    <2> QED
      BY <1>1, <1>2, <1>7, <2>2
  <1> QED
    BY <1>8, <1>12, <1>13, <1>14, <1>16, <1>17

\* The path goes by the place behind the first bracket, with one open.
LEMMA PathBegins ==
  ASSUME NEW text, Whole(text)
  PROVE  OnPath(text, 2, 1)
  <1>1. Len(text) \in Nat /\ Len(text) > 0 /\ text \in Texts /\ 1 + MaxSpan \in Int
    BY BoundsAre DEF Whole, Texts
  <1>2. Follows(Scan(text, 1, 0, text[1], 1 + MaxSpan), ScanStates, On(1, 0),
                ScanMove(text, text[1], 1 + MaxSpan), Len(text))
    <2>1. 1 \in Nat \ {0} /\ 0 \in Int
      OBVIOUS
    <2> DEFINE stop == 1 + MaxSpan
               open == text[1]
    <2>2. stop \in Int
      BY <1>1
    <2> HIDE DEF stop, open
    <2>3. Follows(Scan(text, 1, 0, open, stop), ScanStates, On(1, 0), ScanMove(text, open, stop), Len(text))
      BY <1>1, <2>1, <2>2, ScanUnfolds
    <2> QED
      BY <2>3 DEF stop, open
  <1>3. 0 \in 0..Len(text) /\ Scan(text, 1, 0, text[1], 1 + MaxSpan)[0] = On(1, 0)
    BY <1>1, <1>2 DEF Follows
  <1>4. OnPath(text, 1, 0)
    BY <1>3 DEF OnPath
  <1>5. 1 \in Nat \ {0} /\ 0 \in Int /\ 1 + 1 = 2 /\ 0 + 1 = 1
    OBVIOUS
  <1> QED
    BY <1>4, <1>5, PathStep

\* Past characters that are neither quotes nor brackets of the kind.
LEMMA PathRun ==
  ASSUME NEW text, Whole(text), NEW i \in Nat \ {0}, NEW d \in Int, OnPath(text, i, d),
         NEW j \in Nat, i <= j, \A k \in i..(j - 1) : Plain(text[k], text[1])
  PROVE  OnPath(text, j, d)
  <1> DEFINE S == {n \in Nat : i + n <= j => OnPath(text, i + n, d)}
  <1>1. 0 \in S
    OBVIOUS
  <1>2. ASSUME NEW n \in S PROVE n + 1 \in S
    <2> SUFFICES ASSUME i + (n + 1) <= j PROVE OnPath(text, i + (n + 1), d)
      OBVIOUS
    <2>1. n \in Nat /\ i + n <= j /\ i + n \in Nat \ {0} /\ (i + n) + 1 = i + (n + 1) /\ i + n \in i..(j - 1)
      OBVIOUS
    <2>2. OnPath(text, i + n, d) /\ Plain(text[i + n], text[1])
      BY <2>1
    <2>3. OnPath(text, (i + n) + 1, d)
      BY <2>1, <2>2, PathStep
    <2> QED
      BY <2>1, <2>3
  <1> HIDE DEF S
  <1>3. S = Nat
    <2>1. S \in SUBSET Nat
      BY DEF S
    <2> QED
      BY <1>1, <1>2, <2>1, Inductive
  <1>4. j - i \in S /\ i + (j - i) = j
    BY <1>3
  <1> QED
    BY <1>4 DEF S

\* Closing a bracket inside leaves one open at least, and as many more outside.
LEMMA Shallower ==
  \A w \in Int, d \in Nat : w > 0 /\ w # 1 /\ d > 0 =>
    w - 1 > 0 /\ (w - 1) + d - 1 = (w + d - 1) - 1 /\ w + d - 1 # 1
  OBVIOUS

\* What a scan passes that begins at a place of the path with one bracket open, the path
\* passes with as many more as are open there.
LEMMA PathShift ==
  ASSUME NEW text, Whole(text), NEW k \in Nat \ {0}, NEW d \in Nat \ {0}, OnPath(text, k, d),
         NEW n \in 0..Len(text), NEW e, Scan(text, k, 1, text[1], 1 + MaxSpan)[n] = On(e, 1)
  PROVE  e \in Nat \ {0} /\ OnPath(text, e, d)
  <1> DEFINE m == Len(text)
             open == text[1]
             stop == 1 + MaxSpan
             step == ScanMove(text, open, stop)
             scan == Scan(text, k, 1, open, stop)
             base == On(k, 1)
             S == {j \in Nat : j <= n =>
                     /\ scan[j] \in ScanStates /\ ~scan[j].matched /\ scan[j].depth > 0
                     /\ OnPath(text, scan[j].at, scan[j].depth + d - 1)}
  <1>1. m \in Nat /\ text \in Texts /\ stop \in Int /\ open \in Openers /\ n \in Nat /\ n <= m
    BY BoundsAre DEF Whole, Texts
  <1>2. Follows(scan, ScanStates, base, step, m)
    <2>1. 1 \in Int
      OBVIOUS
    <2> HIDE DEF stop, open
    <2> QED
      BY <1>1, <2>1, ScanUnfolds
  <1>3. \A was \in ScanStates : step[was] = ScanStep(text, was, open, stop)
    BY ScanMoveIs
  <1>4. scan[n] = On(e, 1)
    OBVIOUS
  <1>5. open \notin Quotes /\ open # Closing[open] /\ Closing[open] \notin Quotes
    BY <1>1, OpenersAre
  <1> HIDE DEF m, stop, step, scan, base, open
  <1>6. \A j \in 0..m : scan[j] \in ScanStates
    BY <1>2 DEF Follows
  <1>7. 0 \in S
    <2>1. 0 \in 0..m /\ scan[0] = base
      BY <1>1, <1>2 DEF Follows
    <2>2. base.at = k /\ base.depth = 1 /\ ~base.matched
      BY OnIs DEF base
    <2>3. scan[0].at = k /\ scan[0].depth + d - 1 = d /\ scan[0].depth > 0 /\ ~scan[0].matched
      BY <2>1, <2>2
    <2> QED
      BY <1>6, <2>1, <2>3
  <1>8. ASSUME NEW j \in S PROVE j + 1 \in S
    <2> DEFINE was == scan[j]
               r == scan[j + 1]
               i == was.at
               D == was.depth + d - 1
    <2>1. SUFFICES ASSUME j + 1 <= n
                   PROVE  r \in ScanStates /\ ~r.matched /\ r.depth > 0 /\ OnPath(text, r.at, r.depth + d - 1)
      OBVIOUS
    <2>2. j \in Nat /\ j <= n /\ j + 1 \in 1..m /\ j + 1 \in 0..m /\ (j + 1) - 1 = j /\ j \in 0..m
      BY <1>1, <2>1
    <2>3. was \in ScanStates /\ ~was.matched /\ was.depth > 0 /\ OnPath(text, i, D)
      BY <2>2
    <2>4. i \in Nat \ {0} /\ D \in Int /\ was.depth \in Int /\ D >= was.depth
      BY <2>3 DEF ScanStates
    <2>5. r = ScanStep(text, was, open, stop) /\ r \in ScanStates
      BY <1>2, <1>3, <1>6, <2>2, <2>3 DEF Follows
    <2>6. ~r.matched
      <3>1. SUFFICES ASSUME r.matched PROVE FALSE
        OBVIOUS
      <3>2. step[r] = r
        BY <1>1, <1>3, <2>5, <3>1, ScanStepMoves
      <3>3. \A l \in (j + 1)..m : scan[l] = r
        <4> DEFINE next == j + 1
        <4>1. next \in 0..m /\ m \in Nat /\ step[scan[next]] = scan[next]
          BY <1>1, <2>2, <3>2
        <4> HIDE DEF next
        <4>2. \A l \in next..m : scan[l] = scan[next]
          <5>1. \A u \in 0..m : step[scan[u]] = scan[u] => \A w \in u..m : scan[w] = scan[u]
            BY <1>2, <4>1, Stuck
          <5> QED
            BY <4>1, <5>1
        <4> QED
          BY <4>2 DEF next
      <3>4. scan[n] = r
        BY <1>1, <2>1, <2>2, <3>3
      <3> QED
        BY <1>4, <3>1, <3>4, OnIs
    <2> HIDE DEF r, i, D, was
    <2>7. i \in 1..m
      BY <2>3, <2>4, PathStep DEF m
    <2>8. CASE was.at >= stop
      <3>1. r = was
        BY <1>1, <2>3, <2>5, <2>8, ScanStepMoves
      <3> QED
        BY <2>3, <3>1 DEF i, D
    <2>9. CASE ~(was.at >= stop)
      <3>1. ~(was.matched \/ was.at >= stop \/ was.at > Len(text)) /\ was.at = i
        BY <1>1, <2>3, <2>7, <2>9 DEF i, m
      <3>2. /\ text[i] \in Quotes => r = On(SkipString(text, i), was.depth)
            /\ text[i] \notin Quotes /\ text[i] = open => r = On(i + 1, was.depth + 1)
            /\ text[i] \notin Quotes /\ text[i] # open /\ text[i] # Closing[open] => r = On(i + 1, was.depth)
            /\ text[i] \notin Quotes /\ text[i] # open /\ text[i] = Closing[open] =>
                 r = [at |-> i + 1, depth |-> was.depth - 1, matched |-> was.depth = 1]
        BY <1>1, <2>3, <2>5, <3>1, ScanStepMoves
      <3>3. /\ text[i] \in Quotes => OnPath(text, SkipString(text, i), D)
            /\ Plain(text[i], open) => OnPath(text, i + 1, D)
            /\ text[i] = open => OnPath(text, i + 1, D + 1)
            /\ text[i] = Closing[open] /\ D # 1 => OnPath(text, i + 1, D - 1)
        BY <2>3, <2>4, PathStep DEF open
      <3>4. CASE text[i] \in Quotes
        <4>1. r.at = SkipString(text, i) /\ r.depth = was.depth
          BY <3>2, <3>4, OnIs
        <4> QED
          BY <2>3, <2>5, <2>6, <3>3, <3>4, <4>1 DEF D
      <3>5. CASE text[i] \notin Quotes /\ text[i] = open
        <4>1. r.at = i + 1 /\ r.depth = was.depth + 1
          BY <3>2, <3>5, OnIs
        <4>2. r.depth + d - 1 = D + 1 /\ r.depth > 0
          BY <2>3, <2>4, <4>1 DEF D
        <4> QED
          BY <2>5, <2>6, <3>3, <3>5, <4>1, <4>2
      <3>6. CASE text[i] \notin Quotes /\ text[i] # open /\ text[i] # Closing[open]
        <4>1. r.at = i + 1 /\ r.depth = was.depth
          BY <3>2, <3>6, OnIs
        <4> QED
          BY <2>3, <2>5, <2>6, <3>3, <3>6, <4>1 DEF D, Plain
      <3>7. CASE text[i] \notin Quotes /\ text[i] # open /\ text[i] = Closing[open]
        <4>1. r = [at |-> i + 1, depth |-> was.depth - 1, matched |-> was.depth = 1]
          BY <3>2, <3>7
        <4>2. r.at = i + 1 /\ r.depth = was.depth - 1
          BY <4>1
        <4>3. was.depth # 1
          <5>1. SUFFICES ASSUME was.depth = 1 PROVE FALSE
            OBVIOUS
          <5>2. (was.depth = 1) = TRUE
            BY <5>1
          <5>3. r = [at |-> i + 1, depth |-> was.depth - 1, matched |-> TRUE]
            BY <4>1, <5>2
          <5> QED
            BY <2>6, <5>3
        <4>4. r.depth > 0 /\ r.depth + d - 1 = D - 1 /\ D # 1
          <5> DEFINE w == was.depth
          <5>1. w \in Int /\ w > 0 /\ w # 1 /\ r.depth = w - 1 /\ D = w + d - 1
            BY <2>3, <2>4, <4>2, <4>3 DEF D
          <5>2. d \in Nat /\ d > 0
            OBVIOUS
          <5> HIDE DEF w
          <5>3. w - 1 > 0 /\ (w - 1) + d - 1 = (w + d - 1) - 1 /\ w + d - 1 # 1
            BY <5>1, <5>2, Shallower
          <5>4. r.depth > 0
            BY <5>1, <5>3
          <5>5. r.depth + d - 1 = D - 1
            BY <5>1, <5>3
          <5>6. D # 1
            BY <5>1, <5>3
          <5> QED
            BY <5>4, <5>5, <5>6
        <4> QED
          BY <2>5, <2>6, <3>3, <3>7, <4>2, <4>4
      <3> QED
        BY <3>4, <3>5, <3>6, <3>7
    <2> QED
      BY <2>8, <2>9
  <1> HIDE DEF S
  <1>9. S = Nat
    <2>1. S \in SUBSET Nat
      BY DEF S
    <2> QED
      BY <1>7, <1>8, <2>1, Inductive
  <1>10. /\ scan[n] \in ScanStates
         /\ OnPath(text, scan[n].at, scan[n].depth + d - 1)
    BY <1>1, <1>9 DEF S
  <1>11. scan[n].at = e /\ scan[n].depth = 1
    BY <1>4, OnIs
  <1>12. scan[n].depth + d - 1 = d
    BY <1>11
  <1> QED
    BY <1>10, <1>11, <1>12 DEF ScanStates

-----------------------------------------------------------------------------
(* Characters, by names that the solver can hold.                          *)

Blank == " "
Comma == ","
Brackets == {"[", "{", "]", "}"}

\* What is no quote.
LEMMA Marks ==
  /\ "end" \notin Quotes /\ "!" \notin Quotes /\ "-" \notin Quotes /\ "0" \notin Quotes /\ "1" \notin Quotes
  /\ "a" \notin Quotes /\ "." \notin Quotes /\ ":" \notin Quotes /\ Blank \notin Quotes /\ Comma \notin Quotes
  BY Zenon DEF Quotes, Blank, Comma

\* What is no bracket.
LEMMA NoBrackets ==
  /\ "end" \notin Brackets /\ "!" \notin Brackets /\ "-" \notin Brackets /\ "0" \notin Brackets
  /\ "1" \notin Brackets /\ "a" \notin Brackets /\ "." \notin Brackets /\ ":" \notin Brackets
  /\ Blank \notin Brackets /\ Comma \notin Brackets
  BY Zenon DEF Brackets, Blank, Comma

\* The partners of the brackets.
LEMMA ClosingIs == Closing["["] = "]" /\ Closing["{"] = "}" /\ Closing["("] = ")"
  BY Zenon DEF Closing

\* A bracket and its partner are brackets.
LEMMA OpenersClose ==
  ASSUME NEW open \in Openers
  PROVE  open \in Brackets /\ Closing[open] \in Brackets
  BY ClosingIs, Zenon DEF Openers, Brackets

\* No two kinds of brackets share one.
LEMMA BracketsApart ==
  /\ \A c \in Brackets : c \notin Quotes
  /\ \A c \in Openers, o \in Openers : c # Closing[o]
  /\ \A c \in Openers, o \in Openers : Closing[c] = Closing[o] => c = o
  <1>1. \A c \in Brackets : c \notin Quotes
    BY Zenon DEF Brackets, Quotes
  <1>2. ASSUME NEW c \in Openers, NEW o \in Openers PROVE c # Closing[o]
    <2>1. "[" # "]" /\ "[" # "}" /\ "{" # "]" /\ "{" # "}"
      BY Zenon
    <2> QED
      BY <2>1, ClosingIs, Zenon DEF Openers
  <1>3. ASSUME NEW c \in Openers, NEW o \in Openers, Closing[c] = Closing[o] PROVE c = o
    <2>1. "]" # "}"
      BY Zenon
    <2> QED
      BY <1>3, <2>1, ClosingIs, Zenon DEF Openers
  <1> QED
    BY <1>1, <1>2, <1>3

\* What the scan for brackets of one kind passes by.
LEMMA PlainIs ==
  ASSUME NEW open \in Openers
  PROVE  /\ \A c : c \notin Quotes /\ c \notin Brackets => Plain(c, open)
         /\ \A o \in Openers : o # open => Plain(o, open) /\ Plain(Closing[o], open)
  <1>1. \A c : c \notin Quotes /\ c \notin Brackets => Plain(c, open)
    BY OpenersClose DEF Plain
  <1>2. ASSUME NEW o \in Openers, o # open PROVE Plain(o, open) /\ Plain(Closing[o], open)
    BY <1>2, OpenersClose, BracketsApart DEF Plain
  <1> QED
    BY <1>1, <1>2

\* Scalars, keys, blanks and commas are passed by.
LEMMA PlainMarks ==
  ASSUME NEW open \in Openers
  PROVE  /\ Plain(Blank, open) /\ Plain(Comma, open) /\ Plain(":", open)
         /\ \A c \in Letters \cup {"."} : Plain(c, open)
         /\ \A c \in {"0", "1", "."} : Plain(c, open)
         /\ Plain("-", open) /\ Plain("!", open) /\ Plain("0", open) /\ Plain("1", open)
  <1>1. \A c : c \notin Quotes /\ c \notin Brackets => Plain(c, open)
    BY PlainIs
  <1>2. \A c \in Letters \cup {"."} : c = "a" \/ c = "0" \/ c = "1" \/ c = "."
    BY Zenon DEF Letters
  <1> QED
    BY <1>1, <1>2, Marks, NoBrackets

-----------------------------------------------------------------------------
(* Spans.                                                                   *)

\* The greater of two numbers.
LEMMA MaxOfTwo ==
  ASSUME NEW a \in Int, NEW b \in Int
  PROVE  Max({a, b}) = IF a <= b THEN b ELSE a
  <1> DEFINE m == IF a <= b THEN b ELSE a
  <1>1. m \in {a, b} /\ m \in Int /\ \A y \in {a, b} : m >= y
    OBVIOUS
  <1>2. ASSUME NEW x \in {a, b}, \A y \in {a, b} : x >= y PROVE x = m
    BY <1>2
  <1> HIDE DEF m
  <1>3. Max({a, b}) = CHOOSE x \in {a, b} : \A y \in {a, b} : x >= y
    BY DEF Max
  <1> QED
    BY <1>1, <1>2, <1>3 DEF m

\* A character of the text, or none behind it.
LEMMA CharIs ==
  ASSUME site \in Texts
  PROVE  /\ Len(site) \in Nat
         /\ \A i \in 1..Len(site) : Char(i) = site[i]
         /\ \A i \in Nat : i > Len(site) => Char(i) = "end"
  BY DEF Char, Texts

\* Blanks that are skipped are in the text.
LEMMA SpaceEnds ==
  ASSUME site \in Texts, NEW i \in Nat \ {0}
  PROVE  /\ SkipSpace(i) \in Nat \ {0} /\ SkipSpace(i) >= i
         /\ \A k \in i..(SkipSpace(i) - 1) : k \in 1..Len(site) /\ site[k] = Blank
  <1> DEFINE m == Len(site)
             far == Max({i, m + 1})
             S == {k \in i..(m + 1) : Char(k) # Blank} \cup {far}
             e == Min(S)
  <1>1. SkipSpace(i) = e
    BY Zenon DEF SkipSpace, Blank
  <1>2. m \in Nat /\ m + 1 \in Int
    BY CharIs
  <1>3. far = IF i <= m + 1 THEN m + 1 ELSE i
    BY <1>2, MaxOfTwo
  <1> HIDE DEF m, far
  <1>4. S \in SUBSET Nat /\ S # {} /\ far \in S
    BY <1>2, <1>3
  <1>5. e \in S /\ \A k \in S : e <= k
    BY <1>4, LeastOf
  <1>6. e >= i /\ e \in Nat /\ e <= far
    BY <1>2, <1>3, <1>4, <1>5
  <1> HIDE DEF e
  <1>7. ASSUME NEW k \in i..(e - 1) PROVE k \in 1..m /\ site[k] = Blank
    <2>1. k \in i..(m + 1) /\ k \in Nat /\ k > 0 /\ k <= m
      BY <1>2, <1>3, <1>6
    <2>2. k \notin S
      BY <1>5, <1>6, <2>1
    <2>3. Char(k) = Blank
      BY <2>1, <2>2
    <2>4. k \in 1..m
      BY <1>2, <2>1
    <2> QED
      BY <2>3, <2>4, CharIs DEF m
  <1> QED
    BY <1>1, <1>6, <1>7 DEF m

\* A run of characters is in the text.
LEMMA RunEnds ==
  ASSUME site \in Texts, NEW i \in 1..(Len(site) + 1), NEW characters, "end" \notin characters
  PROVE  /\ RunEnd(i, characters) \in i..(Len(site) + 1)
         /\ \A k \in i..(RunEnd(i, characters) - 1) : k \in 1..Len(site) /\ site[k] \in characters
  <1> DEFINE m == Len(site)
             S == {k \in i..(m + 1) : Char(k) \notin characters}
             e == Min(S)
  <1>1. RunEnd(i, characters) = e
    BY DEF RunEnd
  <1>2. m \in Nat /\ i \in Nat /\ i > 0 /\ i <= m + 1
    BY CharIs
  <1>3. Char(m + 1) = "end" /\ m + 1 \in i..(m + 1)
    BY <1>2, CharIs
  <1> HIDE DEF m
  <1>4. S \in SUBSET Nat /\ S # {} /\ m + 1 \in S
    BY <1>2, <1>3
  <1>5. e \in S /\ \A k \in S : e <= k
    BY <1>4, LeastOf
  <1>6. e \in i..(m + 1)
    BY <1>5
  <1> HIDE DEF e
  <1>7. ASSUME NEW k \in i..(e - 1) PROVE k \in 1..m /\ site[k] \in characters
    <2>1. k \in i..(m + 1) /\ k \in 1..m /\ ~(e <= k)
      BY <1>2, <1>6
    <2>2. k \notin S
      BY <1>5, <2>1
    <2>3. Char(k) \in characters
      BY <2>1, <2>2
    <2> QED
      BY <2>1, <2>3, CharIs DEF m
  <1> QED
    BY <1>1, <1>6, <1>7 DEF m

-----------------------------------------------------------------------------
(* Values without an inside.                                               *)

\* A number is a run of its characters, and not empty.
LEMMA NumberEnds ==
  ASSUME site \in Texts, NEW i \in 1..Len(site), site[i] \in {"-", "0", "1"}
  PROVE  /\ NumberAt(i).end \in (i + 1)..(Len(site) + 1)
         /\ \A k \in i..(NumberAt(i).end - 1) :
              k \in 1..Len(site) /\ (site[k] = "-" \/ site[k] \in {"0", "1", "."})
  <1> DEFINE m == Len(site)
             digits == {"0", "1", "."}
             first == IF site[i] = "-" THEN i + 1 ELSE i
             e == RunEnd(first, digits)
  <1>1. m \in Nat /\ i \in Nat /\ i > 0 /\ i <= m
    BY CharIs
  <1>2. NumberAt(i).end = e
    BY DEF NumberAt
  <1>3. first \in 1..(m + 1) /\ (site[i] = "-" => first = i + 1) /\ (site[i] # "-" => first = i)
    BY <1>1
  <1> HIDE DEF m, first
  <1>4. "end" \notin digits
    OBVIOUS
  <1> HIDE DEF digits
  <1>5. /\ e \in first..(m + 1)
        /\ \A k \in first..(e - 1) : k \in 1..m /\ site[k] \in digits
    BY <1>3, <1>4, RunEnds DEF m
  <1> HIDE DEF e
  <1>6. e # i
    <2>1. SUFFICES ASSUME e = i PROVE FALSE
      OBVIOUS
    <2>2. first = i /\ site[i] # "-"
      BY <1>1, <1>3, <1>5, <2>1
    <2>3. RunEnd(i, digits) = i
      BY <2>1, <2>2 DEF e
    <2>4. Char(i) \in digits
      BY <1>1, <2>2, CharIs DEF digits, m
    <2> DEFINE S == {k \in i..(Len(site) + 1) : Char(k) \notin digits}
    <2>5. S \in SUBSET Nat /\ S # {} /\ RunEnd(i, digits) = Min(S)
      <3>1. Char(m + 1) = "end" /\ m + 1 \in i..(m + 1)
        BY <1>1, CharIs DEF m
      <3> QED
        BY <1>1, <1>4, <3>1 DEF RunEnd, m
    <2>6. Min(S) \in S
      BY <2>5, LeastOf
    <2> QED
      BY <2>3, <2>4, <2>5, <2>6
  <1>7. e \in (i + 1)..(m + 1)
    BY <1>1, <1>3, <1>5, <1>6
  <1>8. ASSUME NEW k \in i..(e - 1) PROVE k \in 1..m /\ (site[k] = "-" \/ site[k] \in digits)
    <2>1. CASE k \in first..(e - 1)
      BY <1>5, <2>1
    <2>2. CASE k \notin first..(e - 1)
      <3>1. k = i /\ site[i] = "-"
        BY <1>1, <1>3, <1>7, <2>2
      <3> QED
        BY <1>1, <3>1
    <2> QED
      BY <2>1, <2>2
  <1> QED
    BY <1>2, <1>7, <1>8 DEF m, digits

\* A name, and perhaps what a call holds: a bracket and up to its partner.
LEMMA NameEnds ==
  ASSUME site \in Texts, NEW i \in 1..Len(site), NameAt(i) # Rejected
  PROVE  \E stop \in (i + 1)..(Len(site) + 1) :
           /\ \A k \in i..(stop - 1) : k \in 1..Len(site) /\ site[k] \in Letters \cup {"."}
           /\ \/ NameAt(i).end = stop
              \/ /\ stop <= Len(site) /\ site[stop] = "("
                 /\ MatchBracket(site, stop) # -1
                 /\ NameAt(i).end = MatchBracket(site, stop)
                 /\ NameAt(i).end > stop
  <1> DEFINE m == Len(site)
             name == Letters \cup {"."}
             stop == RunEnd(i, name)
             closed == IF Char(stop) = "(" THEN MatchBracket(site, stop) ELSE -1
  <1>1. m \in Nat /\ i \in Nat /\ i > 0 /\ i <= m
    BY CharIs
  <1>2. "end" \notin name
    BY DEF Letters
  <1> HIDE DEF name
  <1>3. /\ stop \in i..(m + 1)
        /\ \A k \in i..(stop - 1) : k \in 1..m /\ site[k] \in name
    BY <1>1, <1>2, RunEnds
  <1>4. stop # i /\ NameAt(i).end = IF closed = -1 THEN stop ELSE closed
    <2>1. NameAt(i) = IF stop = i THEN Rejected
                      ELSE IF closed = -1 THEN [value |-> <<"ref", SubSeq(site, i, stop - 1)>>, end |-> stop]
                      ELSE [value |-> <<"call", SubSeq(site, i, stop - 1), Trimmed(stop + 1, closed - 2)>>,
                            end |-> closed]
      BY DEF NameAt, name
    <2> HIDE DEF stop, closed
    <2> QED
      BY <2>1
  <1> HIDE DEF stop, m
  <1>5. stop \in (i + 1)..(m + 1) /\ stop \in Nat
    BY <1>1, <1>3, <1>4
  <1>6. CASE closed = -1
    BY <1>3, <1>4, <1>5, <1>6 DEF m, name
  <1>7. CASE closed # -1
    <2>1. Char(stop) = "(" /\ closed = MatchBracket(site, stop)
      BY <1>7
    <2>2. stop <= m
      <3>1. SUFFICES ASSUME stop > m PROVE FALSE
        BY <1>1, <1>5
      <3>2. Char(stop) = "end"
        BY <1>5, <3>1, CharIs DEF m
      <3> QED
        BY <2>1, <3>2
    <2>3. stop \in 1..m /\ site[stop] = "("
      BY <1>1, <1>5, <2>1, <2>2, CharIs DEF m
    <2>4. closed \in (stop + 1)..(m + 1)
      BY <1>7, <2>1, <2>3, MatchEnds DEF m
    <2> HIDE DEF closed
    <2>5. closed > stop
      BY <1>5, <2>4
    <2> QED
      BY <1>3, <1>4, <1>5, <1>7, <2>1, <2>2, <2>3, <2>5 DEF m, name
  <1> QED
    BY <1>6, <1>7

\* Which value is read, by its first character.
LEMMA ScalarIs ==
  ASSUME site \in Texts, NEW i \in Nat \ {0}
  PROVE  /\ Char(i) = "end" => ScalarAt(i) = Rejected
         /\ Char(i) \in Quotes =>
              ScalarAt(i) = IF ReadString(site, i).closed
                            THEN [value |-> <<"string", ReadString(site, i).value>>, end |-> ReadString(site, i).end]
                            ELSE Rejected
         /\ Char(i) = "!" => ScalarAt(i).end = i + 2
         /\ Char(i) \in {"-", "0", "1"} => ScalarAt(i) = NumberAt(i)
         /\ Char(i) # "end" /\ Char(i) \notin Quotes /\ Char(i) # "!" /\ Char(i) \notin {"-", "0", "1"} =>
              ScalarAt(i) = NameAt(i)
  <1> DEFINE c == Char(i)
             string == IF ReadString(site, i).closed
                       THEN [value |-> <<"string", ReadString(site, i).value>>, end |-> ReadString(site, i).end]
                       ELSE Rejected
             negated == [value |-> <<"boolean", IF Char(i + 1) = "0" THEN "0" ELSE "1">>, end |-> i + 2]
  <1>1. ScalarAt(i) = CASE c = "end" -> Rejected
                        [] c \in Quotes -> string
                        [] c = "!" -> negated
                        [] c \in {"-", "0", "1"} -> NumberAt(i)
                        [] OTHER -> NameAt(i)
    BY DEF ScalarAt
  <1>2. negated.end = i + 2
    OBVIOUS
  <1> HIDE DEF c, string, negated
  <1>3. c = "end" => ScalarAt(i) = Rejected
    BY <1>1, Marks
  <1>4. c \in Quotes => ScalarAt(i) = string
    BY <1>1, Marks
  <1>5. c = "!" => ScalarAt(i) = negated
    BY <1>1, Marks
  <1>6. c \in {"-", "0", "1"} => ScalarAt(i) = NumberAt(i)
    BY <1>1, Marks
  <1>7. c # "end" /\ c \notin Quotes /\ c # "!" /\ c \notin {"-", "0", "1"} => ScalarAt(i) = NameAt(i)
    BY <1>1, Marks
  <1> QED
    BY <1>2, <1>3, <1>4, <1>5, <1>6, <1>7 DEF c, string

\* A string that was read ends behind its quotes, where the scan goes on too.
LEMMA StringEnds ==
  ASSUME site \in Texts, NEW i \in 1..Len(site), ReadString(site, i).closed
  PROVE  /\ ReadString(site, i).end \in (i + 2)..(Len(site) + 1)
         /\ SkipString(site, i) = ReadString(site, i).end
  <1> DEFINE stop == i + MaxString
  <1>1. stop \in Int
    BY BoundsAre, CharIs
  <1>2. ReadString(site, i) = ReadQuoted(site, i, stop)
    BY DEF ReadString
  <1> HIDE DEF stop
  <1> QED
    BY <1>1, <1>2, QuoteEnds, ReadSkips

\* A value that was read ends behind where it began.
LEMMA ScalarEnds ==
  ASSUME site \in Texts, NEW i \in Nat \ {0}, ScalarAt(i) # Rejected
  PROVE  i \in 1..Len(site) /\ ScalarAt(i).end \in Nat \ {0} /\ ScalarAt(i).end > i
  <1> DEFINE c == Char(i)
  <1>1. Len(site) \in Nat /\ i \in Nat /\ i > 0
    BY CharIs
  <1>2. c # "end" /\ i \in 1..Len(site) /\ c = site[i]
    BY <1>1, CharIs, ScalarIs
  <1> HIDE DEF c
  <1>3. CASE c \in Quotes
    <2>1. ReadString(site, i).closed /\ ScalarAt(i).end = ReadString(site, i).end
      <3>1. ReadString(site, i).closed
        BY <1>3, ScalarIs DEF c
      <3>2. ScalarAt(i) = [value |-> <<"string", ReadString(site, i).value>>, end |-> ReadString(site, i).end]
        BY <1>3, <3>1, ScalarIs DEF c
      <3> QED
        BY <3>1, <3>2
    <2>2. ReadString(site, i).end \in (i + 2)..(Len(site) + 1)
      BY <1>2, <2>1, StringEnds
    <2> QED
      BY <1>1, <1>2, <2>1, <2>2
  <1>4. CASE c = "!"
    <2>1. ScalarAt(i).end = i + 2
      BY <1>4, ScalarIs DEF c
    <2> QED
      BY <1>1, <1>2, <2>1
  <1>5. CASE c \in {"-", "0", "1"}
    <2>1. ScalarAt(i).end = NumberAt(i).end
      BY <1>5, ScalarIs DEF c
    <2>2. NumberAt(i).end \in (i + 1)..(Len(site) + 1)
      BY <1>2, <1>5, NumberEnds
    <2> QED
      BY <1>1, <1>2, <2>1, <2>2
  <1>6. CASE c \notin Quotes /\ c # "!" /\ c \notin {"-", "0", "1"}
    <2>1. ScalarAt(i) = NameAt(i) /\ NameAt(i) # Rejected
      BY <1>2, <1>6, ScalarIs DEF c
    <2>2. PICK stop \in (i + 1)..(Len(site) + 1) :
             \/ NameAt(i).end = stop
             \/ /\ stop <= Len(site)
                /\ MatchBracket(site, stop) # -1
                /\ NameAt(i).end = MatchBracket(site, stop)
                /\ NameAt(i).end > stop
      BY <1>2, <2>1, NameEnds
    <2>3. CASE NameAt(i).end = stop
      BY <1>1, <1>2, <2>1, <2>2, <2>3
    <2>4. CASE NameAt(i).end # stop
      <3>1. stop \in 1..Len(site)
        BY <1>1, <1>2, <2>2, <2>4
      <3>2. MatchBracket(site, stop) \in (stop + 1)..(Len(site) + 1)
        BY <2>2, <2>4, <3>1, MatchEnds
      <3> QED
        BY <1>1, <1>2, <2>1, <2>2, <2>4, <3>1, <3>2
    <2> QED
      BY <2>3, <2>4
  <1> QED
    BY <1>3, <1>4, <1>5, <1>6

\* The scan goes on where a value ends, with as many brackets open, unless it negates or
\* a call holds what the scan takes for something else.
LEMMA ScalarPath ==
  ASSUME Whole(site), ~Negates, ~Hides, NEW i \in Nat \ {0}, NEW d \in Nat \ {0},
         OnPath(site, i, d), ScalarAt(i) # Rejected
  PROVE  OnPath(site, ScalarAt(i).end, d)
  <1> DEFINE c == Char(i)
             open == site[1]
  <1>1. /\ site \in Texts /\ Len(site) \in Nat /\ i \in Nat /\ i > 0 /\ i \in 1..Len(site)
        /\ ScalarAt(i).end \in Nat \ {0} /\ ScalarAt(i).end > i
    BY CharIs, ScalarEnds DEF Whole
  <1>2. c = site[i] /\ c # "end"
    BY <1>1, CharIs, ScalarIs
  <1>3. open \in Openers
    BY DEF Whole
  <1> HIDE DEF c
  <1>4. CASE c \in Quotes
    <2>1. ReadString(site, i).closed
      BY <1>1, <1>4, ScalarIs DEF c
    <2>2. ScalarAt(i) = [value |-> <<"string", ReadString(site, i).value>>, end |-> ReadString(site, i).end]
      BY <1>1, <1>4, <2>1, ScalarIs DEF c
    <2>3. SkipString(site, i) = ScalarAt(i).end
      BY <1>1, <2>1, <2>2, StringEnds
    <2>4. OnPath(site, SkipString(site, i), d)
      BY <1>2, <1>4, PathStep
    <2> QED
      BY <2>3, <2>4
  <1>5. CASE c = "!"
    <2>1. ScalarAt(i).end = i + 2
      BY <1>1, <1>5, ScalarIs DEF c
    <2>2. OnPath(site, i + 1, d) /\ i + 1 \in Nat \ {0}
      <3>1. Plain(site[i], open)
        BY <1>2, <1>3, <1>5, PlainMarks
      <3> QED
        BY <1>1, <3>1, PathStep
    <2>3. i + 1 \in 1..Len(site)
      BY <2>2, PathStep
    <2>4. site[i + 1] \in {"0", "1"}
      <3>1. Char(i + 1) \in {"0", "1"}
        BY <1>1, <1>2, <1>5 DEF Negates
      <3> QED
        BY <1>1, <2>3, <3>1, CharIs
    <2>5. OnPath(site, (i + 1) + 1, d)
      <3>1. Plain(site[i + 1], open)
        BY <1>3, <2>4, PlainMarks
      <3> QED
        BY <2>2, <3>1, PathStep
    <2> QED
      BY <1>1, <2>1, <2>5
  <1>6. CASE c \in {"-", "0", "1"}
    <2>1. ScalarAt(i).end = NumberAt(i).end
      BY <1>1, <1>6, ScalarIs DEF c
    <2> DEFINE e == NumberAt(i).end
    <2>2. /\ e \in (i + 1)..(Len(site) + 1)
          /\ \A k \in i..(e - 1) : site[k] = "-" \/ site[k] \in {"0", "1", "."}
      BY <1>1, <1>2, <1>6, NumberEnds
    <2> HIDE DEF e
    <2>3. \A k \in i..(e - 1) : Plain(site[k], open)
      BY <1>3, <2>2, PlainMarks
    <2>4. e \in Nat /\ i <= e
      BY <1>1, <2>2
    <2>5. OnPath(site, e, d)
      BY <2>3, <2>4, PathRun
    <2> QED
      BY <2>1, <2>5 DEF e
  <1>7. CASE c \notin Quotes /\ c # "!" /\ c \notin {"-", "0", "1"}
    <2>1. ScalarAt(i) = NameAt(i) /\ NameAt(i) # Rejected
      BY <1>1, <1>2, <1>7, ScalarIs DEF c
    <2>2. PICK stop \in (i + 1)..(Len(site) + 1) :
             /\ \A k \in i..(stop - 1) : site[k] \in Letters \cup {"."}
             /\ \/ NameAt(i).end = stop
                \/ /\ stop <= Len(site) /\ site[stop] = "("
                   /\ MatchBracket(site, stop) # -1
                   /\ NameAt(i).end = MatchBracket(site, stop)
                   /\ NameAt(i).end > stop
      BY <1>1, <2>1, NameEnds
    <2>3. stop \in Nat \ {0} /\ i <= stop
      BY <1>1, <2>2
    <2>4. \A k \in i..(stop - 1) : Plain(site[k], open)
      BY <1>3, <2>2, PlainMarks
    <2>5. OnPath(site, stop, d)
      BY <2>3, <2>4, PathRun
    <2>6. CASE NameAt(i).end = stop
      BY <2>1, <2>5, <2>6
    <2>7. CASE NameAt(i).end # stop
      <3> DEFINE end == MatchBracket(site, stop)
      <3>1. stop \in 1..Len(site) /\ site[stop] = "(" /\ end # -1 /\ NameAt(i).end = end
        BY <1>1, <2>2, <2>3, <2>7
      <3>2. Pairs(stop)
        BY <3>1 DEF Hides
      <3> HIDE DEF end
      <3>3. PICK n \in 0..Len(site) :
               Scan(site, stop, 1, site[1], 1 + MaxSpan)[n] = [at |-> end, depth |-> 1, matched |-> FALSE]
        BY <3>1, <3>2 DEF Pairs, end
      <3>4. Scan(site, stop, 1, site[1], 1 + MaxSpan)[n] = On(end, 1)
        BY <3>3 DEF On
      <3>5. OnPath(site, end, d)
        BY <2>3, <2>5, <3>4, PathShift
      <3> QED
        BY <2>1, <3>1, <3>5
    <2> QED
      BY <2>6, <2>7
  <1> QED
    BY <1>4, <1>5, <1>6, <1>7

-----------------------------------------------------------------------------
(* The literals that are open.                                              *)

\* A literal that was opened before i.
Opened(text, f, i) ==
  /\ \E items, keys : f \in [opened : 1..(i - 1), items : items, key : keys]
  /\ text[f.opened] \in Openers

Nested(text, s, i) ==
  /\ \E F : s \in Seq(F)
  /\ Len(s) > 0 /\ s[1].opened = 1
  /\ \A j \in 1..Len(s) : Opened(text, s[j], i)

\* How many of them are of the kind of the first.
Levels(text, level, s) ==
  /\ level \in [0..Len(s) -> Nat] /\ level[0] = 0
  /\ \A j \in 1..Len(s) :
       /\ level[j] > 0
       /\ level[j] = IF text[s[j].opened] = text[1] THEN level[j - 1] + 1 ELSE level[j - 1]

\* The scan for the first bracket's partner comes to i with so many open.
Followed(text, s, i) == \E level : Levels(text, level, s) /\ OnPath(text, i, level[Len(s)])

\* What is in a sequence.
LEMMA ElementsTyped ==
  ASSUME NEW F, NEW s \in Seq(F)
  PROVE  Len(s) \in Nat /\ \A j \in 1..Len(s) : s[j] \in F
  OBVIOUS

\* A sequence without its last element.
LEMMA FrontIs ==
  ASSUME NEW F, NEW s \in Seq(F), Len(s) > 0
  PROVE  /\ Front(s) \in Seq(F) /\ Len(Front(s)) = Len(s) - 1
         /\ \A j \in 1..(Len(s) - 1) : Front(s)[j] = s[j]
         /\ Last(s) = s[Len(s)]
  <1> DEFINE n == Len(s) - 1
  <1>1. n \in Nat /\ \A j \in 1..n : s[j] \in F
    BY ElementsTyped
  <1>2. /\ SubSeq(s, 1, n) \in Seq(F)
        /\ Len(SubSeq(s, 1, n)) = IF 1 <= n THEN n - 1 + 1 ELSE 0
        /\ \A j \in 1..(n - 1 + 1) : SubSeq(s, 1, n)[j] = s[1 + j - 1]
    <2> HIDE DEF n
    <2> QED
      BY <1>1, SubSeqProperties
  <1>3. Len(SubSeq(s, 1, n)) = n /\ \A j \in 1..n : j \in 1..(n - 1 + 1) /\ 1 + j - 1 = j
    <2> HIDE DEF n
    <2> QED
      BY <1>1, <1>2
  <1>4. Front(s) = SubSeq(s, 1, n) /\ Last(s) = s[Len(s)]
    BY DEF Front, Last
  <1> HIDE DEF n
  <1>5. \A j \in 1..n : SubSeq(s, 1, n)[j] = s[j]
    BY <1>2, <1>3
  <1> QED
    BY <1>2, <1>3, <1>4, <1>5 DEF n

\* A sequence with one element more.
LEMMA AppendIs ==
  ASSUME NEW F, NEW s \in Seq(F), NEW x
  PROVE  /\ \E G : Append(s, x) \in Seq(G)
         /\ Len(Append(s, x)) = Len(s) + 1
         /\ \A j \in 1..Len(s) : Append(s, x)[j] = s[j]
         /\ Append(s, x)[Len(s) + 1] = x
  <1> DEFINE G == F \cup {x}
  <1>1. s \in Seq(G) /\ x \in G
    <2>1. Len(s) \in Nat /\ s \in [1..Len(s) -> F]
      OBVIOUS
    <2>2. \A j \in 1..Len(s) : s[j] \in G
      BY <2>1
    <2>3. s \in [1..Len(s) -> G]
      BY <2>1, <2>2
    <2> QED
      BY <2>1, <2>3
  <1>2. Append(s, x) \in Seq(G)
    <2> HIDE DEF G
    <2> QED
      BY <1>1
  <1> QED
    BY <1>1, <1>2, ElementsTyped

\* A sequence with another last element.
LEMMA LastChanged ==
  ASSUME NEW F, NEW s \in Seq(F), Len(s) > 0, NEW x
  PROVE  LET t == Front(s) \o <<x>>
         IN /\ \E G : t \in Seq(G)
            /\ Len(t) = Len(s)
            /\ \A j \in 1..(Len(s) - 1) : t[j] = s[j]
            /\ t[Len(s)] = x
  <1> DEFINE f == Front(s)
  <1>1. f \in Seq(F) /\ Len(f) = Len(s) - 1 /\ \A j \in 1..(Len(s) - 1) : f[j] = s[j]
    BY FrontIs
  <1>2. Len(s) \in Nat
    OBVIOUS
  <1> HIDE DEF f
  <1>3. f \o <<x>> = Append(f, x)
    BY <1>1
  <1>4. /\ \E G : Append(f, x) \in Seq(G)
        /\ Len(Append(f, x)) = Len(f) + 1
        /\ \A j \in 1..Len(f) : Append(f, x)[j] = f[j]
        /\ Append(f, x)[Len(f) + 1] = x
    BY <1>1, AppendIs
  <1>5. Len(f) + 1 = Len(s)
    BY <1>1, <1>2
  <1> QED
    BY <1>1, <1>2, <1>3, <1>4, <1>5 DEF f

\* Numbers of open literals depend on where they were opened alone.
LEMMA LevelsKeep ==
  ASSUME NEW text, NEW level, NEW s, NEW t, Levels(text, level, s), Len(t) = Len(s),
         \A j \in 1..Len(s) : t[j].opened = s[j].opened
  PROVE  Levels(text, level, t)
  BY DEF Levels

\* When the innermost literal is closed, the numbers of the others stay.
LEMMA LevelsShorten ==
  ASSUME NEW text, NEW level, NEW F, NEW s \in Seq(F), Levels(text, level, s), Len(s) > 0
  PROVE  \E less : /\ Levels(text, less, Front(s))
                   /\ less[Len(Front(s))] = level[Len(s) - 1]
  <1> DEFINE n == Len(s) - 1
             less == [j \in 0..n |-> level[j]]
  <1>1. n \in Nat /\ Len(s) \in Nat /\ Len(s) = n + 1
    OBVIOUS
  <1>2. Len(Front(s)) = n /\ \A j \in 1..n : Front(s)[j] = s[j]
    BY FrontIs
  <1> HIDE DEF n
  <1>3. \A j \in 0..n : j \in 0..Len(s)
    BY <1>1
  <1>4. less \in [0..n -> Nat] /\ \A j \in 0..n : less[j] = level[j]
    BY <1>3 DEF Levels
  <1> HIDE DEF less
  <1>5. 0 \in 0..n /\ n \in 0..n /\ \A j \in 1..n : j \in 0..n /\ j - 1 \in 0..n /\ j \in 1..Len(s)
    BY <1>1
  <1>6. Levels(text, less, Front(s))
    BY <1>2, <1>4, <1>5 DEF Levels
  <1> QED
    BY <1>2, <1>4, <1>5, <1>6 DEF n

\* When a literal is opened, the numbers of the others stay.
LEMMA LevelsLengthen ==
  ASSUME NEW text, NEW level, NEW F, NEW s \in Seq(F), NEW x, Levels(text, level, s), Len(s) > 0
  PROVE  \E more : /\ Levels(text, more, Append(s, x))
                   /\ more[Len(Append(s, x))] =
                        IF text[x.opened] = text[1] THEN level[Len(s)] + 1 ELSE level[Len(s)]
  <1> DEFINE n == Len(s)
             added == IF text[x.opened] = text[1] THEN level[n] + 1 ELSE level[n]
             more == [j \in 0..(n + 1) |-> IF j = n + 1 THEN added ELSE level[j]]
             t == Append(s, x)
  <1>1. n \in Nat /\ n > 0
    OBVIOUS
  <1>2. Len(t) = n + 1 /\ (\A j \in 1..n : t[j] = s[j]) /\ t[n + 1] = x
    BY AppendIs
  <1>3. /\ level \in [0..n -> Nat] /\ level[0] = 0
        /\ \A j \in 1..n : /\ level[j] > 0
                           /\ level[j] = IF text[s[j].opened] = text[1] THEN level[j - 1] + 1 ELSE level[j - 1]
    BY DEF Levels
  <1> HIDE DEF n, t
  <1>4. level[n] \in Nat /\ level[n] > 0
    BY <1>1, <1>3
  <1>5. added \in Nat /\ added > 0
    BY <1>4
  <1> HIDE DEF added
  <1>6. /\ more \in [0..(n + 1) -> Nat] /\ more[n + 1] = added
        /\ \A j \in 0..n : more[j] = level[j]
    <2>1. \A j \in 0..(n + 1) : j # n + 1 => j \in 0..n
      BY <1>1
    <2>2. \A j \in 0..n : j # n + 1 /\ j \in 0..(n + 1)
      BY <1>1
    <2>3. n + 1 \in 0..(n + 1)
      BY <1>1
    <2> QED
      BY <1>3, <1>5, <2>1, <2>2, <2>3
  <1> HIDE DEF more
  <1>7. 0 \in 0..n /\ n \in 0..n /\ (n + 1) - 1 = n
    BY <1>1
  <1>8. ASSUME NEW j \in 1..(n + 1)
        PROVE  /\ more[j] > 0
               /\ more[j] = IF text[t[j].opened] = text[1] THEN more[j - 1] + 1 ELSE more[j - 1]
    <2>1. CASE j = n + 1
      BY <1>2, <1>5, <1>6, <1>7, <2>1 DEF added
    <2>2. CASE j # n + 1
      <3>1. j \in 1..n /\ j \in 0..n /\ j - 1 \in 0..n
        BY <1>1, <2>2
      <3> QED
        BY <1>2, <1>3, <1>6, <3>1
    <2> QED
      BY <2>1, <2>2
  <1>9. Levels(text, more, t)
    BY <1>2, <1>3, <1>6, <1>7, <1>8 DEF Levels
  <1> QED
    BY <1>2, <1>6, <1>9 DEF added, n, t

-----------------------------------------------------------------------------
(* Steps of the reader.                                                     *)

\* The path goes on past blanks.
LEMMA SkipPath ==
  ASSUME Whole(site), NEW i \in Nat \ {0}, NEW d \in Nat \ {0}, OnPath(site, i, d)
  PROVE  SkipSpace(i) \in 1..Len(site) /\ OnPath(site, SkipSpace(i), d)
  <1> DEFINE e == SkipSpace(i)
  <1>1. site \in Texts /\ site[1] \in Openers
    BY DEF Whole
  <1>2. e \in Nat \ {0} /\ e >= i /\ \A k \in i..(e - 1) : site[k] = Blank
    BY <1>1, SpaceEnds
  <1> HIDE DEF e
  <1>3. \A k \in i..(e - 1) : Plain(site[k], site[1])
    BY <1>1, <1>2, PlainMarks
  <1>4. e \in Nat /\ i <= e
    BY <1>2
  <1>5. OnPath(site, e, d)
    BY <1>3, <1>4, PathRun
  <1>6. e \in 1..Len(site)
    BY <1>2, <1>5, PathStep
  <1> QED
    BY <1>5, <1>6 DEF e

\* What was opened before a place was opened before the later ones.
LEMMA OpenedLater ==
  ASSUME NEW text, NEW f, NEW i \in Nat, NEW j \in Nat, i <= j, Opened(text, f, i)
  PROVE  Opened(text, f, j)
  <1>1. PICK items, keys : f \in [opened : 1..(i - 1), items : items, key : keys]
    BY DEF Opened
  <1>2. 1..(i - 1) \subseteq 1..(j - 1)
    OBVIOUS
  <1> DEFINE before == 1..(i - 1)
             sooner == 1..(j - 1)
  <1> HIDE DEF before, sooner
  <1>3. before \subseteq sooner /\ f \in [opened : before, items : items, key : keys]
    BY <1>1, <1>2 DEF before, sooner
  <1>4. f \in [opened : sooner, items : items, key : keys]
    BY <1>3
  <1> QED
    BY <1>4 DEF Opened, sooner

WithItems(f, x) == [f EXCEPT !.items = x]
WithKey(f, k) == [f EXCEPT !.key = k]
WithBoth(f, x, k) == [f EXCEPT !.items = x, !.key = k]

\* A literal with another entry, or key, is as open as it was.
LEMMA OpenedChanged ==
  ASSUME NEW text, NEW f, NEW i, NEW x, NEW k, Opened(text, f, i)
  PROVE  /\ Opened(text, WithItems(f, x), i) /\ WithItems(f, x).opened = f.opened
         /\ Opened(text, WithKey(f, k), i) /\ WithKey(f, k).opened = f.opened
         /\ Opened(text, WithBoth(f, x, k), i) /\ WithBoth(f, x, k).opened = f.opened
  <1> DEFINE before == 1..(i - 1)
  <1>1. PICK items, keys : f \in [opened : before, items : items, key : keys]
    BY DEF Opened
  <1>2. text[f.opened] \in Openers
    BY DEF Opened
  <1> HIDE DEF before
  <1>3. /\ [f EXCEPT !.items = x] \in [opened : before, items : {x}, key : keys]
        /\ [f EXCEPT !.items = x].opened = f.opened
    BY <1>1
  <1>4. /\ [f EXCEPT !.key = k] \in [opened : before, items : items, key : {k}]
        /\ [f EXCEPT !.key = k].opened = f.opened
    BY <1>1
  <1>5. /\ [f EXCEPT !.items = x, !.key = k] \in [opened : before, items : {x}, key : {k}]
        /\ [f EXCEPT !.items = x, !.key = k].opened = f.opened
    BY <1>1
  <1> DEFINE g == [f EXCEPT !.items = x]
             h == [f EXCEPT !.key = k]
             l == [f EXCEPT !.items = x, !.key = k]
  <1> HIDE DEF g, h, l
  <1>6. Opened(text, g, i) /\ Opened(text, h, i) /\ Opened(text, l, i)
    <2>1. /\ g \in [opened : before, items : {x}, key : keys] /\ g.opened = f.opened
          /\ h \in [opened : before, items : items, key : {k}] /\ h.opened = f.opened
          /\ l \in [opened : before, items : {x}, key : {k}] /\ l.opened = f.opened
      BY <1>3, <1>4, <1>5 DEF g, h, l
    <2>2. Opened(text, g, i)
      BY <1>2, <2>1 DEF Opened, before
    <2>3. Opened(text, h, i)
      BY <1>2, <2>1 DEF Opened, before
    <2>4. Opened(text, l, i)
      BY <1>2, <2>1 DEF Opened, before
    <2> QED
      BY <2>2, <2>3, <2>4
  <1> QED
    BY <1>3, <1>4, <1>5, <1>6 DEF g, h, l, WithItems, WithKey, WithBoth

\* One literal, the innermost, is changed, and the reader goes on.
LEMMA NestedChanged ==
  ASSUME NEW text, NEW s, NEW i \in Nat, Nested(text, s, i), NEW f, Opened(text, f, i), f.opened = Last(s).opened,
         NEW j \in Nat, i <= j
  PROVE  /\ Nested(text, Front(s) \o <<f>>, j)
         /\ \A level : Levels(text, level, s) =>
              Levels(text, level, Front(s) \o <<f>>) /\ Len(Front(s) \o <<f>>) = Len(s)
  <1> DEFINE t == Front(s) \o <<f>>
  <1>1. PICK F : s \in Seq(F)
    BY DEF Nested
  <1>2. Len(s) > 0 /\ s[1].opened = 1 /\ \A k \in 1..Len(s) : Opened(text, s[k], i)
    BY DEF Nested
  <1>3. /\ \E G : t \in Seq(G)
        /\ Len(t) = Len(s)
        /\ \A k \in 1..(Len(s) - 1) : t[k] = s[k]
        /\ t[Len(s)] = f
    BY <1>1, <1>2, LastChanged
  <1>4. Len(s) \in Nat /\ Last(s) = s[Len(s)]
    <2>1. Last(s) = s[Len(s)]
      BY Zenon, <1>1, <1>2, FrontIs
    <2> QED
      BY <1>1, <2>1
  <1> HIDE DEF t
  <1>5. \A k \in 1..Len(s) : k = Len(s) \/ k \in 1..(Len(s) - 1)
    BY <1>4
  <1>6. \A k \in 1..Len(s) : t[k].opened = s[k].opened
    BY <1>3, <1>4, <1>5
  <1>7. \A k \in 1..Len(s) : Opened(text, t[k], j)
    <2>1. \A k \in 1..Len(s) : Opened(text, t[k], i)
      BY <1>2, <1>3, <1>5
    <2> QED
      BY <2>1, OpenedLater
  <1>8. 1 \in 1..Len(s)
    BY <1>2, <1>4
  <1>9. Nested(text, t, j)
    BY <1>2, <1>3, <1>6, <1>7, <1>8 DEF Nested
  <1>10. ASSUME NEW level, Levels(text, level, s) PROVE Levels(text, level, t)
    BY <1>3, <1>6, <1>10, LevelsKeep
  <1> QED
    BY <1>3, <1>9, <1>10 DEF t

\* What Add does, by names that the solver can hold.
LEMMA AddIs ==
  ASSUME NEW value, NEW began, NEW end, NEW outer, Add(value, began, end, outer)
  PROVE  LET parent == Last(outer)
             next == SkipSpace(end)
             filled == IF IsArray(parent) THEN [parent EXCEPT !.items = Append(parent.items, value)]
                       ELSE [parent EXCEPT !.items = Assign(parent.items, parent.key, value), !.key = NoKey]
         IN \/ IsArray(parent) /\ next <= began
            \/ /\ nest' = Front(outer) \o <<filled>>
               /\ at' = IF Char(next) = Comma THEN next + 1 ELSE next
               /\ outcome' = outcome
  BY Zenon DEF Add, Comma

\* A value that was read is added to the literal it is in, and the reader goes on behind it.
LEMMA AddGoesOn ==
  ASSUME site \in Texts, NEW value, NEW began \in Nat, NEW end \in Nat \ {0}, began < end,
         NEW outer, Nested(site, outer, end), Add(value, began, end, outer)
  PROVE  /\ at' \in Nat /\ at' >= end /\ outcome' = outcome
         /\ Nested(site, nest', at')
         /\ Whole(site) /\ Followed(site, outer, end) => Followed(site, nest', at')
  <1> DEFINE parent == Last(outer)
             next == SkipSpace(end)
             filled == IF IsArray(parent) THEN [parent EXCEPT !.items = Append(parent.items, value)]
                       ELSE [parent EXCEPT !.items = Assign(parent.items, parent.key, value), !.key = NoKey]
  <1>1. next \in Nat \ {0} /\ next >= end
    BY SpaceEnds
  <1>2. ~(next <= began)
    BY <1>1
  <1>3. /\ nest' = Front(outer) \o <<filled>>
        /\ at' = IF Char(next) = Comma THEN next + 1 ELSE next
        /\ outcome' = outcome
    BY <1>2, AddIs
  <1>4. at' \in Nat /\ at' >= end /\ (at' = next \/ (at' = next + 1 /\ Char(next) = Comma))
    <2> HIDE DEF next
    <2> QED
      BY <1>1, <1>3
  <1>5. Opened(site, parent, end)
    <2>1. PICK F : outer \in Seq(F)
      BY DEF Nested
    <2>2. Len(outer) > 0 /\ \A k \in 1..Len(outer) : Opened(site, outer[k], end)
      BY DEF Nested
    <2>3. parent = outer[Len(outer)] /\ Len(outer) \in 1..Len(outer)
      <3>1. Len(outer) \in Nat
        BY <2>1
      <3>2. Last(outer) = outer[Len(outer)]
        BY Zenon, <2>1, <2>2, FrontIs
      <3> QED
        BY <2>2, <3>1, <3>2
    <2> QED
      BY <2>2, <2>3
  <1>6. Opened(site, filled, end) /\ filled.opened = parent.opened
    <2> HIDE DEF parent
    <2>1. CASE IsArray(parent)
      <3> DEFINE x == Append(parent.items, value)
      <3>1. filled = WithItems(parent, x)
        BY <2>1 DEF WithItems
      <3> HIDE DEF x, filled
      <3> DEFINE g == WithItems(parent, x)
      <3>2. Opened(site, g, end) /\ g.opened = parent.opened
        BY <1>5, OpenedChanged
      <3> QED
        BY Zenon, <3>1, <3>2
    <2>2. CASE ~IsArray(parent)
      <3> DEFINE x == Assign(parent.items, parent.key, value)
                 k == NoKey
      <3>1. filled = WithBoth(parent, x, k)
        BY <2>2 DEF WithBoth
      <3> HIDE DEF x, k, filled
      <3> DEFINE g == WithBoth(parent, x, k)
      <3>2. Opened(site, g, end) /\ g.opened = parent.opened
        BY <1>5, OpenedChanged
      <3> QED
        BY Zenon, <3>1, <3>2
    <2> QED
      BY <2>1, <2>2
  <1> HIDE DEF filled, next
  <1>7. /\ Nested(site, nest', at')
        /\ \A level : Levels(site, level, outer) => Levels(site, level, nest') /\ Len(nest') = Len(outer)
    BY <1>3, <1>4, <1>6, NestedChanged
  <1>8. ASSUME Whole(site), Followed(site, outer, end) PROVE Followed(site, nest', at')
    <2>1. PICK level : Levels(site, level, outer) /\ OnPath(site, end, level[Len(outer)])
      BY <1>8 DEF Followed
    <2> DEFINE d == level[Len(outer)]
    <2>2. d \in Nat \ {0}
      <3>1. Len(outer) > 0 /\ \E F : outer \in Seq(F)
        BY DEF Nested
      <3>2. Len(outer) \in 1..Len(outer) /\ Len(outer) \in 0..Len(outer)
        BY <3>1
      <3> QED
        BY <2>1, <3>2 DEF Levels
    <2> HIDE DEF d
    <2>3. OnPath(site, end, d)
      BY <2>1 DEF d
    <2>4. next \in 1..Len(site) /\ OnPath(site, next, d)
      BY <1>8, <2>2, <2>3, SkipPath DEF next
    <2>5. OnPath(site, at', d)
      <3>1. CASE at' = next
        BY <2>4, <3>1
      <3>2. CASE at' = next + 1 /\ Char(next) = Comma
        <4>1. site[next] = Comma /\ site[1] \in Openers
          BY <1>8, <2>4, <3>2, CharIs DEF Whole
        <4>2. Plain(site[next], site[1])
          BY <4>1, PlainMarks
        <4>3. OnPath(site, next + 1, d)
          BY <1>1, <1>8, <2>2, <2>4, <4>2, PathStep
        <4> QED
          BY <3>2, <4>3
      <3> QED
        BY <1>4, <3>1, <3>2
    <2>6. Levels(site, level, nest') /\ d = level[Len(nest')]
      BY <1>7, <2>1 DEF d
    <2> QED
      BY <2>5, <2>6 DEF Followed
  <1> QED
    BY <1>3, <1>4, <1>7, <1>8

-----------------------------------------------------------------------------
(* The reader.                                                              *)

\* Nothing in the text is taken by the reader for what it is not.
Clear == ~Negates /\ ~Hides

ReaderInv ==
  /\ site \in Texts /\ Len(site) > 0 /\ site[1] \in Openers
  /\ at \in Nat
  /\ Reading => /\ Whole(site) /\ Nested(site, nest, at)
                /\ Clear => Followed(site, nest, at)

\* Whether the text is clear depends on the text alone.
LEMMA ClearKept == ASSUME site' = site PROVE Clear' <=> Clear
  BY DEF Clear, Negates, Hides, Pairs, Char

\* And what is open stays open.
LEMMA NestedLater ==
  ASSUME NEW text, NEW s, NEW i \in Nat, NEW j \in Nat, i <= j, Nested(text, s, i)
  PROVE  Nested(text, s, j)
  <1>1. \A k \in 1..Len(s) : Opened(text, s[k], i)
    BY DEF Nested
  <1>2. \A k \in 1..Len(s) : Opened(text, s[k], j)
    BY <1>1, OpenedLater
  <1> QED
    BY <1>2 DEF Nested

\* The innermost literal is one of those that are open.
LEMMA Innermost ==
  ASSUME NEW text, NEW s, NEW i, Nested(text, s, i)
  PROVE  /\ Len(s) \in Nat \ {0} /\ Last(s) = s[Len(s)]
         /\ Opened(text, Last(s), i)
         /\ text[Last(s).opened] \in Openers /\ Last(s).opened \in 1..(i - 1)
  <1>1. PICK F : s \in Seq(F)
    BY DEF Nested
  <1>2. Len(s) > 0 /\ \A k \in 1..Len(s) : Opened(text, s[k], i)
    BY DEF Nested
  <1>3. Len(s) \in Nat \ {0} /\ Len(s) \in 1..Len(s)
    <2>1. Len(s) \in Nat
      BY <1>1
    <2> QED
      BY <1>2, <2>1
  <1>4. Last(s) = s[Len(s)]
    BY Zenon, <1>1, <1>2, FrontIs
  <1>5. Opened(text, Last(s), i)
    BY <1>2, <1>3, <1>4
  <1> DEFINE f == Last(s)
  <1> HIDE DEF f
  <1>6. text[f.opened] \in Openers /\ f.opened \in 1..(i - 1)
    BY <1>5 DEF Opened, f
  <1> QED
    BY <1>3, <1>4, <1>5, <1>6 DEF f

\* Its number is one more than that of the literal around it, or the same.
LEMMA LevelOf ==
  ASSUME NEW text, NEW s, NEW level, NEW i, Nested(text, s, i), Levels(text, level, s)
  PROVE  /\ level[Len(s)] \in Nat \ {0}
         /\ Len(s) = 1 => level[Len(s)] = 1
         /\ Len(s) # 1 => level[Len(s) - 1] \in Nat \ {0}
         /\ level[Len(s)] = IF text[Last(s).opened] = text[1] THEN level[Len(s) - 1] + 1
                            ELSE level[Len(s) - 1]
  <1>1. Len(s) \in Nat \ {0} /\ Last(s) = s[Len(s)] /\ s[1].opened = 1
    BY Innermost DEF Nested
  <1> DEFINE n == Len(s)
  <1>2. /\ level \in [0..n -> Nat] /\ level[0] = 0
        /\ \A j \in 1..n : /\ level[j] > 0
                           /\ level[j] = IF text[s[j].opened] = text[1] THEN level[j - 1] + 1 ELSE level[j - 1]
    BY DEF Levels
  <1> HIDE DEF n
  <1>3. n \in Nat \ {0} /\ Last(s) = s[n]
    BY <1>1 DEF n
  <1>4. n \in 1..n /\ n \in 0..n /\ (n # 1 => n - 1 \in 1..n /\ n - 1 \in 0..n)
    BY <1>3
  <1>5. /\ level[n] \in Nat \ {0}
        /\ level[n] = IF text[Last(s).opened] = text[1] THEN level[n - 1] + 1 ELSE level[n - 1]
        /\ n # 1 => level[n - 1] \in Nat \ {0}
    BY <1>2, <1>3, <1>4
  <1>6. n = 1 => level[n] = 1
    BY <1>1, <1>2, <1>3, <1>4
  <1> QED
    BY <1>5, <1>6 DEF n

\* What is known where the reader has skipped blanks.
LEMMA Reached ==
  ASSUME ReaderInv, Reading
  PROVE  /\ Here \in Nat \ {0} /\ Here >= at /\ at \in Nat \ {0}
         /\ Nested(site, nest, Here)
         /\ Clear => Here \in 1..Len(site) /\ Followed(site, nest, Here)
  <1>1. site \in Texts /\ at \in Nat \ {0} /\ Whole(site) /\ Nested(site, nest, at)
    BY DEF ReaderInv, Reading
  <1>2. Here \in Nat \ {0} /\ Here >= at
    BY <1>1, SpaceEnds DEF Here
  <1>3. Nested(site, nest, Here)
    <2>1. at \in Nat /\ Here \in Nat /\ at <= Here
      BY <1>1, <1>2
    <2> QED
      BY <1>1, <2>1, NestedLater
  <1>4. ASSUME Clear PROVE Here \in 1..Len(site) /\ Followed(site, nest, Here)
    <2>1. PICK level : Levels(site, level, nest) /\ OnPath(site, at, level[Len(nest)])
      BY <1>4 DEF ReaderInv, Followed
    <2>2. level[Len(nest)] \in Nat \ {0}
      BY <1>1, <2>1, LevelOf
    <2>3. Here \in 1..Len(site) /\ OnPath(site, Here, level[Len(nest)])
      BY <1>1, <2>1, <2>2, SkipPath DEF Here
    <2> QED
      BY <2>1, <2>3 DEF Followed
  <1> QED
    BY <1>1, <1>2, <1>3, <1>4

\* What follows from the step that gives a site up.
LEMMA Ending ==
  ASSUME ReaderInv, Skip, site' = site
  PROVE  ReaderInv' /\ MovesOn
  BY DEF ReaderInv, Skip, End, Reading, MovesOn

Blanks == {<<>>, <<" ">>}

\* The initial states, by names that the solver can hold.
LEMMA InitIs ==
  ASSUME LiteralInit
  PROVE  /\ at = 0
         /\ \/ \E v \in Trees, blank \in Blanks, trailing \in BOOLEAN :
                 site = Written(v, blank, trailing) \o After
            \/ \E v \in Trees, c \in Characters :
                 \E k \in 2..Len(Written(v, <<>>, FALSE)) : site = ReplaceAt(Written(v, <<>>, FALSE), k, c)
            \/ site \in Garbage
  BY Zenon DEF LiteralInit, Blanks

\* What is assumed of the texts.
LEMMA SitesAre ==
  /\ Characters \subseteq STRING /\ After \in Texts
  /\ \A text \in Garbage : IsSite(text)
  /\ \A v \in Trees, blank \in Blanks, trailing \in BOOLEAN : IsSite(Written(v, blank, trailing))
  /\ \A v \in Trees : IsSite(Written(v, <<>>, FALSE))
  BY Zenon, LiteralAssumption DEF Blanks, Texts

\* A site is a text that begins with a bracket.
LEMMA IsSiteIs ==
  ASSUME NEW text
  PROVE  IsSite(text) <=> text \in Texts /\ text # <<>> /\ text[1] \in Openers
  BY Zenon DEF IsSite, Texts, Openers

\* So is one with a text behind it.
LEMMA Continued ==
  ASSUME NEW text \in Texts, Len(text) > 0, NEW rest \in Texts
  PROVE  LET more == text \o rest
         IN more \in Texts /\ Len(more) > 0 /\ more[1] = text[1]
  <1>1. Len(text) \in Nat /\ Len(rest) \in Nat /\ text \in Seq(STRING) /\ rest \in Seq(STRING)
    BY DEF Texts
  <1> DEFINE n == Len(text)
             m == Len(rest)
  <1>2. text \o rest \in Seq(STRING) /\ Len(text \o rest) = n + m
    BY Zenon, <1>1, ConcatProperties
  <1>3. \A i \in 1 .. n + m : (text \o rest)[i] = IF i <= n THEN text[i] ELSE rest[i - n]
    BY Zenon, <1>1, ConcatProperties
  <1>4. n \in Nat /\ m \in Nat /\ n > 0
    BY <1>1
  <1> HIDE DEF n, m
  <1>5. 1 \in 1 .. n + m /\ 1 <= n /\ n + m > 0
    BY <1>4
  <1>6. (text \o rest)[1] = text[1]
    <2> DEFINE t == text \o rest
    <2> HIDE DEF t
    <2>1. \A i \in 1 .. n + m : t[i] = IF i <= n THEN text[i] ELSE rest[i - n]
      BY <1>3 DEF t
    <2>2. t[1] = text[1]
      BY <1>5, <2>1
    <2> QED
      BY <2>2 DEF t
  <1> QED
    BY Zenon, <1>2, <1>5, <1>6 DEF Texts

\* A function over the first n numbers is a sequence of length n.
LEMMA OfLength ==
  ASSUME NEW S, NEW n \in Nat, NEW t \in [1..n -> S]
  PROVE  t \in Seq(S) /\ Len(t) = n
  OBVIOUS

\* And so is a text with another character behind the first.
LEMMA OneOther ==
  ASSUME NEW text \in Texts, NEW c \in STRING, NEW k \in 2..Len(text)
  PROVE  LET other == ReplaceAt(text, k, c)
         IN other \in Texts /\ Len(other) = Len(text) /\ other[1] = text[1]
  <1> DEFINE n == Len(text)
             other == [text EXCEPT ![k] = c]
  <1>1. n \in Nat /\ text \in [1..n -> STRING] /\ k \in 2..n
    BY DEF Texts
  <1> HIDE DEF n
  <1>2. other \in [1..n -> STRING] /\ other[1] = text[1]
    <2> DEFINE all == 1..n
    <2>1. 1 \in all /\ 1 # k /\ k \in all
      BY <1>1
    <2>2. text \in [all -> STRING]
      BY <1>1
    <2> HIDE DEF all
    <2>3. other \in [all -> STRING] /\ other[1] = text[1]
      BY <2>1, <2>2
    <2> QED
      BY <2>3 DEF all
  <1> HIDE DEF other
  <1>3. other \in Seq(STRING) /\ Len(other) = n
    BY Zenon, <1>1, <1>2, OfLength
  <1> QED
    BY <1>2, <1>3 DEF Texts, other, n, ReplaceAt

\* Every site begins with a bracket.
LEMMA ReaderBegins ==
  ASSUME LiteralInit
  PROVE  ReaderInv
  <1>1. at = 0
    BY InitIs
  <1>2. site \in Texts /\ Len(site) > 0 /\ site[1] \in Openers
    <2>1. ASSUME NEW text, IsSite(text)
          PROVE  text \in Texts /\ Len(text) \in Nat \ {0} /\ text[1] \in Openers
      <3>1. text \in Texts /\ text # <<>> /\ text[1] \in Openers
        BY <2>1, IsSiteIs
      <3>2. Len(text) \in Nat \ {0}
        BY <3>1 DEF Texts
      <3> QED
        BY <3>1, <3>2
    <2>2. CASE \E v \in Trees, blank \in Blanks, trailing \in BOOLEAN :
                 site = Written(v, blank, trailing) \o After
      <3>1. PICK text : IsSite(text) /\ site = text \o After
        BY Zenon, <2>2, SitesAre
      <3>2. text \in Texts /\ Len(text) \in Nat \ {0} /\ text[1] \in Openers
        BY <2>1, <3>1
      <3>3. site \in Texts /\ Len(site) > 0 /\ site[1] = text[1]
        BY <3>1, <3>2, SitesAre, Continued
      <3> QED
        BY <3>2, <3>3
    <2>3. CASE \E v \in Trees, c \in Characters :
                 \E k \in 2..Len(Written(v, <<>>, FALSE)) : site = ReplaceAt(Written(v, <<>>, FALSE), k, c)
      <3>1. PICK text, c, k : /\ IsSite(text) /\ c \in STRING /\ k \in 2..Len(text)
                              /\ site = ReplaceAt(text, k, c)
        <4>1. PICK v \in Trees, c \in Characters :
                \E k \in 2..Len(Written(v, <<>>, FALSE)) : site = ReplaceAt(Written(v, <<>>, FALSE), k, c)
          BY <2>3
        <4> DEFINE text == Written(v, <<>>, FALSE)
        <4>2. IsSite(text) /\ c \in STRING
          BY Zenon, SitesAre
        <4>3. \E k \in 2..Len(text) : site = ReplaceAt(text, k, c)
          BY <4>1
        <4> HIDE DEF text
        <4> QED
          BY Zenon, <4>2, <4>3
      <3>2. text \in Texts /\ Len(text) \in Nat \ {0} /\ text[1] \in Openers
        BY <2>1, <3>1
      <3>4. site \in Texts /\ Len(site) = Len(text) /\ site[1] = text[1]
        BY <3>1, <3>2, OneOther
      <3> QED
        BY <3>2, <3>4
    <2>4. CASE site \in Garbage
      BY <2>1, <2>4, SitesAre
    <2> QED
      BY <2>2, <2>3, <2>4, InitIs
  <1> QED
    BY <1>1, <1>2 DEF ReaderInv, Reading

\* A literal is opened where its bracket is.
LEMMA FrameIs ==
  ASSUME NEW text, NEW i \in Nat \ {0}, text[i] \in Openers
  PROVE  Opened(text, Frame(i), i + 1) /\ Frame(i).opened = i
  <1> DEFINE before == 1..((i + 1) - 1)
  <1>1. i \in before
    OBVIOUS
  <1> HIDE DEF before
  <1>2. Frame(i) \in [opened : before, items : {<<>>}, key : {NoKey}] /\ Frame(i).opened = i
    BY <1>1 DEF Frame
  <1> QED
    BY <1>2 DEF Opened, before

\* After the handlers have cut the site, the path begins behind its first bracket.
LEMMA TakeSiteKeeps ==
  ASSUME ReaderInv, TakeSite
  PROVE  ReaderInv' /\ MovesOn
  <1> DEFINE end == MatchBracket(site, 1)
             part == SubSeq(site, 1, end - 1)
             first == <<Frame(1)>>
  <1>1. CASE end = -1
    <2>1. Skip /\ site' = site
      BY <1>1 DEF TakeSite
    <2> QED
      BY <2>1, Ending
  <1>2. CASE end # -1
    <2>1. site \in Texts /\ Len(site) > 0 /\ site[1] \in Openers
      BY DEF ReaderInv
    <2>2. /\ site' = part /\ at' = 2 /\ nest' = first /\ outcome' = outcome
          /\ outcome = "reading" /\ at = 0
      BY <1>2 DEF TakeSite
    <2>3. /\ end \in 2..(Len(site) + 1)
          /\ part \in Texts /\ Len(part) = end - 1
          /\ \A k \in 1..Len(part) : part[k] = site[k]
          /\ MatchBracket(part, 1) = end
      BY <1>2, <2>1, MatchedPart
    <2>4. Len(site) \in Nat
      BY <2>1, CharIs
    <2> HIDE DEF part, end
    <2>5. Len(part) > 0 /\ part[1] \in Openers /\ MatchBracket(part, 1) = Len(part) + 1
      BY <2>1, <2>3, <2>4
    <2>6. Whole(part)
      BY <2>3, <2>5 DEF Whole
    <2>7. Opened(part, Frame(1), 2) /\ Frame(1).opened = 1
      BY <2>5, FrameIs
    <2>8. Len(first) = 1 /\ first[1] = Frame(1) /\ first \in Seq({Frame(1)})
      OBVIOUS
    <2> HIDE DEF first
    <2>9. Nested(part, first, 2)
      BY <2>7, <2>8 DEF Nested
    <2>10. Followed(part, first, 2)
      <3> DEFINE level == [j \in 0..1 |-> j]
      <3>1. level \in [0..1 -> Nat] /\ level[0] = 0 /\ level[1] = 1
        OBVIOUS
      <3> HIDE DEF level
      <3>2. Levels(part, level, first)
        BY <2>7, <2>8, <3>1 DEF Levels
      <3>3. OnPath(part, 2, level[Len(first)])
        BY <2>6, <2>8, <3>1, PathBegins
      <3> QED
        BY <3>2, <3>3 DEF Followed
    <2> QED
      BY <2>2, <2>3, <2>5, <2>6, <2>9, <2>10 DEF ReaderInv, MovesOn
  <1> QED
    BY <1>1, <1>2

\* Giving up is the last step.
LEMMA GiveUpKeeps ==
  ASSUME ReaderInv, GiveUp
  PROVE  ReaderInv' /\ MovesOn
  BY Ending DEF GiveUp

KeyQuotes == {"'", "\""}

\* The quotes of keys are quotes.
LEMMA KeyQuotesAre == KeyQuotes \subseteq Quotes
  BY Zenon DEF KeyQuotes, Quotes

\* A key, by its first character.
LEMMA KeyIs ==
  ASSUME NEW i
  PROVE  KeyAt(i) = IF Char(i) \in KeyQuotes THEN ReadString(site, i)
                    ELSE [closed |-> RunEnd(i, Letters) > i,
                          value |-> SubSeq(site, i, RunEnd(i, Letters) - 1), end |-> RunEnd(i, Letters)]
  BY Zenon DEF KeyAt, KeyQuotes

\* The step that reads a key, by names that the solver can hold.
LEMMA ReadKeyIs ==
  ASSUME ReadKey
  PROVE  /\ Reading /\ ~NeverClosed /\ site' = site
         /\ \/ Skip
            \/ /\ KeyAt(Here).closed /\ Char(SkipSpace(KeyAt(Here).end)) = ":"
               /\ nest' = Front(nest) \o <<[Top EXCEPT !.key = KeyAt(Here).value]>>
               /\ at' = SkipSpace(KeyAt(Here).end) + 1
               /\ outcome' = outcome
  BY Zenon DEF ReadKey, AtEntry

\* What is not behind the text is in it.
LEMMA NotBeyond ==
  ASSUME site \in Texts, NEW i \in Nat \ {0}, Char(i) # "end"
  PROVE  i \in 1..Len(site) /\ Char(i) = site[i]
  <1>1. Len(site) \in Nat /\ i <= Len(site)
    BY CharIs
  <1>2. i \in 1..Len(site)
    BY <1>1
  <1> QED
    BY <1>2, CharIs

\* A key that was read ends behind where it began, and the scan goes on there.
LEMMA KeyEnds ==
  ASSUME site \in Texts, NEW i \in 1..Len(site), KeyAt(i).closed
  PROVE  /\ KeyAt(i).end \in (i + 1)..(Len(site) + 1)
         /\ \/ site[i] \in Quotes /\ SkipString(site, i) = KeyAt(i).end
            \/ \A k \in i..(KeyAt(i).end - 1) : k \in 1..Len(site) /\ site[k] \in Letters
  <1>1. Char(i) = site[i] /\ Len(site) \in Nat
    BY CharIs
  <1>2. CASE Char(i) \in KeyQuotes
    <2>1. KeyAt(i) = ReadString(site, i)
      BY <1>2, KeyIs
    <2>2. ReadString(site, i).end \in (i + 2)..(Len(site) + 1) /\ SkipString(site, i) = ReadString(site, i).end
      BY <2>1, StringEnds
    <2>3. site[i] \in Quotes
      BY <1>1, <1>2, KeyQuotesAre
    <2> DEFINE e == ReadString(site, i).end
    <2> HIDE DEF e
    <2>4. e \in (i + 1)..(Len(site) + 1)
      BY <1>1, <2>2 DEF e
    <2> QED
      BY <2>1, <2>2, <2>3, <2>4 DEF e
  <1>3. CASE Char(i) \notin KeyQuotes
    <2> DEFINE e == RunEnd(i, Letters)
    <2>1. KeyAt(i).closed = (e > i) /\ KeyAt(i).end = e
      BY <1>3, KeyIs
    <2>2. i \in 1..(Len(site) + 1) /\ "end" \notin Letters
      BY <1>1 DEF Letters
    <2>3. e \in i..(Len(site) + 1) /\ \A k \in i..(e - 1) : k \in 1..Len(site) /\ site[k] \in Letters
      BY <2>2, RunEnds
    <2> HIDE DEF e
    <2>4. e > i
      BY <2>1
    <2>5. e \in (i + 1)..(Len(site) + 1)
      BY <1>1, <2>3, <2>4
    <2> QED
      BY <2>1, <2>3, <2>5
  <1> QED
    BY <1>2, <1>3

\* So it is on the path.
LEMMA KeyPath ==
  ASSUME Whole(site), NEW i \in 1..Len(site), KeyAt(i).closed,
         NEW d \in Nat \ {0}, OnPath(site, i, d)
  PROVE  OnPath(site, KeyAt(i).end, d)
  <1>1. site \in Texts /\ site[1] \in Openers
    BY DEF Whole
  <1> DEFINE e == KeyAt(i).end
  <1>2. /\ e \in (i + 1)..(Len(site) + 1)
        /\ \/ site[i] \in Quotes /\ SkipString(site, i) = e
           \/ \A k \in i..(e - 1) : k \in 1..Len(site) /\ site[k] \in Letters
    BY <1>1, KeyEnds
  <1> HIDE DEF e
  <1>3. CASE site[i] \in Quotes /\ SkipString(site, i) = e
    <2>1. OnPath(site, SkipString(site, i), d)
      BY <1>3, PathStep
    <2> QED
      BY <1>3, <2>1 DEF e
  <1>4. CASE \A k \in i..(e - 1) : k \in 1..Len(site) /\ site[k] \in Letters
    <2>1. \A k \in i..(e - 1) : Plain(site[k], site[1])
      BY <1>1, <1>4, PlainMarks
    <2>2. e \in Nat /\ i <= e
      BY <1>2
    <2>3. OnPath(site, e, d)
      BY <2>1, <2>2, PathRun
    <2> QED
      BY <2>3 DEF e
  <1> QED
    BY <1>2, <1>3, <1>4

\* A step that leaves the text alone and reads on.
LEMMA ReadsOn ==
  ASSUME ReaderInv, Reading, site' = site, at' \in Nat, at' > at, outcome' = outcome,
         Nested(site, nest', at'), Clear => Followed(site, nest', at')
  PROVE  ReaderInv' /\ MovesOn
  <1>1. Clear' <=> Clear
    BY ClearKept
  <1>2. Whole(site)
    BY DEF ReaderInv
  <1>3. outcome = "reading"
    BY DEF Reading
  <1>4. ReaderInv'
    BY <1>1, <1>2, <1>3 DEF ReaderInv
  <1> QED
    BY <1>3, <1>4 DEF MovesOn

\* A key and its colon have no brackets.
LEMMA ReadKeyKeeps ==
  ASSUME ReaderInv, ReadKey
  PROVE  ReaderInv' /\ MovesOn
  <1>1. Reading /\ ~NeverClosed /\ site' = site
    BY ReadKeyIs
  <1>2. CASE Skip
    BY <1>1, <1>2, Ending
  <1>3. CASE ~Skip
    <2> DEFINE i == Here
               e == KeyAt(i).end
               c == SkipSpace(e)
               filled == WithKey(Top, KeyAt(i).value)
               s == Front(nest) \o <<filled>>
    <2>1. KeyAt(i).closed /\ Char(c) = ":" /\ nest' = s /\ at' = c + 1 /\ outcome' = outcome
      BY Zenon, <1>3, ReadKeyIs DEF WithKey
    <2>2. site \in Texts /\ Whole(site) /\ site[1] \in Openers
      BY <1>1 DEF ReaderInv
    <2>3. i \in Nat \ {0} /\ i >= at /\ at \in Nat \ {0} /\ Nested(site, nest, i)
      BY <1>1, Reached
    <2>4. i \in 1..Len(site)
      <3>1. Len(site) \in Nat
        BY <2>2, CharIs
      <3>2. i <= Len(site)
        <4>1. Len(site) \in Int /\ i \in Int /\ ~(i > Len(site))
          BY <1>1, <2>3, <3>1 DEF NeverClosed
        <4> QED
          BY <4>1
      <3> QED
        BY <2>3, <3>1, <3>2
    <2>5. e \in (i + 1)..(Len(site) + 1)
      BY <2>1, <2>2, <2>4, KeyEnds
    <2>6. Opened(site, Top, i)
      BY <2>3, Innermost DEF Top
    <2>7. Opened(site, filled, i) /\ filled.opened = Last(nest).opened
      BY <2>6, OpenedChanged DEF Top
    <2>8. c \in Nat \ {0} /\ c >= e
      <3>1. e \in Nat \ {0}
        <4> HIDE DEF e, i
        <4> QED
          BY <2>3, <2>5
      <3> HIDE DEF e
      <3> QED
        BY <2>2, <3>1, SpaceEnds
    <2> HIDE DEF i, e, filled
    <2>9. Len(site) \in Nat
      BY <2>2, CharIs
    <2> HIDE DEF c
    <2>10. i \in Nat /\ c + 1 \in Nat /\ i <= c + 1 /\ c + 1 > at /\ e \in Nat \ {0}
      BY <2>3, <2>5, <2>8, <2>9
    <2>11. /\ Nested(site, s, c + 1)
           /\ \A level : Levels(site, level, nest) => Levels(site, level, s) /\ Len(s) = Len(nest)
      BY <2>3, <2>7, <2>10, NestedChanged
    <2> HIDE DEF s
    <2>12. ASSUME Clear PROVE Followed(site, s, c + 1)
      <3>1. Followed(site, nest, i)
        BY <1>1, <2>12, Reached DEF i
      <3>2. PICK level : Levels(site, level, nest) /\ OnPath(site, i, level[Len(nest)])
        BY <3>1 DEF Followed
      <3> DEFINE d == level[Len(nest)]
      <3>3. d \in Nat \ {0}
        BY <2>3, <3>2, LevelOf
      <3> HIDE DEF d
      <3>4. OnPath(site, i, d)
        BY <3>2 DEF d
      <3>5. OnPath(site, e, d)
        BY <2>1, <2>2, <2>4, <3>3, <3>4, KeyPath DEF e
      <3>6. c \in 1..Len(site) /\ OnPath(site, c, d)
        BY <2>2, <2>10, <3>3, <3>5, SkipPath DEF c
      <3>7. Plain(site[c], site[1])
        BY <2>1, <2>2, <3>6, CharIs, PlainMarks
      <3>8. OnPath(site, c + 1, d)
        BY <2>2, <2>8, <3>3, <3>6, <3>7, PathStep
      <3> QED
        BY <2>11, <3>2, <3>8 DEF Followed, d
    <2> QED
      BY <1>1, <2>1, <2>10, <2>11, <2>12, ReadsOn
  <1> QED
    BY <1>2, <1>3

\* The step that reads a value, by names that the solver can hold.
LEMMA ReadValueIs ==
  ASSUME ReadValue
  PROVE  /\ Reading /\ site' = site
         /\ \/ Skip
            \/ /\ Char(Here) \in Openers
               /\ nest' = Append(nest, Frame(Here)) /\ at' = Here + 1 /\ outcome' = outcome
            \/ /\ ScalarAt(Here) # Rejected
               /\ Add(ScalarAt(Here).value, Here, ScalarAt(Here).end, nest)
  BY Zenon DEF ReadValue, Openers

\* A bracket that opens a literal adds to the open ones of its kind.
LEMMA OpensKeeps ==
  ASSUME ReaderInv, Reading, site' = site, Char(Here) \in Openers,
         nest' = Append(nest, Frame(Here)), at' = Here + 1, outcome' = outcome
  PROVE  ReaderInv' /\ MovesOn
  <1> DEFINE i == Here
             f == Frame(i)
             s == Append(nest, f)
  <1>1. site \in Texts /\ Whole(site) /\ site[1] \in Openers
    BY DEF ReaderInv
  <1>2. i \in Nat \ {0} /\ i >= at /\ at \in Nat \ {0} /\ Nested(site, nest, i)
    BY Reached
  <1>3. i \in 1..Len(site) /\ site[i] \in Openers
    <2>1. Char(i) # "end"
      BY OpenersClose, NoBrackets
    <2> QED
      BY <1>1, <1>2, <2>1, NotBeyond
  <1>4. Opened(site, f, i + 1) /\ f.opened = i
    BY <1>2, <1>3, FrameIs
  <1>5. PICK F : nest \in Seq(F)
    BY <1>2 DEF Nested
  <1>6. Len(nest) \in Nat \ {0} /\ nest[1].opened = 1 /\ \A k \in 1..Len(nest) : Opened(site, nest[k], i)
    BY <1>2, Innermost DEF Nested
  <1> HIDE DEF i, f
  <1>7. /\ \E G : s \in Seq(G)
        /\ Len(s) = Len(nest) + 1
        /\ \A j \in 1..Len(nest) : s[j] = nest[j]
        /\ s[Len(nest) + 1] = f
    BY <1>5, AppendIs
  <1> HIDE DEF s
  <1>8. i + 1 \in Nat /\ i <= i + 1 /\ i \in Nat /\ i + 1 > at
    BY <1>2
  <1>9. \A k \in 1..Len(s) : k = Len(nest) + 1 \/ k \in 1..Len(nest)
    BY <1>6, <1>7
  <1>10. \A k \in 1..Len(s) : Opened(site, s[k], i + 1)
    <2>1. \A k \in 1..Len(nest) : Opened(site, nest[k], i + 1)
      BY <1>6, <1>8, OpenedLater
    <2> QED
      BY <1>4, <1>7, <1>9, <2>1
  <1>11. Len(s) > 0 /\ s[1].opened = 1
    <2>1. 1 \in 1..Len(nest) /\ Len(s) > 0
      BY <1>6, <1>7
    <2> QED
      BY <1>6, <1>7, <2>1
  <1>12. Nested(site, s, i + 1)
    BY <1>7, <1>10, <1>11 DEF Nested
  <1>13. ASSUME Clear PROVE Followed(site, s, i + 1)
    <2>1. Followed(site, nest, i)
      BY <1>13, Reached DEF i
    <2>2. PICK level : Levels(site, level, nest) /\ OnPath(site, i, level[Len(nest)])
      BY <2>1 DEF Followed
    <2> DEFINE d == level[Len(nest)]
    <2>3. d \in Nat \ {0}
      BY <1>2, <2>2, LevelOf
    <2>4. PICK more : /\ Levels(site, more, s)
                      /\ more[Len(s)] = IF site[f.opened] = site[1] THEN level[Len(nest)] + 1
                                        ELSE level[Len(nest)]
      BY <1>5, <1>6, <2>2, LevelsLengthen DEF s
    <2> HIDE DEF d
    <2>5. OnPath(site, i, d) /\ more[Len(s)] = IF site[i] = site[1] THEN d + 1 ELSE d
      BY <1>4, <2>2, <2>4 DEF d
    <2>6. OnPath(site, i + 1, more[Len(s)])
      <3>1. CASE site[i] = site[1]
        <4>1. OnPath(site, i + 1, d + 1)
          BY <1>1, <1>2, <2>3, <2>5, <3>1, PathStep
        <4> QED
          BY <2>5, <3>1, <4>1
      <3>2. CASE site[i] # site[1]
        <4>1. Plain(site[i], site[1])
          BY <1>1, <1>3, <3>2, PlainIs
        <4>2. OnPath(site, i + 1, d)
          BY <1>1, <1>2, <2>3, <2>5, <4>1, PathStep
        <4> QED
          BY <2>5, <3>2, <4>2
      <3> QED
        BY <3>1, <3>2
    <2> QED
      BY <2>4, <2>6 DEF Followed
  <1>14. nest' = s /\ at' = i + 1
    BY DEF s, f, i
  <1> QED
    BY <1>8, <1>12, <1>13, <1>14, ReadsOn

\* And a value without an inside adds to none.
LEMMA ReadValueKeeps ==
  ASSUME ReaderInv, ReadValue
  PROVE  ReaderInv' /\ MovesOn
  <1>1. Reading /\ site' = site
    BY ReadValueIs
  <1>2. CASE Skip
    BY <1>1, <1>2, Ending
  <1>3. CASE /\ Char(Here) \in Openers
             /\ nest' = Append(nest, Frame(Here)) /\ at' = Here + 1 /\ outcome' = outcome
    BY <1>1, <1>3, OpensKeeps
  <1>4. CASE /\ ScalarAt(Here) # Rejected
             /\ Add(ScalarAt(Here).value, Here, ScalarAt(Here).end, nest)
    <2> DEFINE i == Here
               e == ScalarAt(i).end
    <2>1. site \in Texts /\ Whole(site)
      BY <1>1 DEF ReaderInv
    <2>2. i \in Nat \ {0} /\ i >= at /\ at \in Nat \ {0} /\ Nested(site, nest, i)
      BY <1>1, Reached
    <2>3. i \in 1..Len(site) /\ e \in Nat \ {0} /\ e > i
      BY <1>4, <2>1, <2>2, ScalarEnds
    <2> HIDE DEF e, i
    <2>4. i \in Nat /\ e \in Nat /\ i <= e /\ i < e
      BY <2>2, <2>3
    <2>5. Nested(site, nest, e)
      BY <2>2, <2>4, NestedLater
    <2>6. Add(ScalarAt(i).value, i, e, nest)
      BY <1>4 DEF i, e
    <2>7. /\ at' \in Nat /\ at' >= e /\ outcome' = outcome
          /\ Nested(site, nest', at')
          /\ Whole(site) /\ Followed(site, nest, e) => Followed(site, nest', at')
      BY <2>1, <2>3, <2>4, <2>5, <2>6, AddGoesOn
    <2>8. ASSUME Clear PROVE Followed(site, nest, e)
      <3>1. PICK level : Levels(site, level, nest) /\ OnPath(site, i, level[Len(nest)])
        BY <1>1, <2>8, Reached DEF i, Followed
      <3>2. level[Len(nest)] \in Nat \ {0}
        BY <2>2, <3>1, LevelOf
      <3>3. ~Negates /\ ~Hides /\ ScalarAt(i) # Rejected
        BY <1>4, <2>8 DEF Clear, i
      <3>4. OnPath(site, e, level[Len(nest)])
        BY <2>1, <2>2, <3>1, <3>2, <3>3, ScalarPath DEF e
      <3> QED
        BY <3>1, <3>4 DEF Followed
    <2>9. at' > at
      BY <2>2, <2>3, <2>7
    <2> QED
      BY <1>1, <2>1, <2>7, <2>8, <2>9, ReadsOn
  <1> QED
    BY <1>2, <1>3, <1>4, ReadValueIs

\* The step that closes a literal, by names that the solver can hold.
LEMMA CloseIs ==
  ASSUME CloseLiteral
  PROVE  /\ Reading /\ site' = site /\ ~NeverClosed
         /\ Char(Here) = Closing[site[Top.opened]]
         /\ \/ Len(nest) = 1 /\ outcome' = "read" /\ at' = Here + 1
            \/ Len(nest) # 1 /\ \E value : Add(value, Top.opened, Here + 1, Front(nest))
  BY Zenon DEF CloseLiteral, AtEntry

\* The last literal is closed where the path ends; any other takes one from those of its
\* kind that are open.
LEMMA CloseKeeps ==
  ASSUME ReaderInv, CloseLiteral
  PROVE  ReaderInv' /\ MovesOn
  <1> DEFINE i == Here
             o == Top.opened
             n == Len(nest)
  <1>1. Reading /\ site' = site
    BY CloseIs
  <1>2. site \in Texts /\ Whole(site) /\ site[1] \in Openers /\ Len(site) \in Nat
    BY <1>1, CharIs DEF ReaderInv
  <1>3. i \in Nat \ {0} /\ i >= at /\ at \in Nat \ {0} /\ Nested(site, nest, i)
    BY <1>1, Reached
  <1>4. n \in Nat \ {0} /\ site[o] \in Openers /\ o \in 1..(i - 1)
    BY <1>3, Innermost DEF Top
  <1>5. i \in 1..Len(site) /\ site[i] = Closing[site[o]]
    <2>1. Char(i) = Closing[site[o]]
      BY CloseIs
    <2>2. Char(i) # "end"
      BY <1>4, <2>1, OpenersClose, NoBrackets
    <2> QED
      BY <1>2, <1>3, <2>1, <2>2, NotBeyond
  <1>6. CASE n = 1 /\ outcome' = "read" /\ at' = i + 1
    <2>1. ASSUME Clear PROVE i = Len(site)
      <3>1. PICK level : Levels(site, level, nest) /\ OnPath(site, i, level[Len(nest)])
        BY <1>1, <2>1, Reached DEF Followed
      <3>2. level[Len(nest)] = 1 /\ nest[1].opened = 1 /\ Last(nest) = nest[Len(nest)]
        BY <1>3, <1>6, <3>1, LevelOf, Innermost DEF Nested
      <3>3. o = 1
        BY <1>6, <3>2 DEF Top
      <3> HIDE DEF i, o, n
      <3>4. OnPath(site, i, 1) /\ site[i] = Closing[site[1]]
        BY <1>5, <3>1, <3>2, <3>3
      <3> QED
        BY <1>2, <1>3, <3>4, PathStep
    <2>2. ReaderInv'
      BY <1>1, <1>2, <1>3, <1>6 DEF ReaderInv, Reading
    <2> QED
      BY <1>6, <2>1, <2>2 DEF MovesOn, Clear
  <1>7. CASE n # 1 /\ \E value : Add(value, o, i + 1, Front(nest))
    <2>1. PICK value : Add(value, o, i + 1, Front(nest))
      BY <1>7
    <2> DEFINE s == Front(nest)
    <2>2. PICK F : nest \in Seq(F)
      BY <1>3 DEF Nested
    <2>3. /\ s \in Seq(F) /\ Len(s) = n - 1
          /\ \A j \in 1..(n - 1) : s[j] = nest[j]
      BY <1>4, <2>2, FrontIs
    <2>4. nest[1].opened = 1 /\ \A k \in 1..n : Opened(site, nest[k], i)
      BY <1>3 DEF Nested
    <2> HIDE DEF i, o, n, s
    <2>5. n - 1 > 0 /\ 1 \in 1..(n - 1) /\ \A k \in 1..(n - 1) : k \in 1..n
      BY <1>4, <1>7
    <2>6. Nested(site, s, i)
      BY <2>3, <2>4, <2>5 DEF Nested
    <2>7. i \in Nat /\ i + 1 \in Nat \ {0} /\ i + 1 \in Nat /\ i <= i + 1 /\ o < i + 1 /\ o \in Nat
      BY <1>3, <1>4
    <2>8. Nested(site, s, i + 1)
      BY <2>6, <2>7, NestedLater
    <2>9. ASSUME Clear PROVE Followed(site, s, i + 1)
      <3>1. PICK level : Levels(site, level, nest) /\ OnPath(site, i, level[Len(nest)])
        BY <1>1, <2>9, Reached DEF Followed, i
      <3> DEFINE d == level[n]
                 b == level[n - 1]
      <3>2. /\ d \in Nat \ {0} /\ b \in Nat \ {0}
            /\ d = IF site[o] = site[1] THEN b + 1 ELSE b
        BY <1>3, <1>7, <3>1, LevelOf DEF n, o, Top
      <3>3. PICK less : Levels(site, less, s) /\ less[Len(s)] = level[n - 1]
        <4>1. Len(nest) > 0
          BY <1>4 DEF n
        <4> QED
          BY <2>2, <3>1, <4>1, LevelsShorten DEF s, n
      <3>4. OnPath(site, i, d)
        BY <3>1 DEF n
      <3>5. less[Len(s)] = b
        BY <3>3
      <3> HIDE DEF d, b
      <3>6. OnPath(site, i + 1, b)
        <4>1. CASE site[o] = site[1]
          <5>1. d # 1 /\ d - 1 = b
            BY <3>2, <4>1
          <5>2. OnPath(site, i + 1, d - 1)
            BY <1>2, <1>3, <1>5, <3>2, <3>4, <4>1, <5>1, PathStep
          <5> QED
            BY <5>1, <5>2
        <4>2. CASE site[o] # site[1]
          <5>1. Plain(site[i], site[1])
            BY <1>2, <1>4, <1>5, <4>2, PlainIs
          <5>2. OnPath(site, i + 1, d)
            BY <1>2, <1>3, <3>2, <3>4, <5>1, PathStep
          <5> QED
            BY <3>2, <4>2, <5>2
        <4> QED
          BY <4>1, <4>2
      <3> QED
        BY <3>3, <3>5, <3>6 DEF Followed
    <2>10. /\ at' \in Nat /\ at' >= i + 1 /\ outcome' = outcome
           /\ Nested(site, nest', at')
           /\ Whole(site) /\ Followed(site, s, i + 1) => Followed(site, nest', at')
      <3>1. Add(value, o, i + 1, s)
        BY <2>1 DEF s
      <3> QED
        BY <1>2, <2>7, <2>8, <3>1, AddGoesOn
    <2>11. at' > at
      BY <1>3, <2>10 DEF i
    <2> QED
      BY <1>1, <1>2, <2>9, <2>10, <2>11, ReadsOn
  <1> QED
    BY <1>6, <1>7, CloseIs

\* Whatever the text, each step of the reader moves forward or is the last, the backstop
\* of the array loop is never needed, and a literal that is accepted ends where its
\* brackets were matched, unless a value negates what is no digit or a call holds
\* brackets that do not pair (bundle-scanner.ts: "never spin").
THEOREM ReaderMovesOn == LiteralSpec => [][MovesOn]_literalVars
  <1>1. LiteralInit => ReaderInv
    BY ReaderBegins
  <1>2. ReaderInv /\ [LiteralNext]_literalVars => ReaderInv'
    <2> SUFFICES ASSUME ReaderInv, [LiteralNext]_literalVars PROVE ReaderInv'
      OBVIOUS
    <2>1. CASE LiteralNext
      BY <2>1, TakeSiteKeeps, GiveUpKeeps, CloseKeeps, ReadKeyKeeps, ReadValueKeeps DEF LiteralNext
    <2>2. CASE UNCHANGED literalVars
      <3>1. /\ site' = site /\ nest' = nest /\ at' = at /\ outcome' = outcome
        BY <2>2 DEF literalVars
      <3>2. Clear' <=> Clear
        BY <3>1, ClearKept
      <3> QED
        BY <3>1, <3>2 DEF ReaderInv, Reading
    <2> QED
      BY <2>1, <2>2
  <1>3. ReaderInv /\ [LiteralNext]_literalVars => [MovesOn]_literalVars
    BY TakeSiteKeeps, GiveUpKeeps, CloseKeeps, ReadKeyKeeps, ReadValueKeeps DEF LiteralNext
  <1> QED
    BY <1>1, <1>2, <1>3, PTL DEF LiteralSpec
================================================================================
