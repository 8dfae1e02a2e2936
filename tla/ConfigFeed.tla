------------------------------- MODULE ConfigFeed -------------------------------
(***************************************************************************)
(* How the configuration reaches the renderers, which have no filesystem:  *)
(* the server's broadcaster (server/control/routes.ts) sends the whole     *)
(* document over an event stream when a renderer connects and whenever the *)
(* server's store publishes a revision, and the renderer applies it        *)
(* (interceptor/renderer/state.ts).  The module adds the streams and the   *)
(* renderers to the stores and writers of ConfigStore.                     *)
(***************************************************************************)
EXTENDS ConfigStore, Sequences

CONSTANT Renderers

VARIABLES
    subscribed, \* which renderers the broadcaster has a stream to
    stream,     \* what is on its way to each renderer, oldest first
    view        \* the configuration each renderer routes by

feed     == <<subscribed, stream, view>>
feedVars == <<vars, feed>>

\* The part of a document that is sent: mode, host patterns and routes.
Sent(d) == [byok |-> d.byok, rest |-> d.rest]
Views   == [byok : BOOLEAN, rest : 0..1]

\* The configuration baked into the bundle when it was patched.
Baked == Sent(Default)

FeedTypeOK ==
    /\ TypeOK
    /\ subscribed \in [Renderers -> BOOLEAN]
    /\ stream \in [Renderers -> Seq(Views)]
    /\ view \in [Renderers -> Views]

FeedInit ==
    /\ Init
    /\ subscribed = [r \in Renderers |-> FALSE]
    /\ stream = [r \in Renderers |-> <<>>]
    /\ view = [r \in Renderers |-> Baked]

\* Faulty: only a changed mode is worth sending.
BroadcastMode(d) ==
    /\ stream' = [r \in Renderers |->
                    IF subscribed[r] /\ d.byok # active[Server].doc.byok
                    THEN Append(stream[r], Sent(d)) ELSE stream[r]]
    /\ UNCHANGED <<subscribed, view>>

\* Faulty: the document goes out as it is, with the settings of the server.
BroadcastAll(d) ==
    /\ stream' = [r \in Renderers |->
                    IF subscribed[r] THEN Append(stream[r], d) ELSE stream[r]]
    /\ UNCHANGED <<subscribed, view>>

\* Every subscriber is sent the whole document.
Broadcast(d) ==
    /\ stream' = [r \in Renderers |->
                    IF subscribed[r] THEN Append(stream[r], Sent(d)) ELSE stream[r]]
    /\ UNCHANGED <<subscribed, view>>

\* A server that ends takes its streams with it.
Hangup ==
    /\ subscribed' = [r \in Renderers |-> FALSE]
    /\ stream' = [r \in Renderers |-> <<>>]
    /\ UNCHANGED view

Published == up[Server] /\ up'[Server] /\ active'[Server] # active[Server]
Ended     == up[Server] /\ ~up'[Server]

\* What a step of the server, of another store or of a writer does to the feed.
React ==
    IF Ended THEN Hangup
    ELSE IF Published THEN Broadcast(active'[Server].doc)
    ELSE UNCHANGED feed

\* A renderer's EventSource connects, or connects again.
Connect(r) ==
    /\ up[Server] /\ ~subscribed[r]
    /\ subscribed' = [subscribed EXCEPT ![r] = TRUE]
    /\ stream' = [stream EXCEPT ![r] = Append(@, Sent(active[Server].doc))]
    /\ UNCHANGED <<vars, view>>

\* The renderer gets the next document and applies what differs.
Deliver(r) ==
    /\ stream[r] # <<>>
    /\ view' = [view EXCEPT ![r] = Head(stream[r])]
    /\ stream' = [stream EXCEPT ![r] = Tail(@)]
    /\ UNCHANGED <<vars, subscribed>>

\* The stream closes: the connection is lost, or the page is loaded anew and
\* starts from the baked configuration.
Drop(r) ==
    /\ subscribed[r] /\ outages < MaxOutages
    /\ outages' = outages + 1
    /\ subscribed' = [subscribed EXCEPT ![r] = FALSE]
    /\ stream' = [stream EXCEPT ![r] = <<>>]
    /\ view' \in {view, [view EXCEPT ![r] = Baked]}
    /\ UNCHANGED <<disk, events, up, watching, timer, active, counter, loaded>>

FeedNext ==
    \/ Next /\ React
    \/ \E r \in Renderers : Connect(r) \/ Deliver(r) \/ Drop(r)

\* The stores' fairness, and: the browser reconnects by itself, and what was
\* sent over an open stream arrives.
FeedFairness ==
    /\ \A s \in Stores : /\ WF_feedVars(FsEvent(s) /\ React)
                         /\ WF_feedVars(TimerFires(s) /\ React)
    /\ \A r \in Renderers : WF_feedVars(Connect(r)) /\ WF_feedVars(Deliver(r))

FeedSpec == FeedInit /\ [][FeedNext]_feedVars /\ FeedFairness

-----------------------------------------------------------------------------
(* Properties.                                                             *)

\* The streams lose nothing and repeat nothing out of order: a connected
\* renderer that has got all that was sent to it routes by exactly what the
\* server has active, whatever was published while it connected.
CaughtUp ==
    \A r \in Renderers :
        subscribed[r] /\ stream[r] = <<>> => view[r] = Sent(active[Server].doc)

\* Every renderer ends up routing by the document on disk, through edits,
\* lost streams and restarts of the server: it "converges without any catch-up
\* protocol" (control/routes.ts:61).  No event, debounced reload or retained
\* revision on the way is lost, provided the server got its watch on the
\* directory when it started.
RenderersConverge ==
    <>[](up[Server] /\ watching[Server] /\ file.status = "loaded"
         => \A r \in Renderers : view[r] = Sent(file.doc))
=============================================================================
