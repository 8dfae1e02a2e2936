------------------------------ MODULE ConfigStore ------------------------------
(***************************************************************************)
(* The configuration document, the live stores that follow it and the      *)
(* programs that write it (core/config/store.ts, core/config/loader.ts).   *)
(*                                                                         *)
(* Every patched process and the local server open a store of their own on *)
(* the one file ~/.mycursor/config.json.  A store watches the directory,   *)
(* reloads once a burst of events is over, and keeps its last good         *)
(* revision when the file cannot be read.  The file is written by the      *)
(* server (the BYOK toggle), by the extension (the panel's form and the    *)
(* toggle used when no server answers), by `mycursor install` and by hand. *)
(*                                                                         *)
(* A document is its normalised content, cut down to three fields that     *)
(* different writers own: byok (the toggles), web (the panel's web search) *)
(* and rest (what only a person edits: routes, ports, hosts).  A debounced *)
(* reload may run at any time once it is armed, and the two system calls   *)
(* of a read (exists, read) are one step.                                  *)
(***************************************************************************)
EXTENDS Naturals

CONSTANTS
    Stores,      \* the processes that have a store
    Server,      \* the local server, one of them
    MaxWrites,   \* bound: how many writes of either document are started
    MaxOutages   \* bound: how many stores (and event streams) are closed

ASSUME ServerAssumption == Server \in Stores
ASSUME BoundsAssumption == MaxWrites \in Nat /\ MaxOutages \in Nat

VARIABLES
    home,       \* whether ~/.mycursor exists
    file,       \* config.json: absent, invalid (half written, or with a mistake in it)
                \* or loaded, and the document a person reads there
    providers,  \* providers.json, as a version number
    hand,       \* the document a person is writing in place, as a set of at most one
    ext,        \* what the extension is about to write, likewise: for whom, made
                \* from what it read (which the properties compare), and the document
    writes,     \* writes started, against MaxWrites
    up,         \* which stores are open
    watching,   \* which stores got their watcher on the directory
    events,     \* the file names each watcher has yet to report
    timer,      \* which stores have a debounced reload pending
    active,     \* the revision each store publishes
    counter,    \* each store's revision counter
    loaded,     \* the version of providers.json in use by the server
    outages     \* closings so far, against MaxOutages

disk  == <<home, file, providers, hand, ext, writes>>
store == <<up, watching, timer, active, counter, loaded, outages>>
vars  == <<disk, events, store>>

Docs      == [byok : BOOLEAN, web : 0..1, rest : 0..1]
Default   == [byok |-> TRUE, web |-> 0, rest |-> 0]
Statuses  == {"absent", "invalid", "loaded"}
Files     == [status : Statuses, doc : Docs]
Edits     == [by : {"panel", "toggle"}, from : Files, doc : Docs]
Revisions == [revision : Nat, status : Statuses, doc : Docs]

Complete(d) == [status |-> "loaded", doc |-> d]
Missing     == [status |-> "absent", doc |-> Default]
Damaged(d)  == [status |-> "invalid", doc |-> d]

\* The revision built from what the file holds: a missing or an unreadable
\* document reads as the defaults, told apart by the status.
Build(f, n) == [revision |-> n, status |-> f.status,
                doc |-> IF f.status = "loaded" THEN f.doc ELSE Default]

TypeOK ==
    /\ home \in BOOLEAN
    /\ file \in Files
    /\ providers \in Nat /\ loaded \in Nat /\ writes \in Nat /\ outages \in Nat
    /\ hand \in SUBSET Docs /\ ext \in SUBSET Edits
    /\ up \in [Stores -> BOOLEAN]
    /\ watching \in [Stores -> BOOLEAN]
    /\ timer \in [Stores -> BOOLEAN]
    /\ events \in [Stores -> SUBSET {"config", "providers"}]
    /\ active \in [Stores -> Revisions]
    /\ counter \in [Stores -> Nat]

\* Before anything runs: a user's document if the directory exists, and no
\* store open.  The revision of a closed store means nothing.
Init ==
    /\ home \in BOOLEAN
    /\ file \in IF home THEN {Complete(d) : d \in {e \in Docs : e.rest = 1}}
                        ELSE {Missing}
    /\ providers = 0 /\ loaded = 0 /\ writes = 0 /\ outages = 0
    /\ hand = {} /\ ext = {}
    /\ up = [s \in Stores |-> FALSE]
    /\ watching = [s \in Stores |-> FALSE]
    /\ timer = [s \in Stores |-> FALSE]
    /\ events = [s \in Stores |-> {}]
    /\ active = [s \in Stores |-> Build(Missing, 0)]
    /\ counter = [s \in Stores |-> 0]

-----------------------------------------------------------------------------
(* The stores.                                                             *)

\* A process starts: the first revision is whatever the file holds.  The
\* watcher is tried once, and there is nothing to watch without the directory;
\* the server then creates it, for the key of its TLS listener.
Open(s) ==
    /\ ~up[s]
    /\ up' = [up EXCEPT ![s] = TRUE]
    /\ active' = [active EXCEPT ![s] = Build(file, 1)]
    /\ counter' = [counter EXCEPT ![s] = 1]
    /\ watching' = [watching EXCEPT ![s] = home]
    /\ home' = (home \/ s = Server)
    /\ loaded' = IF s = Server THEN providers ELSE loaded
    /\ UNCHANGED <<file, providers, hand, ext, writes, events, timer, outages>>

\* The process ends, and with it everything the store was waiting for.
Close(s) ==
    /\ up[s] /\ outages < MaxOutages
    /\ up' = [up EXCEPT ![s] = FALSE]
    /\ watching' = [watching EXCEPT ![s] = FALSE]
    /\ events' = [events EXCEPT ![s] = {}]
    /\ timer' = [timer EXCEPT ![s] = FALSE]
    /\ outages' = outages + 1
    /\ UNCHANGED <<disk, active, counter, loaded>>

\* Faulty: a burst of events is judged by the first of them.
FsEventBurst(s) ==
    \E name \in events[s] :
        /\ events' = [events EXCEPT ![s] = {}]
        /\ timer' = [timer EXCEPT ![s] = @ \/ name = "config"]
        /\ UNCHANGED <<disk, up, watching, active, counter, loaded, outages>>

\* The watcher reports a name; only the document's own arms the debounce.
FsEvent(s) ==
    \E name \in events[s] :
        /\ events' = [events EXCEPT ![s] = @ \ {name}]
        /\ timer' = [timer EXCEPT ![s] = @ \/ name = "config"]
        /\ UNCHANGED <<disk, up, watching, active, counter, loaded, outages>>

\* Faulty: an unreadable document is published like any other.
ReloadAnything(s, f) ==
    /\ active' = [active EXCEPT ![s] = Build(f, counter[s] + 1)]
    /\ counter' = [counter EXCEPT ![s] = @ + 1]
    /\ loaded' = IF s = Server THEN providers ELSE loaded

\* Reading the document again.  A broken one leaves a good revision active, and
\* the number it would have had is given back; any other is published, which
\* makes the server load its providers too.
Reload(s, f) ==
    LET next == Build(f, counter[s] + 1) IN
    IF next.status = "invalid" /\ active[s].status # "invalid"
    THEN UNCHANGED <<active, counter, loaded>>
    ELSE /\ active' = [active EXCEPT ![s] = next]
         /\ counter' = [counter EXCEPT ![s] = @ + 1]
         /\ loaded' = IF s = Server THEN providers ELSE loaded

\* The debounce is over.
TimerFires(s) ==
    /\ timer[s]
    /\ timer' = [timer EXCEPT ![s] = FALSE]
    /\ Reload(s, file)
    /\ UNCHANGED <<disk, events, up, watching, outages>>

-----------------------------------------------------------------------------
(* The writers.  Every write is seen by the watchers of the open stores.   *)

Reported(name) ==
    events' = [s \in Stores |-> IF watching[s] THEN events[s] \cup {name} ELSE events[s]]

Start == writes < MaxWrites /\ writes' = writes + 1

\* A complete document takes the file's place by a rename.
Replace(d) ==
    /\ file' = Complete(d)
    /\ home' = TRUE
    /\ Reported("config")

\* The server's toggle: what it has active, with the mode flipped, is written
\* and read back.
Toggle ==
    LET doc == [active[Server].doc EXCEPT !.byok = ~ @] IN
    /\ up[Server] /\ Start
    /\ Replace(doc)
    /\ Reload(Server, Complete(doc))
    /\ UNCHANGED <<providers, hand, ext, up, watching, timer, outages>>

\* The panel's Save writes the providers, reads the document and ...
PanelSave(w) ==
    /\ ext = {} /\ Start
    /\ providers' = providers + 1
    /\ home' = TRUE
    /\ ext' = {[by |-> "panel", from |-> file, doc |-> [Build(file, 0).doc EXCEPT !.web = w]]}
    /\ Reported("providers")
    /\ UNCHANGED <<file, hand, store>>

\* The extension's own toggle, when no server answers, reads it and ...
FallbackToggle ==
    /\ ~up[Server] /\ ext = {} /\ Start
    /\ ext' = {[by |-> "toggle", from |-> file, doc |-> [Build(file, 0).doc EXCEPT !.byok = ~ @]]}
    /\ UNCHANGED <<home, file, providers, hand, events, store>>

\* ... both write back what they made of it.
ExtWrite ==
    /\ \E e \in ext : Replace(e.doc)
    /\ ext' = {}
    /\ UNCHANGED <<providers, hand, writes, store>>

\* `mycursor install` writes the defaults unless a document loads.
Install ==
    /\ file.status # "loaded" /\ Start
    /\ Replace(Default)
    /\ UNCHANGED <<providers, hand, ext, store>>

\* A person saves by hand, with an editor that replaces the file,
HandSave(d) ==
    /\ hand = {} /\ Start
    /\ Replace(d)
    /\ UNCHANGED <<providers, hand, ext, store>>

\* ... or with one that truncates or removes it first and then writes it; or
\* leaves a mistake in it, which makes it unreadable until it is corrected.
HandBegin(d) ==
    /\ hand = {} /\ Start
    /\ file' \in {Missing, Damaged(d)}
    /\ hand' = {d}
    /\ home' = TRUE
    /\ Reported("config")
    /\ UNCHANGED <<providers, ext, store>>

HandFinish ==
    /\ \E d \in hand : Replace(d)
    /\ hand' = {}
    /\ UNCHANGED <<providers, ext, writes, store>>

\* A person edits providers.json, which the panel offers to open.
HandProviders ==
    /\ home /\ Start
    /\ providers' = providers + 1
    /\ Reported("providers")
    /\ UNCHANGED <<home, file, hand, ext, store>>

HandDocs == {d \in Docs : d.rest = 1}

Write ==
    \/ Toggle
    \/ \E w \in 0..1 : PanelSave(w)
    \/ FallbackToggle
    \/ ExtWrite
    \/ Install
    \/ \E d \in HandDocs : HandSave(d)
    \/ \E d \in HandDocs : HandBegin(d)
    \/ HandFinish
    \/ HandProviders

Step(s) == Open(s) \/ Close(s) \/ FsEvent(s) \/ TimerFires(s)

Next == Write \/ \E s \in Stores : Step(s)

\* A watcher's event and a due timer are delivered; nobody has to write
\* anything, or to start or to end a process.
Fairness == \A s \in Stores : WF_vars(FsEvent(s)) /\ WF_vars(TimerFires(s))

Spec == Init /\ [][Next]_vars /\ Fairness

-----------------------------------------------------------------------------
(* Properties.                                                             *)

\* A store that has a good document never falls back to the defaults while the
\* document is there, in whatever state it finds it: "a transient write never
\* silently turns interception off" (store.ts:11).
LastGoodKept ==
    [][\A s \in Stores :
          up[s] /\ up'[s] /\ active[s].status = "loaded" /\ file.status # "absent"
          => active'[s].status = "loaded"]_vars

\* "One Save writes the webSearch of config.json without damaging the rest of
\* the configuration" (the panel's guide, line 122): when the panel writes, and the
\* document is still the one it read, parsable or not, what the user wrote in the
\* rest of it stays.
SaveKeepsRest ==
    [][\A e \in ext :
          ExtWrite /\ e.by = "panel" /\ e.from = file => file'.doc.rest = file.doc.rest]_vars
=============================================================================
