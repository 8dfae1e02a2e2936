-------------------------- MODULE ServerSupervisor --------------------------
(***************************************************************************)
(* The extension's supervisor of the server process                         *)
(* (packages/extension/src/server-process.ts, driven by extension.ts), one  *)
(* per Cursor window, and the server processes they start, which compete    *)
(* for one port (packages/server/src/server.ts: listen, close).             *)
(*                                                                         *)
(* A window runs one callback at a time.  A health probe is two steps: the  *)
(* moment the port answers (or does not), and the moment the window goes on *)
(* with the answer.  A process ends at its own pace after SIGTERM, and its  *)
(* exit event reaches the window later.                                     *)
(***************************************************************************)
EXTENDS FiniteSets, Naturals

CONSTANTS
  Windows,    \* Cursor windows, each with an extension host of its own
  Servers,    \* bound: the processes supervisors may start
  Terminal,   \* a server somebody started from a terminal
  Nobody      \* no process, no window

ASSUME SupervisorAssumption ==
  /\ Terminal \notin Servers
  /\ Nobody \notin Servers \cup {Terminal} \cup Windows

Processes == Servers \cup {Terminal}

VARIABLES
  open,        \* windows that are open
  child,       \* [window -> the process it holds]
  state,       \* [window -> ServerState]
  stopping,    \* windows whose `stopping` flag is set
  flight,      \* [window -> where its start attempt is]
  seen,        \* [window -> what the port answered to its probe]
  restarting,  \* windows between the two halves of a restart
  process,     \* [process -> its life]
  parent,      \* [process -> the window that started it]
  told,        \* processes that were sent SIGTERM
  heard,       \* processes whose exit event was handled
  blamed,      \* processes whose exit was taken for a crash
  calm         \* nothing has gone against the supervisor's assumptions: a server
               \* answers within the 1 s of a probe and the 15 s of a start, an
               \* exit event comes before the next start, and no two windows
               \* start servers at once (for the properties only)

attempt == <<flight, seen>>
world == <<process, parent, told, heard, blamed>>
vars == <<open, child, state, stopping, attempt, restarting, world, calm>>

States == {"stopped", "starting", "running", "adopted", "failed"}
Flights == {"none", "first", "check", "probing"}
Lives == {"unborn", "starting", "serving", "draining", "dead"}

TypeOK ==
  /\ open \subseteq Windows
  /\ child \in [Windows -> Servers \cup {Nobody}]
  /\ state \in [Windows -> States]
  /\ stopping \subseteq Windows
  /\ flight \in [Windows -> Flights]
  /\ seen \in [Windows -> {"unknown", "yes", "no"}]
  /\ restarting \subseteq open
  /\ process \in [Processes -> Lives]
  /\ parent \in [Processes -> Windows \cup {Nobody}]
  /\ told \subseteq Servers
  /\ heard \subseteq Servers
  /\ blamed \subseteq heard
  /\ calm \in BOOLEAN

Init ==
  /\ open = Windows
  /\ child = [w \in Windows |-> Nobody]
  /\ state = [w \in Windows |-> "stopped"]
  /\ stopping = {}
  /\ flight = [w \in Windows |-> "none"]
  /\ seen = [w \in Windows |-> "unknown"]
  /\ restarting = {}
  /\ process \in {[p \in Processes |-> IF p = Terminal THEN life ELSE "unborn"] :
                    life \in {"serving", "dead"}}
  /\ parent = [p \in Processes |-> Nobody]
  /\ told = {}
  /\ heard = {}
  /\ blamed = {}
  /\ calm = TRUE

PortTaken == \E p \in Processes : process[p] = "serving"

-----------------------------------------------------------------------------
(* Probing and starting.                                                   *)

\* Bound: a start needs a process that was never started, for this window and
\* each that may be about to start one.
Spare ==
  Cardinality({p \in Servers : process[p] = "unborn"})
    > Cardinality({w \in Windows : flight[w] = "first"})

\* ensureRunning(): an attempt in progress is shared, otherwise one begins with
\* a probe.
EnsureRunning(w) ==
  /\ w \in open
  /\ flight[w] = "none"
  /\ Spare
  /\ flight' = [flight EXCEPT ![w] = "first"]
  /\ UNCHANGED <<open, child, state, stopping, seen, restarting, world, calm>>

\* The port answers a probe, or the second of the probe runs out.
ProbeAnswered(w) ==
  /\ flight[w] \in {"first", "probing"}
  /\ seen[w] = "unknown"
  /\ \E answer \in {"yes", "no"} :
       /\ answer = "yes" => PortTaken
       /\ seen' = [seen EXCEPT ![w] = answer]
       /\ calm' = (calm /\ (answer = "yes" \/ ~PortTaken))
  /\ UNCHANGED <<open, child, state, stopping, flight, restarting, world>>

\* The attempt ends, and the window's state is s.
Return(w, s) ==
  /\ flight' = [flight EXCEPT ![w] = "none"]
  /\ seen' = [seen EXCEPT ![w] = "unknown"]
  /\ state' = [state EXCEPT ![w] = s]

\* A healthy server is used as it is.
Adopt(w) ==
  /\ flight[w] = "first"
  /\ seen[w] = "yes"
  /\ Return(w, IF child[w] # Nobody THEN "running" ELSE "adopted")
  /\ UNCHANGED <<open, child, stopping, restarting, world, calm>>

NoLauncher(w) ==
  /\ flight[w] = "first"
  /\ seen[w] = "no"
  /\ Return(w, "failed")
  /\ UNCHANGED <<open, child, stopping, restarting, world, calm>>

\* The children of a window that end or have ended, and whose exit event has
\* not come.
Leaving(w) == {p \in Servers \ heard : parent[p] = w /\ (p \in told \/ process[p] = "dead")}

\* The servers of other windows that come up or serve.
Rivals(w) == {p \in Servers : process[p] \in {"starting", "serving"} /\ parent[p] # w}

\* Faulty: the flag of the last stop is not cleared.
LaunchStillStopping(w) ==
  /\ flight[w] = "first"
  /\ seen[w] = "no"
  /\ calm' = (calm /\ Leaving(w) = {} /\ Rivals(w) = {})
  /\ \E p \in Servers :
       /\ process[p] = "unborn"
       /\ process' = [process EXCEPT ![p] = "starting"]
       /\ parent' = [parent EXCEPT ![p] = w]
       /\ child' = [child EXCEPT ![w] = p]
  /\ state' = [state EXCEPT ![w] = "starting"]
  /\ flight' = [flight EXCEPT ![w] = "probing"]
  /\ seen' = [seen EXCEPT ![w] = "unknown"]
  /\ UNCHANGED <<open, stopping, restarting, told, heard, blamed>>

\* A server process is started, and the first probe of the wait is sent.
Launch(w) ==
  /\ flight[w] = "first"
  /\ seen[w] = "no"
  /\ calm' = (calm /\ Leaving(w) = {} /\ Rivals(w) = {})
  /\ \E p \in Servers :
       /\ process[p] = "unborn"
       /\ process' = [process EXCEPT ![p] = "starting"]
       /\ parent' = [parent EXCEPT ![p] = w]
       /\ child' = [child EXCEPT ![w] = p]
  /\ state' = [state EXCEPT ![w] = "starting"]
  /\ stopping' = stopping \ {w}
  /\ flight' = [flight EXCEPT ![w] = "probing"]
  /\ seen' = [seen EXCEPT ![w] = "unknown"]
  /\ UNCHANGED <<open, restarting, told, heard, blamed>>

\* A probe of the wait succeeded: the server is running, whatever happened
\* while the probe was under way.
Ready(w) ==
  /\ flight[w] = "probing"
  /\ seen[w] = "yes"
  /\ Return(w, "running")
  /\ UNCHANGED <<open, child, stopping, restarting, world, calm>>

NotYet(w) ==
  /\ flight[w] = "probing"
  /\ seen[w] = "no"
  /\ flight' = [flight EXCEPT ![w] = "check"]
  /\ seen' = [seen EXCEPT ![w] = "unknown"]
  /\ UNCHANGED <<open, child, state, stopping, restarting, world, calm>>

\* The pause is over: the wait ends if the child's exit or a stop changed the
\* state meanwhile, and probes again otherwise.
Check(w) ==
  /\ flight[w] = "check"
  /\ IF state[w] \in {"failed", "stopped"}
       THEN Return(w, state[w])
       ELSE flight' = [flight EXCEPT ![w] = "probing"] /\ UNCHANGED <<state, seen>>
  /\ UNCHANGED <<open, child, stopping, restarting, world, calm>>

\* Faulty: the wait has no deadline.
GiveUpNever(w) == FALSE

\* Fifteen seconds are over.
GiveUp(w) ==
  /\ flight[w] = "check"
  /\ Return(w, "failed")
  /\ calm' = FALSE
  /\ UNCHANGED <<open, child, stopping, restarting, world>>

-----------------------------------------------------------------------------
(* Stopping.                                                               *)

\* SIGTERM: before the server handles it the process just ends; after that it
\* stops listening and drains its connections.
Terminated(p) ==
  IF process[p] = "serving" THEN [process EXCEPT ![p] = "draining"]
  ELSE IF process[p] = "starting" THEN [process EXCEPT ![p] = "dead"] ELSE process

\* stop(): only a process this window holds is stopped, and let go of at once.
Halt(w) ==
  IF child[w] = Nobody
    THEN UNCHANGED <<child, state, stopping, process, told>>
    ELSE /\ process' = Terminated(child[w])
         /\ told' = told \cup {child[w]}
         /\ child' = [child EXCEPT ![w] = Nobody]
         /\ state' = [state EXCEPT ![w] = "stopped"]
         /\ stopping' = stopping \cup {w}

Stop(w) ==
  /\ w \in open
  /\ child[w] # Nobody
  /\ Halt(w)
  /\ UNCHANGED <<open, attempt, restarting, parent, heard, blamed, calm>>

Restart(w) ==
  /\ w \in open
  /\ w \notin restarting
  /\ Halt(w)
  /\ restarting' = restarting \cup {w}
  /\ UNCHANGED <<open, attempt, parent, heard, blamed, calm>>

\* The pause of a restart is over: an attempt in progress is shared.
RestartGoesOn(w) ==
  /\ w \in restarting
  /\ restarting' = restarting \ {w}
  /\ \/ flight[w] # "none" /\ UNCHANGED flight
     \/ flight[w] = "none" /\ Spare /\ flight' = [flight EXCEPT ![w] = "first"]
  /\ UNCHANGED <<open, child, state, stopping, seen, world, calm>>

\* Faulty: a restart survives the window.
CloseLeavesRestart(w) ==
  /\ w \in open
  /\ Halt(w)
  /\ open' = open \ {w}
  /\ flight' = [flight EXCEPT ![w] = "none"]
  /\ seen' = [seen EXCEPT ![w] = "unknown"]
  /\ UNCHANGED <<restarting, parent, heard, blamed, calm>>

\* deactivate(): the window closes or reloads.
Close(w) ==
  /\ w \in open
  /\ Halt(w)
  /\ open' = open \ {w}
  /\ restarting' = restarting \ {w}
  /\ flight' = [flight EXCEPT ![w] = "none"]
  /\ seen' = [seen EXCEPT ![w] = "unknown"]
  /\ UNCHANGED <<parent, heard, blamed, calm>>

-----------------------------------------------------------------------------
(* The processes.                                                          *)

\* A server binds the port, or ends because the port is taken.
Binds(p) ==
  /\ process[p] = "starting"
  /\ process' = [process EXCEPT ![p] = IF PortTaken THEN "dead" ELSE "serving"]
  /\ UNCHANGED <<open, child, state, stopping, attempt, restarting, parent, told, heard, blamed, calm>>

\* A server crashes, or has drained its connections.
Ends(p) ==
  /\ process[p] \in {"starting", "serving", "draining"}
  /\ process' = [process EXCEPT ![p] = "dead"]
  /\ UNCHANGED <<open, child, state, stopping, attempt, restarting, parent, told, heard, blamed, calm>>

\* The exit handler: the child is forgotten, and the exit is a crash unless a
\* stop is under way.
ExitHandled(p) ==
  /\ process[p] = "dead"
  /\ p \in Servers \ heard
  /\ heard' = heard \cup {p}
  /\ IF parent[p] \in open
       THEN /\ child' = [child EXCEPT ![parent[p]] = Nobody]
            /\ state' = [state EXCEPT ![parent[p]] =
                           IF parent[p] \in stopping THEN "stopped" ELSE "failed"]
            /\ blamed' = IF parent[p] \in stopping THEN blamed ELSE blamed \cup {p}
       ELSE UNCHANGED <<child, state, blamed>>
  /\ UNCHANGED <<open, stopping, attempt, restarting, process, parent, told, calm>>

-----------------------------------------------------------------------------
Supervise(w) ==
  ProbeAnswered(w) \/ Adopt(w) \/ NoLauncher(w) \/ Launch(w) \/ Ready(w) \/ NotYet(w) \/ Check(w)

Command(w) == EnsureRunning(w) \/ Stop(w) \/ Restart(w) \/ RestartGoesOn(w) \/ Close(w)

Next ==
  \/ \E w \in Windows : Supervise(w) \/ GiveUp(w) \/ Command(w)
  \/ \E p \in Servers : Binds(p) \/ ExitHandled(p)
  \/ \E p \in Processes : Ends(p)

Spec == Init /\ [][Next]_vars

\* Probes are answered and attempts go on, and a wait that never ends otherwise
\* meets its deadline (SF: between two probes it is not checked); a server
\* comes to bind, or ends; after SIGTERM it ends; exit events arrive.  Nobody
\* has to issue a command.
Fairness ==
  /\ \A w \in Windows : WF_vars(Supervise(w)) /\ SF_vars(GiveUp(w))
  /\ \A p \in Servers : /\ WF_vars(Binds(p))
                        /\ WF_vars(ExitHandled(p))
                        /\ WF_vars(process[p] = "draining" /\ Ends(p))

FairSpec == Spec /\ Fairness

-----------------------------------------------------------------------------
(* Properties.                                                             *)

\* server-process.ts:9 "it never starts a second server": a window starts no
\* server while another one, started before, comes up or serves.  Asked only as
\* long as calm holds before the start: every probe so far has told the truth and
\* every server and exit event was in time, so nothing is left to blame but the
\* order in which windows probe and start.
NeverSecondServer ==
  [][\A p \in Servers :
       calm /\ process[p] = "unborn" /\ process'[p] = "starting" =>
         \A q \in Servers : process[q] \notin {"starting", "serving"}]_vars

\* A window can stop whatever it started, and so starts no second server of its
\* own: a process of an open window that lives and was not told to stop is the
\* child the window holds (child, server-process.ts:29).  Holds as long as
\* servers answer in time, exit events are prompt and windows do not race.
NoOrphan ==
  calm =>
    \A p \in Servers :
      process[p] \in {"starting", "serving"} /\ parent[p] \in open => child[parent[p]] = p

\* server-process.ts:123 "A server that exits on its own has crashed; only a
\* stop we asked for is an ordinary stop", on the same condition.
CrashesToldFromStops ==
  calm =>
    \A p \in heard : parent[p] \in open => (p \in blamed <=> p \notin told)

\* Both: a window knows of each server it started whether it lives, was stopped or
\* crashed.
ChildrenAccounted == NoOrphan /\ CrashesToldFromStops

\* A start always comes to an answer, whatever the server and the user do
\* meanwhile (startInFlight: while it is set no other start is possible).
StartReturns == \A w \in Windows : (flight[w] # "none") ~> (flight[w] = "none")
=============================================================================
