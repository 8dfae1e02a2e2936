------------------------ MODULE ServerSupervisorProofs ------------------------
(***************************************************************************)
(* Proofs about ServerSupervisor, for any number of windows and processes.  *)
(*                                                                         *)
(* A window's fields say what its processes do only while the supervisor's  *)
(* assumptions hold (`calm`).  What makes that inductive is that then one   *)
(* server at most lives, that its window waits for it to come up before it  *)
(* starts anything else, and that a stop is remembered until the exit it    *)
(* causes was handled.                                                     *)
(***************************************************************************)
EXTENDS ServerSupervisor, TLAPS

\* A process is started once, by a window, and its exit is its end.
LifeInv ==
  \A p \in Servers :
    /\ process[p] = "unborn" <=> parent[p] = Nobody
    /\ p \in heard => process[p] = "dead"
    /\ p \in told => process[p] \in {"draining", "dead"}
    /\ process[p] = "draining" => p \in told

\* The process a window holds is its own, and was neither stopped nor lost.
ChildInv ==
  \A w \in Windows :
    /\ child[w] # Nobody =>
         w \in open /\ parent[child[w]] = w /\ child[w] \notin told /\ child[w] \notin heard
    /\ w \in stopping => child[w] = Nobody
    /\ IF flight[w] = "none" THEN seen[w] = "unknown" ELSE w \in open

\* Each process of an open window whose exit is still to come is held by it, or
\* was stopped, and the window knows.
HoldInv ==
  \A p \in Servers : parent[p] \in open /\ p \notin heard =>
    IF p \in told THEN parent[p] \in stopping ELSE child[parent[p]] = p

Alive(p) == process[p] \in {"starting", "serving"}

OneAlive == \A p, q \in Servers : Alive(p) /\ Alive(q) => p = q

\* While its server comes up a window waits for it, and the port tells no lies.
Waits(w) ==
  /\ seen[w] = "no" => process[Terminal] # "serving"
  /\ child[w] # Nobody =>
       /\ process[child[w]] = "starting" => flight[w] \in {"probing", "check"} /\ seen[w] # "yes"
       /\ flight[w] \in {"probing", "check"} => state[w] = "starting"
       /\ flight[w] = "first" /\ seen[w] = "no" => process[child[w]] # "serving"

WaitInv == \A w \in Windows : Waits(w)

TerminalGone == (\E p \in Servers : process[p] # "unborn") => process[Terminal] # "serving"

CalmInv == calm => HoldInv /\ OneAlive /\ WaitInv /\ TerminalGone

IInv == TypeOK /\ LifeInv /\ ChildInv /\ CalmInv /\ CrashesToldFromStops-----------------------------------------------------------------------------
(* Types                                                                   *)

LEMMA Names ==
  /\ Terminal \notin Servers /\ Nobody \notin Servers /\ Nobody \notin Windows
  /\ Nobody # Terminal
  /\ Servers \subseteq Processes /\ Terminal \in Processes
  BY SupervisorAssumption DEF Processes

LEMMA HaltTyped ==
  ASSUME TypeOK, NEW w \in Windows, Halt(w)
  PROVE  /\ child' \in [Windows -> Servers \cup {Nobody}] /\ state' \in [Windows -> States]
         /\ stopping' \subseteq Windows /\ process' \in [Processes -> Lives]
         /\ told' \subseteq Servers
  BY Names DEF TypeOK, Halt, Terminated, States, Lives

LEMMA SuperviseTyped ==
  ASSUME TypeOK, NEW w \in Windows, Supervise(w)
  PROVE  TypeOK'
  <1>1. CASE ProbeAnswered(w)
    BY <1>1 DEF TypeOK, ProbeAnswered, world
  <1>2. CASE Adopt(w) \/ NoLauncher(w) \/ Ready(w) \/ NotYet(w) \/ Check(w)
    BY <1>2 DEF TypeOK, Adopt, NoLauncher, Ready, NotYet, Check, Return, world, States, Flights
  <1>3. CASE Launch(w)
    <2>1. child' \in [Windows -> Servers \cup {Nobody}] /\ state' \in [Windows -> States]
      BY <1>3 DEF TypeOK, Launch, States
    <2>2. flight' \in [Windows -> Flights] /\ seen' \in [Windows -> {"unknown", "yes", "no"}]
      BY <1>3 DEF TypeOK, Launch, Flights
    <2>3. process' \in [Processes -> Lives] /\ parent' \in [Processes -> Windows \cup {Nobody}]
      BY <1>3, Names DEF TypeOK, Launch, Lives
    <2>4. calm' \in BOOLEAN
      BY <1>3, Zenon DEF TypeOK, Launch
    <2> QED
      BY <1>3, <2>1, <2>2, <2>3, <2>4 DEF TypeOK, Launch
  <1> QED
    BY <1>1, <1>2, <1>3 DEF Supervise

LEMMA CommandTyped ==
  ASSUME TypeOK, NEW w \in Windows, GiveUp(w) \/ Command(w)
  PROVE  TypeOK'
  <1>1. CASE GiveUp(w)
    BY <1>1 DEF TypeOK, GiveUp, Return, world, States, Flights
  <1>2. CASE EnsureRunning(w) \/ RestartGoesOn(w)
    BY <1>2 DEF TypeOK, EnsureRunning, RestartGoesOn, world, Flights
  <1>3. CASE Stop(w) \/ Restart(w) \/ Close(w)
    BY <1>3, HaltTyped DEF TypeOK, Stop, Restart, Close, attempt, Flights
  <1> QED
    BY <1>1, <1>2, <1>3 DEF Command

LEMMA ProcessTyped ==
  ASSUME TypeOK, (\E p \in Servers : Binds(p) \/ ExitHandled(p)) \/ \E p \in Processes : Ends(p)
  PROVE  TypeOK'
  <1>1. CASE \E p \in Processes : Binds(p) \/ Ends(p)
    BY <1>1 DEF TypeOK, Binds, Ends, attempt, Lives
  <1>2. ASSUME NEW p \in Servers, ExitHandled(p)
        PROVE  TypeOK'
    BY <1>2, Names DEF TypeOK, ExitHandled, attempt, States
  <1> QED
    BY <1>1, <1>2, Names

LEMMA TypeStep ==
  ASSUME TypeOK, [Next]_vars
  PROVE  TypeOK'
  <1>1. CASE UNCHANGED vars
    BY <1>1 DEF vars, attempt, world, TypeOK
  <1> QED
    BY <1>1, SuperviseTyped, CommandTyped, ProcessTyped DEF Next

LEMMA TypeInit ==
  ASSUME Init
  PROVE  TypeOK
  BY Names DEF Init, TypeOK, States, Flights, Lives

\* The supervisors' fields and the processes keep their types; a restart is only
\* ever under way in an open window (extension.ts, deactivate).
THEOREM TypeCorrect == Spec => []TypeOK
  BY TypeInit, TypeStep, PTL DEF Spec-----------------------------------------------------------------------------
(* The invariant is inductive                                              *)

LEMMA InitInv ==
  ASSUME Init
  PROVE  IInv
  <1>1. LifeInv /\ ChildInv
    BY Names DEF Init, LifeInv, ChildInv
  <1>2. HoldInv /\ OneAlive /\ WaitInv /\ TerminalGone
    BY Names DEF Init, HoldInv, OneAlive, Alive, WaitInv, Waits, TerminalGone
  <1>3. CrashesToldFromStops
    BY DEF Init, CrashesToldFromStops
  <1> QED
    BY <1>1, <1>2, <1>3, TypeInit DEF IInv, CalmInv

\* Only a window starts a process.
LEMMA Parents ==
  ASSUME TypeOK, LifeInv, NEW p \in Servers, process[p] # "unborn"
  PROVE  parent[p] \in Windows
  BY Names DEF TypeOK, LifeInv

\* A step of window w's attempt: it changes no process and no child.
LEMMA Attempts ==
  ASSUME IInv, TypeOK', NEW w \in Windows,
         UNCHANGED <<open, child, stopping, world>>,
         calm' => calm,
         \A v \in Windows : v # w => flight'[v] = flight[v] /\ seen'[v] = seen[v] /\ state'[v] = state[v],
         IF flight'[w] = "none" THEN seen'[w] = "unknown" ELSE w \in open,
         calm' => Waits(w)'
  PROVE  IInv'
  <1>1. LifeInv' /\ ChildInv'
    BY DEF IInv, LifeInv, ChildInv, world
  <1>2. calm' => HoldInv' /\ OneAlive' /\ TerminalGone'
    BY DEF IInv, CalmInv, HoldInv, OneAlive, Alive, TerminalGone, world
  <1>3. calm' => WaitInv'
    <2> SUFFICES ASSUME calm', NEW v \in Windows, v # w
                 PROVE  Waits(v)'
      BY DEF WaitInv
    <2>1. Waits(v)
      BY DEF IInv, CalmInv, WaitInv
    <2> QED
      BY <2>1 DEF Waits, world
  <1>4. CrashesToldFromStops'
    BY DEF IInv, CrashesToldFromStops, world
  <1> QED
    BY <1>1, <1>2, <1>3, <1>4 DEF IInv, CalmInv

LEMMA Attempted ==
  ASSUME IInv, TypeOK', NEW w \in Windows,
         \/ ProbeAnswered(w) \/ Adopt(w) \/ NoLauncher(w) \/ Ready(w) \/ NotYet(w) \/ Check(w)
         \/ GiveUp(w) \/ EnsureRunning(w) \/ RestartGoesOn(w)
  PROVE  IInv'
  <1>1. calm => Waits(w)
    BY DEF IInv, CalmInv, WaitInv
  <1>2. UNCHANGED <<open, child, stopping, world>>
    BY DEF ProbeAnswered, Adopt, NoLauncher, Ready, NotYet, Check, GiveUp, EnsureRunning, RestartGoesOn
  <1>6. calm' => calm
    <2>2. CASE ProbeAnswered(w)
      BY <2>2, Zenon DEF ProbeAnswered
    <2>3. CASE GiveUp(w)
      BY <2>3 DEF GiveUp
    <2>4. ASSUME ~ProbeAnswered(w), ~GiveUp(w)
          PROVE  calm' = calm
      BY <2>4 DEF Adopt, NoLauncher, Ready, NotYet, Check, EnsureRunning, RestartGoesOn
    <2> QED
      BY <2>2, <2>3, <2>4, Zenon
  <1>3. \A v \in Windows : v # w => flight'[v] = flight[v] /\ seen'[v] = seen[v] /\ state'[v] = state[v]
    BY DEF ProbeAnswered, Adopt, NoLauncher, Ready, NotYet, Check, GiveUp, EnsureRunning, RestartGoesOn,
           Return, IInv, TypeOK
  <1>4. IF flight'[w] = "none" THEN seen'[w] = "unknown" ELSE w \in open
    BY DEF ProbeAnswered, Adopt, NoLauncher, Ready, NotYet, Check, GiveUp, EnsureRunning, RestartGoesOn,
           Return, IInv, TypeOK, ChildInv
  <1>5. calm' => Waits(w)'
    <2> SUFFICES ASSUME calm'
                 PROVE  Waits(w)'
      OBVIOUS
    <2>6. Waits(w)
      BY <1>1, <1>6
    <2>7. OneAlive /\ TerminalGone
      BY <1>6 DEF IInv, CalmInv
    <2>1. CASE ProbeAnswered(w)
      <3>1. /\ seen'[w] = "yes" => PortTaken
            /\ seen'[w] = "no" => ~PortTaken
            /\ flight' = flight /\ state' = state
        BY <2>1 DEF ProbeAnswered, IInv, TypeOK
      <3>2. ASSUME child[w] # Nobody, process[child[w]] = "starting", PortTaken
            PROVE  FALSE
        <4>1. child[w] \in Servers
          BY <3>2 DEF IInv, TypeOK
        <4>2. PICK p \in Processes : process[p] = "serving"
          BY <3>2 DEF PortTaken
        <4>3. CASE p = Terminal
          BY <2>7, <3>2, <4>1, <4>2, <4>3 DEF TerminalGone
        <4>4. CASE p \in Servers
          BY <2>7, <3>2, <4>1, <4>2, <4>4 DEF OneAlive, Alive
        <4> QED
          BY <4>3, <4>4 DEF Processes
      <3>3. ~PortTaken => process[Terminal] # "serving" /\ (child[w] # Nobody => process[child[w]] # "serving")
        BY Names DEF PortTaken, IInv, TypeOK
      <3> QED
        BY <1>2, <2>6, <3>1, <3>2, <3>3 DEF Waits, world
    <2>2. CASE Adopt(w) \/ NoLauncher(w) \/ Ready(w) \/ NotYet(w)
      BY <1>2, <2>6, <2>2 DEF Adopt, NoLauncher, Ready, NotYet, Return, Waits, world, IInv, TypeOK
    <2>3. CASE Check(w)
      BY <1>2, <2>6, <2>3 DEF Check, Return, Waits, world, IInv, TypeOK
    <2>4. CASE GiveUp(w)
      BY <2>4 DEF GiveUp
    <2>5. CASE EnsureRunning(w) \/ RestartGoesOn(w)
      <3>1. /\ process' = process /\ child' = child /\ state' = state /\ seen' = seen
        BY <2>5 DEF EnsureRunning, RestartGoesOn, world
      <3>2. flight' = flight \/ (flight[w] = "none" /\ flight'[w] = "first")
        <4>1. flight \in [Windows -> Flights]
          BY DEF IInv, TypeOK
        <4>2. CASE EnsureRunning(w)
          BY <4>1, <4>2 DEF EnsureRunning
        <4>3. CASE RestartGoesOn(w)
          BY <4>1, <4>3 DEF RestartGoesOn
        <4> QED
          BY <2>5, <4>2, <4>3
      <3>3. flight[w] = "none" => seen[w] = "unknown"
        BY DEF IInv, ChildInv
      <3> QED
        BY <2>6, <3>1, <3>2, <3>3 DEF Waits
    <2> QED
      BY <2>1, <2>2, <2>3, <2>4, <2>5
  <1> QED
    BY <1>2, <1>3, <1>4, <1>5, <1>6, Attempts
\* While the assumptions hold, a window that starts a server has no other left,
\* and no other window has one.
LEMMA Alone ==
  ASSUME IInv, NEW w \in Windows, Launch(w), calm'
  PROVE  /\ calm /\ child[w] = Nobody /\ process[Terminal] # "serving"
         /\ \A p \in Servers : ~Alive(p)
         /\ \A p \in Servers : parent[p] = w => p \in heard
  <1>1. calm /\ Leaving(w) = {} /\ Rivals(w) = {}
    BY Zenon DEF Launch
  <1>2. flight[w] = "first" /\ seen[w] = "no" /\ w \in open
    BY DEF Launch, IInv, ChildInv
  <1>3. HoldInv /\ Waits(w)
    BY <1>1 DEF IInv, CalmInv, WaitInv
  <1>4. \A p \in Servers : parent[p] = w /\ p \notin heard => p \notin told /\ process[p] # "dead"
    BY <1>1 DEF Leaving
  <1>5. child[w] = Nobody
    <2> SUFFICES ASSUME child[w] # Nobody
                 PROVE  FALSE
      OBVIOUS
    <2>1. /\ child[w] \in Servers /\ parent[child[w]] = w
          /\ child[w] \notin told /\ child[w] \notin heard
      BY Names DEF IInv, TypeOK, ChildInv
    <2>2. process[child[w]] \notin {"starting", "serving"}
      BY <1>2, <1>3 DEF Waits
    <2>3. process[child[w]] # "unborn"
      BY <2>1, Names DEF IInv, LifeInv
    <2>4. process[child[w]] = "draining"
      BY <1>4, <2>1, <2>2, <2>3, Names DEF IInv, TypeOK, Lives
    <2> QED
      BY <2>1, <2>4 DEF IInv, LifeInv
  <1>6. \A p \in Servers : parent[p] = w => p \in heard
    BY <1>2, <1>3, <1>4, <1>5, Names DEF HoldInv
  <1>7. \A p \in Servers : ~Alive(p)
    BY <1>1, <1>6 DEF Rivals, Alive, IInv, LifeInv
  <1> QED
    BY <1>1, <1>2, <1>3, <1>5, <1>6, <1>7 DEF Waits

LEMMA Launched ==
  ASSUME IInv, TypeOK', NEW w \in Windows, Launch(w)
  PROVE  IInv'
  <1>1. PICK n \in Servers : /\ process[n] = "unborn"
                             /\ process' = [process EXCEPT ![n] = "starting"]
                             /\ parent' = [parent EXCEPT ![n] = w]
                             /\ child' = [child EXCEPT ![w] = n]
    BY DEF Launch
  <1>2. /\ process'[n] = "starting" /\ parent'[n] = w /\ child'[w] = n /\ n # Nobody
        /\ \A p \in Processes : p # n => process'[p] = process[p] /\ parent'[p] = parent[p]
        /\ \A v \in Windows : v # w => child'[v] = child[v]
    BY <1>1, Names DEF IInv, TypeOK
  <1>3. /\ state'[w] = "starting" /\ flight'[w] = "probing" /\ seen'[w] = "unknown"
        /\ \A v \in Windows : v # w => flight'[v] = flight[v] /\ seen'[v] = seen[v] /\ state'[v] = state[v]
    BY DEF Launch, IInv, TypeOK
  <1>4. stopping' = stopping \ {w} /\ UNCHANGED <<open, restarting, told, heard, blamed>> /\ w \in open
    BY DEF Launch, IInv, ChildInv
  <1>5. n \notin told /\ n \notin heard /\ parent[n] = Nobody
    BY <1>1 DEF IInv, LifeInv
  <1>6. \A v \in Windows : child[v] # n
    BY <1>2, <1>5, Names DEF IInv, ChildInv
  <1>7. LifeInv'
    BY <1>2, <1>4, <1>5, Names DEF IInv, LifeInv
  <1>8. ChildInv'
    BY <1>2, <1>3, <1>4, <1>5, <1>6, Names DEF IInv, ChildInv, TypeOK
  <1>9. calm' => HoldInv' /\ OneAlive' /\ WaitInv' /\ TerminalGone'
    <2> SUFFICES ASSUME calm'
                 PROVE  HoldInv' /\ OneAlive' /\ WaitInv' /\ TerminalGone'
      OBVIOUS
    <2>1. /\ HoldInv /\ WaitInv /\ child[w] = Nobody /\ process[Terminal] # "serving"
          /\ \A p \in Servers : ~Alive(p)
          /\ \A p \in Servers : parent[p] = w => p \in heard
      BY Alone DEF IInv, CalmInv
    <2>2. HoldInv'
      BY <1>2, <1>4, <1>5, <2>1, Names DEF HoldInv, IInv, TypeOK
    <2>3. OneAlive' /\ TerminalGone'
      BY <1>2, <2>1, Names DEF OneAlive, Alive, TerminalGone
    <2>4. \A v \in Windows : v # w => Waits(v)'
      BY <1>2, <1>3, <1>6, <2>1, Names DEF WaitInv, Waits, IInv, TypeOK
    <2>5. Waits(w)'
      BY <1>2, <1>3, Names DEF Waits
    <2> QED
      BY <2>2, <2>3, <2>4, <2>5 DEF WaitInv
  <1>10. CrashesToldFromStops'
    <2>1. calm' => calm
      BY Zenon DEF Launch
    <2> QED
      BY <1>2, <1>4, <1>5, <2>1, Names DEF IInv, CrashesToldFromStops, TypeOK
  <1> QED
    BY <1>7, <1>8, <1>9, <1>10 DEF IInv, CalmInv
\* What the end of a hold does.
LEMMA Halted ==
  ASSUME IInv, NEW w \in Windows, Halt(w)
  PROVE  /\ child'[w] = Nobody /\ \A v \in Windows : v # w => child'[v] = child[v] /\ state'[v] = state[v]
         /\ \A p \in Processes : p # child[w] => process'[p] = process[p] /\ (p \in told' <=> p \in told)
         /\ child[w] = Nobody => stopping' = stopping
         /\ child[w] # Nobody =>
              /\ child[w] \in Servers /\ child[w] \in told' /\ stopping' = stopping \cup {w}
              /\ process[child[w]] # "unborn"
              /\ process'[child[w]] \in {"draining", "dead"}
         /\ told \subseteq told'
  <1>1. CASE child[w] = Nobody
    BY <1>1, Names DEF Halt, IInv, TypeOK
  <1>2. CASE child[w] # Nobody
    <2>1. child[w] \in Servers /\ child[w] \in Processes /\ process[child[w]] # "unborn"
          /\ process[child[w]] \in Lives
      BY <1>2, Names DEF IInv, TypeOK, ChildInv, LifeInv
    <2>2. /\ told' = told \cup {child[w]} /\ process' = Terminated(child[w])
          /\ child' = [child EXCEPT ![w] = Nobody] /\ state' = [state EXCEPT ![w] = "stopped"]
          /\ stopping' = stopping \cup {w}
      BY <1>2 DEF Halt
    <2>3. /\ process'[child[w]] \in {"draining", "dead"}
          /\ \A p \in Processes : p # child[w] => process'[p] = process[p]
      BY <2>1, <2>2 DEF Terminated, IInv, TypeOK, Lives
    <2>4. child'[w] = Nobody /\ \A v \in Windows : v # w => child'[v] = child[v] /\ state'[v] = state[v]
      BY <2>2 DEF IInv, TypeOK
    <2> QED
      BY <1>2, <2>1, <2>2, <2>3, <2>4
  <1> QED
    BY <1>1, <1>2

LEMMA Stopped ==
  ASSUME IInv, TypeOK', NEW w \in Windows, Halt(w), w \in open,
         UNCHANGED <<parent, heard, blamed, calm>>,
         \/ UNCHANGED <<open, attempt>>
         \/ /\ open' = open \ {w}
            /\ flight' = [flight EXCEPT ![w] = "none"] /\ seen' = [seen EXCEPT ![w] = "unknown"]
  PROVE  IInv'
  <1>1. /\ child'[w] = Nobody /\ \A v \in Windows : v # w => child'[v] = child[v] /\ state'[v] = state[v]
        /\ \A p \in Processes : p # child[w] => process'[p] = process[p] /\ (p \in told' <=> p \in told)
        /\ child[w] = Nobody => stopping' = stopping
        /\ child[w] # Nobody =>
             /\ child[w] \in Servers /\ child[w] \in told' /\ stopping' = stopping \cup {w}
             /\ process[child[w]] # "unborn"
             /\ process'[child[w]] \in {"draining", "dead"}
        /\ told \subseteq told'
    BY Halted
  <1>2. /\ open' \subseteq open /\ \A v \in Windows : v # w => (v \in open' <=> v \in open)
        /\ \A v \in Windows : v # w => flight'[v] = flight[v] /\ seen'[v] = seen[v]
        /\ \/ w \in open' /\ flight'[w] = flight[w] /\ seen'[w] = seen[w]
           \/ flight'[w] = "none" /\ seen'[w] = "unknown"
    BY DEF attempt, IInv, TypeOK
  <1>3. child[w] # Nobody => parent[child[w]] = w /\ child[w] \notin told /\ child[w] \notin heard
    BY DEF IInv, ChildInv
  <1>4. \A v \in Windows : v # w /\ child[v] # Nobody => child[v] \in Processes /\ child[v] # child[w]
    BY <1>3, Names DEF IInv, ChildInv, TypeOK
  <1>5. \A p \in Servers : Alive(p)' => Alive(p)
    BY <1>1, Names DEF Alive
  <1>6. LifeInv'
    BY <1>1, <1>3, Names DEF IInv, LifeInv
  <1>7. ChildInv'
    <2>1. ASSUME NEW v \in Windows, v # w, child[v] # Nobody
          PROVE  v \in open' /\ parent[child[v]] = v /\ child[v] \notin told' /\ child[v] \notin heard
      BY <1>1, <1>2, <1>4, <2>1 DEF IInv, ChildInv
    <2>2. \A v \in stopping' : child'[v] = Nobody
      BY <1>1 DEF IInv, ChildInv, TypeOK
    <2>3. \A v \in Windows : IF flight'[v] = "none" THEN seen'[v] = "unknown" ELSE v \in open'
      BY <1>2 DEF IInv, ChildInv
    <2> QED
      BY <1>1, <2>1, <2>2, <2>3 DEF ChildInv
  <1>8. calm' => HoldInv' /\ OneAlive' /\ WaitInv' /\ TerminalGone'
    <2> SUFFICES ASSUME calm
                 PROVE  HoldInv' /\ OneAlive' /\ WaitInv' /\ TerminalGone'
      OBVIOUS
    <2>1. HoldInv /\ OneAlive /\ WaitInv /\ TerminalGone
      BY DEF IInv, CalmInv
    <2>2. ASSUME NEW p \in Servers, parent[p] \in open', p \notin heard
          PROVE  IF p \in told' THEN parent[p] \in stopping' ELSE child'[parent[p]] = p
      <3>1. parent[p] \in open /\ parent[p] \in Windows /\ p \in Processes
        BY <1>2, <2>2, Names DEF IInv, TypeOK
      <3>2. IF p \in told THEN parent[p] \in stopping ELSE child[parent[p]] = p
        BY <2>1, <2>2, <3>1 DEF HoldInv
      <3>3. CASE p = child[w]
        BY <1>1, <1>3, <3>3, Names
      <3>4. CASE p # child[w]
        <4>1. parent[p] = w => p \in told
          BY <3>2, <3>4
        <4> QED
          BY <1>1, <3>1, <3>2, <3>4, <4>1
      <3> QED
        BY <3>3, <3>4
    <2>3. HoldInv'
      BY <2>2 DEF HoldInv
    <2>4. OneAlive'
      BY <1>5, <2>1 DEF OneAlive
    <2>5. process'[Terminal] = process[Terminal]
      <3>1. Terminal # child[w]
        BY Names DEF IInv, TypeOK
      <3> QED
        BY <1>1, <3>1, Names
    <2>6. TerminalGone'
      <3>1. ASSUME NEW p \in Servers, process'[p] # "unborn"
            PROVE  process[p] # "unborn"
        BY <1>1, <3>1, Names
      <3> QED
        BY <2>1, <2>5, <3>1 DEF TerminalGone
    <2>7. WaitInv'
      <3>1. Waits(w)'
        <4>1. child'[w] = Nobody
          BY <1>1
        <4>2. seen[w] = "no" => process[Terminal] # "serving"
          BY <2>1 DEF WaitInv, Waits
        <4>3. seen'[w] = "no" => seen[w] = "no"
          BY <1>2
        <4> QED
          BY <2>5, <4>1, <4>2, <4>3 DEF Waits
      <3>2. ASSUME NEW v \in Windows, v # w
            PROVE  Waits(v)'
        <4>1. Waits(v) /\ child'[v] = child[v] /\ state'[v] = state[v]
              /\ flight'[v] = flight[v] /\ seen'[v] = seen[v]
          BY <1>1, <1>2, <2>1, <3>2 DEF WaitInv
        <4>2. child[v] # Nobody => process'[child[v]] = process[child[v]]
          BY <1>1, <1>4, <3>2
        <4> QED
          BY <2>5, <4>1, <4>2 DEF Waits
      <3> QED
        BY <3>1, <3>2 DEF WaitInv
    <2> QED
      BY <2>3, <2>4, <2>6, <2>7
  <1>9. CrashesToldFromStops'
    <2>1. \A p \in heard : p # child[w] /\ p \in Processes
      BY <1>3, Names DEF IInv, TypeOK
    <2> QED
      BY <1>1, <1>2, <2>1 DEF IInv, CrashesToldFromStops
  <1> QED
    BY <1>6, <1>7, <1>8, <1>9 DEF IInv, CalmInv
\* A process binds the port or ends.
LEMMA Moved ==
  ASSUME IInv, TypeOK', NEW p \in Processes, (Binds(p) /\ p \in Servers) \/ Ends(p)
  PROVE  IInv'
  <1>1. /\ open' = open /\ child' = child /\ state' = state /\ stopping' = stopping
        /\ flight' = flight /\ seen' = seen /\ parent' = parent
        /\ told' = told /\ heard' = heard /\ blamed' = blamed /\ calm' = calm
    BY DEF Binds, Ends, attempt
  <1>2. \A q \in Processes : q # p => process'[q] = process[q]
    BY DEF Binds, Ends, IInv, TypeOK
  <1>3. /\ process[p] \in {"starting", "serving", "draining"} /\ process'[p] \in {"serving", "dead"}
        /\ process'[p] = "serving" => p \in Servers /\ process[p] = "starting"
    BY DEF Binds, Ends, IInv, TypeOK
  <1>4. p \notin heard
    BY <1>3, Names DEF IInv, LifeInv, TypeOK
  <1>5. LifeInv'
    BY <1>1, <1>2, <1>3, <1>4, Names DEF IInv, LifeInv
  <1>6. ChildInv'
    BY <1>1 DEF IInv, ChildInv
  <1>7. ASSUME calm
        PROVE  HoldInv' /\ OneAlive' /\ WaitInv' /\ TerminalGone'
    <2>1. HoldInv /\ OneAlive /\ WaitInv /\ TerminalGone
      BY <1>7 DEF IInv, CalmInv
    <2>2. HoldInv'
      BY <1>1, <2>1 DEF HoldInv
    <2>3. OneAlive'
      BY <1>2, <1>3, <2>1, Names DEF OneAlive, Alive
    <2>4. process'[Terminal] = "serving" => process[Terminal] = "serving"
      BY <1>2, <1>3, Names
    <2>5. TerminalGone'
      BY <1>2, <1>3, <2>1, <2>4, Names DEF TerminalGone
    <2>6. ASSUME NEW w \in Windows
          PROVE  Waits(w)'
      <3>1. Waits(w)
        BY <2>1 DEF WaitInv
      <3>2. child[w] # Nobody => child[w] \in Processes
        BY Names DEF IInv, TypeOK
      <3>3. child[w] # Nobody /\ process'[child[w]] = "starting" => process[child[w]] = "starting"
        BY <1>2, <1>3, <3>2
      <3>4. child[w] # Nobody /\ process'[child[w]] = "serving" => process[child[w]] \in {"serving", "starting"}
        BY <1>2, <1>3, <3>2
      <3> QED
        BY <1>1, <2>4, <3>1, <3>3, <3>4 DEF Waits
    <2> QED
      BY <2>2, <2>3, <2>5, <2>6 DEF WaitInv
  <1>8. CrashesToldFromStops'
    BY <1>1 DEF IInv, CrashesToldFromStops
  <1> QED
    BY <1>1, <1>5, <1>6, <1>7, <1>8 DEF IInv, CalmInv

\* An exit is handled.
LEMMA Handled ==
  ASSUME IInv, TypeOK', NEW p \in Servers, ExitHandled(p)
  PROVE  IInv'
  <1> DEFINE w == parent[p]
  <1>1. /\ process[p] = "dead" /\ p \notin heard /\ heard' = heard \cup {p}
        /\ open' = open /\ stopping' = stopping /\ flight' = flight /\ seen' = seen
        /\ process' = process /\ parent' = parent /\ told' = told /\ calm' = calm
    BY DEF ExitHandled, attempt
  <1>2. CASE w \in open
    <2>1. /\ child' = [child EXCEPT ![w] = Nobody]
          /\ state' = [state EXCEPT ![w] = IF w \in stopping THEN "stopped" ELSE "failed"]
          /\ blamed' = IF w \in stopping THEN blamed ELSE blamed \cup {p}
      BY <1>2 DEF ExitHandled
    <2>2. w \in Windows /\ child'[w] = Nobody
          /\ \A v \in Windows : v # w => child'[v] = child[v] /\ state'[v] = state[v]
      BY <1>2, <2>1 DEF IInv, TypeOK
    <2>3. \A v \in Windows : v # w => child[v] # p
      BY <1>2, Names DEF IInv, ChildInv
    <2>4. LifeInv'
      BY <1>1 DEF IInv, LifeInv
    <2>5. ChildInv'
      BY <1>1, <2>2, <2>3 DEF IInv, ChildInv
    <2>6. ASSUME calm
          PROVE  HoldInv' /\ OneAlive' /\ WaitInv' /\ TerminalGone'
      <3>1. HoldInv /\ OneAlive /\ WaitInv /\ TerminalGone
        BY <2>6 DEF IInv, CalmInv
      <3>2. child[w] = Nobody \/ child[w] = p
        <4>1. CASE p \in told
          BY <1>1, <1>2, <2>2, <3>1, <4>1 DEF HoldInv, IInv, ChildInv
        <4>2. CASE p \notin told
          BY <1>1, <1>2, <3>1, <4>2 DEF HoldInv
        <4> QED
          BY <4>1, <4>2
      <3>3. ASSUME NEW q \in Servers, parent[q] \in open, q \notin heard, q # p
            PROVE  IF q \in told THEN parent[q] \in stopping ELSE child'[parent[q]] = q
        <4>1. parent[q] \in Windows /\ q # Nobody
          BY <3>3, Names DEF IInv, TypeOK
        <4> QED
          BY <2>2, <3>1, <3>2, <3>3, <4>1 DEF HoldInv
      <3>4. HoldInv'
        BY <1>1, <3>3 DEF HoldInv
      <3>5. OneAlive' /\ TerminalGone'
        BY <1>1, <3>1 DEF OneAlive, Alive, TerminalGone
      <3>6. \A v \in Windows : Waits(v)'
        BY <1>1, <2>2, <3>1 DEF WaitInv, Waits
      <3> QED
        BY <3>4, <3>5, <3>6 DEF WaitInv
    <2>7. ASSUME calm, NEW q \in heard', parent[q] \in open
          PROVE  q \in blamed' <=> q \notin told
      <3>1. CASE q = p
        <4>1. p \notin blamed
          BY <1>1 DEF IInv, TypeOK
        <4>2. IF p \in told THEN w \in stopping ELSE child[w] = p
          BY <1>1, <1>2, <2>7 DEF IInv, CalmInv, HoldInv
        <4>3. p \notin told => w \notin stopping
          BY <2>2, <4>2, Names DEF IInv, ChildInv
        <4> QED
          BY <2>1, <3>1, <4>1, <4>2, <4>3
      <3>2. CASE q # p
        <4>1. q \in heard /\ (q \in blamed' <=> q \in blamed)
          BY <1>1, <2>1, <2>7, <3>2
        <4> QED
          BY <2>7, <4>1 DEF IInv, CrashesToldFromStops
      <3> QED
        BY <3>1, <3>2
    <2>8. CrashesToldFromStops'
      BY <1>1, <2>7 DEF CrashesToldFromStops
    <2> QED
      BY <1>1, <2>4, <2>5, <2>6, <2>8 DEF IInv, CalmInv
  <1>3. CASE w \notin open
    <2>1. child' = child /\ state' = state /\ blamed' = blamed
      BY <1>3 DEF ExitHandled
    <2>2. LifeInv'
      BY <1>1 DEF IInv, LifeInv
    <2>3. ChildInv'
      BY <1>1, <1>3, <2>1 DEF IInv, ChildInv
    <2>4. calm => HoldInv' /\ OneAlive' /\ TerminalGone'
      BY <1>1, <2>1 DEF IInv, CalmInv, HoldInv, OneAlive, Alive, TerminalGone
    <2>5. calm => WaitInv'
      BY <1>1, <2>1 DEF IInv, CalmInv, WaitInv, Waits
    <2>6. CrashesToldFromStops'
      BY <1>1, <1>3, <2>1 DEF IInv, CrashesToldFromStops
    <2> QED
      BY <1>1, <2>2, <2>3, <2>4, <2>5, <2>6 DEF IInv, CalmInv
  <1> QED
    BY <1>2, <1>3
LEMMA StepInv ==
  ASSUME IInv, [Next]_vars
  PROVE  IInv'
  <1>1. TypeOK'
    BY TypeStep DEF IInv
  <1>2. ASSUME NEW w \in Windows, Supervise(w) \/ GiveUp(w) \/ EnsureRunning(w) \/ RestartGoesOn(w)
        PROVE  IInv'
    BY <1>1, <1>2, Attempted, Launched DEF Supervise
  <1>3. ASSUME NEW w \in Windows, Stop(w) \/ Restart(w) \/ Close(w)
        PROVE  IInv'
    <2>1. /\ Halt(w) /\ w \in open /\ UNCHANGED <<parent, heard, blamed, calm>>
          /\ \/ UNCHANGED <<open, attempt>>
             \/ /\ open' = open \ {w}
                /\ flight' = [flight EXCEPT ![w] = "none"] /\ seen' = [seen EXCEPT ![w] = "unknown"]
      BY <1>3 DEF Stop, Restart, Close
    <2> QED
      BY <1>1, <2>1, Stopped
  <1>4. CASE \E p \in Servers : Binds(p) \/ ExitHandled(p)
    BY <1>1, <1>4, Moved, Handled, Names
  <1>5. CASE \E p \in Processes : Ends(p)
    BY <1>1, <1>5, Moved
  <1>6. CASE UNCHANGED vars
    <2>1. LifeInv' /\ ChildInv' /\ CrashesToldFromStops'
      BY <1>6 DEF vars, attempt, world, IInv, LifeInv, ChildInv, CrashesToldFromStops
    <2>2. CalmInv'
      BY <1>6 DEF vars, attempt, world, IInv, CalmInv, HoldInv, OneAlive, Alive, WaitInv, Waits, TerminalGone
    <2> QED
      BY <1>1, <2>1, <2>2 DEF IInv
  <1> QED
    BY <1>2, <1>3, <1>4, <1>5, <1>6 DEF Next, Command
-----------------------------------------------------------------------------
(* What a window knows                                                     *)

\* While servers answer in time, exits are told promptly and windows do not
\* race, a window holds each server it started that was not stopped, and tells
\* a crash from a stop (child and stopping, server-process.ts).
THEOREM ChildrenKnown == Spec => []ChildrenAccounted
  <1>1. IInv => ChildrenAccounted
    <2> SUFFICES ASSUME IInv
                 PROVE  NoOrphan
      BY DEF ChildrenAccounted, IInv
    <2>1. ASSUME calm, NEW p \in Servers, process[p] \in {"starting", "serving"}, parent[p] \in open
          PROVE  child[parent[p]] = p
      <3>1. p \notin heard /\ p \notin told
        BY <2>1 DEF IInv, LifeInv
      <3> QED
        BY <2>1, <3>1 DEF IInv, CalmInv, HoldInv
    <2> QED
      BY <2>1 DEF NoOrphan
  <1> QED
    BY <1>1, InitInv, StepInv, PTL DEF Spec

\* On the same condition no two servers that supervisors started come up or
\* serve at once ("it never starts a second server", server-process.ts:9).
THEOREM OneServerWhileCalm == Spec => [](calm => OneAlive)
  <1>1. IInv => (calm => OneAlive)
    BY DEF IInv, CalmInv
  <1> QED
    BY <1>1, InitInv, StepInv, PTL DEF Spec
=============================================================================
