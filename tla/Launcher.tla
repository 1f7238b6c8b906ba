------------------------------- MODULE Launcher -------------------------------
(***************************************************************************)
(* The processes of one checkout: scripts/full_launcher.py, which starts   *)
(* the application launcher and, for Telegram, the webhook proxy and the   *)
(* tunnel; scripts/app_launcher.sh with launcher_processes.py, which       *)
(* starts backend and frontend; and what becomes of them when anything     *)
(* dies.                                                                   *)
(*                                                                         *)
(* A process is its role and its run.  What a launcher starts carries the  *)
(* mark of its run in the environment, except the workers that the         *)
(* frontend forks with an environment of their own.  A receipt on disk     *)
(* names the run.  Both launchers are subreapers: what loses its parent    *)
(* becomes a child of the next launcher above it.                          *)
(***************************************************************************)
EXTENDS Naturals, FiniteSets, WebhookRegistration

CONSTANTS
    Kinds,     \* how a run may be started: "app" alone, "full", "telegram"
    Contested, \* ports that others may take
    Top,       \* the parent of launchers
    NoReceipt  \* no receipt on disk

Leader == {"app", "proxy", "tunnel"}
Service == {"backend", "frontend", "proxy", "tunnel"}
Role == Service \cup {"full", "app", "worker"}
Port == {"backend", "frontend", "proxy"}
Process == Role \X Run
Launchers == {"full", "app"} \X Run

\* processes.json; a receipt of an earlier boot is not current.
Receipt == [run : Run, current : BOOLEAN, leaders : SUBSET Leader]

ASSUME LauncherAssumption ==
    /\ Run \subseteq Nat /\ Kinds \in [Run -> SUBSET {"app", "full", "telegram"}]
    /\ Contested \subseteq Port
    /\ {Nowhere, Server, Unsigned, NoReceipt} \cap Run = {} /\ Top \notin Process
    /\ NoReceipt \notin Receipt

VARIABLES
    how,      \* how a run was started
    alive,    \* processes
    parent,   \* their parents
    doomed,   \* those that were sent SIGKILL
    up,       \* those that listen on their port
    foreign,  \* ports taken by somebody else
    at,       \* what each launcher is doing
    phase,    \* whom it has told to end: leaders, all, or all with SIGKILL
    receipt   \* processes.json of both launchers

procVars == <<alive, parent, doomed, up>>
vars == <<how, procVars, foreign, at, phase, receipt, hookVars>>

-----------------------------------------------------------------------------
Ports(r) == IF how[r] = "telegram" THEN Port ELSE Port \ {"proxy"}

Free(r) == /\ foreign \cap Ports(r) = {}
           /\ \A p \in up : p[1] \notin Ports(r)

\* The live processes that carry the mark of a launcher's run.
Marked(kind, r) ==
    {p \in alive : p[2] = r /\ IF kind = "full" THEN how[r] # "app" /\ p[1] \in Service \cup {"app"}
                               ELSE p[1] \in {"backend", "frontend"}}

Children(S) == {p \in alive : parent[p] \in S}

\* Processes and what they started, three generations down.
Above(p) == IF p = Top THEN Top ELSE parent[p]
Under(S) == {p \in alive : {p, Above(p), Above(Above(p)), Above(Above(Above(p)))} \cap S # {}}

\* The run whose processes a launcher is stopping.
Target(l) == IF at[l] = "clear" THEN receipt[l[1]].run ELSE l[2]

\* Mutant: ancestry does not count.
MarkOnly(l) == Marked(l[1], Target(l))

\* What a launcher may stop: marked processes, its own children while it runs,
\* and their descendants.
Owned(l) == Under(Marked(l[1], Target(l)) \cup IF at[l] = "clear" THEN {} ELSE Children({l}))

\* An application launcher that is told to stop does so, or is killed while it
\* is still the shell script.
Deaf == {"lock", "recover", "clear", "check"}
Busy == {"start", "started", "wait", "backend", "frontend", "watch",
         "inspect", "set", "verify", "confirm"}

Told(S, a) == [l \in Launchers |-> IF l \in S /\ l[1] = "app" /\ a[l] \in Busy THEN "stop" ELSE a[l]]
Killed(S) == {p \in S : p[1] = "app" /\ at[p] \in Deaf}
Term(S, a) == at' = Told(S, a) /\ doomed' = doomed \cup Killed(S)

Leaders(r) == IF receipt["full"] # NoReceipt /\ receipt["full"].run = r
              THEN receipt["full"].leaders \X {r} ELSE {}

\* A process is gone; its children go to its parent.
Gone(p) ==
    /\ alive' = alive \ {p} /\ up' = up \ {p} /\ doomed' = doomed \ {p}
    /\ parent' = [q \in Process |-> IF q = p THEN Top
                                    ELSE IF parent[q] = p THEN parent[p] ELSE parent[q]]

Exit(l, a) == /\ Gone(l) /\ at' = [a EXCEPT ![l] = "no"]
              /\ phase' = [phase EXCEPT ![l] = "all"]

\* Popen
Spawn(p, by) == /\ alive' = alive \cup {p} /\ parent' = [parent EXCEPT ![p] = by]
                /\ UNCHANGED <<up, doomed>>

Move(l, state) == at' = [at EXCEPT ![l] = state] /\ UNCHANGED phase

Init ==
    /\ how = [r \in Run |-> "none"]
    /\ alive = {} /\ up = {} /\ doomed = {} /\ foreign = {}
    /\ parent = [p \in Process |-> Top]
    /\ at = [l \in Launchers |-> "no"] /\ phase = [l \in Launchers |-> "all"]
    /\ receipt = [kind \in {"full", "app"} |-> NoReceipt]
    /\ HookInit

-----------------------------------------------------------------------------
(* Starting: the locks, recovery, the ports, one process after the other.  *)

\* The lock of the checkout, held by a live launcher of the same kind.
Flock(l) == \A q \in Run : <<l[1], q>> \in alive /\ q # l[2] => at[<<l[1], q>>] = "lock"

\* A run is started, completely or as the application alone.
Launch(r, kind) ==
    LET l == <<IF kind = "app" THEN "app" ELSE "full", r>> IN
    /\ how[r] = "none" /\ \A q \in Run : q < r => how[q] # "none"
    /\ how' = [how EXCEPT ![r] = kind]
    /\ Spawn(l, Top) /\ Move(l, "lock")
    /\ UNCHANGED <<foreign, receipt, hookVars>>

Lock(l) ==
    /\ at[l] = "lock"
    /\ IF Flock(l) THEN Move(l, "recover") /\ UNCHANGED procVars ELSE Exit(l, at)
    /\ UNCHANGED <<how, foreign, receipt, hookVars>>

\* Stopping others begins: the full launcher first asks the recorded leaders.
Begin(l, state, r) ==
    LET a == [at EXCEPT ![l] = state] IN
    /\ phase' = [phase EXCEPT ![l] = IF l[1] = "full" THEN "leaders" ELSE "all"]
    /\ IF l[1] = "full" THEN Term(Leaders(r) \cap alive, a) ELSE at' = a /\ UNCHANGED doomed
    /\ UNCHANGED <<alive, parent, up>>

\* Mutant: a receipt is dropped once its launcher is gone.
Forget(l) == receipt[l[1]] # NoReceipt => ~receipt[l[1]].current
                                          \/ <<l[1], receipt[l[1]].run>> \notin alive

\* Nothing is left to recover, at most a receipt of an earlier boot.
Nothing(l) == receipt[l[1]] # NoReceipt => ~receipt[l[1]].current

Recover(l) ==
    /\ at[l] = "recover"
    /\ IF Nothing(l)
       THEN Move(l, "check") /\ receipt' = [receipt EXCEPT ![l[1]] = NoReceipt] /\ UNCHANGED procVars
       ELSE /\ UNCHANGED receipt
            /\ IF <<l[1], receipt[l[1]].run>> \in alive THEN Exit(l, at)
               ELSE Begin(l, "clear", receipt[l[1]].run)
    /\ UNCHANGED <<how, foreign, hookVars>>

\* The ports are free and the receipt is written before anything is started.
Check(l) ==
    /\ at[l] = "check" /\ l \notin doomed
    /\ IF Free(l[2])
       THEN /\ Move(l, "start") /\ UNCHANGED procVars
            /\ receipt' = [receipt EXCEPT ![l[1]] = [run |-> l[2], current |-> TRUE, leaders |-> {}]]
       ELSE Exit(l, at) /\ UNCHANGED receipt
    /\ UNCHANGED <<how, foreign, hookVars>>

\* The next process of the full launcher, by what it started so far.
NextLeader(r) ==
    CASE receipt["full"].leaders = {} -> "app"
      [] receipt["full"].leaders = {"app"} -> "proxy"
      [] OTHER -> "tunnel"

StartLeader(r) ==
    LET l == <<"full", r>> p == <<NextLeader(r), r>> IN
    /\ at[l] = "start" /\ l \notin doomed
    /\ Spawn(p, l)
    /\ at' = [at EXCEPT ![l] = "started", ![<<"app", r>>] = IF p[1] = "app" THEN "lock" ELSE @]
    /\ UNCHANGED <<how, phase, foreign, receipt, hookVars>>

\* It is still there and is added to the receipt.
Record(r) ==
    LET l == <<"full", r>> p == <<NextLeader(r), r>> IN
    /\ at[l] = "started" /\ p \in alive
    /\ receipt' = [receipt EXCEPT !["full"].leaders = @ \cup {p[1]}]
    /\ Move(l, "wait")
    /\ UNCHANGED <<how, procVars, foreign, hookVars>>

\* A port is served by a process of this run, not by somebody else's.
Listens(role, r) == <<role, r>> \in up

\* The tunnel has named its address, which answers as the proxy does.
Reachable(r) == Leader \X {r} \subseteq alive

\* What the full launcher waits for after each start.
Ready(r) ==
    CASE receipt["full"].leaders = {"app"} -> Listens("backend", r) /\ Listens("frontend", r)
      [] receipt["full"].leaders = {"app", "proxy"} -> Listens("proxy", r)
      [] OTHER -> Reachable(r)

Proceed(r) ==
    LET l == <<"full", r>> IN
    /\ at[l] = "wait" /\ Ready(r) /\ Leaders(r) \subseteq alive
    /\ Move(l, IF how[r] # "telegram" THEN "watch"
               ELSE IF receipt["full"].leaders = Leader THEN "inspect" ELSE "start")
    /\ UNCHANGED <<how, procVars, foreign, receipt, hookVars>>

\* Backend, then frontend.
StartService(r) ==
    LET l == <<"app", r>>
        Next(state) == IF state = "start" THEN "backend" ELSE "frontend" IN
    /\ at[l] = "start" \/ (at[l] = "backend" /\ Listens("backend", r))
    /\ l \notin doomed
    /\ Spawn(<<Next(at[l]), r>>, l) /\ Move(l, Next(at[l]))
    /\ UNCHANGED <<how, foreign, receipt, hookVars>>

Serving(r) ==
    /\ at[<<"app", r>>] = "frontend" /\ Listens("frontend", r)
    /\ Move(<<"app", r>>, "watch")
    /\ UNCHANGED <<how, procVars, foreign, receipt, hookVars>>

-----------------------------------------------------------------------------
(* Registration with Telegram, between readiness and watching.             *)

Inspect(r) ==
    /\ at[<<"full", r>>] = "inspect" /\ MayRegister(r)
    /\ Move(<<"full", r>>, "set")
    /\ UNCHANGED <<how, procVars, foreign, receipt, hookVars>>

\* The call reaches Telegram, and its answer may be lost.
Set(r) ==
    /\ at[<<"full", r>>] = "set" /\ SetHook(r)
    /\ \/ Move(<<"full", r>>, "verify") /\ UNCHANGED procVars
       \/ Begin(<<"full", r>>, "stop", r)
    /\ UNCHANGED <<how, foreign, receipt>>

Verify(r) ==
    /\ at[<<"full", r>>] = "verify" /\ Verified(r)
    /\ Move(<<"full", r>>, "confirm")
    /\ UNCHANGED <<how, procVars, foreign, receipt, hookVars>>

Registered(r) ==
    /\ at[<<"full", r>>] = "confirm" /\ Confirm(r)
    /\ Move(<<"full", r>>, "watch")
    /\ UNCHANGED <<how, procVars, foreign, receipt>>

\* The operator of the server registers it, not while a launcher does.
Elsewhere ==
    /\ \A r \in Run : at[<<"full", r>>] # "set"
    /\ TakeOver
    /\ UNCHANGED <<how, procVars, foreign, at, phase, receipt>>

-----------------------------------------------------------------------------
(* Stopping.                                                               *)

\* A signal, a failed start, a timeout or a refusal of Telegram.
Cease(l) ==
    /\ at[l] \in Busy /\ l \notin doomed
    /\ Begin(l, "stop", l[2])
    /\ UNCHANGED <<how, foreign, receipt, hookVars>>

Names(kind, r) == receipt[kind] # NoReceipt /\ receipt[kind].current /\ receipt[kind].run = r

\* floodpulse.sh --stop: the application launcher that the receipt names is told.
StopRunning(r) == Names("app", r) /\ Cease(<<"app", r>>)

\* What a launcher started and polls.
Polled(l) ==
    LET r == l[2] IN
    IF l[1] = "full" THEN Leaders(r) \cup IF at[l] = "started" THEN {<<NextLeader(r), r>>} ELSE {}
    ELSE CASE at[l] = "backend" -> {<<"backend", r>>}
           [] at[l] \in {"frontend", "watch"} -> {<<"backend", r>>, <<"frontend", r>>}
           [] OTHER -> {}

\* pulse: something that was started has ended.
Notice(l) == ~(Polled(l) \subseteq alive) /\ Cease(l)

Stopping(l) == at[l] \in {"stop", "clear"}

\* Mutant: GRACE lasts until the application launcher is gone.
UntilGone(app) == app \notin alive

\* GRACE is longer than an application launcher takes to stop once it was asked.
GraceOver(app) == app \in Leaders(app[2]) => app \notin alive \/ ~Stopping(app)

Grace(l) ==
    /\ Stopping(l) /\ phase[l] = "leaders" /\ Owned(l) # {}
    /\ GraceOver(<<"app", Target(l)>>)
    /\ phase' = [phase EXCEPT ![l] = "all"]
    /\ Term(Owned(l), at)
    /\ UNCHANGED <<how, alive, parent, up, foreign, receipt, hookVars>>

\* TERM_GRACE is over as well: whatever is found is killed.
Kill(l) ==
    /\ Stopping(l) /\ phase[l] # "leaders"
    /\ ~(Owned(l) \subseteq doomed)
    /\ phase' = [phase EXCEPT ![l] = "kill"]
    /\ doomed' = doomed \cup Owned(l)
    /\ UNCHANGED <<how, alive, parent, up, foreign, at, receipt, hookVars>>

\* What was killed does not end in time: the receipt stays.
Abandon(l) ==
    /\ Stopping(l) /\ phase[l] = "kill" /\ Owned(l) # {} /\ Owned(l) \subseteq doomed
    /\ Exit(l, at)
    /\ UNCHANGED <<how, foreign, receipt, hookVars>>

\* Mutant: the recorded processes are enough.
LeadersGone(l) == Leaders(Target(l)) \cap alive = {}

\* Three scans in a row found nothing.
Empty(l) == Owned(l) = {}

\* Then the ports must become free, or the full launcher keeps its receipt.
Finish(l) ==
    LET free == Free(Target(l)) IN
    /\ Stopping(l) /\ Empty(l)
    /\ receipt' = IF free \/ l[1] = "app" THEN [receipt EXCEPT ![l[1]] = NoReceipt] ELSE receipt
    /\ IF at[l] = "clear" /\ free
       THEN /\ at' = [at EXCEPT ![l] = "check"] /\ phase' = [phase EXCEPT ![l] = "all"]
            /\ UNCHANGED procVars
       ELSE Exit(l, at)
    /\ UNCHANGED <<how, foreign, hookVars>>

-----------------------------------------------------------------------------
(* What happens to processes.                                              *)

Bind(p) ==
    /\ p \in alive \ (up \cup doomed) /\ p[1] \in Port
    /\ p[1] \notin foreign /\ \A q \in up : q[1] # p[1]
    /\ up' = up \cup {p}
    /\ UNCHANGED <<how, alive, parent, doomed, foreign, at, phase, receipt, hookVars>>

\* The frontend forks workers.
Fork(r) ==
    /\ <<"frontend", r>> \in alive \ doomed /\ <<"worker", r>> \notin alive
    /\ Spawn(<<"worker", r>>, <<"frontend", r>>)
    /\ UNCHANGED <<how, foreign, at, phase, receipt, hookVars>>

\* Any process may end, by itself, on SIGTERM or on SIGKILL.
Die(p) ==
    /\ p \in alive
    /\ IF p \in Launchers THEN Exit(p, at) ELSE Gone(p) /\ UNCHANGED <<at, phase>>
    /\ UNCHANGED <<how, foreign, receipt, hookVars>>

Killed9 == \E p \in doomed : Die(p)

Reboot ==
    /\ alive # {}
    /\ alive' = {} /\ up' = {} /\ doomed' = {} /\ parent' = [p \in Process |-> Top]
    /\ at' = [l \in Launchers |-> "no"] /\ phase' = [l \in Launchers |-> "all"]
    /\ receipt' = [kind \in {"full", "app"} |->
                     IF receipt[kind] = NoReceipt THEN NoReceipt ELSE [receipt[kind] EXCEPT !.current = FALSE]]
    /\ UNCHANGED <<how, foreign, hookVars>>

\* Somebody else takes or leaves a port.
Stranger(port) ==
    /\ \A p \in up : p[1] # port
    /\ foreign' = IF port \in foreign THEN foreign \ {port} ELSE foreign \cup {port}
    /\ UNCHANGED <<how, procVars, at, phase, receipt, hookVars>>

-----------------------------------------------------------------------------
Start(r) == StartLeader(r) \/ Record(r) \/ Proceed(r) \/ StartService(r) \/ Serving(r)
Register(r) == Inspect(r) \/ Set(r) \/ Verify(r) \/ Registered(r)
Halt(l) == Notice(l) \/ Grace(l) \/ Kill(l) \/ Abandon(l) \/ Finish(l)

Next ==
    \/ \E r \in Run : \E kind \in Kinds[r] : Launch(r, kind)
    \/ \E l \in Launchers : Lock(l) \/ Recover(l) \/ Check(l) \/ Cease(l) \/ Halt(l)
    \/ \E r \in Run : Start(r) \/ Register(r) \/ Fork(r) \/ StopRunning(r)
    \/ \E p \in Process : Bind(p) \/ Die(p)
    \/ \E port \in Contested : Stranger(port)
    \/ Elsewhere \/ Reboot

Spec == Init /\ [][Next]_vars
\* Launchers that stop go on, and what is killed ends.
Working == Killed9 \/ \E l \in Launchers : Halt(l)
FairSpec == Spec /\ WF_vars(Working)

-----------------------------------------------------------------------------
TypeOK ==
    /\ how \in [Run -> {"none", "app", "full", "telegram"}]
    /\ up \subseteq alive /\ doomed \subseteq alive /\ alive \subseteq Process
    /\ parent \in [Process -> Process \cup {Top}]
    /\ at \in [Launchers -> Deaf \cup Busy \cup {"no", "stop"}]
    /\ phase \in [Launchers -> {"leaders", "all", "kill"}]
    /\ foreign \subseteq Port
    /\ receipt \in [{"full", "app"} -> Receipt \cup {NoReceipt}]

\* Whatever dies in whatever order, a live process that carries a mark has a live
\* launcher, or a receipt that the next start recovers it by.
NothingForgotten ==
    \A p \in alive :
        LET r == p[2] IN
        \/ p[1] \in {"full", "worker"}
        \/ how[r] # "app" /\ (<<"full", r>> \in alive \/ Names("full", r))
        \/ p[1] \in {"backend", "frontend"} /\ (<<"app", r>> \in alive \/ Names("app", r))
        \/ p = <<"app", r>> /\ how[r] = "app"

\* A service of one run never lives beside the same service of another.
OneGeneration == \A p, q \in alive : p[1] = q[1] /\ p[1] \in Service => p = q

\* A launcher that has stopped its run and dropped the receipt leaves nothing
\* behind, workers that carry no mark included.
CleanExit ==
    [][\A l \in Launchers :
          at[l] = "stop" /\ at'[l] = "no" /\ receipt[l[1]] # NoReceipt /\ receipt'[l[1]] = NoReceipt
              => \A p \in alive' : p[2] = l[2] => l[1] = "app" /\ p[1] \in Leader \cup {"full"}]_vars

\* A launcher replaces no registration but one that it saw confirmed itself.
UnrelatedKept == [][hook' # hook /\ hook' \in Run => hook \in {Nowhere, confirmed}]_hookVars

\* Stopping ends, and a launcher whose processes ended stops: when
\* floodpulse.sh --stop ends an application launcher, the full one ends too.
Lingers(l) == Stopping(l) \/ (at[l] \in Busy /\ ~(Polled(l) \subseteq alive))
StopEnds == (\E l \in Launchers : Lingers(l)) ~> (\A l \in Launchers : ~Lingers(l))
=============================================================================
