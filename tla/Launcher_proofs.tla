---------------------------- MODULE Launcher_proofs ----------------------------
(***************************************************************************)
(* What holds of the processes of a checkout for any number of runs, in    *)
(* whatever order processes die, ports are taken and the machine restarts. *)
(*                                                                         *)
(* The receipt on disk is the pivot: it belongs to the one launcher that   *)
(* holds the lock of its kind, and it names every live process that        *)
(* carries a mark until a scan found none.  The workers carry no mark;     *)
(* they are found because they stay below a process that does.             *)
(***************************************************************************)
EXTENDS Launcher, TLAPS

\* A launcher that holds the lock of the checkout for its kind.
Past(l) == at[l] \notin {"no", "lock"}

\* No two launchers of a kind hold it, and a launcher that acts lives.
Locked == \A l, m \in Launchers : l[1] = m[1] /\ Past(l) /\ Past(m) => l = m
Living == \A l \in Launchers : at[l] # "no" => l \in alive

\* What the receipt says while a launcher holds the lock, and what is registered
\* with Telegram when it is about to register itself.
Held(l) ==
    /\ at[l] \in Busy \cup {"stop"} => Names(l[1], l[2])
    /\ at[l] = "clear" => receipt[l[1]] # NoReceipt /\ receipt[l[1]].current
    /\ at[l] = "check" => receipt[l[1]] = NoReceipt
    /\ l[1] = "full" /\ at[l] = "wait" => receipt["full"].leaders # {}
    /\ l[1] = "full" /\ at[l] = "set" => hook \in Replaceable(l[2])

\* Every live process with a mark is named by the receipt of its launcher.
NamedBy(p) ==
    /\ how[p[2]] # "none"
    /\ p[1] \in {"full", "proxy", "tunnel"} => how[p[2]] # "app"
    /\ p[1] \in {"backend", "frontend"} => Names("app", p[2])
    /\ p[1] \in Service \cup {"app"} /\ how[p[2]] # "app" => Names("full", p[2])
Named == \A p \in alive : NamedBy(p)

\* Who may be the parent of whom in a run: a process that loses its parent goes
\* to the application launcher while that lives, else to the full one.
Parents == \A p \in Process : parent[p] # Top => parent[p] \in alive

Family(r) ==
    LET full == <<"full", r>>  app == <<"app", r>>
        frontend == <<"frontend", r>>  worker == <<"worker", r>> IN
    /\ parent[full] = Top /\ parent[app] \in {full, Top}
    /\ parent[<<"proxy", r>>] \in {full, Top} /\ parent[<<"tunnel", r>>] \in {full, Top}
    /\ parent[<<"backend", r>>] \in {app, full, Top} /\ parent[frontend] \in {app, full, Top}
    /\ parent[worker] \in {frontend, app, full, Top}
    /\ app \in alive => /\ frontend \in alive => parent[frontend] = app
                        /\ worker \in alive => parent[worker] \in {frontend, app}
    /\ full \in alive => \A p \in {app, frontend, worker} : p \in alive => parent[p] # Top

\* A full launcher that has started nothing yet is alone.
Fresh(l) == at[l] \in Deaf \/ (at[l] = "start" /\ receipt["full"].leaders = {})
Alone(r) == Fresh(<<"full", r>>) => \A p \in alive : p[2] = r => p = <<"full", r>>

IInv ==
    /\ TypeOK /\ Living /\ Locked /\ Named /\ Parents
    /\ \A l \in Launchers : Held(l)
    /\ \A r \in Run : Family(r) /\ Alone(r)

-----------------------------------------------------------------------------
(* Launchers and processes as pairs, and what a scan finds.                *)

\* A process is its role and its run.
LEMMA Pairs ==
    ASSUME NEW p \in Process
    PROVE  p = <<p[1], p[2]>> /\ p[1] \in Role /\ p[2] \in Run /\ p # Top
<1>1. p = <<p[1], p[2]>> /\ p[1] \in Role /\ p[2] \in Run
  BY DEF Process
<1> QED
  BY <1>1, LauncherAssumption

\* Launchers are processes.
LEMMA LauncherPairs ==
    ASSUME NEW l \in Launchers
    PROVE  l = <<l[1], l[2]>> /\ l[1] \in {"full", "app"} /\ l[2] \in Run /\ l \in Process
<1>1. l = <<l[1], l[2]>> /\ l[1] \in {"full", "app"} /\ l[2] \in Run
  BY DEF Launchers
<1> QED
  BY <1>1 DEF Process, Role

\* The processes of a run, by their roles.
LEMMA OfRun ==
    ASSUME NEW r \in Run
    PROVE  /\ \A role \in Role : <<role, r>> \in Process /\ <<role, r>> # Top
           /\ <<"full", r>> \in Launchers /\ <<"app", r>> \in Launchers
<1>1. \A role \in Role : <<role, r>> \in Process
  BY DEF Process
<1> QED
  BY <1>1, LauncherAssumption DEF Launchers

\* A scan finds every live process that it looks for, and only live ones.
LEMMA Scans ==
    ASSUME NEW S
    PROVE  /\ Under(S) \subseteq alive
           /\ \A p \in alive : p \in S => p \in Under(S)
  BY DEF Under

\* A receipt that names a run names no other.
LEMMA OneName ==
    ASSUME NEW kind, NEW q, NEW r, Names(kind, q), Names(kind, r)
    PROVE  q = r
  BY DEF Names

-----------------------------------------------------------------------------
(* Steps that start and end nothing.                                       *)

\* With the receipts as they were, what lives on is still named.
LEMMA NamedOn ==
    ASSUME Named, alive' \subseteq alive, UNCHANGED <<how, receipt>>
    PROVE  Named'
  BY DEF Named, NamedBy, Names

\* Nobody acts: ports, the hook of the server, or nothing at all.
LEMMA Idle ==
    ASSUME IInv, TypeOK', UNCHANGED <<how, alive, parent, at, receipt>>,
           UNCHANGED hookVars \/ \A r \in Run : at[<<"full", r>>] # "set"
    PROVE  IInv'
<1>1. Living' /\ Locked' /\ Parents'
  BY DEF IInv, Living, Locked, Past, Parents
<1>2. Named'
  BY NamedOn DEF IInv
<1>3. ASSUME NEW l \in Launchers PROVE Held(l)'
  <2>1. Held(l) /\ l = <<l[1], l[2]>> /\ l[2] \in Run
    BY LauncherPairs DEF IInv
  <2>2. l[1] = "full" /\ at'[l] = "set" => UNCHANGED hookVars
    BY <2>1
  <2> QED
    BY <2>1, <2>2 DEF Held, Names, hookVars, Replaceable
<1>4. ASSUME NEW r \in Run PROVE Family(r)' /\ Alone(r)'
  BY DEF IInv, Family, Alone, Fresh
<1> QED
  BY <1>1, <1>2, <1>3, <1>4 DEF IInv

\* The other launchers stay where they are, or are told to stop.
Others(l) == \A m \in Launchers : m # l =>
                 at'[m] = at[m] \/ (m[1] = "app" /\ at[m] \in Busy /\ at'[m] = "stop")

\* What only the launcher l may change: the receipt of its kind, and for a full
\* launcher what Telegram has registered.
Own(l) == /\ \A kind \in {"full", "app"} : kind # l[1] => receipt'[kind] = receipt[kind]
          /\ l[1] = "full" \/ UNCHANGED hookVars

\* A launcher that holds the lock disturbs no other one.
LEMMA Bystander ==
    ASSUME IInv, NEW l \in Launchers, Past(l), Own(l),
           NEW m \in Launchers, m # l,
           \/ at'[m] \in {at[m], "no", "lock"}
           \/ at[m] \in Busy /\ at'[m] = "stop"
    PROVE  Held(m)'
<1>1. /\ l[1] \in {"full", "app"} /\ m[1] \in {"full", "app"} /\ Held(m)
      /\ m[1] = l[1] => ~Past(m)
  BY LauncherPairs DEF IInv, Locked
<1>2. CASE m[1] = l[1]
  <2>1. at'[m] \in {"no", "lock"}
    BY <1>1, <1>2 DEF Past, Busy
  <2> QED
    BY <2>1 DEF Held, Busy
<1>3. CASE m[1] # l[1]
  <2>1. receipt'[m[1]] = receipt[m[1]] /\ (m[1] = "full" => UNCHANGED hookVars)
    BY <1>1, <1>3 DEF Own
  <2>2. CASE at'[m] \in {"no", "lock"}
    BY <2>2 DEF Held, Busy
  <2>3. CASE at'[m] = at[m]
    BY <1>1, <2>1, <2>3 DEF Held, Names, hookVars, Replaceable
  <2>4. CASE at[m] \in Busy /\ at'[m] = "stop"
    BY <1>1, <2>1, <2>4 DEF Held, Names
  <2> QED
    BY <2>2, <2>3, <2>4
<1> QED
  BY <1>2, <1>3

\* One launcher that holds the lock acts, and no process starts or ends.
LEMMA Acts ==
    ASSUME IInv, TypeOK', NEW l \in Launchers, Past(l), UNCHANGED <<how, alive, parent>>,
           Others(l), at'[l] # "no", Own(l),
           Held(l)', Named', l[1] = "full" => Alone(l[2])'
    PROVE  IInv'
<1>1. l = <<l[1], l[2]>> /\ l[1] \in {"full", "app"}
  BY LauncherPairs
<1>2. \A m \in Launchers : (Past(m)' => Past(m)) /\ (at'[m] # "no" => at[m] # "no")
  BY DEF Others, Past, Busy
<1>3. Living' /\ Locked'
  BY <1>2 DEF IInv, Living, Locked
<1>4. ASSUME NEW m \in Launchers PROVE Held(m)'
  <2>1. CASE m = l
    BY <2>1
  <2>2. CASE m # l
    <3>1. \/ at'[m] \in {at[m], "no", "lock"}
          \/ at[m] \in Busy /\ at'[m] = "stop"
      BY <2>2 DEF Others
    <3> QED
      BY <2>2, <3>1, Bystander
  <2> QED
    BY <2>1, <2>2
<1>5. Parents' /\ \A r \in Run : Family(r)'
  BY DEF IInv, Parents, Family
<1>6. ASSUME NEW r \in Run PROVE Alone(r)'
  <2> DEFINE full == <<"full", r>>
  <2>1. full \in Launchers /\ full[1] = "full" /\ full[2] = r /\ Alone(r)
    BY OfRun DEF IInv
  <2>2. CASE full = l
    BY <2>1, <2>2
  <2>3. CASE full # l
    <3>1. at'[full] = at[full]
      BY <2>1, <2>3 DEF Others
    <3>2. CASE l[1] = "full"
      <4>1. ~Past(full)
        BY <2>1, <2>3, <3>2 DEF IInv, Locked
      <4>2. Fresh(full)' => Fresh(full)
        BY <3>1, <4>1 DEF Fresh, Past, Deaf
      <4> QED
        BY <2>1, <4>2 DEF Alone
    <3>3. CASE l[1] # "full"
      <4>1. Fresh(full)' => Fresh(full)
        BY <3>1, <3>3 DEF Fresh, Own
      <4> QED
        BY <2>1, <4>1 DEF Alone
    <3> QED
      BY <3>2, <3>3
  <2> QED
    BY <2>2, <2>3
<1> QED
  BY <1>3, <1>4, <1>5, <1>6 DEF IInv

-----------------------------------------------------------------------------
(* Processes that end.                                                     *)

\* No process is its own parent.
LEMMA NotOwnParent ==
    ASSUME IInv, NEW p \in Process
    PROVE  parent[p] # p
<1> DEFINE r == p[2]
<1>1. p = <<p[1], r>> /\ p[1] \in Role /\ r \in Run /\ p # Top
  BY Pairs
<1>2. Family(r)
  BY <1>1 DEF IInv
<1>3. p \in {<<"full", r>>, <<"app", r>>, <<"proxy", r>>, <<"tunnel", r>>, <<"backend", r>>,
             <<"frontend", r>>, <<"worker", r>>}
  BY <1>1 DEF Role, Service
<1> HIDE DEF r
<1> QED
  BY <1>1, <1>2, <1>3 DEF Family

\* A process is gone: its children go to its parent, the workers to a launcher.
LEMMA FamilyOn ==
    ASSUME IInv, NEW p \in alive, Gone(p)
    PROVE  Parents' /\ \A r \in Run : Family(r)'
<1>1. /\ p \in Process /\ p # Top /\ alive \subseteq Process
      /\ alive' = alive \ {p}
      /\ \A q \in Process : parent'[q] = IF q = p THEN Top
                                         ELSE IF parent[q] = p THEN parent[p] ELSE parent[q]
  BY Pairs DEF IInv, TypeOK, Gone
<1>2. Parents
  BY DEF IInv
<1>3. Parents'
  <2>1. parent[p] # p
    BY <1>1, NotOwnParent
  <2> QED
    BY <1>1, <1>2, <2>1 DEF Parents
<1>4. ASSUME NEW r \in Run PROVE Family(r)'
  <2> DEFINE full == <<"full", r>>  app == <<"app", r>>
             frontend == <<"frontend", r>>  worker == <<"worker", r>>
             proxy == <<"proxy", r>>  tunnel == <<"tunnel", r>>  backend == <<"backend", r>>
             Names7 == {full, app, frontend, worker, proxy, tunnel, backend}
  <2>1. Names7 \subseteq Process
    BY OfRun DEF Role, Service
  <2>2. Family(r)
    BY DEF IInv
  <2>3. \A q \in Names7 : q # Top
    BY <2>1, Pairs
  <2>4. \A q \in Names7 : parent'[q] = IF q = p THEN Top
                                         ELSE IF parent[q] = p THEN parent[p] ELSE parent[q]
    BY <1>1, <2>1
  <2>5. \A q \in Names7 : parent[q] # Top => parent[q] \in alive
    BY <1>2, <2>1 DEF Parents
  <2>6. parent'[full] = Top /\ parent'[app] \in {full, Top}
    BY <1>1, <2>2, <2>4 DEF Family
  <2>7. parent'[proxy] \in {full, Top} /\ parent'[tunnel] \in {full, Top}
    BY <1>1, <2>2, <2>4 DEF Family
  <2>8. parent'[backend] \in {app, full, Top} /\ parent'[frontend] \in {app, full, Top}
    BY <1>1, <2>2, <2>4 DEF Family
  <2>9. parent'[worker] \in {frontend, app, full, Top}
    BY <1>1, <2>2, <2>4 DEF Family
  <2>10. app \in alive' => /\ frontend \in alive' => parent'[frontend] = app
                           /\ worker \in alive' => parent'[worker] \in {frontend, app}
    BY <1>1, <2>2, <2>3, <2>4, <2>5 DEF Family
  <2>11. full \in alive' => \A q \in {app, frontend, worker} : q \in alive' => parent'[q] # Top
    BY <1>1, <2>2, <2>3, <2>4, <2>5 DEF Family
  <2> QED
    BY <2>6, <2>7, <2>8, <2>9, <2>10, <2>11 DEF Family
<1> QED
  BY <1>3, <1>4

\* The at of a process that is gone, when it is a launcher.
Left(p) == \A l \in Launchers : at'[l] = IF l = p THEN "no" ELSE at[l]

\* A process ends; a launcher that held the lock may drop its receipt, of which
\* nothing lives any more.
LEMMA Leaves ==
    ASSUME IInv, TypeOK', NEW p \in alive, Gone(p), Left(p), UNCHANGED <<how, hookVars>>,
           \/ UNCHANGED receipt
           \/ p \in Launchers /\ Past(p) /\ Own(p),
           Named'
    PROVE  IInv'
<1>1. p \in Process /\ alive' = alive \ {p}
  BY DEF IInv, TypeOK, Gone
<1>2. Living' /\ Locked'
  BY <1>1 DEF IInv, Living, Locked, Past, Left
<1>3. Parents' /\ \A r \in Run : Family(r)'
  BY FamilyOn
<1>4. ASSUME NEW l \in Launchers PROVE Held(l)'
  <2>1. CASE l = p
    BY <2>1 DEF Left, Held, Busy
  <2>2. CASE l # p
    <3>1. at'[l] = at[l] /\ Held(l)
      BY <2>2 DEF Left, IInv
    <3>2. CASE UNCHANGED receipt
      BY <3>1, <3>2 DEF Held, Names, hookVars, Replaceable
    <3>3. CASE p \in Launchers /\ Past(p) /\ Own(p)
      BY <2>2, <3>1, <3>3, Bystander
    <3> QED
      BY <3>2, <3>3
  <2> QED
    BY <2>1, <2>2
<1>5. ASSUME NEW r \in Run PROVE Alone(r)'
  <2> DEFINE full == <<"full", r>>
  <2>1. full \in Launchers /\ full[1] = "full" /\ full[2] = r /\ Alone(r)
    BY OfRun DEF IInv
  <2> SUFFICES ASSUME Fresh(full)' PROVE Fresh(full)
    BY <1>1, <2>1 DEF Alone
  <2>2. full # p /\ at'[full] = at[full]
    BY <2>1 DEF Fresh, Left, Deaf
  <2>3. CASE UNCHANGED receipt
    BY <2>2, <2>3 DEF Fresh
  <2>4. CASE p \in Launchers /\ Past(p) /\ Own(p)
    <3>1. CASE p[1] = "full"
      <4>1. ~Past(full)
        BY <2>1, <2>2, <2>4, <3>1 DEF IInv, Locked
      <4> QED
        BY <2>2, <4>1 DEF Fresh, Past, Deaf
    <3>2. CASE p[1] # "full"
      BY <2>2, <2>4, <3>2 DEF Fresh, Own
    <3> QED
      BY <3>1, <3>2
  <2> QED
    BY <2>3, <2>4
<1> QED
  BY <1>2, <1>3, <1>4, <1>5 DEF IInv

\* A process that is gone leaves the types as they are.
LEMMA GoneTyped ==
    ASSUME TypeOK, NEW p \in alive, Gone(p)
    PROVE  /\ up' \subseteq alive' /\ doomed' \subseteq alive' /\ alive' \subseteq Process
           /\ parent' \in [Process -> Process \cup {Top}] /\ alive' = alive \ {p}
  BY DEF TypeOK, Gone

\* A launcher exits and leaves its receipt.
LEMMA Exits ==
    ASSUME IInv, NEW l \in Launchers, at[l] # "no", Exit(l, at),
           UNCHANGED <<how, foreign, receipt, hookVars>>
    PROVE  IInv'
<1>1. TypeOK /\ l \in alive /\ Gone(l)
  BY DEF IInv, Living, Exit
<1>2. Left(l) /\ at' \in [Launchers -> Deaf \cup Busy \cup {"no", "stop"}]
  BY <1>1 DEF Left, Exit, TypeOK
<1>3. phase' \in [Launchers -> {"leaders", "all", "kill"}]
  BY <1>1 DEF Exit, TypeOK
<1>4. TypeOK'
  BY <1>1, <1>2, <1>3, GoneTyped DEF TypeOK
<1>5. Named'
  BY <1>1, GoneTyped, NamedOn DEF IInv
<1> QED
  BY <1>1, <1>2, <1>4, <1>5, Leaves

\* Any process may end.
LEMMA DieKeeps ==
    ASSUME IInv, NEW p \in Process, Die(p)
    PROVE  IInv'
<1>1. TypeOK /\ p \in alive /\ Gone(p)
  BY DEF IInv, Die, Exit
<1>2. Left(p) /\ at' \in [Launchers -> Deaf \cup Busy \cup {"no", "stop"}]
  BY <1>1 DEF Left, Die, Exit, TypeOK
<1>3. phase' \in [Launchers -> {"leaders", "all", "kill"}]
  BY <1>1 DEF Die, Exit, TypeOK
<1>4. UNCHANGED <<how, foreign, receipt, hookVars>>
  BY DEF Die
<1>5. TypeOK'
  BY <1>1, <1>2, <1>3, <1>4, GoneTyped DEF TypeOK
<1>6. Named'
  BY <1>1, <1>4, GoneTyped, NamedOn DEF IInv
<1> QED
  BY <1>1, <1>2, <1>4, <1>5, <1>6, Leaves

-----------------------------------------------------------------------------
(* Launchers that go from one thing to the next.                           *)

\* Everything that a launcher does once it holds the lock.
Doing == (Deaf \ {"lock"}) \cup Busy \cup {"stop"}

\* A launcher goes on to something else, its receipt as it was.
LEMMA Moves ==
    ASSUME IInv, NEW l \in Launchers, Past(l), NEW s \in Doing, Move(l, s),
           UNCHANGED <<how, procVars, foreign, receipt>>, Own(l),
           Held(l)', l[1] = "full" => (Fresh(l)' => Fresh(l))
    PROVE  IInv'
<1>1. TypeOK'
  BY DEF IInv, TypeOK, Move, procVars, Doing
<1>2. Others(l) /\ at'[l] = s /\ s # "no"
  BY DEF Others, Move, IInv, TypeOK, Doing, Deaf, Busy
<1>3. Named'
  BY NamedOn DEF IInv, procVars
<1>4. l[1] = "full" => Alone(l[2])'
  BY LauncherPairs DEF Alone, IInv, procVars
<1> QED
  BY <1>1, <1>2, <1>3, <1>4, Acts DEF procVars

\* A launcher begins to stop processes, and tells an application launcher to.
LEMMA Begins ==
    ASSUME IInv, NEW l \in Launchers, Past(l), NEW s \in {"clear", "stop"}, NEW r,
           Begin(l, s, r), UNCHANGED <<how, foreign, receipt>>, Own(l),
           Held(l)', l[1] = "full" => (Fresh(l)' => Fresh(l))
    PROVE  IInv'
<1> DEFINE a == [at EXCEPT ![l] = s]
<1>1. /\ l[1] \in {"full", "app"} /\ TypeOK /\ UNCHANGED <<alive, parent, up>>
      /\ a \in [Launchers -> Deaf \cup Busy \cup {"no", "stop"}] /\ s \notin Busy
  BY LauncherPairs DEF IInv, TypeOK, Begin, Deaf, Busy
<1>2. /\ at' \in [Launchers -> Deaf \cup Busy \cup {"no", "stop"}]
      /\ at'[l] = s /\ Others(l)
  <2>1. CASE l[1] = "full"
    <3>1. at' = Told(Leaders(r) \cap alive, a)
      BY <2>1 DEF Begin, Term
    <3> QED
      BY <1>1, <2>1, <3>1 DEF Told, Others, TypeOK
  <2>2. CASE l[1] # "full"
    <3>1. at' = a
      BY <2>2 DEF Begin
    <3> QED
      BY <1>1, <3>1 DEF Others, TypeOK
  <2> QED
    BY <2>1, <2>2
<1>3. phase' \in [Launchers -> {"leaders", "all", "kill"}]
  BY <1>1 DEF Begin, TypeOK
<1>4. doomed' \subseteq alive
  BY <1>1 DEF Begin, Term, Killed, TypeOK
<1>5. TypeOK'
  BY <1>1, <1>2, <1>3, <1>4 DEF TypeOK
<1>6. Named'
  BY <1>1, NamedOn DEF IInv
<1>7. l[1] = "full" => Alone(l[2])'
  BY <1>1, LauncherPairs DEF Alone, IInv
<1> QED
  BY <1>1, <1>2, <1>5, <1>6, <1>7, Acts

\* A launcher goes on to the next service.
LEMMA ProceedKeeps ==
    ASSUME IInv, NEW r \in Run, Proceed(r)
    PROVE  IInv'
<1> DEFINE l == <<"full", r>>
<1>1. l \in Launchers /\ l[1] = "full" /\ l[2] = r /\ at[l] = "wait" /\ Past(l) /\ Held(l)
  BY OfRun DEF Proceed, Past, IInv
<1>2. PICK s \in {"watch", "inspect", "start"} : Move(l, s)
  BY DEF Proceed
<1>3. UNCHANGED <<how, procVars, foreign, receipt, hookVars>>
  BY DEF Proceed
<1>4. at'[l] = s
  BY <1>1, <1>2 DEF Move, IInv, TypeOK
<1>5. Held(l)' /\ ~Fresh(l)'
  BY <1>1, <1>2, <1>3, <1>4 DEF Held, Names, Busy, Fresh, Deaf
<1> QED
  BY <1>1, <1>2, <1>3, <1>5, Moves DEF Own, Doing, Busy

\* All services answer.
LEMMA ServingKeeps ==
    ASSUME IInv, NEW r \in Run, Serving(r)
    PROVE  IInv'
<1> DEFINE l == <<"app", r>>
<1>1. l \in Launchers /\ l[1] = "app" /\ l[2] = r /\ at[l] = "frontend" /\ Past(l) /\ Held(l)
  BY OfRun DEF Serving, Past, IInv
<1>2. Move(l, "watch") /\ UNCHANGED <<how, procVars, foreign, receipt, hookVars>>
  BY DEF Serving
<1>3. at'[l] = "watch"
  BY <1>1, <1>2 DEF Move, IInv, TypeOK
<1>4. Held(l)'
  BY <1>1, <1>2, <1>3 DEF Held, Names, Busy
<1> QED
  BY <1>1, <1>2, <1>4, Moves DEF Own, Doing, Busy

\* A launcher looks at the webhook that is registered.
LEMMA InspectKeeps ==
    ASSUME IInv, NEW r \in Run, Inspect(r)
    PROVE  IInv'
<1> DEFINE l == <<"full", r>>
<1>1. l \in Launchers /\ l[1] = "full" /\ l[2] = r /\ at[l] = "inspect" /\ Past(l) /\ Held(l)
  BY OfRun DEF Inspect, Past, IInv
<1>2. Move(l, "set") /\ UNCHANGED <<how, procVars, foreign, receipt, hookVars>>
  BY DEF Inspect
<1>3. at'[l] = "set" /\ hook \in Replaceable(r)
  BY <1>1, <1>2 DEF Move, IInv, TypeOK, Inspect, MayRegister
<1>4. Held(l)' /\ ~Fresh(l)'
  BY <1>1, <1>2, <1>3 DEF Held, Names, Busy, Fresh, Deaf, Replaceable, hookVars
<1> QED
  BY <1>1, <1>2, <1>4, Moves DEF Own, Doing, Busy

\* A launcher looks again at what it registered.
LEMMA VerifyKeeps ==
    ASSUME IInv, NEW r \in Run, Verify(r)
    PROVE  IInv'
<1> DEFINE l == <<"full", r>>
<1>1. l \in Launchers /\ l[1] = "full" /\ l[2] = r /\ at[l] = "verify" /\ Past(l) /\ Held(l)
  BY OfRun DEF Verify, Past, IInv
<1>2. Move(l, "confirm") /\ UNCHANGED <<how, procVars, foreign, receipt, hookVars>>
  BY DEF Verify
<1>3. at'[l] = "confirm"
  BY <1>1, <1>2 DEF Move, IInv, TypeOK
<1>4. Held(l)' /\ ~Fresh(l)'
  BY <1>1, <1>2, <1>3 DEF Held, Names, Busy, Fresh, Deaf
<1> QED
  BY <1>1, <1>2, <1>4, Moves DEF Own, Doing, Busy

\* The webhook is the launcher's.
LEMMA RegisteredKeeps ==
    ASSUME IInv, NEW r \in Run, Registered(r)
    PROVE  IInv'
<1> DEFINE l == <<"full", r>>
<1>1. l \in Launchers /\ l[1] = "full" /\ l[2] = r /\ at[l] = "confirm" /\ Past(l) /\ Held(l)
  BY OfRun DEF Registered, Past, IInv
<1>2. Move(l, "watch") /\ UNCHANGED <<how, procVars, foreign, receipt>>
  BY DEF Registered
<1>3. at'[l] = "watch"
  BY <1>1, <1>2 DEF Move, IInv, TypeOK
<1>4. Held(l)' /\ ~Fresh(l)'
  BY <1>1, <1>2, <1>3 DEF Held, Names, Busy, Fresh, Deaf
<1> QED
  BY <1>1, <1>2, <1>4, Moves DEF Own, Doing, Busy

\* The answer of Telegram arrives, or is lost and the launcher stops.
LEMMA SetKeeps ==
    ASSUME IInv, NEW r \in Run, Set(r)
    PROVE  IInv'
<1> DEFINE l == <<"full", r>>
<1>1. l \in Launchers /\ l[1] = "full" /\ l[2] = r /\ at[l] = "set" /\ Past(l) /\ Held(l)
  BY OfRun DEF Set, Past, IInv
<1>2. UNCHANGED <<how, foreign, receipt>> /\ Own(l)
  BY <1>1 DEF Set, Own
<1>3. CASE Move(l, "verify") /\ UNCHANGED procVars
  <2>1. at'[l] = "verify"
    BY <1>1, <1>3 DEF Move, IInv, TypeOK
  <2>2. Held(l)' /\ ~Fresh(l)'
    BY <1>1, <1>2, <2>1 DEF Held, Names, Busy, Fresh, Deaf
  <2> QED
    BY <1>1, <1>2, <1>3, <2>2, Moves DEF Doing, Busy
<1>4. CASE Begin(l, "stop", r)
  <2>1. at'[l] = "stop"
    BY <1>1, <1>4 DEF Begin, Term, Told, IInv, TypeOK
  <2>2. Held(l)' /\ ~Fresh(l)'
    BY <1>1, <1>2, <2>1 DEF Held, Names, Busy, Fresh, Deaf
  <2> QED
    BY <1>1, <1>2, <1>4, <2>2, Begins
<1> QED
  BY <1>3, <1>4 DEF Set

\* A signal, a failed start, a timeout, a refusal, or a process that ended.
LEMMA CeaseKeeps ==
    ASSUME IInv, NEW l \in Launchers, Cease(l)
    PROVE  IInv'
<1>1. l[1] \in {"full", "app"} /\ at[l] \in Busy /\ Past(l) /\ Held(l)
  BY LauncherPairs DEF Cease, Past, IInv, Busy
<1>2. Begin(l, "stop", l[2]) /\ UNCHANGED <<how, foreign, receipt, hookVars>>
  BY DEF Cease
<1>3. at'[l] = "stop"
  <2>1. CASE l[1] = "full"
    BY <1>2, <2>1 DEF Begin, Term, Told, IInv, TypeOK
  <2>2. CASE l[1] # "full"
    BY <1>2, <2>2 DEF Begin, IInv, TypeOK
  <2> QED
    BY <2>1, <2>2
<1>4. Held(l)' /\ ~Fresh(l)'
  BY <1>1, <1>2, <1>3 DEF Held, Names, Busy, Fresh, Deaf
<1> QED
  BY <1>1, <1>2, <1>4, Begins DEF Own

-----------------------------------------------------------------------------
(* Receipts that are dropped, written and extended.                        *)

\* The processes that a receipt of a kind must name.
Needs(kind, p) == IF kind = "full" THEN how[p[2]] # "app" /\ p[1] \in Service \cup {"app"}
                  ELSE p[1] \in {"backend", "frontend"}

\* While it must name a process, it does.
LEMMA NeedsName ==
    ASSUME IInv, NEW p \in alive, NEW kind \in {"full", "app"}, Needs(kind, p)
    PROVE  Names(kind, p[2])
  BY DEF IInv, Named, NamedBy, Needs

\* A receipt that must name nobody may say anything.
LEMMA NamedBeside ==
    ASSUME IInv, NEW kind \in {"full", "app"}, alive' \subseteq alive, UNCHANGED how,
           \A other \in {"full", "app"} : other # kind => receipt'[other] = receipt[other],
           \A p \in alive' : ~Needs(kind, p)
    PROVE  Named'
<1> SUFFICES ASSUME NEW p \in alive' PROVE NamedBy(p)'
  BY DEF Named
<1>1. p \in alive /\ NamedBy(p) /\ ~Needs(kind, p) /\ how' = how
  BY DEF IInv, Named
<1>2. CASE kind = "full"
  BY <1>1, <1>2 DEF NamedBy, Needs, Names
<1>3. CASE kind = "app"
  BY <1>1, <1>3 DEF NamedBy, Needs, Names
<1> QED
  BY <1>2, <1>3

\* Nobody needs a receipt that names no run.
LEMMA Unneeded ==
    ASSUME IInv, NEW kind \in {"full", "app"}, \A r : ~Names(kind, r)
    PROVE  \A p \in alive : ~Needs(kind, p)
  BY NeedsName

\* Recovery finds nothing, a live launcher, or a run to clear up.
LEMMA RecoverKeeps ==
    ASSUME IInv, NEW l \in Launchers, Recover(l)
    PROVE  IInv'
<1>1. /\ l[1] \in {"full", "app"} /\ at[l] = "recover" /\ Past(l) /\ at[l] # "no"
      /\ TypeOK /\ l = <<l[1], l[2]>> /\ l[2] \in Run
  BY LauncherPairs DEF Recover, Past, IInv
<1>2. UNCHANGED <<how, foreign, hookVars>>
  BY DEF Recover
<1>3. CASE Nothing(l)
  <2>1. /\ Move(l, "check") /\ receipt' = [receipt EXCEPT ![l[1]] = NoReceipt]
        /\ UNCHANGED <<alive, parent, doomed, up>>
    BY <1>3 DEF Recover, procVars
  <2>2. /\ at' \in [Launchers -> Deaf \cup Busy \cup {"no", "stop"}] /\ at'[l] = "check"
        /\ Others(l) /\ Own(l) /\ receipt'[l[1]] = NoReceipt
    BY <1>1, <1>2, <2>1 DEF Move, TypeOK, Deaf, Others, Own
  <2>3. TypeOK'
    BY <1>1, <1>2, <2>1, <2>2 DEF TypeOK, Move
  <2>4. Held(l)'
    BY <2>2 DEF Held, Busy
  <2>5. \A p \in alive' : ~Needs(l[1], p)
    BY <1>1, <1>3, <2>1, Unneeded DEF Nothing, Names
  <2>6. Named'
    BY <1>1, <1>2, <2>1, <2>2, <2>5, NamedBeside DEF Own
  <2>7. l[1] = "full" => Alone(l[2])'
    BY <1>1, <2>1 DEF IInv, Alone, Fresh, Deaf
  <2> QED
    BY <1>1, <1>2, <2>1, <2>2, <2>3, <2>4, <2>6, <2>7, Acts
<1>4. CASE ~Nothing(l)
  <2>1. UNCHANGED receipt /\ receipt[l[1]] # NoReceipt /\ receipt[l[1]].current
    BY <1>4 DEF Recover, Nothing
  <2>2. CASE Exit(l, at)
    BY <1>1, <1>2, <2>1, <2>2, Exits
  <2>3. CASE Begin(l, "clear", receipt[l[1]].run)
    <3>1. at'[l] = "clear"
      <4>1. CASE l[1] = "full"
        BY <1>1, <2>3, <4>1 DEF Begin, Term, Told, TypeOK
      <4>2. CASE l[1] # "full"
        BY <1>1, <2>3, <4>2 DEF Begin, TypeOK
      <4> QED
        BY <4>1, <4>2
    <3>2. Held(l)' /\ Fresh(l)
      BY <1>1, <2>1, <3>1 DEF Held, Busy, Fresh, Deaf
    <3> QED
      BY <1>1, <1>2, <2>1, <2>3, <3>2, Begins DEF Own
  <2> QED
    BY <1>4, <2>2, <2>3 DEF Recover
<1> QED
  BY <1>3, <1>4

\* The receipt of a new run, which has no leaders yet.
Blank(r) == [run |-> r, current |-> TRUE, leaders |-> {}]

\* A new receipt is one of the present boot, and of its run.
LEMMA BlankReceipt ==
    ASSUME NEW r \in Run
    PROVE  /\ Blank(r) \in Receipt /\ Blank(r) # NoReceipt
           /\ Blank(r).run = r /\ Blank(r).current
<1>1. Blank(r) \in Receipt
  BY DEF Blank, Receipt
<1> QED
  BY <1>1, LauncherAssumption DEF Blank

\* The ports are free and the receipt of the new run is written, or it exits.
LEMMA CheckKeeps ==
    ASSUME IInv, NEW l \in Launchers, Check(l)
    PROVE  IInv'
<1>1. /\ l[1] \in {"full", "app"} /\ at[l] = "check" /\ Past(l) /\ at[l] # "no"
      /\ TypeOK /\ l = <<l[1], l[2]>> /\ l[2] \in Run /\ receipt[l[1]] = NoReceipt
  BY LauncherPairs DEF Check, Past, IInv, Held
<1>2. UNCHANGED <<how, foreign, hookVars>>
  BY DEF Check
<1>3. CASE Free(l[2])
  <2>1. /\ Move(l, "start") /\ receipt' = [receipt EXCEPT ![l[1]] = Blank(l[2])]
        /\ UNCHANGED <<alive, parent, doomed, up>>
    BY <1>3 DEF Check, procVars, Blank
  <2>2. /\ at' \in [Launchers -> Deaf \cup Busy \cup {"no", "stop"}] /\ at'[l] = "start"
        /\ Others(l) /\ Own(l) /\ receipt'[l[1]] = Blank(l[2])
    BY <1>1, <1>2, <2>1 DEF Move, TypeOK, Busy, Others, Own
  <2>3. receipt' \in [{"full", "app"} -> Receipt \cup {NoReceipt}]
    BY <1>1, <2>1, BlankReceipt DEF TypeOK
  <2>4. TypeOK'
    BY <1>1, <1>2, <2>1, <2>2, <2>3 DEF TypeOK, Move
  <2>5. Held(l)'
    <3>1. Names(l[1], l[2])'
      BY <1>1, <2>2, BlankReceipt DEF Names
    <3> QED
      BY <2>2, <3>1 DEF Held
  <2>6. \A p \in alive' : ~Needs(l[1], p)
    BY <1>1, <2>1, Unneeded DEF Names
  <2>7. Named'
    BY <1>1, <1>2, <2>1, <2>2, <2>6, NamedBeside DEF Own
  <2>8. l[1] = "full" => Alone(l[2])'
    BY <1>1, <2>1 DEF IInv, Alone, Fresh, Deaf
  <2> QED
    BY <1>1, <1>2, <2>1, <2>2, <2>4, <2>5, <2>7, <2>8, Acts
<1>4. CASE ~Free(l[2])
  <2>1. Exit(l, at) /\ UNCHANGED receipt
    BY <1>4 DEF Check
  <2> QED
    BY <1>1, <1>2, <2>1, Exits
<1> QED
  BY <1>3, <1>4

\* The next leader is one.
LEMMA NextIsLeader ==
    ASSUME NEW r
    PROVE  NextLeader(r) \in Leader
  BY DEF NextLeader, Leader

\* A process that was started is added to the receipt.
LEMMA RecordKeeps ==
    ASSUME IInv, NEW r \in Run, Record(r)
    PROVE  IInv'
<1> DEFINE l == <<"full", r>>
           old == receipt["full"]
           new == [old EXCEPT !.leaders = @ \cup {NextLeader(r)}]
<1>1. l \in Launchers /\ l[1] = "full" /\ l[2] = r /\ at[l] = "started" /\ Past(l) /\ Held(l)
  BY OfRun DEF Record, Past, IInv
<1>2. /\ UNCHANGED <<how, alive, parent, doomed, up, foreign, hookVars>>
      /\ Move(l, "wait") /\ receipt' = [receipt EXCEPT !["full"] = new]
  BY DEF Record, procVars
<1>3. TypeOK /\ old \in Receipt /\ Names("full", r)
  BY <1>1 DEF IInv, TypeOK, Held, Names, Busy
<1>4. /\ new.run = old.run /\ new.current = old.current
      /\ new.leaders = old.leaders \cup {NextLeader(r)}
  BY <1>3 DEF Receipt
<1>5. new \in Receipt
  <2>1. old.leaders \cup {NextLeader(r)} \in SUBSET Leader
    BY <1>3, NextIsLeader DEF Receipt
  <2> QED
    BY <1>3, <2>1 DEF Receipt
<1>6. new # NoReceipt
  BY <1>5, LauncherAssumption
<1> HIDE DEF new
<1>7. /\ at' \in [Launchers -> Deaf \cup Busy \cup {"no", "stop"}] /\ at'[l] = "wait"
      /\ Others(l) /\ Own(l) /\ receipt'["full"] = new
  BY <1>1, <1>2, <1>3 DEF Move, TypeOK, Busy, Others, Own
<1>8. receipt' \in [{"full", "app"} -> Receipt \cup {NoReceipt}]
  BY <1>2, <1>3, <1>5 DEF TypeOK
<1>9. TypeOK'
  BY <1>2, <1>3, <1>7, <1>8 DEF TypeOK, Move
<1>10. \A kind \in {"full", "app"}, q \in Run : Names(kind, q)' <=> Names(kind, q)
  BY <1>3, <1>4, <1>6, <1>7, <1>1 DEF Names, Own
<1>11. Held(l)'
  BY <1>1, <1>3, <1>4, <1>7, <1>10 DEF Held
<1>12. Named'
  <2> SUFFICES ASSUME NEW p \in alive' PROVE NamedBy(p)'
    BY DEF Named
  <2>1. NamedBy(p) /\ p[2] \in Run
    BY <1>2, <1>3, Pairs DEF IInv, Named, TypeOK
  <2> QED
    BY <1>2, <1>10, <2>1 DEF NamedBy
<1>13. Alone(r)'
  BY <1>7 DEF Alone, Fresh, Deaf
<1> QED
  BY <1>1, <1>2, <1>7, <1>9, <1>11, <1>12, <1>13, Acts

-----------------------------------------------------------------------------
(* Launchers that stop a run.                                              *)

\* What a launcher may stop lives.
LEMMA OwnedLives ==
    ASSUME NEW l
    PROVE  Owned(l) \subseteq alive
  BY Scans DEF Owned

\* While a launcher stops a run, whatever needs the receipt of its kind is found.
LEMMA OwnedNeeds ==
    ASSUME IInv, NEW l \in Launchers, Stopping(l), NEW p \in alive, Needs(l[1], p)
    PROVE  p \in Owned(l) /\ p[2] = Target(l)
<1>1. l[1] \in {"full", "app"} /\ Names(l[1], p[2]) /\ Held(l)
  BY LauncherPairs, NeedsName DEF IInv
<1>2. p[2] = Target(l)
  <2>1. CASE at[l] = "stop"
    <3>1. Names(l[1], l[2])
      BY <1>1, <2>1 DEF Held
    <3> QED
      BY <1>1, <2>1, <3>1, OneName DEF Target
  <2>2. CASE at[l] = "clear"
    BY <1>1, <2>2 DEF Target, Names
  <2> QED
    BY <2>1, <2>2 DEF Stopping
<1>3. p \in Marked(l[1], Target(l))
  BY <1>1, <1>2 DEF Marked, Needs
<1> QED
  BY <1>2, <1>3, Scans DEF Owned

\* The grace period of the leaders is over: all that is found is told to end.
LEMMA GraceKeeps ==
    ASSUME IInv, NEW l \in Launchers, Grace(l)
    PROVE  IInv'
<1>1. /\ Past(l) /\ at[l] \in {"stop", "clear"} /\ at[l] \notin Busy \cup {"no"}
      /\ TypeOK /\ l = <<l[1], l[2]>> /\ l[2] \in Run /\ Held(l)
      /\ (l[1] = "full" => Alone(l[2]))
  BY LauncherPairs DEF Grace, Stopping, Past, Busy, IInv
<1>2. UNCHANGED <<how, alive, parent, up, foreign, receipt, hookVars>>
  BY DEF Grace
<1>3. at' = Told(Owned(l), at)
  BY DEF Grace, Term
<1>4. /\ at' \in [Launchers -> Deaf \cup Busy \cup {"no", "stop"}]
      /\ at'[l] = at[l] /\ Others(l)
  BY <1>1, <1>3 DEF Told, Others, TypeOK
<1>5. doomed' \subseteq alive
  BY <1>1, OwnedLives DEF Grace, Term, Killed, TypeOK
<1>6. phase' \in [Launchers -> {"leaders", "all", "kill"}]
  BY <1>1 DEF Grace, TypeOK
<1>7. TypeOK'
  BY <1>1, <1>2, <1>4, <1>5, <1>6 DEF TypeOK
<1>8. Named'
  BY <1>2, NamedOn DEF IInv
<1>9. Held(l)'
  BY <1>1, <1>2, <1>4 DEF Held, Names, Busy
<1>10. l[1] = "full" => Alone(l[2])'
  BY <1>1, <1>2, <1>4 DEF Alone, Fresh
<1> QED
  BY <1>1, <1>2, <1>4, <1>7, <1>8, <1>9, <1>10, Acts DEF Own

\* What is found afterwards is killed.
LEMMA KillKeeps ==
    ASSUME IInv, NEW l \in Launchers, Kill(l)
    PROVE  IInv'
<1>1. UNCHANGED <<how, alive, parent, up, foreign, at, receipt, hookVars>>
  BY DEF Kill
<1>2. doomed' \subseteq alive /\ phase' \in [Launchers -> {"leaders", "all", "kill"}]
  BY OwnedLives DEF Kill, IInv, TypeOK
<1>3. TypeOK'
  BY <1>1, <1>2 DEF IInv, TypeOK
<1> QED
  BY <1>1, <1>3, Idle

\* What was killed does not end in time: the launcher leaves its receipt.
LEMMA AbandonKeeps ==
    ASSUME IInv, NEW l \in Launchers, Abandon(l)
    PROVE  IInv'
  BY Exits DEF Abandon, Stopping

\* Nothing is left of the run: the receipt is dropped.
LEMMA FinishKeeps ==
    ASSUME IInv, NEW l \in Launchers, Finish(l)
    PROVE  IInv'
<1>1. /\ l[1] \in {"full", "app"} /\ l = <<l[1], l[2]>> /\ l[2] \in Run
      /\ Past(l) /\ at[l] # "no" /\ Stopping(l) /\ TypeOK /\ l \in alive
  BY LauncherPairs DEF Finish, Stopping, Past, IInv, Living
<1>2. UNCHANGED <<how, foreign, hookVars>>
  BY DEF Finish
<1>3. \A p \in alive : ~Needs(l[1], p)
  BY OwnedNeeds DEF Finish, Empty
<1>4. /\ receipt' \in [{"full", "app"} -> Receipt \cup {NoReceipt}] /\ Own(l)
      /\ receipt'[l[1]] = NoReceipt \/ UNCHANGED receipt
  BY <1>1, <1>2 DEF Finish, TypeOK, Own
<1>5. alive' \subseteq alive => Named'
  BY <1>1, <1>2, <1>3, <1>4, NamedBeside DEF Own
<1>6. CASE at[l] = "clear" /\ Free(Target(l))
  <2>1. /\ at' = [at EXCEPT ![l] = "check"] /\ phase' = [phase EXCEPT ![l] = "all"]
        /\ UNCHANGED <<alive, parent, doomed, up>>
        /\ receipt' = [receipt EXCEPT ![l[1]] = NoReceipt]
    BY <1>6 DEF Finish, procVars
  <2>2. /\ at' \in [Launchers -> Deaf \cup Busy \cup {"no", "stop"}] /\ at'[l] = "check"
        /\ Others(l) /\ receipt'[l[1]] = NoReceipt
    BY <1>1, <2>1 DEF TypeOK, Deaf, Others
  <2>3. TypeOK'
    BY <1>1, <1>2, <1>4, <2>1, <2>2 DEF TypeOK
  <2>4. Held(l)'
    BY <2>2 DEF Held, Busy
  <2>5. l[1] = "full" => Alone(l[2])'
    BY <1>1, <1>6, <2>1 DEF IInv, Alone, Fresh, Deaf
  <2> QED
    BY <1>1, <1>2, <1>4, <1>5, <2>1, <2>2, <2>3, <2>4, <2>5, Acts
<1>7. CASE ~(at[l] = "clear" /\ Free(Target(l)))
  <2>1. Exit(l, at)
    BY <1>7 DEF Finish
  <2>2. Gone(l) /\ Left(l) /\ at' \in [Launchers -> Deaf \cup Busy \cup {"no", "stop"}]
    BY <1>1, <2>1 DEF Exit, Left, TypeOK
  <2>3. phase' \in [Launchers -> {"leaders", "all", "kill"}]
    BY <1>1, <2>1 DEF Exit, TypeOK
  <2>4. TypeOK'
    BY <1>1, <1>2, <1>4, <2>2, <2>3, GoneTyped DEF TypeOK
  <2>5. Named'
    BY <1>1, <1>5, <2>2, GoneTyped
  <2> QED
    BY <1>1, <1>2, <1>4, <2>2, <2>4, <2>5, Leaves
<1> QED
  BY <1>6, <1>7

-----------------------------------------------------------------------------
(* Ports and the hook of the server.                                       *)

\* A service takes its port.
LEMMA BindKeeps ==
    ASSUME IInv, NEW p \in Process, Bind(p)
    PROVE  IInv'
<1>1. TypeOK'
  BY DEF IInv, TypeOK, Bind
<1> QED
  BY <1>1, Idle DEF Bind

\* A process of somebody else takes a port, or leaves it.
LEMMA StrangerKeeps ==
    ASSUME IInv, NEW port \in Contested, Stranger(port)
    PROVE  IInv'
<1>1. TypeOK'
  BY LauncherAssumption DEF IInv, TypeOK, Stranger, procVars
<1> QED
  BY <1>1, Idle DEF Stranger, procVars

\* The webhook is changed from elsewhere.
LEMMA ElsewhereKeeps ==
    ASSUME IInv, Elsewhere
    PROVE  IInv'
<1>1. TypeOK'
  BY DEF IInv, TypeOK, Elsewhere, procVars
<1> QED
  BY <1>1, Idle DEF Elsewhere, procVars

\* Nothing happens.
LEMMA StutterKeeps ==
    ASSUME IInv, UNCHANGED vars
    PROVE  IInv'
<1>1. TypeOK'
  BY DEF IInv, TypeOK, vars, procVars
<1> QED
  BY <1>1, Idle DEF vars, procVars

-----------------------------------------------------------------------------
(* Processes that start.                                                   *)

\* With the receipts as they were, a new process is named beside the others.
LEMMA NamedWith ==
    ASSUME Named, NEW p, alive' = alive \cup {p}, UNCHANGED <<how, receipt>>, NamedBy(p)
    PROVE  Named'
  BY DEF Named, NamedBy, Names

\* A process of one run starts; the launchers of its run may go on.
LEMMA Starts ==
    ASSUME IInv, TypeOK', NEW p \in Process, NEW by, Spawn(p, by), by = Top \/ by \in alive,
           UNCHANGED <<receipt, hookVars>>,
           \A m \in Launchers :
               \/ at'[m] = at[m]
               \/ m[2] = p[2] /\ m \in alive' /\ (at'[m] = "lock" \/ Past(m)) /\ Held(m)',
           Named', Family(p[2])', Alone(p[2])'
    PROVE  IInv'
<1>1. /\ alive' = alive \cup {p} /\ p = <<p[1], p[2]>>
      /\ \A q \in Process : parent'[q] = IF q = p THEN by ELSE parent[q]
  BY Pairs DEF Spawn, IInv, TypeOK
<1>2. \A m \in Launchers : Past(m)' => Past(m)
  BY DEF Past
<1>3. Living' /\ Locked'
  BY <1>1, <1>2 DEF IInv, Living, Locked
<1>4. ASSUME NEW m \in Launchers PROVE Held(m)'
  <2>1. CASE at'[m] = at[m]
    BY <2>1 DEF IInv, Held, Names, hookVars, Replaceable
  <2>2. CASE at'[m] # at[m]
    BY <2>2
  <2> QED
    BY <2>1, <2>2
<1>5. Parents'
  BY <1>1 DEF IInv, Parents
<1>6. ASSUME NEW r \in Run PROVE Family(r)'
  <2>1. CASE r = p[2]
    BY <2>1
  <2>2. CASE r # p[2]
    <3>1. \A role \in Role : <<role, r>> \in Process /\ <<role, r>> # p
      <4>1. \A role : <<role, r>> # p
        BY <2>2
      <4> QED
        BY <4>1, OfRun
    <3>2. \A role \in Role : parent'[<<role, r>>] = parent[<<role, r>>]
      BY <1>1, <3>1
    <3>3. \A role \in Role : <<role, r>> \in alive' <=> <<role, r>> \in alive
      BY <1>1, <3>1
    <3>4. {"full", "app", "worker", "frontend", "backend", "proxy", "tunnel"} \subseteq Role
      BY DEF Role, Service
    <3>5. Family(r)
      BY DEF IInv
    <3> QED
      BY <3>2, <3>3, <3>4, <3>5 DEF Family
  <2> QED
    BY <2>1, <2>2
<1>7. ASSUME NEW r \in Run PROVE Alone(r)'
  <2>1. CASE r = p[2]
    BY <2>1
  <2>2. CASE r # p[2]
    <3>1. <<"full", r>> \in Launchers /\ at'[<<"full", r>>] = at[<<"full", r>>]
      BY <2>2, OfRun
    <3> QED
      BY <1>1, <2>2, <3>1 DEF IInv, Alone, Fresh
  <2> QED
    BY <2>1, <2>2
<1> QED
  BY <1>3, <1>4, <1>5, <1>6, <1>7 DEF IInv

\* A run that was not started yet has no process.
LEMMA NotYet ==
    ASSUME IInv, NEW r \in Run, how[r] = "none"
    PROVE  /\ \A p \in alive : p[2] # r
           /\ \A kind \in {"full", "app"} : at[<<kind, r>>] = "no"
<1>1. \A p \in alive : p[2] # r
  BY DEF IInv, Named, NamedBy
<1>2. \A kind \in {"full", "app"} : <<kind, r>> \in Launchers /\ <<kind, r>>[2] = r
  BY OfRun
<1> QED
  BY <1>1, <1>2 DEF IInv, Living

\* A launcher is started by hand.
LEMMA LaunchKeeps ==
    ASSUME IInv, NEW r \in Run, NEW kind \in Kinds[r], Launch(r, kind)
    PROVE  IInv'
<1> DEFINE l == <<IF kind = "app" THEN "app" ELSE "full", r>>
           full == <<"full", r>>
<1>1. /\ l \in Launchers /\ l \in Process /\ l[2] = r /\ how[r] = "none"
      /\ l[1] = IF kind = "app" THEN "app" ELSE "full"
      /\ kind \in {"app", "full", "telegram"} /\ TypeOK
      /\ full \in Launchers /\ full[2] = r
  BY OfRun, LauncherPairs, LauncherAssumption DEF Launch, IInv
<1>2. /\ \A p \in alive : p[2] # r
      /\ at[full] = "no" /\ at[l] = "no"
  BY <1>1, NotYet
<1>3. /\ how' = [how EXCEPT ![r] = kind] /\ Spawn(l, Top) /\ Move(l, "lock")
      /\ UNCHANGED <<foreign, receipt, hookVars>>
  BY DEF Launch
<1>4. /\ alive' = alive \cup {l} /\ how'[r] = kind
      /\ \A q \in Run : q # r => how'[q] = how[q]
      /\ \A q \in Process : parent'[q] = IF q = l THEN Top ELSE parent[q]
      /\ \A m \in Launchers : at'[m] = IF m = l THEN "lock" ELSE at[m]
  BY <1>1, <1>3 DEF Spawn, Move, TypeOK
<1>5. TypeOK'
  BY <1>1, <1>3 DEF TypeOK, Spawn, Move, Deaf
<1>6. Held(l)'
  BY <1>1, <1>4 DEF Held, Busy
<1>7. Named'
  <2> SUFFICES ASSUME NEW p \in alive' PROVE NamedBy(p)'
    BY DEF Named
  <2>1. CASE p = l
    BY <1>1, <1>4, <2>1 DEF NamedBy, Service
  <2>2. CASE p # l
    <3>1. NamedBy(p) /\ p[2] \in Run /\ p[2] # r
      BY <1>1, <1>2, <1>4, <2>2, Pairs DEF IInv, Named, TypeOK
    <3> QED
      BY <1>3, <1>4, <3>1 DEF NamedBy, Names
  <2> QED
    BY <2>1, <2>2
<1>8. Family(r)'
  <2>1. \A role \in Role : /\ <<role, r>> \notin alive
                           /\ parent'[<<role, r>>] \in {parent[<<role, r>>], Top}
    BY <1>2, <1>4, OfRun
  <2>2. {"full", "app", "worker", "frontend", "backend", "proxy", "tunnel"} \subseteq Role
    BY DEF Role, Service
  <2>3. Family(r)
    BY DEF IInv
  <2>4. \A role \in {"worker", "frontend"} : <<role, r>> \notin alive'
    BY <1>1, <1>4, <2>1, <2>2
  <2>5. ~(<<"app", r>> \in alive' /\ full \in alive')
    BY <1>4, <2>1, <2>2
  <2> QED
    BY <2>1, <2>2, <2>3, <2>4, <2>5 DEF Family
<1>9. Alone(r)'
  <2>1. CASE l = full
    BY <1>2, <1>4, <2>1 DEF Alone
  <2>2. CASE l # full
    BY <1>1, <1>2, <1>4, <2>2 DEF Alone, Fresh, Deaf
  <2> QED
    BY <2>1, <2>2
<1> QED
  BY <1>1, <1>3, <1>4, <1>5, <1>6, <1>7, <1>8, <1>9, Starts

\* The full launcher starts the application launcher, the proxy or the tunnel.
LEMMA StartLeaderKeeps ==
    ASSUME IInv, NEW r \in Run, StartLeader(r)
    PROVE  IInv'
<1> DEFINE l == <<"full", r>>  app == <<"app", r>>
<1> PICK p : p = <<NextLeader(r), r>>
  OBVIOUS
<1>1. /\ l \in Launchers /\ app \in Launchers /\ l[1] = "full" /\ l[2] = r
      /\ at[l] = "start" /\ Past(l) /\ Held(l) /\ TypeOK /\ l \in alive /\ l # Top
      /\ l # app /\ app[1] = "app" /\ app[2] = r
  BY OfRun, LauncherPairs, Pairs DEF StartLeader, Past, IInv, Living
<1>2. p \in Process /\ p[1] \in Leader /\ p[2] = r
  BY NextIsLeader, OfRun DEF Leader, Role, Service
<1>3. /\ UNCHANGED <<how, phase, foreign, receipt, hookVars>> /\ Spawn(p, l)
      /\ at' = [at EXCEPT ![l] = "started", ![app] = IF p[1] = "app" THEN "lock" ELSE @]
  BY DEF StartLeader
<1>4. /\ alive' = alive \cup {p}
      /\ \A q \in Process : parent'[q] = IF q = p THEN l ELSE parent[q]
      /\ \A m \in Launchers : at'[m] = IF m = l THEN "started"
                                       ELSE IF m = p THEN "lock" ELSE at[m]
  BY <1>1, <1>2, <1>3 DEF Spawn, TypeOK, Leader, Launchers
<1>5. TypeOK'
  <2>1. at' \in [Launchers -> Deaf \cup Busy \cup {"no", "stop"}]
    BY <1>1, <1>3 DEF TypeOK, Deaf, Busy
  <2> QED
    BY <1>1, <1>2, <1>3, <2>1 DEF TypeOK, Spawn
<1>6. Names("full", r) /\ NamedBy(l)
  BY <1>1 DEF Held, Busy, IInv, Named
<1>7. Held(l)'
  <2>1. at'[l] = "started" /\ receipt' = receipt
    BY <1>1, <1>3, <1>4
  <2> QED
    BY <1>1, <1>6, <2>1 DEF Held, Names
<1>8. p \in Launchers => Held(p)'
  <2>1. p \in Launchers => at'[p] = "lock"
    BY <1>1, <1>2, <1>4 DEF Leader
  <2> QED
    BY <2>1 DEF Held, Busy
<1>9. Named'
  <2>1. NamedBy(p)
    BY <1>1, <1>2, <1>6 DEF NamedBy, Leader, Service
  <2> QED
    BY <1>3, <1>4, <2>1, NamedWith DEF IInv
<1>10. Family(r)'
  <2>1. /\ {"full", "app", "worker", "frontend", "backend", "proxy", "tunnel"} \subseteq Role
        /\ \A role \in Role : <<role, r>> \in Process /\ <<role, r>> # Top
        /\ Family(r) /\ Alone(r)
    BY OfRun DEF Role, Service, IInv
  <2>2. CASE p[1] = "app"
    <3>1. Fresh(l)
      BY <1>1, <2>2 DEF Fresh, NextLeader
    <3>2. \A role \in {"frontend", "worker"} : <<role, r>> \notin alive'
      BY <1>4, <2>1, <2>2, <3>1 DEF Alone
    <3> QED
      BY <1>1, <1>4, <2>1, <2>2, <3>2 DEF Family
  <2>3. CASE p[1] \in {"proxy", "tunnel"}
    <3>1. \A role \in {"full", "app", "worker", "frontend", "backend"} :
              /\ parent'[<<role, r>>] = parent[<<role, r>>]
              /\ <<role, r>> \in alive' <=> <<role, r>> \in alive
      BY <1>4, <2>1, <2>3
    <3>2. \A role \in {"proxy", "tunnel"} : parent'[<<role, r>>] \in {parent[<<role, r>>], l}
      BY <1>4, <2>1
    <3> QED
      BY <2>1, <3>1, <3>2 DEF Family
  <2> QED
    BY <1>2, <2>2, <2>3 DEF Leader
<1>11. Alone(r)'
  BY <1>1, <1>4 DEF Alone, Fresh, Deaf
<1>12. \A m \in Launchers :
           \/ at'[m] = at[m]
           \/ m[2] = p[2] /\ m \in alive' /\ (at'[m] = "lock" \/ Past(m)) /\ Held(m)'
  BY <1>1, <1>2, <1>4, <1>7, <1>8
<1> QED
  BY <1>1, <1>2, <1>3, <1>5, <1>9, <1>10, <1>11, <1>12, Starts

\* The application launcher starts the backend or the frontend.
LEMMA StartServiceKeeps ==
    ASSUME IInv, NEW r \in Run, StartService(r)
    PROVE  IInv'
<1> DEFINE l == <<"app", r>>  full == <<"full", r>>
<1>1. /\ l \in Launchers /\ l[1] = "app" /\ l[2] = r /\ l # Top /\ l # full /\ full \in Launchers
      /\ at[l] \in {"start", "backend"} /\ Past(l) /\ Held(l) /\ TypeOK /\ l \in alive
  BY OfRun, LauncherPairs, Pairs DEF StartService, Past, IInv, Living
<1>2. PICK s \in {"backend", "frontend"} : Spawn(<<s, r>>, l) /\ Move(l, s)
  BY <1>1 DEF StartService
<1> DEFINE p == <<s, r>>
<1>3. UNCHANGED <<how, foreign, receipt, hookVars>>
  BY DEF StartService
<1>4. p \in Process /\ p[1] = s /\ p[2] = r
  BY OfRun DEF Role, Service
<1>5. /\ alive' = alive \cup {p}
      /\ \A q \in Process : parent'[q] = IF q = p THEN l ELSE parent[q]
      /\ \A m \in Launchers : at'[m] = IF m = l THEN s ELSE at[m]
  BY <1>1, <1>2, <1>4 DEF Spawn, Move, TypeOK
<1>6. TypeOK'
  BY <1>1, <1>2, <1>3, <1>4 DEF TypeOK, Spawn, Move, Busy
<1>7. Names("app", r) /\ NamedBy(l)
  BY <1>1 DEF Held, Busy, IInv, Named
<1>8. Held(l)'
  BY <1>1, <1>3, <1>5, <1>7 DEF Held, Names
<1>9. Named'
  <2>1. NamedBy(p)
    BY <1>1, <1>4, <1>7 DEF NamedBy
  <2> QED
    BY <1>3, <1>5, <2>1, NamedWith DEF IInv
<1>10. Family(r)'
  <2>1. /\ {"full", "app", "worker", "frontend", "backend", "proxy", "tunnel"} \subseteq Role
        /\ \A role \in Role : <<role, r>> \in Process /\ <<role, r>> # Top
        /\ Family(r)
    BY OfRun DEF Role, Service, IInv
  <2>2. \A role \in {"full", "app", "worker", "proxy", "tunnel"} :
            /\ parent'[<<role, r>>] = parent[<<role, r>>]
            /\ <<role, r>> \in alive' <=> <<role, r>> \in alive
    BY <1>5, <2>1
  <2>3. \A role \in {"backend", "frontend"} : parent'[<<role, r>>] = IF role = s THEN l ELSE parent[<<role, r>>]
    BY <1>5, <2>1
  <2>4. s # "frontend" => (<<"frontend", r>> \in alive' <=> <<"frontend", r>> \in alive)
    BY <1>5
  <2> QED
    BY <1>1, <2>1, <2>2, <2>3, <2>4 DEF Family
<1>11. Alone(r)'
  <2>1. Alone(r) /\ (Fresh(full)' => Fresh(full))
    BY <1>1, <1>3, <1>5 DEF IInv, Fresh
  <2> QED
    BY <1>1, <2>1 DEF Alone
<1>12. \A m \in Launchers :
           \/ at'[m] = at[m]
           \/ m[2] = p[2] /\ m \in alive' /\ (at'[m] = "lock" \/ Past(m)) /\ Held(m)'
  BY <1>1, <1>4, <1>5, <1>8
<1> QED
  BY <1>1, <1>2, <1>3, <1>4, <1>6, <1>9, <1>10, <1>11, <1>12, Starts

\* The frontend forks a worker.
LEMMA ForkKeeps ==
    ASSUME IInv, NEW r \in Run, Fork(r)
    PROVE  IInv'
<1> DEFINE by == <<"frontend", r>>  p == <<"worker", r>>  full == <<"full", r>>
<1>1. /\ by \in alive /\ by # Top /\ by[2] = r /\ by # full /\ full \in Launchers
      /\ p \in Process /\ p[1] = "worker" /\ p[2] = r
      /\ Spawn(p, by) /\ UNCHANGED <<how, foreign, at, phase, receipt, hookVars>> /\ TypeOK
  BY OfRun DEF Fork, Role, Service, IInv
<1>2. /\ alive' = alive \cup {p}
      /\ \A q \in Process : parent'[q] = IF q = p THEN by ELSE parent[q]
  BY <1>1 DEF Spawn, TypeOK
<1>3. TypeOK'
  BY <1>1 DEF TypeOK, Spawn
<1>4. Named'
  <2>1. NamedBy(by)
    BY <1>1 DEF IInv, Named
  <2>2. NamedBy(p)
    BY <1>1, <2>1 DEF NamedBy, Service
  <2> QED
    BY <1>1, <1>2, <2>2, NamedWith DEF IInv
<1>5. Family(r)'
  <2>1. /\ {"full", "app", "worker", "frontend", "backend", "proxy", "tunnel"} \subseteq Role
        /\ \A role \in Role : <<role, r>> \in Process /\ <<role, r>> # Top
        /\ Family(r)
    BY OfRun DEF Role, Service, IInv
  <2>2. \A role \in Role : role # "worker" => /\ parent'[<<role, r>>] = parent[<<role, r>>]
                                              /\ <<role, r>> \in alive' <=> <<role, r>> \in alive
    BY <1>2, <2>1
  <2>3. parent'[p] = by
    BY <1>1, <1>2
  <2> QED
    BY <1>1, <2>1, <2>2, <2>3 DEF Family
<1>6. Alone(r)'
  <2>1. Alone(r) /\ (Fresh(full)' => Fresh(full))
    BY <1>1 DEF IInv, Fresh
  <2> QED
    BY <1>1, <2>1 DEF Alone
<1> QED
  BY <1>1, <1>3, <1>4, <1>5, <1>6, Starts

-----------------------------------------------------------------------------
(* The lock of the checkout, and the restart of the machine.               *)

\* The lock is got when no live launcher of the kind is past it.
LEMMA LockKeeps ==
    ASSUME IInv, NEW l \in Launchers, Lock(l)
    PROVE  IInv'
<1>1. /\ l[1] \in {"full", "app"} /\ l = <<l[1], l[2]>> /\ l[2] \in Run
      /\ at[l] = "lock" /\ at[l] # "no" /\ TypeOK
      /\ UNCHANGED <<how, foreign, receipt, hookVars>>
  BY LauncherPairs DEF Lock, IInv
<1>2. CASE ~Flock(l)
  BY <1>1, <1>2, Exits DEF Lock
<1>3. CASE Flock(l)
  <2>1. Move(l, "recover") /\ UNCHANGED <<alive, parent, doomed, up>>
    BY <1>3 DEF Lock, procVars
  <2>2. \A m \in Launchers : at'[m] = IF m = l THEN "recover" ELSE at[m]
    BY <1>1, <2>1 DEF Move, TypeOK
  <2>3. TypeOK'
    BY <1>1, <2>1 DEF TypeOK, Move, Deaf
  <2>4. Living' /\ Parents' /\ Named'
    BY <1>1, <2>1, <2>2, NamedOn DEF IInv, Living, Parents
  <2>5. Locked'
    <3>1. ASSUME NEW m \in Launchers, m[1] = l[1], m # l PROVE ~Past(m)
      <4>1. m = <<l[1], m[2]>> /\ m[2] \in Run /\ m[2] # l[2]
        BY <1>1, <3>1, LauncherPairs
      <4>2. m \in alive => at[m] = "lock"
        BY <1>3, <4>1 DEF Flock
      <4> QED
        BY <4>2 DEF IInv, Living, Past
    <3> QED
      BY <2>2, <3>1 DEF IInv, Locked, Past
  <2>6. ASSUME NEW m \in Launchers PROVE Held(m)'
    <3>1. CASE m = l
      BY <2>2, <3>1 DEF Held, Busy
    <3>2. CASE m # l
      BY <1>1, <2>2, <3>2 DEF IInv, Held, Names, hookVars, Replaceable
    <3> QED
      BY <3>1, <3>2
  <2>7. ASSUME NEW r \in Run PROVE Family(r)' /\ Alone(r)'
    <3>1. Family(r)'
      BY <2>1 DEF IInv, Family
    <3>2. Fresh(<<"full", r>>)' => Fresh(<<"full", r>>)
      BY <1>1, <2>2, OfRun DEF Fresh, Deaf
    <3> QED
      BY <2>1, <3>1, <3>2 DEF IInv, Alone
  <2> QED
    BY <2>3, <2>4, <2>5, <2>6, <2>7 DEF IInv
<1> QED
  BY <1>2, <1>3

\* No process outlives a restart, and no receipt stays current.
LEMMA RebootKeeps ==
    ASSUME IInv, Reboot
    PROVE  IInv'
<1>1. /\ alive' = {} /\ up' = {} /\ doomed' = {} /\ parent' = [p \in Process |-> Top]
      /\ at' = [l \in Launchers |-> "no"] /\ phase' = [l \in Launchers |-> "all"]
      /\ UNCHANGED <<how, foreign, hookVars>> /\ TypeOK
  BY DEF Reboot, IInv
<1>2. receipt' \in [{"full", "app"} -> Receipt \cup {NoReceipt}]
  <2>1. \A old \in Receipt : [old EXCEPT !.current = FALSE] \in Receipt
    BY DEF Receipt
  <2> QED
    BY <1>1, <2>1 DEF Reboot, TypeOK
<1>3. TypeOK'
  BY <1>1, <1>2 DEF TypeOK
<1>4. Living' /\ Locked' /\ Named' /\ Parents'
  BY <1>1 DEF Living, Locked, Past, Named, Parents
<1>5. ASSUME NEW l \in Launchers PROVE Held(l)'
  BY <1>1 DEF Held, Busy
<1>6. ASSUME NEW r \in Run PROVE Family(r)' /\ Alone(r)'
  <2>1. \A role \in {"full", "app", "worker", "frontend", "backend", "proxy", "tunnel"} :
            parent'[<<role, r>>] = Top
    BY <1>1, OfRun DEF Role, Service
  <2> QED
    BY <1>1, <2>1 DEF Family, Alone
<1> QED
  BY <1>3, <1>4, <1>5, <1>6 DEF IInv

-----------------------------------------------------------------------------
(* The invariant.                                                          *)

\* Nothing runs at the start, and no receipt is left.
LEMMA InitInv ==
    ASSUME Init
    PROVE  IInv
<1>1. /\ alive = {} /\ up = {} /\ doomed = {} /\ foreign = {}
      /\ parent = [p \in Process |-> Top] /\ how = [r \in Run |-> "none"]
      /\ at = [l \in Launchers |-> "no"] /\ phase = [l \in Launchers |-> "all"]
      /\ receipt = [kind \in {"full", "app"} |-> NoReceipt]
  BY DEF Init
<1>2. TypeOK
  BY <1>1 DEF TypeOK
<1>3. Living /\ Locked /\ Named /\ Parents
  BY <1>1 DEF Living, Locked, Past, Named, Parents
<1>4. ASSUME NEW l \in Launchers PROVE Held(l)
  BY <1>1 DEF Held, Busy
<1>5. ASSUME NEW r \in Run PROVE Family(r) /\ Alone(r)
  <2>1. \A role \in {"full", "app", "worker", "frontend", "backend", "proxy", "tunnel"} :
            parent[<<role, r>>] = Top
    BY <1>1, OfRun DEF Role, Service
  <2> QED
    BY <1>1, <2>1 DEF Family, Alone
<1> QED
  BY <1>2, <1>3, <1>4, <1>5 DEF IInv

\* Each action keeps the invariant, wherever processes die.
LEMMA NextInv ==
    ASSUME IInv, [Next]_vars
    PROVE  IInv'
<1>1. CASE UNCHANGED vars
  BY <1>1, StutterKeeps
<1>2. ASSUME NEW r \in Run, NEW kind \in Kinds[r], Launch(r, kind) PROVE IInv'
  BY <1>2, LaunchKeeps
<1>3. ASSUME NEW l \in Launchers, Lock(l) \/ Recover(l) \/ Check(l) \/ Cease(l) \/ Halt(l)
      PROVE  IInv'
  BY <1>3, LockKeeps, RecoverKeeps, CheckKeeps, CeaseKeeps, GraceKeeps, KillKeeps,
     AbandonKeeps, FinishKeeps DEF Halt, Notice
<1>4. ASSUME NEW r \in Run, Start(r) \/ Register(r) \/ Fork(r) \/ StopRunning(r)
      PROVE  IInv'
  <2>1. StopRunning(r) => Cease(<<"app", r>>) /\ <<"app", r>> \in Launchers
    BY OfRun DEF StopRunning
  <2> QED
    BY <1>4, <2>1, StartLeaderKeeps, RecordKeeps, ProceedKeeps, StartServiceKeeps,
       ServingKeeps, InspectKeeps, SetKeeps, VerifyKeeps, RegisteredKeeps, ForkKeeps,
       CeaseKeeps DEF Start, Register
<1>5. ASSUME NEW p \in Process, Bind(p) \/ Die(p) PROVE IInv'
  BY <1>5, BindKeeps, DieKeeps
<1>6. ASSUME NEW port \in Contested, Stranger(port) PROVE IInv'
  BY <1>6, StrangerKeeps
<1>7. CASE Elsewhere \/ Reboot
  BY <1>7, ElsewhereKeeps, RebootKeeps
<1> QED
  BY <1>1, <1>2, <1>3, <1>4, <1>5, <1>6, <1>7 DEF Next

\* The inductive invariant holds in every reachable state.
THEOREM Invariant == Spec => []IInv
  BY InitInv, NextInv, PTL DEF Spec

-----------------------------------------------------------------------------
(* What follows for the processes of a checkout.                           *)

\* What a receipt names, or a launcher holds, is not forgotten.
LEMMA NamedIsRemembered ==
    ASSUME IInv
    PROVE  NothingForgotten
<1> SUFFICES ASSUME NEW p \in alive
             PROVE  LET r == p[2] IN
                    \/ p[1] \in {"full", "worker"}
                    \/ how[r] # "app" /\ (<<"full", r>> \in alive \/ Names("full", r))
                    \/ p[1] \in {"backend", "frontend"} /\ (<<"app", r>> \in alive \/ Names("app", r))
                    \/ p = <<"app", r>> /\ how[r] = "app"
  BY DEF NothingForgotten
<1>1. NamedBy(p) /\ p = <<p[1], p[2]>> /\ p[1] \in Role
  BY Pairs DEF IInv, Named, TypeOK
<1> QED
  BY <1>1 DEF NamedBy, Role, Service

\* Whatever dies in whatever order, and for any number of runs, a live process
\* that carries a mark has a live launcher or a receipt that names it: no start
\* of full_launcher.py or app_launcher.sh can overlook it.
THEOREM NothingIsForgotten == Spec => []NothingForgotten
  BY Invariant, NamedIsRemembered, PTL

\* What is alive and named by one receipt is of one generation.
LEMMA NamedIsAlone ==
    ASSUME IInv
    PROVE  OneGeneration
<1> SUFFICES ASSUME NEW p \in alive, NEW q \in alive, p[1] = q[1], p[1] \in Service
             PROVE  p = q
  BY DEF OneGeneration
<1>1. /\ NamedBy(p) /\ p = <<p[1], p[2]>>
      /\ NamedBy(q) /\ q = <<q[1], q[2]>>
  BY Pairs DEF IInv, Named, TypeOK
<1>2. p[2] = q[2]
  <2>1. CASE p[1] \in {"backend", "frontend"}
    BY <1>1, <2>1, OneName DEF NamedBy
  <2>2. CASE p[1] \in {"proxy", "tunnel"}
    BY <1>1, <2>2, OneName DEF NamedBy
  <2> QED
    BY <2>1, <2>2 DEF Service
<1> QED
  BY <1>1, <1>2

\* A service of one run never lives beside the same service of another, however
\* many runs are started, one after the other or at once.
THEOREM GenerationsNeverMeet == Spec => []OneGeneration
  BY Invariant, NamedIsAlone, PTL

\* Only a registration and the server change what Telegram has registered.
LEMMA HookStep ==
    ASSUME IInv, [Next]_vars, hook' # hook, hook' \in Run
    PROVE  hook \in {Nowhere, confirmed}
<1>1. CASE UNCHANGED vars
  BY <1>1 DEF vars, hookVars
<1>2. ASSUME NEW r \in Run, NEW kind \in Kinds[r], Launch(r, kind) PROVE FALSE
  BY <1>2 DEF Launch, hookVars
<1>3. ASSUME NEW l \in Launchers, Lock(l) \/ Recover(l) \/ Check(l) \/ Cease(l) \/ Halt(l)
      PROVE  FALSE
  BY <1>3 DEF Lock, Recover, Check, Cease, Halt, Notice, Grace, Kill, Abandon, Finish, hookVars
<1>4. ASSUME NEW r \in Run, Start(r) \/ Inspect(r) \/ Verify(r) \/ Registered(r) \/ Fork(r)
                            \/ StopRunning(r)
      PROVE  FALSE
  BY <1>4 DEF Start, StartLeader, Record, Proceed, StartService, Serving, Inspect, Verify,
     Registered, Confirm, Fork, StopRunning, Cease, hookVars
<1>5. ASSUME NEW r \in Run, Set(r) PROVE hook \in {Nowhere, confirmed}
  <2>1. <<"full", r>> \in Launchers /\ at[<<"full", r>>] = "set" /\ hook' = r
    BY <1>5, OfRun DEF Set, SetHook
  <2>2. hook \in Replaceable(r)
    BY <2>1 DEF IInv, Held
  <2> QED
    BY <2>1, <2>2 DEF Replaceable
<1>6. ASSUME NEW p \in Process, Bind(p) \/ Die(p) PROVE FALSE
  BY <1>6 DEF Bind, Die, hookVars
<1>7. ASSUME NEW port \in Contested, Stranger(port) PROVE FALSE
  BY <1>7 DEF Stranger, hookVars
<1>8. CASE Elsewhere
  BY <1>8, LauncherAssumption DEF Elsewhere, TakeOver
<1>9. CASE Reboot
  BY <1>9 DEF Reboot, hookVars
<1> QED
  BY <1>1, <1>2, <1>3, <1>4, <1>5, <1>6, <1>7, <1>8, <1>9 DEF Next, Register

\* A launcher replaces no webhook but one that it saw confirmed itself, although
\* other launchers die and restart between its look and its call.
THEOREM UnrelatedIsKept == Spec => UnrelatedKept
<1>1. IInv /\ [Next]_vars
        => [hook' # hook /\ hook' \in Run => hook \in {Nowhere, confirmed}]_hookVars
  BY HookStep
<1> QED
  BY <1>1, Invariant, PTL DEF Spec, UnrelatedKept

\* The receipt of a launcher that stops is dropped by nobody but itself.
LEMMA DropStep ==
    ASSUME IInv, [Next]_vars, NEW l \in Launchers, at[l] = "stop",
           receipt[l[1]] # NoReceipt, receipt'[l[1]] = NoReceipt
    PROVE  Finish(l)
<1>1. l[1] \in {"full", "app"} /\ Past(l) /\ TypeOK /\ receipt' # receipt
  BY LauncherPairs DEF Past, IInv
<1>2. ASSUME NEW m \in Launchers, Past(m), m[1] = l[1] PROVE m = l
  BY <1>1, <1>2 DEF IInv, Locked
<1>3. CASE UNCHANGED vars
  BY <1>1, <1>3 DEF vars
<1>4. ASSUME NEW r \in Run, NEW kind \in Kinds[r], Launch(r, kind) PROVE FALSE
  BY <1>1, <1>4 DEF Launch
<1>5. ASSUME NEW m \in Launchers, Lock(m) \/ Cease(m) \/ Notice(m) \/ Grace(m) \/ Kill(m) \/ Abandon(m)
      PROVE  FALSE
  BY <1>1, <1>5 DEF Lock, Cease, Notice, Grace, Kill, Abandon
<1>6. ASSUME NEW m \in Launchers, Recover(m) \/ Check(m) PROVE FALSE
  <2>1. Past(m) /\ at[m] # "stop"
    BY <1>6 DEF Recover, Check, Past
  <2>2. m[1] # l[1]
    BY <1>2, <2>1
  <2>3. receipt'[l[1]] = receipt[l[1]]
    BY <1>1, <1>6, <2>2 DEF Recover, Check, TypeOK
  <2> QED
    BY <2>3
<1>7. ASSUME NEW m \in Launchers, Finish(m) PROVE m = l
  <2>1. Past(m)
    BY <1>7 DEF Finish, Stopping, Past
  <2>2. m[1] # l[1] => receipt'[l[1]] = receipt[l[1]]
    BY <1>1, <1>7 DEF Finish, TypeOK
  <2> QED
    BY <1>2, <2>1, <2>2
<1>8. ASSUME NEW r \in Run, Record(r) PROVE FALSE
  <2> DEFINE m == <<"full", r>>
  <2>1. m \in Launchers /\ Past(m) /\ at[m] # "stop" /\ m[1] = "full"
    BY <1>8, OfRun DEF Record, Past
  <2>2. l[1] # "full"
    BY <1>2, <2>1
  <2>3. receipt'[l[1]] = receipt[l[1]]
    BY <1>1, <1>8, <2>2 DEF Record, TypeOK
  <2> QED
    BY <2>3
<1>9. ASSUME NEW r \in Run, StartLeader(r) \/ Proceed(r) \/ StartService(r) \/ Serving(r)
                            \/ Register(r) \/ Fork(r) \/ StopRunning(r)
      PROVE  FALSE
  BY <1>1, <1>9 DEF StartLeader, Proceed, StartService, Serving, Register, Inspect, Set,
     Verify, Registered, Fork, StopRunning, Cease
<1>10. ASSUME NEW p \in Process, Bind(p) \/ Die(p) PROVE FALSE
  BY <1>1, <1>10 DEF Bind, Die
<1>11. ASSUME NEW port \in Contested, Stranger(port) PROVE FALSE
  BY <1>1, <1>11 DEF Stranger
<1>12. CASE Elsewhere
  BY <1>1, <1>12 DEF Elsewhere
<1>13. CASE Reboot
  <2>1. /\ receipt[l[1]] \in Receipt
        /\ receipt'[l[1]] = [receipt[l[1]] EXCEPT !.current = FALSE]
    BY <1>1, <1>13 DEF Reboot, TypeOK
  <2>2. receipt'[l[1]] \in Receipt
    BY <2>1 DEF Receipt
  <2> QED
    BY <2>2, LauncherAssumption
<1> QED
  BY <1>3, <1>4, <1>5, <1>6, <1>7, <1>8, <1>9, <1>10, <1>11, <1>12, <1>13
     DEF Next, Start, Halt

\* When a launcher that stops finds nothing, nothing of its run is left.
LEMMA NothingLeft ==
    ASSUME IInv, NEW l \in Launchers, Finish(l), at[l] = "stop",
           NEW p \in alive', p[2] = l[2]
    PROVE  l[1] = "app" /\ p[1] \in Leader \cup {"full"}
<1> DEFINE r == l[2]
           full == <<"full", r>>  app == <<"app", r>>
           frontend == <<"frontend", r>>  worker == <<"worker", r>>
<1>1. /\ l = <<l[1], r>> /\ l[1] \in {"full", "app"} /\ r \in Run /\ l \in alive
      /\ Stopping(l) /\ Owned(l) = {} /\ Family(r) /\ NamedBy(l) /\ TypeOK
  BY LauncherPairs DEF IInv, Living, Finish, Empty, Named
<1>2. p \in alive /\ p # l /\ p = <<p[1], r>> /\ p[1] \in Role
  BY <1>1, Pairs DEF Finish, Exit, Gone, TypeOK
<1>3. ~Needs(l[1], p)
  BY <1>1, <1>2, OwnedNeeds
<1>4. \A q \in alive : parent[q] # l
  BY <1>1, Scans DEF Owned, Children
<1>5. worker \in Process /\ (parent[worker] # Top => parent[worker] \in alive)
  BY <1>1, OfRun DEF IInv, Parents, Role
<1>6. CASE l[1] = "app"
  <2>1. p[1] \notin {"backend", "frontend"}
    BY <1>3, <1>6 DEF Needs
  <2>2. frontend \notin alive
    BY <1>1, <1>6, OwnedNeeds DEF Needs
  <2>3. p # worker
    BY <1>1, <1>2, <1>4, <1>5, <1>6, <2>2, OfRun DEF Family, Role, Service
  <2> QED
    BY <1>2, <1>6, <2>1, <2>3 DEF Role, Service, Leader
<1>7. CASE l[1] = "full"
  <2>1. how[r] # "app"
    BY <1>1, <1>7 DEF NamedBy
  <2>2. p[1] \notin Service \cup {"app"}
    BY <1>2, <1>3, <1>7, <2>1 DEF Needs
  <2>3. p = worker
    BY <1>1, <1>2, <1>7, <2>2 DEF Role
  <2>4. frontend \notin alive /\ app \notin alive
    BY <1>1, <1>7, <2>1, OwnedNeeds DEF Needs, Service
  <2> QED
    BY <1>1, <1>2, <1>4, <1>5, <1>7, <2>3, <2>4 DEF Family
<1> QED
  BY <1>1, <1>6, <1>7

\* A launcher that has stopped its run and dropped the receipt leaves no process
\* of it behind, the unmarked workers of the frontend included.
THEOREM ExitIsClean == Spec => CleanExit
<1> DEFINE Clean == \A l \in Launchers :
          at[l] = "stop" /\ at'[l] = "no" /\ receipt[l[1]] # NoReceipt /\ receipt'[l[1]] = NoReceipt
              => \A p \in alive' : p[2] = l[2] => l[1] = "app" /\ p[1] \in Leader \cup {"full"}
<1>1. IInv /\ [Next]_vars => [Clean]_vars
  BY DropStep, NothingLeft
<1>2. CleanExit <=> [][Clean]_vars
  BY DEF CleanExit
<1> HIDE DEF Clean
<1> QED
  BY <1>1, <1>2, Invariant, PTL DEF Spec
=============================================================================
