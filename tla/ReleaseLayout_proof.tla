------------------------ MODULE ReleaseLayout_proof ------------------------
(* Machine-checked proofs about ReleaseLayout, for any branch, units, flags, *)
(* release names and number of releases to keep.                             *)
EXTENDS ReleaseLayout, TLAPS

\* Every kind of step, by what it touches.
Planning == \E m, r, os, upToDate, stage :
    /\ Plan(m, r, os, upToDate, stage)
    /\ \/ stage = "worktree" /\ r[2] = made + 1
       \/ stage \in {"modules", "switch"} /\ r \in dirs

Preparation == AddWorktree \/ MakeLinks \/ CheckModules \/ PrepareFails
Guards == GuardPasses \/ GuardRefuses \/ Backup \/ BackupFails
Switching == Switch \/ SwitchFails \/ Settled \/ SettleFails \/ SwitchBack \/ SwitchBackFails
Restarting == InstallUnits \/ InstallUnitsFails \/ RestartUnits \/ RestartThrows \/ Ready \/ NotReady

LEMMA NextCases ==
    [Next]_vars =>
        \/ Planning \/ PlanFails \/ Preparation \/ Guards \/ Switching \/ Restarting
        \/ Prune \/ World \/ Crash \/ UNCHANGED vars
<1>1. ASSUME NEW c \in Commits, NEW os \in OptionSets, Deploy(c, os) PROVE Planning
  <2>1. CASE Existing(c) # {}
    BY <1>1, <2>1 DEF Deploy, Planning, Existing
  <2>2. CASE Existing(c) = {}
    <3>1. Plan("deploy", <<c, made + 1>>, os, c = Sha(current), "worktree")
      BY <1>1, <2>2 DEF Deploy
    <3>2. <<c, made + 1>>[2] = made + 1
      OBVIOUS
    <3> QED BY <3>1, <3>2 DEF Planning
  <2> QED BY <2>1, <2>2
<1>2. ASSUME NEW r, NEW os, RollbackTo(r, os) PROVE Planning
  BY <1>2 DEF RollbackTo, Planning
<1>3. ASSUME Begin PROVE Planning \/ PlanFails
  BY <1>1, <1>2, <1>3 DEF Begin, RollbackDefault
<1>4. ASSUME Step PROVE Preparation \/ Guards \/ Switching \/ Restarting \/ Prune
  BY <1>4 DEF Step, Preparation, Guards, Switching, Restarting
<1> QED BY <1>3, <1>4 DEF Next

-----------------------------------------------------------------------------
(* Nothing in use is removed *)

\* Directories are named by the operations that made them, so a new one is nobody's.
Dated == made \in Nat /\ \A r \in dirs : r[2] \in Int /\ r[2] <= made

\* Where the operation comes from and goes to, stage by stage.
Early == Preparing \cup Guarding \cup {"switch"}
Ends ==
    /\ pc # "idle" => leaving \in dirs
    /\ pc \in Early => current = leaving
    /\ pc = "worktree" => dir[2] = made /\ dir \notin dirs /\ ~prepared
    /\ pc \notin {"idle", "worktree"} => dir \in dirs

\* A release this operation made can still be removed: nothing runs from it.
Unused ==
    prepared /\ pc \in Early \ {"switch"} =>
        dir # current /\ (\A u \in Units : running[u] # dir) /\ dir \notin workers

UseInv == running \in [Units -> dirs] /\ current \in dirs /\ workers \subseteq dirs
PlaceInv == Dated /\ Ends /\ Unused /\ UseInv

LEMMA PlaceInit == Init => PlaceInv
BY DEF Init, PlaceInv, Dated, Ends, Unused, UseInv, First, Early, Preparing, Guarding

LEMMA PlacePlanning == PlaceInv /\ (Planning \/ PlanFails) => PlaceInv'
<1> SUFFICES ASSUME PlaceInv, Planning \/ PlanFails PROVE PlaceInv'
  OBVIOUS
<1> USE DEF PlaceInv, Dated, Ends, Unused, UseInv, Early, Preparing, Guarding
<1>1. CASE PlanFails
  BY <1>1 DEF PlanFails, dirVars, hostVars, procVars
<1>2. ASSUME NEW m, NEW r, NEW os, NEW upToDate, NEW stage,
             Plan(m, r, os, upToDate, stage),
             \/ stage = "worktree" /\ r[2] = made + 1
             \/ stage \in {"modules", "switch"} /\ r \in dirs
      PROVE PlaceInv'
  <2>1. /\ made' = made + 1 /\ leaving' = current /\ prepared' = FALSE
        /\ UNCHANGED <<dirs, current, running, workers>>
        /\ dir' = IF upToDate THEN current ELSE r
        /\ pc' = pc \/ pc' = "guard" \/ pc' = "switch" \/ (~upToDate /\ pc' = stage)
        /\ pc = "idle"
    BY <1>2 DEF Plan, dirVars, hostVars, procVars
  <2>2. r \in dirs \/ (stage = "worktree" /\ r[2] = made' /\ r \notin dirs)
    BY <1>2, <2>1
  <2>3. ~upToDate /\ stage = "worktree" => pc' \in {"worktree"}
    BY <1>2 DEF Plan
  <2>4. pc' = "worktree" => dir' = r /\ r[2] = made' /\ r \notin dirs
    BY <2>1, <2>2, <1>2
  <2>5. pc' \notin {"idle", "worktree"} => dir' \in dirs
    BY <2>1, <2>2, <2>3
  <2>6. Dated'
    BY <2>1
  <2>7. Ends'
    BY <2>1, <2>4, <2>5
  <2>8. Unused' /\ UseInv'
    BY <2>1
  <2> QED BY <2>6, <2>7, <2>8
<1> QED BY <1>1, <1>2 DEF Planning

\* The cleanup of a preparation leaves what is in use, and the operation is over.
LEMMA PlaceCleanup ==
    ASSUME PlaceInv, pc \in Early \ {"switch"}, RemovePrepared,
           pc' = "idle", UNCHANGED <<made, current, running, workers>>
    PROVE  PlaceInv'
<1> USE DEF PlaceInv, Dated, Ends, Unused, UseInv, Early, Preparing, Guarding
<1>1. CASE prepared /\ dirs' = dirs \ {dir}
  BY <1>1
<1>2. CASE UNCHANGED dirs
  BY <1>2
<1> QED BY <1>1, <1>2 DEF RemovePrepared

LEMMA PlacePreparation == PlaceInv /\ Preparation => PlaceInv'
<1> SUFFICES ASSUME PlaceInv, Preparation PROVE PlaceInv'
  OBVIOUS
<1> USE DEF hostVars, procVars, planVars, Early, Preparing, Guarding
<1>1. CASE AddWorktree
  BY <1>1 DEF AddWorktree, PlaceInv, Dated, Ends, Unused, UseInv
<1>2. CASE MakeLinks
  BY <1>2 DEF MakeLinks, recordVars, PlaceInv, Dated, Ends, Unused, UseInv
<1>3. CASE CheckModules
  BY <1>3 DEF CheckModules, recordVars, AfterPrepare, End, PlaceInv, Dated, Ends, Unused, UseInv
<1>4. CASE PrepareFails
  <2>1. pc \in Early \ {"switch"} /\ pc' = "idle" /\ UNCHANGED <<made, current, running, workers>>
    BY <1>4 DEF PrepareFails, End
  <2>2. CASE RemovePrepared
    BY <2>1, <2>2, PlaceCleanup
  <2>3. CASE UNCHANGED dirs
    BY <2>1, <2>3 DEF PlaceInv, Dated, Ends, Unused, UseInv
  <2> QED BY <1>4, <2>2, <2>3 DEF PrepareFails
<1> QED BY <1>1, <1>2, <1>3, <1>4 DEF Preparation

LEMMA PlaceGuards == PlaceInv /\ Guards => PlaceInv'
<1> SUFFICES ASSUME PlaceInv, Guards PROVE PlaceInv'
  OBVIOUS
<1> USE DEF hostVars, procVars, Early, Preparing, Guarding
<1>1. CASE GuardPasses \/ Backup
  BY <1>1 DEF GuardPasses, Backup, dirVars, planVars, recordVars, PlaceInv, Dated, Ends, Unused, UseInv
<1>2. CASE GuardRefuses \/ BackupFails
  <2>1. /\ pc \in Early \ {"switch"} /\ RemovePrepared
        /\ pc' = "idle" /\ UNCHANGED <<made, current, running, workers>>
    BY <1>2 DEF GuardRefuses, BackupFails, End
  <2> QED BY <2>1, PlaceCleanup
<1> QED BY <1>1, <1>2 DEF Guards

LEMMA PlaceSwitching == PlaceInv /\ (Switching \/ Restarting) => PlaceInv'
<1> SUFFICES ASSUME PlaceInv, Switching \/ Restarting PROVE PlaceInv'
  OBVIOUS
<1> USE DEF dirVars, hostVars, procVars, planVars, recordVars, Early, Preparing, Guarding,
            PlaceInv, Dated, Ends, Unused, UseInv, End
<1>1. CASE Switch \/ SwitchFails
  BY <1>1 DEF Switch, SwitchFails
<1>2. CASE Settled \/ SettleFails
  BY <1>2 DEF Settled, Succeed, SettleFails
<1>3. CASE SwitchBack \/ SwitchBackFails
  BY <1>3 DEF SwitchBack, SwitchBackFails
<1>4. CASE InstallUnits \/ InstallUnitsFails
  BY <1>4 DEF InstallUnits, InstallUnitsFails, Throw
<1>5. CASE RestartUnits \/ RestartThrows
  BY <1>5 DEF RebindSocket, RestartUnits, RestartThrows, Throw
<1>6. CASE Ready \/ NotReady
  BY <1>6 DEF Ready, NotReady, Succeed
<1> QED BY <1>1, <1>2, <1>3, <1>4, <1>5, <1>6 DEF Switching, Restarting

\* The prune keeps what is in use: this needs an answer from systemd.
LEMMA PlacePrune == PlaceInv /\ Prune /\ ~SystemdSilent => PlaceInv'
<1> SUFFICES ASSUME PlaceInv, Prune, ~SystemdSilent PROVE PlaceInv'
  OBVIOUS
<1>1. /\ dirs' \subseteq dirs /\ current \in dirs' /\ workers \subseteq dirs'
      /\ \A u \in Units : running[u] \in dirs'
  BY DEF Prune, Seen, InUse, PlaceInv, UseInv
<1> QED BY <1>1 DEF Prune, End, hostVars, procVars, PlaceInv, Dated, Ends, Unused, UseInv,
   Early, Preparing, Guarding

LEMMA PlaceWorld == PlaceInv /\ (World \/ Crash \/ UNCHANGED vars) => PlaceInv'
<1> SUFFICES ASSUME PlaceInv, World \/ Crash \/ UNCHANGED vars PROVE PlaceInv'
  OBVIOUS
<1> USE DEF PlaceInv, Dated, Ends, Unused, UseInv, Early, Preparing, Guarding,
            dirVars, hostVars, procVars, planVars, recordVars
<1>1. CASE Push \/ SessionsChange \/ SocketLost
  BY <1>1 DEF Push, SessionsChange, SocketLost
<1>2. CASE WorkersChange
  BY <1>2 DEF WorkersChange
<1>3. ASSUME NEW u \in Units, SelfRestart(u) PROVE PlaceInv'
  BY <1>3 DEF SelfRestart
<1>4. CASE Crash
  BY <1>4 DEF Crash
<1>5. CASE UNCHANGED vars
  BY <1>5 DEF vars
<1> QED BY <1>1, <1>2, <1>3, <1>4, <1>5 DEF World

\* No cleanup and no prune ever removes the release current points at, one a unit
\* runs from or one a worker instance runs from, for any number of releases to
\* keep, as long as systemctl answers (prune and worktreeRemove in
\* lib/release-layout.js).
THEOREM NeverPrunedTheorem ==
    ASSUME ~SystemdSilent PROVE Spec => []NeverPrunedInUse
<1>1. PlaceInv /\ [Next]_vars => PlaceInv'
  BY NextCases, PlacePlanning, PlacePreparation, PlaceGuards, PlaceSwitching, PlacePrune, PlaceWorld
<1>2. PlaceInv => NeverPrunedInUse
  BY DEF PlaceInv, UseInv, NeverPrunedInUse
<1> QED BY PlaceInit, <1>1, <1>2, PTL DEF Spec

-----------------------------------------------------------------------------
(* What becomes current is whole *)

\* Complete, or known to be left behind unfinished.
Whole == (linked \cap moduled) \cup cut

\* Every directory is whole but the one an operation is making, which is once it is checked.
DirsWhole == \A r \in dirs : r \in Whole \/ (pc \in {"links", "modules"} /\ prepared /\ r = dir)
Making ==
    /\ pc = "links" => prepared
    /\ pc = "modules" => IF prepared THEN dir \in linked ELSE dir \in Whole
    /\ pc \in Guarding \cup {"switch"} => dir \in Whole
    /\ pc # "idle" => leaving \in Whole
WholeInv == current \in Whole /\ DirsWhole /\ Making

LEMMA WholePlanning == WholeInv /\ (Planning \/ PlanFails) => WholeInv'
<1> SUFFICES ASSUME WholeInv, Planning \/ PlanFails PROVE WholeInv'
  OBVIOUS
<1>0. UNCHANGED <<dirs, Whole, current>> /\ pc = "idle"
  BY DEF Planning, Plan, PlanFails, dirVars, hostVars, Whole
<1>1. CASE PlanFails
  BY <1>0, <1>1 DEF PlanFails, WholeInv, DirsWhole, Making, Guarding
<1>2. ASSUME NEW m, NEW r, NEW os, NEW upToDate, NEW stage,
             Plan(m, r, os, upToDate, stage),
             \/ stage = "worktree" /\ r[2] = made + 1
             \/ stage \in {"modules", "switch"} /\ r \in dirs
      PROVE WholeInv'
  <2>1. /\ prepared' = FALSE /\ leaving' = current
        /\ dir' = IF upToDate THEN current ELSE r
        /\ pc' \in {"idle", "guard", "switch"} \/ (~upToDate /\ pc' = stage)
        /\ upToDate => pc' \in {"idle", "guard", "switch"}
        /\ ~upToDate /\ stage = "worktree" => pc' = stage
    BY <1>0, <1>2 DEF Plan, Preparing
  <2>2. stage # "worktree" => r \in Whole
    BY <1>0, <1>2 DEF WholeInv, DirsWhole
  <2>3. current \in Whole /\ \A d \in dirs : d \in Whole
    BY <1>0 DEF WholeInv, DirsWhole
  <2> QED BY <1>0, <1>2, <2>1, <2>2, <2>3 DEF WholeInv, DirsWhole, Making, Guarding
<1> QED BY <1>1, <1>2 DEF Planning

\* A cleanup removes the directory, or leaves it behind unfinished.
LEMMA WholeCleanup ==
    ASSUME WholeInv, RemovePrepared, pc' = "idle", UNCHANGED <<moduled, current>>
    PROVE  WholeInv'
<1>1. \A r \in Whole : r \in Whole'
  BY DEF RemovePrepared, Whole
<1>2. \A r \in dirs' : r \in dirs /\ (prepared => r # dir \/ r \in Whole')
  BY DEF RemovePrepared, Whole
<1> QED BY <1>1, <1>2 DEF WholeInv, DirsWhole, Making, Guarding

LEMMA WholePreparation == WholeInv /\ Preparation => WholeInv'
<1> SUFFICES ASSUME WholeInv, Preparation PROVE WholeInv'
  OBVIOUS
<1> USE DEF hostVars, planVars, Guarding
<1>1. CASE AddWorktree
  BY <1>1 DEF AddWorktree, WholeInv, DirsWhole, Making, Whole
<1>2. CASE MakeLinks
  BY <1>2 DEF MakeLinks, recordVars, WholeInv, DirsWhole, Making, Whole
<1>3. CASE CheckModules
  <2>1. pc = "modules" /\ pc' \in {"idle", "guard", "switch"} /\ UNCHANGED <<dirs, current, dir, leaving>>
    BY <1>3 DEF CheckModules, AfterPrepare, End
  <2>2. (\A r \in Whole : r \in Whole') /\ dir \in Whole'
    BY <1>3, <2>1 DEF CheckModules, Checked, WholeInv, Making, Whole
  <2> QED BY <2>1, <2>2 DEF WholeInv, DirsWhole, Making
<1>4. CASE PrepareFails
  <2>1. pc' = "idle" /\ UNCHANGED current
    BY <1>4 DEF PrepareFails, End
  <2>2. CASE RemovePrepared /\ UNCHANGED moduled
    BY <2>1, <2>2, WholeCleanup
  <2>3. CASE /\ ~prepared /\ moduled' = moduled \ {dir}
             /\ cut' = cut \cup {dir} /\ UNCHANGED <<dirs, linked>>
    BY <2>1, <2>3 DEF WholeInv, DirsWhole, Making, Whole
  <2> QED BY <1>4, <2>2, <2>3 DEF PrepareFails
<1> QED BY <1>1, <1>2, <1>3, <1>4 DEF Preparation

LEMMA WholeStep == WholeInv /\ [Next]_vars => WholeInv'
<1> SUFFICES ASSUME WholeInv, [Next]_vars PROVE WholeInv'
  OBVIOUS
<1> USE DEF dirVars, hostVars, planVars, recordVars, Guarding, End
<1>1. CASE GuardRefuses \/ BackupFails
  BY <1>1, WholeCleanup DEF GuardRefuses, BackupFails
<1>2. CASE Prune
  BY <1>2 DEF Prune, WholeInv, DirsWhole, Making, Whole
<1>3. CASE Crash
  BY <1>3 DEF Crash, WholeInv, DirsWhole, Making, Whole
<1>4. CASE GuardPasses \/ Backup \/ Switching \/ Restarting \/ World \/ UNCHANGED vars
  <2>1. UNCHANGED <<dirs, linked, Whole, dir, leaving, prepared>>
    BY <1>4 DEF GuardPasses, Backup, Switching, Switch, SwitchFails, Settled, SettleFails, SwitchBack,
       SwitchBackFails, Restarting, InstallUnits, InstallUnitsFails, RebindSocket, RestartUnits, RestartThrows, Ready,
       NotReady, World, Push, SessionsChange, WorkersChange, SocketLost, SelfRestart, vars, Whole
  <2>2. current' = current \/ (pc = "switch" /\ current' = dir)
          \/ (pc \in {"settle", "back"} /\ current' = leaving)
    BY <1>4 DEF GuardPasses, Backup, Switching, Switch, SwitchFails, Settled, SettleFails, SwitchBack,
       SwitchBackFails, Restarting, InstallUnits, InstallUnitsFails, RebindSocket, RestartUnits, RestartThrows, Ready,
       NotReady, World, Push, SessionsChange, WorkersChange, SocketLost, SelfRestart, vars
  <2>3. \/ pc' = pc
        \/ pc \in Guarding /\ pc' \in Guarding \cup {"switch"}
        \/ pc \notin Preparing /\ pc' \notin Preparing \cup Guarding \cup {"switch"} /\ pc # "idle"
    BY <1>4 DEF GuardPasses, Backup, Switching, Switch, SwitchFails, Settled, SettleFails, SwitchBack,
       SwitchBackFails, Restarting, InstallUnits, InstallUnitsFails, RebindSocket, RestartUnits, RestartThrows, Ready,
       NotReady, World, Push, SessionsChange, WorkersChange, SocketLost, SelfRestart, vars,
       Succeed, Throw, Preparing
  <2>4. Whole' = Whole /\ linked' = linked /\ dirs' = dirs /\ dir' = dir /\ leaving' = leaving /\ prepared' = prepared
    BY <2>1
  <2>5. current' \in Whole'
    BY <2>2, <2>4 DEF WholeInv, Making
  <2>6. DirsWhole'
    BY <2>3, <2>4 DEF WholeInv, DirsWhole, Preparing
  <2>7. Making'
    BY <2>3, <2>4 DEF WholeInv, Making, Preparing
  <2> QED BY <2>5, <2>6, <2>7 DEF WholeInv
<1> QED BY <1>1, <1>2, <1>3, <1>4, NextCases, WholePlanning, WholePreparation DEF Guards

\* Whatever was killed or failed before, a release that becomes current has its
\* links and its dependencies, or was left behind by a killed or failed
\* preparation or install not checked since (prepare in lib/release-layout.js).
THEOREM CurrentIsWholeTheorem == Spec => []CurrentIsWhole
<1>1. Init => WholeInv
  BY DEF Init, WholeInv, DirsWhole, Making, Whole, Guarding
<1>2. WholeInv => CurrentIsWhole
  BY DEF WholeInv, Whole, CurrentIsWhole
<1> QED BY <1>1, <1>2, WholeStep, PTL DEF Spec

-----------------------------------------------------------------------------
(* Units, unit files and socket follow current *)

Forward == {"install", "restart", "ready", "back"}
Backward == {"reinstall", "rerestart", "reready"}

\* Where the link is at each stage.
Route ==
    /\ pc \in Early \cup Backward => current = leaving
    /\ pc \in Forward \cup {"settle"} => current = dir
    /\ pc \in Forward => switched = (dir # leaving)

Runs(r) == \A u \in Units : CodeOf[Sha(running[u])] = CodeOf[Sha(r)]
Matches(r) == Runs(r) /\ (Units # {} => ~UnitDrift(Sha(r)))

\* Until the units are restarted it is the release the operation leaves that they match,
\* and without a restart both do.
Serving ==
    ~torn => /\ pc \in {"idle", "prune"} => Matches(current)
             /\ pc \in Early \cup {"settle"} => Matches(leaving)
NoRestart ==
    /\ pc = "settle" => ~restartNeeded
    /\ pc \in Early \cup {"settle"} /\ ~restartNeeded /\ Units # {} =>
           CodeOf[Sha(leaving)] = CodeOf[Sha(dir)] /\ ~UnitDrift(Sha(dir))

\* Then it is current, whatever was torn before.
Restarted ==
    /\ pc \in {"restart", "ready", "rerestart", "reready"} => unitFiles = Sha(current)
    /\ pc \in {"ready", "reready"} => \A u \in Units : running[u] = current

\* The socket is bound anew whenever its unit file has changed since it was opened.
Bound ==
    ~unbound /\ (pc \in {"restart", "rerestart"} => ~socketChanged) => SocketOf[listening] = SocketOf[unitFiles]

HostInv == DOMAIN running = Units /\ Route /\ Serving /\ NoRestart /\ Restarted /\ Bound

LEMMA HostPlanning == HostInv /\ (Planning \/ PlanFails) => HostInv'
<1> SUFFICES ASSUME HostInv, Planning \/ PlanFails PROVE HostInv'
  OBVIOUS
<1> USE DEF hostVars, procVars, Early, Preparing, Guarding, Forward, Backward
<1>1. CASE PlanFails
  BY <1>1 DEF PlanFails, planVars, recordVars, histVars,
     HostInv, Route, Serving, NoRestart, Restarted, Bound, Matches, Runs, UnitDrift
<1>2. ASSUME NEW m, NEW r, NEW os, NEW upToDate, NEW stage,
             Plan(m, r, os, upToDate, stage), stage \in {"worktree", "modules", "switch"}
      PROVE HostInv'
  <2>1. /\ pc = "idle" /\ leaving' = current
        /\ UNCHANGED <<running, unitFiles, current, listening, torn, unbound>>
        /\ dir' = IF upToDate THEN current ELSE r
        /\ pc' \in {"idle", "guard", "switch", "worktree", "modules"}
    BY <1>2 DEF Plan
  <2>2. Route' /\ Restarted' /\ DOMAIN running' = Units
    BY <2>1 DEF HostInv, Route, Restarted
  <2>3. Bound'
    BY <2>1 DEF HostInv, Bound
  <2>4. Serving'
    BY <2>1 DEF HostInv, Serving, Matches, Runs, UnitDrift
  <2>5. pc' # "idle" /\ ~restartNeeded' /\ Units # {} =>
           ~upToDate /\ CodeOf[Sha(current)] = CodeOf[Sha(r)] /\ ~UnitDrift(Sha(r))
    BY <1>2, <2>1 DEF Plan
  <2>6. NoRestart'
    BY <2>1, <2>5 DEF NoRestart, UnitDrift
  <2> QED BY <2>2, <2>3, <2>4, <2>6 DEF HostInv
<1> QED BY <1>1, <1>2 DEF Planning

\* Before the switch only the stage changes: on towards it, or back to idle.
LEMMA HostBefore ==
    HostInv /\ (Preparation \/ Guards \/ SwitchFails) => HostInv'
<1> SUFFICES ASSUME HostInv, Preparation \/ Guards \/ SwitchFails PROVE HostInv'
  OBVIOUS
<1>1. /\ pc \in Early /\ pc' \in Early \cup {"idle"}
      /\ UNCHANGED <<running, unitFiles, current, listening, leaving, dir, restartNeeded, torn, unbound>>
  BY DEF Preparation, AddWorktree, MakeLinks, CheckModules, PrepareFails, AfterPrepare,
     Guards, GuardPasses, GuardRefuses, Backup, BackupFails, SwitchFails,
     hostVars, procVars, planVars, histVars, End, Early, Preparing, Guarding
<1> USE DEF Early, Preparing, Guarding, Forward, Backward
<1>2. Route' /\ Restarted' /\ DOMAIN running' = Units
  BY <1>1 DEF HostInv, Route, Restarted
<1>3. Bound'
  BY <1>1 DEF HostInv, Bound
<1>4. Serving'
  BY <1>1 DEF HostInv, Route, Serving, Matches, Runs, UnitDrift
<1>5. NoRestart'
  BY <1>1 DEF HostInv, NoRestart, UnitDrift
<1> QED BY <1>2, <1>3, <1>4, <1>5 DEF HostInv

LEMMA HostSwitching == HostInv /\ Switching => HostInv'
<1> SUFFICES ASSUME HostInv, Switching PROVE HostInv'
  OBVIOUS
<1> USE DEF Early, Preparing, Guarding, Forward, Backward, End, procVars, planVars, histVars
<1>1. CASE Switch
  BY <1>1 DEF Switch, HostInv, Route, Serving, NoRestart, Restarted, Bound, Matches, Runs, UnitDrift
<1>2. CASE SwitchFails
  BY <1>2, HostBefore
<1>3. CASE Settled \/ SettleFails
  <2>1. /\ pc = "settle" /\ pc' \in {"idle", "prune"}
        /\ UNCHANGED <<running, unitFiles, listening, torn, unbound>>
        /\ current' \in {current, leaving}
    BY <1>3 DEF Settled, Succeed, SettleFails, hostVars
  <2>2. ~torn => Matches(leaving)
    BY <2>1 DEF HostInv, Serving
  <2>3. Units # {} => CodeOf[Sha(leaving)] = CodeOf[Sha(dir)] /\ ~UnitDrift(Sha(dir))
    BY <2>1 DEF HostInv, NoRestart
  <2>4. ~torn => Matches(dir)
    BY <2>2, <2>3 DEF Matches, Runs
  <2>5. current = dir
    BY <2>1 DEF HostInv, Route
  <2>6. Serving'
    BY <2>1, <2>2, <2>4, <2>5 DEF Serving, Matches, Runs, UnitDrift
  <2> QED BY <2>1, <2>6 DEF HostInv, Route, NoRestart, Restarted, Bound
<1>4. CASE SwitchBack
  BY <1>4 DEF SwitchBack, HostInv, Route, Serving, NoRestart, Restarted, Bound, Matches, Runs, UnitDrift
<1>5. CASE SwitchBackFails
  BY <1>5 DEF SwitchBackFails, Apart, hostVars, HostInv, Route, Serving, NoRestart, Restarted, Bound
<1> QED BY <1>1, <1>2, <1>3, <1>4, <1>5 DEF Switching

\* Installing the unit files says whether the socket has to be bound anew, and a
\* restart makes the units those of current.
LEMMA HostRestarting == HostInv /\ Restarting => HostInv'
<1> SUFFICES ASSUME HostInv, Restarting PROVE HostInv'
  OBVIOUS
<1> USE DEF HostInv, Early, Preparing, Guarding, Forward, Backward, End, Throw
<1>1. CASE InstallUnits
  <2>1. Route' /\ Serving' /\ NoRestart' /\ DOMAIN running' = Units
    BY <1>1 DEF InstallUnits, Route, Serving, NoRestart, procVars, planVars
  <2>2. Restarted'
    BY <1>1 DEF InstallUnits, Installing, Route, Restarted
  <2>3. Bound'
    BY <1>1 DEF InstallUnits, Bound, procVars, histVars
  <2> QED BY <2>1, <2>2, <2>3
<1>2. CASE InstallUnitsFails
  BY <1>2 DEF InstallUnitsFails, Apart, Route, Serving, NoRestart, Restarted, Bound, procVars, planVars, recordVars
<1>3. CASE RestartUnits
  <2>1. Route' /\ Serving' /\ NoRestart' /\ DOMAIN running' = Units
    BY <1>3 DEF RebindSocket, RestartUnits, Route, Serving, NoRestart, hostVars, planVars, recordVars
  <2>2. Restarted'
    BY <1>3 DEF RebindSocket, RestartUnits, Restarted, hostVars
  <2>3. Bound'
    BY <1>3 DEF RebindSocket, RestartUnits, Rebind, Bound, hostVars, recordVars
  <2> QED BY <2>1, <2>2, <2>3
<1>4. CASE RestartThrows
  BY <1>4 DEF RebindSocket, RestartThrows, Apart, Route, Serving, NoRestart, Restarted, Bound, hostVars, planVars, recordVars
<1>5. CASE Ready
  <2>1. Matches(current) /\ pc' \in {"idle", "prune"} /\ UNCHANGED <<running, unitFiles, current, listening, unbound>>
    BY <1>5 DEF Ready, Succeed, Matches, Runs, UnitDrift, Restarted, hostVars, procVars
  <2>2. Serving'
    BY <2>1 DEF Serving, Matches, Runs, UnitDrift
  <2> QED BY <1>5, <2>1, <2>2 DEF Ready, Route, NoRestart, Restarted, Bound, planVars, recordVars
<1>6. CASE NotReady
  BY <1>6 DEF NotReady, Apart, Route, Serving, NoRestart, Restarted, Bound, hostVars, procVars, planVars, recordVars
<1> QED BY <1>1, <1>2, <1>3, <1>4, <1>5, <1>6 DEF Restarting

\* A prune, the world around and a kill.
LEMMA HostWorld == HostInv /\ (Prune \/ World \/ Crash \/ UNCHANGED vars) => HostInv'
<1> SUFFICES ASSUME HostInv, Prune \/ World \/ Crash \/ UNCHANGED vars PROVE HostInv'
  OBVIOUS
<1> USE DEF HostInv, Early, Preparing, Guarding, Forward, Backward, End
<1>1. CASE Prune
  BY <1>1 DEF Prune, Route, Serving, NoRestart, Restarted, Bound, Matches, Runs, UnitDrift,
     hostVars, procVars, planVars, recordVars, histVars
<1>2. ASSUME NEW u \in Units, SelfRestart(u) PROVE HostInv'
  <2>1. /\ \A v \in Units : running'[v] = current \/ running'[v] = running[v]
        /\ DOMAIN running' = Units /\ UNCHANGED <<unitFiles, current, listening, pc, unbound>>
        /\ ~torn' => ~torn /\ pc = "idle"
    BY <1>2 DEF SelfRestart, hostVars
  <2>2. Serving'
    BY <2>1 DEF Serving, Matches, Runs, UnitDrift
  <2>3. Restarted'
    BY <2>1 DEF Restarted
  <2> QED BY <1>2, <2>1, <2>2, <2>3 DEF SelfRestart, Route, NoRestart, Bound, UnitDrift, planVars, recordVars
<1>3. CASE Push \/ SessionsChange \/ WorkersChange \/ SocketLost \/ UNCHANGED vars
  <2>1. UNCHANGED <<running, unitFiles, current, listening, pc, torn, unbound, planVars, recordVars>>
    BY <1>3 DEF Push, SessionsChange, WorkersChange, SocketLost, hostVars, procVars, histVars, vars
  <2> QED BY <2>1 DEF Route, Serving, NoRestart, Restarted, Bound, Matches, Runs, UnitDrift, planVars, recordVars
<1>4. CASE Crash
  <2>1. UNCHANGED <<running, unitFiles, current, listening>> /\ pc' = "idle" /\ pc # "idle"
    BY <1>4 DEF Crash, hostVars, procVars
  <2>2. CASE pc \in Early
    <3>1. UNCHANGED <<torn, unbound>> /\ current = leaving
      BY <1>4, <2>2 DEF Crash, Route
    <3> QED BY <2>1, <2>2, <3>1 DEF Route, Serving, NoRestart, Restarted, Bound, Matches, Runs, UnitDrift
  <2>3. CASE pc \notin Early
    <3>1. Apart(unitFiles, listening)
      BY <1>4, <2>3 DEF Crash
    <3> QED BY <2>1, <3>1 DEF Apart, Route, Serving, NoRestart, Restarted, Bound
  <2> QED BY <2>2, <2>3
<1> QED BY <1>1, <1>2, <1>3, <1>4 DEF World

\* For any branch, units and socket, and whatever was refused, failed, killed or
\* rolled back before: between operations the units run the code of current, and
\* the unit files and the open socket are current's, until an operation stopped
\* half way (deploy and rollback in lib/release-layout.js).
THEOREM HostMatchesTheorem == Spec => []HostMatchesCurrent
<1>1. Init => HostInv
  BY DEF Init, HostInv, Route, Serving, NoRestart, Restarted, Bound, Matches, Runs, UnitDrift,
     Early, Preparing, Guarding, Forward, Backward, First, Sha
<1>2. HostInv /\ [Next]_vars => HostInv'
  BY NextCases, HostPlanning, HostBefore, HostSwitching, HostRestarting, HostWorld
<1>3. HostInv => HostMatchesCurrent
  BY DEF HostInv, Serving, Bound, Matches, Runs, HostMatchesCurrent
<1> QED BY <1>1, <1>2, <1>3, PTL DEF Spec

-----------------------------------------------------------------------------
\* For any branch, flags and sessions: unless forced, a switch that leads to a
\* restart follows a guard that no backup came after (guardSessions, and its
\* second call after the backup, in lib/release-layout.js).
THEOREM FreshGuardTheorem == Spec => []SwitchAfterFreshGuard
<1>1. Init => SwitchAfterFreshGuard
  BY DEF Init, SwitchAfterFreshGuard
<1>2. SwitchAfterFreshGuard /\ [Next]_vars => SwitchAfterFreshGuard'
  <2> SUFFICES ASSUME SwitchAfterFreshGuard, [Next]_vars, pc' = "switch", restartNeeded', "force" \notin opts'
               PROVE  fresh'
    BY DEF SwitchAfterFreshGuard
  <2> USE DEF SwitchAfterFreshGuard, planVars, histVars, End
  <2>1. CASE Planning \/ PlanFails
    <3>1. ASSUME NEW m, NEW r, NEW os, NEW upToDate, NEW stage, Plan(m, r, os, upToDate, stage)
          PROVE  pc' = "switch" => ~restartNeeded'
      <4>1. pc = "idle" /\ (pc' = pc \/ (pc' = stage /\ stage \in Preparing)
                             \/ pc' = IF restartNeeded' THEN "guard" ELSE "switch")
        BY <3>1 DEF Plan
      <4> QED BY <4>1 DEF Preparing
    <3>2. pc' # pc
      BY <2>1 DEF Planning, Plan, PlanFails
    <3> QED BY <2>1, <3>1, <3>2 DEF Planning, PlanFails
  <2>2. CASE Preparation
    BY <2>2 DEF Preparation, AddWorktree, MakeLinks, CheckModules, PrepareFails, AfterPrepare
  <2>3. CASE Guards
    BY <2>3 DEF Guards, GuardPasses, GuardRefuses, Backup, BackupFails
  <2>4. CASE Switching
    BY <2>4 DEF Switching, Switch, SwitchFails, Settled, Succeed, SettleFails, SwitchBack, SwitchBackFails
  <2>5. CASE Restarting
    BY <2>5 DEF Restarting, InstallUnits, InstallUnitsFails, RebindSocket, RestartUnits, RestartThrows, Ready, NotReady,
       Succeed, Throw
  <2>6. CASE Prune \/ World \/ Crash \/ UNCHANGED vars
    BY <2>6 DEF Prune, World, Push, SessionsChange, WorkersChange, SocketLost, SelfRestart, Crash, vars
  <2> QED BY <2>1, <2>2, <2>3, <2>4, <2>5, <2>6, NextCases
<1> QED BY <1>1, <1>2, PTL DEF Spec

-----------------------------------------------------------------------------
(* Types *)

USE DEF Releases, Sha

LEMMA NameType == \A r \in Releases : Name(r) \in Releases
BY AttemptsAssumption DEF Name

\* Every operation ends with a well-typed record.
LEMMA EndType ==
    ASSUME TypeOK, NEW result \in Results, NEW code \in 0..Killed, End(result, code)
    PROVE  pc' \in PCs /\ exit' \in 0..Killed
             /\ log' \in Seq([result : Results, from : Releases, to : Releases])
<1>1. [result |-> result, from |-> Name(leaving), to |-> Name(named)]
         \in [result : Results, from : Releases, to : Releases]
  BY NameType DEF TypeOK
<1> QED BY <1>1 DEF End, Record, TypeOK, PCs

LEMMA CleanupType ==
    ASSUME TypeOK, RemovePrepared
    PROVE  dirs' \subseteq Releases /\ linked' \subseteq Releases /\ cut' \subseteq Releases
BY DEF RemovePrepared, TypeOK

LEMMA InitTypes == Init => TypeOK
<1> SUFFICES ASSUME Init PROVE TypeOK
  OBVIOUS
<1>1. First \in Releases /\ 0 \in Commits
  BY LastAssumption, AttemptsAssumption DEF First, Commits
<1>2. pc \in PCs /\ exit \in 0..Killed /\ made \in 0..MaxAttempts
  BY AttemptsAssumption DEF Init, PCs, Killed
<1>3. running \in [Units -> Releases] /\ workers \subseteq Releases
  BY <1>1 DEF Init
<1>4. log \in Seq([result : Results, from : Releases, to : Releases])
  BY DEF Init
<1>5. dirs \subseteq Releases /\ linked \subseteq Releases /\ moduled \subseteq Releases /\ cut \subseteq Releases
  BY <1>1 DEF Init
<1> HIDE DEF Releases, Sha
<1> QED BY <1>1, <1>2, <1>3, <1>4, <1>5, SessionAssumption DEF Init, TypeOK

LEMMA PlanTypes ==
    ASSUME TypeOK, NEW m \in {"deploy", "rollback"}, NEW os \in OptionSets, NEW upToDate, NEW r,
           NEW stage \in {"worktree", "modules", "switch"}, Plan(m, r, os, upToDate, stage),
           r \in Releases
    PROVE  TypeOK'
<1>1. made' \in 0..MaxAttempts
  BY AttemptsAssumption DEF Plan, TypeOK
<1>2. leaving' \in Releases /\ named' \in Releases /\ dir' \in Releases
  BY DEF Plan, TypeOK
<1>3. pc' \in PCs /\ exit' \in 0..Killed
  BY DEF Plan, TypeOK, PCs, Preparing, Guarding, Killed
<1>4. restartNeeded' \in BOOLEAN /\ prepared' \in BOOLEAN /\ switched' \in BOOLEAN
        /\ socketChanged' \in BOOLEAN /\ fresh' \in BOOLEAN
  BY DEF Plan
<1>5. mode' \in {"deploy", "rollback"} /\ opts' \in OptionSets \cup {{}}
  BY DEF Plan
<1> QED BY <1>1, <1>2, <1>3, <1>4, <1>5 DEF Plan, TypeOK, envVars, dirVars, hostVars, procVars

LEMMA BeginTypes == TypeOK /\ Begin => TypeOK'
<1> SUFFICES ASSUME TypeOK, Begin PROVE TypeOK'
  OBVIOUS
<1>1. dirs \subseteq Releases
  BY DEF TypeOK
<1>2. ASSUME NEW c \in Commits, NEW os \in OptionSets, Deploy(c, os) PROVE TypeOK'
  <2>1. CASE Existing(c) # {}
    <3>1. PICK r \in Existing(c) : Plan("deploy", r, os, c = Sha(current), "modules")
      BY <1>2, <2>1 DEF Deploy
    <3>2. r \in Releases
      BY <1>1, <3>1 DEF Existing
    <3> QED BY <3>1, <3>2, PlanTypes
  <2>2. CASE Existing(c) = {}
    <3>1. Plan("deploy", <<c, made + 1>>, os, c = Sha(current), "worktree")
      BY <1>2, <2>2 DEF Deploy
    <3>2. made < MaxAttempts
      BY <3>1 DEF Plan
    <3>3. <<c, made + 1>> \in Releases
      BY <3>2, AttemptsAssumption DEF TypeOK
    <3> QED BY <3>1, <3>3, PlanTypes
  <2> QED BY <2>1, <2>2
<1>3. ASSUME NEW r, NEW os \in OptionSets, RollbackTo(r, os) PROVE TypeOK'
  BY <1>1, <1>3, PlanTypes DEF RollbackTo
<1>4. CASE PlanFails
  <2>1. [result |-> "failed", from |-> Name(current), to |-> Name(current)]
           \in [result : Results, from : Releases, to : Releases]
    BY NameType DEF TypeOK, Results
  <2>2. log' \in Seq([result : Results, from : Releases, to : Releases])
    BY <1>4, <2>1 DEF PlanFails, TypeOK
  <2>3. made' \in 0..MaxAttempts /\ exit' \in 0..Killed
    BY <1>4, AttemptsAssumption DEF PlanFails, TypeOK, Killed
  <2> QED BY <1>4, <2>2, <2>3 DEF PlanFails, TypeOK, envVars, dirVars, hostVars, procVars, planVars,
      recordVars, histVars
<1> QED BY <1>2, <1>3, <1>4 DEF Begin, RollbackDefault

LEMMA PreparationTypes == TypeOK /\ (Preparation \/ Guards) => TypeOK'
<1> SUFFICES ASSUME TypeOK, Preparation \/ Guards PROVE TypeOK'
  OBVIOUS
<1> USE DEF envVars, hostVars, procVars, planVars
<1>1. CASE AddWorktree
  BY <1>1 DEF AddWorktree, TypeOK, PCs, Preparing, histVars
<1>2. CASE MakeLinks
  BY <1>2 DEF MakeLinks, TypeOK, PCs, Preparing, recordVars, histVars
<1>3. CASE CheckModules
  <2>1. dirs' \subseteq Releases /\ moduled' \subseteq Releases /\ cut' \subseteq Releases
    BY <1>3 DEF CheckModules, Checked, TypeOK
  <2>2. pc' \in PCs /\ exit' \in 0..Killed
          /\ log' \in Seq([result : Results, from : Releases, to : Releases])
    <3>1. CASE End("prepared", 0)
      BY <3>1, EndType DEF Results, Killed
    <3>2. CASE pc' = AfterPrepare /\ UNCHANGED <<exit, log>>
      BY <3>2 DEF AfterPrepare, TypeOK, PCs, Guarding
    <3> QED BY <1>3, <3>1, <3>2 DEF CheckModules
  <2> QED BY <1>3, <2>1, <2>2 DEF CheckModules, TypeOK, recordVars, histVars
<1>4. CASE PrepareFails \/ GuardRefuses \/ BackupFails
  <2>1. pc' \in PCs /\ exit' \in 0..Killed
          /\ log' \in Seq([result : Results, from : Releases, to : Releases])
    <3>1. End("failed", 2) \/ End("refused", 5) \/ End("failed", 1)
      BY <1>4 DEF PrepareFails, GuardRefuses, BackupFails
    <3> QED BY <3>1, EndType DEF Results, Killed
  <2>2. dirs' \subseteq Releases /\ linked' \subseteq Releases /\ cut' \subseteq Releases
          /\ moduled' \subseteq Releases
    BY <1>4, CleanupType DEF PrepareFails, GuardRefuses, BackupFails, TypeOK
  <2> QED BY <1>4, <2>1, <2>2 DEF PrepareFails, GuardRefuses, BackupFails, TypeOK, recordVars, histVars
<1>5. CASE GuardPasses \/ Backup
  BY <1>5 DEF GuardPasses, Backup, TypeOK, PCs, Guarding, dirVars, recordVars
<1> QED BY <1>1, <1>2, <1>3, <1>4, <1>5 DEF Preparation, Guards

LEMMA StepTypes == TypeOK /\ (Switching \/ Restarting \/ Prune) => TypeOK'
<1> SUFFICES ASSUME TypeOK, Switching \/ Restarting \/ Prune PROVE TypeOK'
  OBVIOUS
<1>0. /\ current \in Releases /\ dir \in Releases /\ leaving \in Releases
      /\ Sha(dir) \in Commits /\ Sha(leaving) \in Commits
  BY DEF TypeOK
<1> DEFINE Logged == log' \in Seq([result : Results, from : Releases, to : Releases])
<1>1. ASSUME NEW code \in {0, 2, 3, 4}, NEW result \in Results, End(result, code)
      PROVE  pc' \in PCs /\ exit' \in 0..Killed /\ Logged
  <2>1. code \in 0..Killed
    BY DEF Killed
  <2> QED BY <1>1, <2>1, EndType
<1>2. pc' \in PCs /\ exit' \in 0..Killed /\ Logged
  <2>1. CASE \/ End("deployed", 0) \/ End("rolled-back", 0) \/ End("failed", 2)
             \/ End("failed-rolled-back", 3) \/ End("rollback-failed", 4)
    BY <1>1, <2>1 DEF Results
  <2>2. CASE UNCHANGED <<exit, log>> /\ pc' \in PCs
    BY <2>2 DEF TypeOK
  <2>3. \/ End("deployed", 0) \/ End("rolled-back", 0) \/ End("failed", 2)
        \/ End("failed-rolled-back", 3) \/ End("rollback-failed", 4)
        \/ (UNCHANGED <<exit, log>> /\ pc' \in {"install", "settle", "prune", "reinstall",
                                              "restart", "rerestart", "ready", "reready", "back"})
    BY DEF Switching, Switch, SwitchFails, Settled, Succeed, SettleFails, SwitchBack, SwitchBackFails,
       Restarting, InstallUnits, InstallUnitsFails, RebindSocket, RestartUnits, RestartThrows, Ready, NotReady, Throw, Prune
  <2> QED BY <2>1, <2>2, <2>3 DEF PCs
<1>3. CASE Switching
  BY <1>0, <1>2, <1>3 DEF Switching, Switch, SwitchFails, Settled, SettleFails, SwitchBack, SwitchBackFails,
     Apart, TypeOK, envVars, dirVars, hostVars, procVars, planVars, recordVars, histVars
<1>4. CASE InstallUnits \/ InstallUnitsFails \/ Ready \/ NotReady
  <2>1. unitFiles' \in Commits
    BY <1>0, <1>4 DEF InstallUnits, InstallUnitsFails, Installing, Ready, NotReady, hostVars, TypeOK
  <2> QED BY <1>2, <1>4, <2>1 DEF InstallUnits, InstallUnitsFails, Ready, NotReady,
     Apart, TypeOK, envVars, dirVars, hostVars, procVars, planVars, recordVars, histVars
<1>5. CASE RestartUnits \/ RestartThrows
  <2>1. running' \in [Units -> Releases] /\ listening' \in Commits /\ held' \in BOOLEAN
    BY <1>0, <1>5 DEF RebindSocket, RestartUnits, RestartThrows, TypeOK
  <2> QED BY <1>2, <1>5, <2>1 DEF RebindSocket, RestartUnits, RestartThrows,
     Apart, TypeOK, envVars, dirVars, hostVars, planVars, recordVars, histVars
<1>6. CASE Prune
  <2>1. dirs' \subseteq Releases
    BY <1>6 DEF Prune, TypeOK
  <2> QED BY <1>2, <1>6, <2>1 DEF Prune, TypeOK, envVars, hostVars, procVars, planVars, recordVars, histVars
<1> QED BY <1>3, <1>4, <1>5, <1>6 DEF Restarting

LEMMA WorldTypes == TypeOK /\ (World \/ Crash \/ UNCHANGED vars) => TypeOK'
<1> SUFFICES ASSUME TypeOK, World \/ Crash \/ UNCHANGED vars PROVE TypeOK'
  OBVIOUS
<1> USE DEF TypeOK, envVars, dirVars, hostVars, procVars, planVars, recordVars, histVars
<1>1. CASE Push
  <2>1. origin' \in Commits
    BY <1>1, LastAssumption DEF Push, Commits
  <2> QED BY <1>1, <2>1 DEF Push
<1>2. CASE SessionsChange \/ SocketLost
  BY <1>2 DEF SessionsChange, SocketLost
<1>3. CASE WorkersChange
  BY <1>3 DEF WorkersChange
<1>4. ASSUME NEW u \in Units, SelfRestart(u) PROVE TypeOK'
  BY <1>4 DEF SelfRestart
<1>5. CASE Crash
  <2>1. cut' \subseteq Releases /\ moduled' \subseteq Releases
    BY <1>5 DEF Crash
  <2>2. pc' \in PCs /\ exit' \in 0..Killed
    BY <1>5 DEF Crash, PCs, Killed
  <2>3. torn' \in BOOLEAN /\ unbound' \in BOOLEAN
    BY <1>5 DEF Crash, Apart
  <2> HIDE DEF TypeOK
  <2> QED BY <1>5, <2>1, <2>2, <2>3 DEF Crash, TypeOK
<1>6. CASE UNCHANGED vars
  BY <1>6 DEF vars
<1> QED BY <1>1, <1>2, <1>3, <1>4, <1>5, <1>6 DEF World

\* Every reachable state is well typed, for any branch, units and bound on the
\* operations planned: no stage, record or release name the code does not have.
THEOREM TypeCorrect == Spec => []TypeOK
<1>1. Step => Preparation \/ Guards \/ Switching \/ Restarting \/ Prune
  BY DEF Step, Preparation, Guards, Switching, Restarting
<1>2. TypeOK /\ [Next]_vars => TypeOK'
  BY <1>1, BeginTypes, PreparationTypes, StepTypes, WorldTypes DEF Next
<1> QED BY <1>2, InitTypes, PTL DEF Spec
=============================================================================
