------------------------ MODULE InPlaceDeploy_proof ------------------------
(* Machine-checked proofs about InPlaceDeploy, for any branch, packages, units, *)
(* sessions, flags and drain policy.                                            *)
EXTENDS InPlaceDeploy, TLAPS

\* Every unit runs the code of commit c.
Same(c) == \A u \in Units : CodeOf[running[u]] = CodeOf[c]

Before == {"guard1", "wait1", "move"}

\* The strengthening of ServesCheckout: what the units run and where the
\* checkout is at every stage of an operation.
AtFrom == pc \in Before \cup {"reinstall", "rebuild", "rerestart"} => head = from
FromOrTo == pc \in Prepare => head \in {from, to}
Restarting == pc \in {"restart", "rerestart"} => \A u \in Units \ todo : running[u] = head
Serving ==
    ~torn =>
        /\ pc = "idle" => Same(head)
        /\ pc \in Before \cup Prepare => Same(from)
        /\ pc \in Restore /\ exit # 3 => Same(from)
ServeInv == DOMAIN running = Units /\ AtFrom /\ FromOrTo /\ Restarting /\ Serving

-----------------------------------------------------------------------------
\* The steps that start an operation leave head, units and torn alone.
LEMMA BeginServes == ServeInv /\ Begin => ServeInv'
<1> SUFFICES ASSUME ServeInv, Begin PROVE ServeInv'
  OBVIOUS
<1> USE DEF ServeInv, AtFrom, FromOrTo, Restarting, Serving, Same, Before, Prepare, Restore,
        Stop, Record, envVars, diskVars, procVars, opVars, recordVars, histVars
<1>1. ASSUME NEW m, NEW t, NEW os, Plan(m, t, os) PROVE ServeInv'
  BY <1>1 DEF Plan, ComputePlan, NewRecord, AlreadyThere
<1>2. CASE DeployFrozen
  BY <1>2 DEF DeployFrozen
<1>3. ASSUME NEW m, PlanFails(m) PROVE ServeInv'
  BY <1>3 DEF PlanFails, ComputePlan, NewRecord
<1> QED
  BY <1>1, <1>2, <1>3 DEF Begin, Deploy, RollbackTo, RollbackDefault

\* A throw in the inner try keeps Serving: the checkout will go back to from, or never left it.
LEMMA FailServes ==
    ASSUME ServeInv, pc \in Prepare, NEW code, code # 3, Fail(code),
           UNCHANGED <<head, running, from, to>>, UNCHANGED torn
    PROVE ServeInv'
BY DEF ServeInv, AtFrom, FromOrTo, Restarting, Serving, Same, Before, Prepare, Restore,
       Fail, Moved, End, Stop, Record

\* Exit 4 promises nothing about the units.
LEMMA ManualServes ==
    ASSUME ServeInv, NEW m, NEW b, EndManual(m, b), DOMAIN running' = Units
    PROVE ServeInv'
BY DEF ServeInv, AtFrom, FromOrTo, Restarting, Serving, Before, Prepare, Restore,
       EndManual, End, Stop, Record

\* Guards and polls.
LEMMA GuardServes ==
    ServeInv /\ (GuardPasses \/ GuardHolds \/ GuardRefuses \/ Poll \/ GaveUp) => ServeInv'
<1> SUFFICES ASSUME ServeInv, GuardPasses \/ GuardHolds \/ GuardRefuses \/ Poll \/ GaveUp
             PROVE ServeInv'
  OBVIOUS
<1> USE DEF envVars, diskVars, procVars, opVars, recordVars, histVars
<1>1. CASE GuardPasses \/ GuardHolds \/ Poll
  BY <1>1 DEF GuardPasses, GuardHolds, Poll, AfterGuard, ServeInv, AtFrom, FromOrTo, Restarting,
     Serving, Same, Before, Prepare, Restore
<1>2. CASE GuardRefuses \/ GaveUp
  <2>1. PICK code : code # 3 /\ (RefuseAt("guard1", code) \/ RefuseAt("wait1", code))
    BY <1>2 DEF GuardRefuses, GaveUp
  <2>2. UNCHANGED <<head, running, from, to>> /\ UNCHANGED torn
    BY <1>2 DEF GuardRefuses, GaveUp
  <2>3. pc \in {"guard1", "wait1", "guard2", "wait2"}
    BY <1>2 DEF GuardRefuses, GaveUp
  <2>4. CASE pc \in {"guard1", "wait1"} /\ End(Refusal(code), code)
    BY <2>2, <2>4 DEF End, Stop, Record, ServeInv, AtFrom, FromOrTo, Restarting,
       Serving, Same, Before, Prepare, Restore
  <2>5. CASE Fail(code) /\ pc \in {"guard2", "wait2"}
    BY <2>1, <2>2, <2>5, FailServes DEF Prepare
  <2>6. CASE Fail(code) /\ pc \in {"guard1", "wait1"}
    BY <2>2, <2>6, <2>1 DEF Fail, Moved, End, Stop, Record, ServeInv, AtFrom, FromOrTo, Restarting,
       Serving, Same, Before, Prepare, Restore
  <2> QED
    BY <2>1, <2>3, <2>4, <2>5, <2>6 DEF RefuseAt
<1> QED
  BY <1>1, <1>2

\* The checkout moves, dependencies are installed and the output is built.
LEMMA PrepareServes ==
    ASSUME ServeInv,
           \/ MoveCheckout \/ MoveFails \/ Verified \/ VerifyFails \/ Build \/ BuildFails
           \/ Preflight \/ PreflightFails \/ InstallUnits \/ BackupFails
           \/ \E p \in Pkgs : Install(p) \/ Repair(p) \/ InstallFails(p)
    PROVE ServeInv'
<1> USE DEF envVars, diskVars, procVars, opVars, recordVars, histVars
<1>1. CASE MoveCheckout \/ MoveFails
  BY <1>1 DEF MoveCheckout, MoveFails, End, Stop, Record, ServeInv, AtFrom, FromOrTo, Restarting,
     Serving, Same, Before, Prepare, Restore
<1>2. CASE Verified \/ Build \/ Preflight \/ InstallUnits
  BY <1>2 DEF Verified, Build, Preflight, InstallUnits, ServeInv, AtFrom, FromOrTo, Restarting,
     Serving, Same, Before, Prepare, Restore
<1>3. ASSUME NEW p \in Pkgs, Install(p) \/ Repair(p) PROVE ServeInv'
  BY <1>3 DEF Install, Repair, ServeInv, AtFrom, FromOrTo, Restarting,
     Serving, Same, Before, Prepare, Restore
<1>4. CASE BuildFails \/ PreflightFails \/ BackupFails
  BY <1>4, FailServes DEF BuildFails, PreflightFails, BackupFails, Prepare
<1>5. CASE VerifyFails
  BY <1>5, FailServes, ManualServes DEF VerifyFails, Prepare, ServeInv
<1>6. ASSUME NEW p \in Pkgs, InstallFails(p) PROVE ServeInv'
  <2>1. CASE pc = "install"
    BY <1>6, <2>1, FailServes DEF InstallFails, Prepare
  <2>2. CASE pc = "reinstall"
    <3>1. EndManual(modules', served) /\ running' = running
      BY <1>6, <2>2 DEF InstallFails
    <3> QED
      BY <3>1, ManualServes DEF ServeInv
  <2> QED
    BY <1>6, <2>1, <2>2 DEF InstallFails
<1> QED
  BY <1>1, <1>2, <1>3, <1>4, <1>5, <1>6

\* Restarts, readiness, and the way back.
LEMMA RestartServes ==
    ASSUME ServeInv,
           \/ RestartAux \/ RestartAuxFails \/ Ready \/ NotReady \/ Reset \/ ResetFails
           \/ Rebuild \/ RebuildFails \/ \E u \in Units : Restart(u) \/ RestartThrows(u)
    PROVE ServeInv'
<1> USE DEF envVars, diskVars, procVars, opVars, recordVars, histVars
<1>1. CASE RestartAux
  <2>1. CASE RestartNeeded
    BY <1>1, <2>1 DEF RestartAux, ServeInv, AtFrom, FromOrTo, Restarting,
       Serving, Same, Before, Prepare, Restore
  <2>2. CASE ~RestartNeeded
    <3>1. ~torn => Same(head)
      BY <1>1, <2>2 DEF RestartAux, RestartNeeded, ServeInv, FromOrTo, Serving, Same, Prepare
    <3> QED
      BY <1>1, <2>2, <3>1 DEF RestartAux, End, Stop, Record, ServeInv, AtFrom, FromOrTo,
         Restarting, Serving, Same, Before, Prepare, Restore
  <2> QED
    BY <2>1, <2>2
<1>2. CASE RestartAuxFails
  BY <1>2, FailServes DEF RestartAuxFails, Prepare
<1>3. CASE Ready
  BY <1>3 DEF Ready, End, Stop, Record, ServeInv, AtFrom, FromOrTo, Restarting,
     Serving, Same, Before, Prepare, Restore
<1>4. CASE NotReady
  <2>1. CASE pc = "restart"
    BY <1>4, <2>1 DEF NotReady, ServeInv, AtFrom, FromOrTo, Restarting,
       Serving, Same, Before, Prepare, Restore
  <2>2. CASE pc = "rerestart"
    BY <1>4, <2>2, ManualServes DEF NotReady, ServeInv
  <2> QED
    BY <1>4, <2>1, <2>2 DEF NotReady
<1>5. CASE Reset \/ Rebuild
  BY <1>5 DEF Reset, Rebuild, End, Stop, Record, ServeInv, AtFrom, FromOrTo, Restarting,
     Serving, Same, Before, Prepare, Restore
<1>6. CASE ResetFails \/ RebuildFails
  BY <1>6, ManualServes DEF ResetFails, RebuildFails, ServeInv
<1>7. ASSUME NEW u \in Units, Restart(u) PROVE ServeInv'
  BY <1>7 DEF Restart, ServeInv, AtFrom, FromOrTo, Restarting,
     Serving, Same, Before, Prepare, Restore
<1>8. ASSUME NEW u \in Units, RestartThrows(u) PROVE ServeInv'
  BY <1>8, ManualServes DEF RestartThrows, End, Stop, Record, ServeInv, AtFrom, FromOrTo,
     Restarting, Serving, Before, Prepare, Restore
<1> QED
  BY <1>1, <1>2, <1>3, <1>4, <1>5, <1>6, <1>7, <1>8

\* The world around: only a unit that restarts by itself touches what is served.
LEMMA WorldServes == ServeInv /\ (World \/ Crash \/ UNCHANGED vars) => ServeInv'
<1> SUFFICES ASSUME ServeInv, World \/ Crash \/ UNCHANGED vars PROVE ServeInv'
  OBVIOUS
<1> USE DEF ServeInv, AtFrom, FromOrTo, Restarting, Serving, Same, Before, Prepare, Restore,
        Stop, envVars, diskVars, procVars, opVars, recordVars, histVars
<1>1. CASE Push \/ SessionsChange \/ FreezeOrUnfreeze
  BY <1>1 DEF Push, SessionsChange, FreezeOrUnfreeze
<1>2. ASSUME NEW u \in Units, SelfRestart(u) PROVE ServeInv'
  BY <1>2 DEF SelfRestart
<1>3. CASE Crash
  BY <1>3 DEF Crash
<1>4. CASE UNCHANGED vars
  BY <1>4 DEF vars
<1> QED
  BY <1>1, <1>2, <1>3, <1>4 DEF World

LEMMA ServeInit == Init => ServeInv
BY DEF Init, ServeInv, AtFrom, FromOrTo, Restarting, Serving, Same, Before, Prepare, Restore

LEMMA ServeNext == ServeInv /\ [Next]_vars => ServeInv'
BY BeginServes, GuardServes, PrepareServes, RestartServes, WorldServes DEF Next, Step

\* Between operations every unit runs the code of the checkout, for every way an
\* operation can be refused, fail or roll back, until one is killed, ends at
\* exit 4, or a restart fails or happens behind its back.
THEOREM ServesCheckoutTheorem == Spec => []ServesCheckout
<1>1. ServeInv => ServesCheckout
  BY DEF ServeInv, Serving, Same, ServesCheckout
<1> QED
  BY ServeInit, ServeNext, <1>1, PTL DEF Spec

-----------------------------------------------------------------------------
(* The guard before the restart *)

\* What the last probe answered lets the units restart.
Allowed ==
    \/ "force" \in opts \/ probed = "none"
    \/ DrainPolicy = "report" /\ probed = "active" /\ "wait" \notin opts
GuardInv == (pc = "aux" /\ RestartNeeded => Allowed) /\ (pc = "restart" => Allowed)

LEMMA GuardStep == GuardInv /\ Step => GuardInv'
<1> SUFFICES ASSUME GuardInv, Step PROVE GuardInv'
  OBVIOUS
<1> USE DEF opVars, histVars
<1>1. CASE GuardPasses \/ Poll
  BY <1>1 DEF GuardPasses, Poll, Seen, AfterGuard, Passes, GuardInv, Allowed
<1>2. CASE InstallUnits
  BY <1>2 DEF InstallUnits, GuardInv, RestartNeeded
<1>3. CASE RestartAux
  BY <1>3 DEF RestartAux, End, Stop, GuardInv, Allowed
<1>4. ASSUME NEW u \in Units, Restart(u) PROVE GuardInv'
  BY <1>4 DEF Restart, GuardInv, Allowed
<1>5. CASE GuardHolds \/ GuardRefuses \/ MoveCheckout \/ MoveFails \/ Verified \/ VerifyFails
  BY <1>5 DEF GuardHolds, GuardRefuses, RefuseAt, MoveCheckout, MoveFails, Verified, VerifyFails,
     Fail, End, EndManual, Stop, GuardInv
<1>6. CASE Build \/ BuildFails \/ Preflight \/ PreflightFails \/ BackupFails \/ RestartAuxFails
  BY <1>6 DEF Build, BuildFails, Preflight, PreflightFails, BackupFails, RestartAuxFails,
     Fail, End, Stop, GuardInv
<1>7. CASE Ready \/ NotReady \/ Reset \/ ResetFails \/ Rebuild \/ RebuildFails
  BY <1>7 DEF Ready, NotReady, Reset, ResetFails, Rebuild, RebuildFails, End, EndManual, Stop, GuardInv
<1>8. ASSUME NEW p \in Pkgs, Install(p) \/ Repair(p) \/ InstallFails(p) PROVE GuardInv'
  BY <1>8 DEF Install, Repair, InstallFails, Fail, End, EndManual, Stop, GuardInv
<1>9. ASSUME NEW u \in Units, RestartThrows(u) PROVE GuardInv'
  BY <1>9 DEF RestartThrows, End, EndManual, Stop, GuardInv
<1> QED BY <1>1, <1>2, <1>3, <1>4, <1>5, <1>6, <1>7, <1>8, <1>9 DEF Step

LEMMA GuardOther == GuardInv /\ (Begin \/ GaveUp \/ World \/ Crash \/ UNCHANGED vars) => GuardInv'
<1> SUFFICES ASSUME GuardInv, Begin \/ GaveUp \/ World \/ Crash \/ UNCHANGED vars PROVE GuardInv'
  OBVIOUS
<1>1. CASE Begin
  <2>1. pc' \in {"idle", "guard1", "move"}
    BY <1>1 DEF Begin, Deploy, RollbackTo, RollbackDefault, Plan, AlreadyThere, DeployFrozen, PlanFails, Stop
  <2> QED BY <2>1 DEF GuardInv
<1>2. CASE GaveUp \/ Crash
  BY <1>2 DEF GaveUp, RefuseAt, Crash, Fail, End, Stop, GuardInv
<1>3. CASE World \/ UNCHANGED vars
  <2>1. UNCHANGED <<pc, opVars, probed>>
    BY <1>3 DEF World, Push, SessionsChange, FreezeOrUnfreeze, SelfRestart, vars, histVars
  <2> QED BY <2>1 DEF GuardInv, RestartNeeded, Allowed, opVars
<1> QED BY <1>1, <1>2, <1>3

\* For any sessions, drain policy and number of quiet polls: the first unit restarts
\* only after a probe since the checkout moved let it (guardSessions in
\* lib/release-ops.js).
THEOREM GuardedRestartTheorem == Spec => []GuardedRestart
<1>1. Init => GuardInv
  BY DEF Init, GuardInv
<1>2. GuardInv /\ [Next]_vars => GuardInv'
  BY GuardStep, GuardOther DEF Next
<1>3. GuardInv => GuardedRestart
  BY DEF GuardInv, Allowed, GuardedRestart
<1> QED BY <1>1, <1>2, <1>3, PTL DEF Spec

-----------------------------------------------------------------------------
(* Types *)

\* The record of an attempt.
Entry == [result : Results, from : Commits, to : Commits]

LEMMA DepsType == \A c \in Commits, p \in Pkgs : DepsOf[c][p] \in Versions /\ DepsOf[c][p] \notin Special
<1> TAKE c \in Commits, p \in Pkgs
<1>1. DepsOf[c][p] \in {DepsOf[c][q] : q \in Pkgs}
  OBVIOUS
<1>2. {DepsOf[c][q] : q \in Pkgs} \in {{DepsOf[b][q] : q \in Pkgs} : b \in Commits}
  OBVIOUS
<1>3. DepsOf[c][p] \in UNION {{DepsOf[b][q] : q \in Pkgs} : b \in Commits}
  BY <1>1, <1>2
<1> QED BY <1>3, MapsAssumption DEF Versions

LEMMA EndType ==
    ASSUME NEW result \in Results, NEW code \in 0..Killed, from \in Commits, to \in Commits,
           log \in Seq(Entry), End(result, code)
    PROVE  pc' \in PCs /\ exit' \in 0..Killed /\ todo' = {} /\ quiet' \in 0..(QuietChecks - 1) /\ log' \in Seq(Entry)
<1>1. [result |-> result, from |-> from, to |-> to] \in Entry
  BY DEF Entry
<1> QED BY <1>1, QuietAssumption DEF End, Stop, Record, PCs

LEMMA FailType ==
    ASSUME TypeOK, NEW code \in {1, 2, 5}, Fail(code)
    PROVE  pc' \in PCs /\ exit' \in 0..Killed /\ todo' = {} /\ quiet' \in 0..(QuietChecks - 1) /\ log' \in Seq(Entry)
<1>1. code \in 0..Killed /\ Refusal(code) \in Results
  BY DEF Killed, Refusal, Results
<1>2. from \in Commits /\ to \in Commits /\ log \in Seq(Entry)
  BY DEF TypeOK, Entry
<1>3. CASE Moved
  BY <1>1, <1>2, <1>3, QuietAssumption DEF Fail, PCs, Restore
<1>4. CASE ~Moved
  <2>1. End(Refusal(code), code)
    BY <1>4 DEF Fail
  <2> HIDE DEF Refusal, End
  <2> QED BY <1>1, <1>2, <2>1, EndType
<1> QED BY <1>3, <1>4

LEMMA ManualType ==
    ASSUME TypeOK, NEW m, NEW b, EndManual(m, b)
    PROVE  /\ pc' \in PCs /\ exit' \in 0..Killed /\ todo' = {} /\ quiet' \in 0..(QuietChecks - 1) /\ log' \in Seq(Entry)
           /\ torn' \in BOOLEAN /\ cut' \subseteq Pkgs \cup {"build"}
<1>1. from \in Commits /\ to \in Commits /\ log \in Seq(Entry) /\ 4 \in 0..Killed
  BY DEF TypeOK, Entry, Killed
<1>2. PICK result \in Results : End(result, 4)
  BY DEF EndManual, Results
<1>3. pc' \in PCs /\ exit' \in 0..Killed /\ todo' = {} /\ quiet' \in 0..(QuietChecks - 1) /\ log' \in Seq(Entry)
  BY <1>1, <1>2, EndType
<1> QED BY <1>3 DEF EndManual, Stale, TypeOK

LEMMA InitTypes == Init => TypeOK
<1> SUFFICES ASSUME Init PROVE TypeOK
  OBVIOUS
<1>1. 0 \in Commits
  BY LastAssumption DEF Commits
<1>2. modules \in [Pkgs -> Versions]
  <2>1. DepsOf[0] = [p \in Pkgs |-> DepsOf[0][p]]
    BY <1>1, MapsAssumption
  <2>2. \A p \in Pkgs : DepsOf[0][p] \in Versions
    BY <1>1, DepsType
  <2> QED BY <2>1, <2>2 DEF Init
<1>3. pc \in PCs /\ exit \in 0..Killed /\ quiet \in 0..(QuietChecks - 1)
  BY QuietAssumption DEF Init, PCs, Killed
<1>4. log \in Seq([result : Results, from : Commits, to : Commits])
  BY DEF Init
<1> QED BY <1>1, <1>2, <1>3, <1>4, SessionAssumption DEF Init, TypeOK

LEMMA BeginTypes == TypeOK /\ Begin => TypeOK'
<1> SUFFICES ASSUME TypeOK, Begin PROVE TypeOK'
  OBVIOUS
<1> USE DEF envVars, diskVars, procVars, opVars, recordVars, histVars
<1>1. ASSUME NEW m \in {"deploy", "rollback"}, NEW t \in Commits, NEW os \in OptionSets, Plan(m, t, os)
      PROVE  TypeOK'
  <2>0. UNCHANGED <<envVars, head, modules, served, procVars, torn, cut>>
    BY <1>1 DEF Plan
  <2>1. mode' \in {"deploy", "rollback"} /\ opts' \in OptionSets \cup {{}} /\ from' \in Commits /\ to' \in Commits
    BY <1>1 DEF Plan, ComputePlan, TypeOK
  <2>2. installed' = {} /\ built' \in BOOLEAN /\ restarted' = {} /\ probed' = "never"
    BY <1>1 DEF Plan, NewRecord
  <2>3. CASE AlreadyThere(m, t, os)
    <3>1. pc' \in PCs /\ exit' \in 0..Killed /\ todo' = {} /\ quiet' \in 0..(QuietChecks - 1)
      BY <2>3, QuietAssumption DEF AlreadyThere, Stop, PCs, Killed
    <3>2. [result |-> "units-installed", from |-> head, to |-> t] \in [result : Results, from : Commits, to : Commits]
      BY DEF TypeOK, Results
    <3>3. unitFiles' \in Commits
      BY <2>3 DEF AlreadyThere, TypeOK
    <3>4. log' \in Seq([result : Results, from : Commits, to : Commits])
      <4>1. log \in Seq(Entry)
        BY DEF TypeOK, Entry
      <4>2. log' = log \/ \E e \in Entry : log' = Append(log, e)
        BY <2>3, <3>2 DEF AlreadyThere, Record, Entry
      <4>3. log' \in Seq(Entry)
        BY <4>1, <4>2
      <4> QED BY <4>3 DEF Entry
    <3> QED BY <2>0, <2>1, <2>2, <3>1, <3>3, <3>4 DEF TypeOK
  <2>4. CASE pc' \in {"guard1", "move"} /\ UNCHANGED <<unitFiles, exit, todo, quiet, log>>
    BY <1>1, <2>1, <2>2, <2>4 DEF Plan, TypeOK, PCs
  <2> QED BY <1>1, <2>3, <2>4 DEF Plan
<1>2. \A t \in PreviousFor(head) : t \in Commits
  <2>1. log \in Seq(Entry)
    BY DEF TypeOK, Entry
  <2>2. \A i \in DOMAIN log : log[i] \in Entry
    BY <2>1
  <2>3. \A i \in DOMAIN log : log[i].from \in Commits
    BY <2>2 DEF Entry
  <2> QED BY <2>3 DEF PreviousFor, DeploysTo
<1>3. CASE DeployFrozen
  BY <1>3 DEF DeployFrozen, TypeOK, Killed
<1>4. ASSUME NEW m \in {"deploy", "rollback"}, PlanFails(m) PROVE TypeOK'
  <2>1. mode' \in {"deploy", "rollback"} /\ opts' = {} /\ from' \in Commits /\ to' \in Commits
    BY <1>4 DEF PlanFails, ComputePlan, TypeOK
  <2>2. installed' = {} /\ built' \in BOOLEAN /\ restarted' = {} /\ probed' = "never"
    BY <1>4 DEF PlanFails, NewRecord
  <2>3. pc' \in PCs /\ exit' \in 0..Killed /\ todo' = {} /\ quiet' \in 0..(QuietChecks - 1)
    BY <1>4, QuietAssumption DEF PlanFails, Stop, PCs, Killed
  <2>4. [result |-> "failed", from |-> head, to |-> head] \in [result : Results, from : Commits, to : Commits]
    BY DEF TypeOK, Results
  <2>5. log' \in Seq([result : Results, from : Commits, to : Commits])
    BY <1>4, <2>4 DEF PlanFails, Record, TypeOK
  <2> QED BY <1>4, <2>1, <2>2, <2>3, <2>5 DEF PlanFails, TypeOK
<1> QED BY <1>1, <1>2, <1>3, <1>4 DEF Begin, Deploy, RollbackTo, RollbackDefault

\* The variables a step of a running operation may leave at any stage.
StageType ==
    /\ pc \in PCs /\ exit \in 0..Killed /\ todo \subseteq Pkgs \cup Units
    /\ quiet \in 0..(QuietChecks - 1) /\ log \in Seq(Entry)

LEMMA GuardTypes ==
    TypeOK /\ (GuardPasses \/ GuardHolds \/ GuardRefuses \/ Poll \/ GaveUp) => TypeOK'
<1> SUFFICES ASSUME TypeOK, GuardPasses \/ GuardHolds \/ GuardRefuses \/ Poll \/ GaveUp PROVE TypeOK'
  OBVIOUS
<1>1. probed' \in SessionStates \cup {"never"}
  BY DEF GuardPasses, GuardHolds, GuardRefuses, Poll, GaveUp, Seen, histVars, TypeOK
<1>2. CASE GuardPasses \/ GuardHolds
  BY <1>1, <1>2 DEF GuardPasses, GuardHolds, AfterGuard, TypeOK, PCs, Prepare,
     envVars, diskVars, procVars, opVars, recordVars
<1>3. CASE Poll
  <2>1. quiet' \in 0..(QuietChecks - 1) /\ pc' \in PCs
    BY <1>3, QuietAssumption DEF Poll, AfterGuard, TypeOK, PCs, Prepare
  <2>2. UNCHANGED <<envVars, diskVars, procVars, opVars, recordVars, restarted, torn, cut, todo, exit, log>>
    BY <1>3 DEF Poll
  <2> QED BY <1>1, <2>1, <2>2 DEF TypeOK, envVars, diskVars, procVars, opVars, recordVars
<1>4. CASE GuardRefuses \/ GaveUp
  <2>1. \E code \in {1, 2, 5} : End(Refusal(code), code) \/ Fail(code)
    BY <1>4 DEF GuardRefuses, GaveUp, RefuseAt
  <2>2. StageType'
    <3>1. ASSUME NEW code \in {1, 2, 5}, Fail(code) PROVE StageType'
      BY <3>1, FailType DEF StageType
    <3>2. ASSUME NEW code \in {1, 2, 5}, End(Refusal(code), code) PROVE StageType'
      <4>1. Refusal(code) \in Results /\ code \in 0..Killed
        BY DEF Refusal, Results, Killed
      <4>2. from \in Commits /\ to \in Commits /\ log \in Seq(Entry)
        BY DEF TypeOK, Entry
      <4> HIDE DEF End, Refusal
      <4> QED BY <3>2, <4>1, <4>2, EndType DEF StageType
    <3> QED BY <2>1, <3>1, <3>2
  <2> QED BY <1>1, <1>4, <2>2 DEF GuardRefuses, GaveUp, StageType, Entry, TypeOK,
      envVars, diskVars, procVars, opVars, recordVars, histVars
<1> QED BY <1>2, <1>3, <1>4

\* What git puts in the place of the build output is a build of some commit, or none.
LEMMA OutputTypes ==
    ASSUME TypeOK, NEW c \in Commits, NEW b \in Commits \cup {NoBuild}
    PROVE  Cleared \in Commits \cup {NoBuild} /\ CheckedOut(c, b) \in Commits \cup {NoBuild}
BY MapsAssumption DEF TypeOK, Cleared, CheckedOut

\* The steps that leave little more than the stage.
LEMMA FailTypes ==
    ASSUME TypeOK, PreflightFails \/ MoveFails \/ VerifyFails PROVE TypeOK'
<1> USE DEF envVars, diskVars, procVars, opVars, recordVars, histVars
<1>1. /\ UNCHANGED <<envVars, head, modules, unitFiles, procVars, opVars, recordVars, restarted, probed>>
      /\ served' \in Commits \cup {NoBuild}
      /\ \/ StageType' /\ UNCHANGED <<torn, cut>>
         \/ StageType' /\ torn' \in BOOLEAN /\ cut' \subseteq Pkgs \cup {"build"}
  <2>1. CASE PreflightFails
    BY <2>1, FailType DEF PreflightFails, StageType, TypeOK
  <2>2. CASE MoveFails
    <3>1. from \in Commits /\ to \in Commits /\ log \in Seq(Entry) /\ 2 \in 0..Killed /\ "failed" \in Results
      BY DEF TypeOK, Entry, Killed, Results
    <3>2. StageType'
      BY <2>2, <3>1, EndType DEF MoveFails, StageType
    <3>3. served' \in Commits \cup {NoBuild}
      BY <2>2, OutputTypes DEF MoveFails, TypeOK
    <3> QED BY <2>2, <3>2, <3>3 DEF MoveFails
  <2>3. CASE VerifyFails
    BY <2>3, FailType, ManualType DEF VerifyFails, StageType, TypeOK
  <2> QED BY <2>1, <2>2, <2>3
<1> QED BY <1>1 DEF TypeOK, StageType, Entry

LEMMA InstallTypes ==
    ASSUME TypeOK, NEW p \in Pkgs, Install(p) \/ Repair(p) \/ InstallFails(p) PROVE TypeOK'
<1> USE DEF envVars, diskVars, procVars, opVars, recordVars, histVars
<1>0. DepsOf[head][p] \in Versions /\ modules[p] \in Versions /\ Special \subseteq Versions
  BY DepsType DEF TypeOK, Versions
<1>1. modules' \in [Pkgs -> Versions]
  BY <1>0 DEF Install, Repair, InstallFails, TypeOK
<1>2. CASE Install(p) \/ Repair(p)
  BY <1>1, <1>2 DEF Install, Repair, TypeOK
<1>3. CASE InstallFails(p)
  <2>1. \/ Fail(2) /\ cut' \subseteq Pkgs \cup {"build"} /\ UNCHANGED torn
        \/ EndManual(modules', served)
    BY <1>3 DEF InstallFails, TypeOK
  <2>2. StageType' /\ torn' \in BOOLEAN /\ cut' \subseteq Pkgs \cup {"build"}
    <3>1. CASE Fail(2) /\ cut' \subseteq Pkgs \cup {"build"} /\ UNCHANGED torn
      BY <3>1, FailType DEF StageType, TypeOK
    <3>2. CASE EndManual(modules', served)
      BY <3>2, ManualType DEF StageType
    <3> QED BY <2>1, <3>1, <3>2
  <2> QED BY <1>1, <1>3, <2>2 DEF InstallFails, TypeOK, StageType, Entry
<1> QED BY <1>2, <1>3

LEMMA PrepareTypes ==
    ASSUME TypeOK,
           MoveCheckout \/ Verified \/ Build \/ BuildFails \/ Preflight \/ InstallUnits \/ BackupFails
    PROVE  TypeOK'
<1> USE DEF envVars, diskVars, procVars, opVars, recordVars, histVars
<1>1. CASE MoveCheckout
  <2>1. head' \in Commits
    BY <1>1 DEF MoveCheckout, TypeOK
  <2>2. Cleared \in Commits \cup {NoBuild}
    BY <2>1, OutputTypes DEF TypeOK
  <2>3. served' \in Commits \cup {NoBuild}
    BY <1>1, <2>1, <2>2, OutputTypes DEF MoveCheckout, TypeOK
  <2> QED BY <1>1, <2>1, <2>3 DEF MoveCheckout, NeedsInstall, TypeOK, PCs, Prepare
<1>2. CASE Verified \/ Preflight \/ InstallUnits
  BY <1>2 DEF Verified, Preflight, InstallUnits, TypeOK, PCs, Prepare, Restore
<1>3. CASE Build
  BY <1>3 DEF Build, TypeOK, PCs, Prepare
<1>4. CASE BuildFails \/ BackupFails
  <2>1. StageType'
    BY <1>4, FailType DEF BuildFails, BackupFails, StageType
  <2> QED BY <1>4, <2>1 DEF BuildFails, BackupFails, TypeOK, StageType, Entry
<1> QED BY <1>1, <1>2, <1>3, <1>4

LEMMA RestartTypes ==
    ASSUME TypeOK,
           \/ RestartAux \/ RestartAuxFails \/ Ready \/ NotReady \/ Reset \/ ResetFails
           \/ Rebuild \/ RebuildFails \/ \E u \in Units : Restart(u) \/ RestartThrows(u)
    PROVE  TypeOK'
<1> USE DEF envVars, diskVars, procVars, opVars, recordVars, histVars
<1>0. /\ from \in Commits /\ to \in Commits /\ log \in Seq(Entry) /\ head \in Commits
      /\ {0, 2, 3} \subseteq 0..Killed /\ exit \in 0..Killed
      /\ {"failed", "deployed", "rolled-back", "failed-rolled-back"} \subseteq Results
      /\ Refusal(exit) \in Results
  BY DEF TypeOK, Entry, Killed, Results, Refusal
<1>1. ASSUME NEW result \in Results, NEW code \in 0..Killed, End(result, code) PROVE StageType'
  BY <1>0, <1>1, EndType DEF StageType
<1>2. CASE RestartAux
  <2>1. CASE RestartNeeded
    BY <1>2, <2>1 DEF RestartAux, TypeOK, PCs
  <2>2. CASE ~RestartNeeded
    <3>1. StageType'
      BY <1>0, <1>1, <1>2, <2>2 DEF RestartAux, Succeeded
    <3> QED BY <1>2, <3>1 DEF RestartAux, TypeOK, StageType, Entry
  <2> QED BY <2>1, <2>2
<1>3. CASE RestartAuxFails
  <2>1. StageType'
    BY <1>3, FailType DEF RestartAuxFails, StageType
  <2> QED BY <1>3, <2>1 DEF RestartAuxFails, TypeOK, StageType, Entry
<1>4. CASE Ready
  <2>1. StageType'
    BY <1>0, <1>1, <1>4 DEF Ready, Succeeded
  <2> QED BY <1>4, <2>1 DEF Ready, TypeOK, StageType, Entry
<1>5. CASE NotReady
  <2>1. CASE pc = "restart"
    BY <1>5, <2>1 DEF NotReady, TypeOK, PCs, Restore, Killed
  <2>2. CASE EndManual(modules, served)
    BY <1>5, <2>2, ManualType DEF NotReady, TypeOK, Entry
  <2> QED BY <1>5, <2>1, <2>2 DEF NotReady
<1>6. CASE Reset
  <2>1. from \in Commits /\ served \in Commits \cup {NoBuild}
    BY DEF TypeOK
  <2>2. served' \in Commits \cup {NoBuild}
    BY <1>6, <2>1, OutputTypes DEF Reset
  <2> QED BY <1>6, <2>1, <2>2 DEF Reset, TypeOK, PCs, Restore
<1>7. CASE ResetFails
  <2>1. EndManual(modules, served)
    BY <1>7 DEF ResetFails
  <2> QED BY <1>7, <2>1, ManualType DEF ResetFails, TypeOK, Entry
<1>8. CASE Rebuild
  <2>1. StageType'
    <3>1. CASE exit = 3
      BY <1>8, <3>1 DEF Rebuild, StageType, TypeOK, Entry, PCs
    <3>2. CASE exit # 3
      BY <1>0, <1>1, <1>8, <3>2 DEF Rebuild
    <3> QED BY <3>1, <3>2
  <2>2. served' \in Commits \cup {NoBuild} /\ cut' \subseteq Pkgs \cup {"build"}
    BY <1>8 DEF Rebuild, TypeOK
  <2> QED BY <1>8, <2>1, <2>2 DEF Rebuild, TypeOK, StageType, Entry
<1>9. CASE RebuildFails
  <2>1. EndManual(modules, NoBuild)
    BY <1>9 DEF RebuildFails
  <2> QED BY <1>9, <2>1, ManualType DEF RebuildFails, TypeOK, Entry
<1>10. ASSUME NEW u \in Units, Restart(u) PROVE TypeOK'
  BY <1>10 DEF Restart, TypeOK
<1>11. ASSUME NEW u \in Units, RestartThrows(u) PROVE TypeOK'
  <2>1. running' \in [Units -> Commits] /\ restarted' \subseteq Units \cup {"aux"}
    BY <1>11 DEF RestartThrows, TypeOK
  <2>2. StageType' /\ torn' \in BOOLEAN /\ cut' \subseteq Pkgs \cup {"build"}
    <3>1. CASE End("failed", 2) /\ torn' = TRUE /\ UNCHANGED cut
      BY <1>0, <1>1, <3>1 DEF TypeOK
    <3>2. CASE EndManual(modules, served)
      BY <3>2, ManualType DEF StageType
    <3> QED BY <1>11, <3>1, <3>2 DEF RestartThrows
  <2> QED BY <1>11, <2>1, <2>2 DEF RestartThrows, TypeOK, StageType, Entry
<1> QED BY <1>2, <1>3, <1>4, <1>5, <1>6, <1>7, <1>8, <1>9, <1>10, <1>11

LEMMA WorldTypes == TypeOK /\ (World \/ Crash \/ UNCHANGED vars) => TypeOK'
<1> SUFFICES ASSUME TypeOK, World \/ Crash \/ UNCHANGED vars PROVE TypeOK'
  OBVIOUS
<1> USE DEF envVars, diskVars, procVars, opVars, recordVars, histVars
<1>1. CASE Push
  <2>1. origin' \in Commits
    BY <1>1, LastAssumption DEF Push, TypeOK, Commits
  <2> QED BY <1>1, <2>1 DEF Push, TypeOK
<1>2. CASE SessionsChange \/ FreezeOrUnfreeze
  BY <1>2, FreezeAssumption DEF SessionsChange, FreezeOrUnfreeze, TypeOK
<1>3. ASSUME NEW u \in Units, SelfRestart(u) PROVE TypeOK'
  BY <1>3 DEF SelfRestart, TypeOK
<1>4. CASE Crash
  <2>1. modules' \in [Pkgs -> Versions]
    <3>1. \A p \in Pkgs, v \in Special : [modules EXCEPT ![p] = v] \in [Pkgs -> Versions]
      BY DEF TypeOK, Versions
    <3> QED BY <1>4, <3>1 DEF Crash, CutModules, TypeOK
  <2>2. served' \in Commits \cup {NoBuild}
    BY <1>4, OutputTypes DEF Crash, CutBuild, TypeOK
  <2>3. cut' \subseteq Pkgs \cup {"build"}
    BY <1>4 DEF Crash, Stale, TypeOK
  <2>4. pc' \in PCs /\ exit' \in 0..Killed /\ todo' = {} /\ quiet' \in 0..(QuietChecks - 1)
    BY <1>4, QuietAssumption DEF Crash, Stop, PCs, Killed
  <2> QED BY <1>4, <2>1, <2>2, <2>3, <2>4 DEF Crash, TypeOK
<1>5. CASE UNCHANGED vars
  BY <1>5 DEF vars, TypeOK
<1> QED BY <1>1, <1>2, <1>3, <1>4, <1>5 DEF World

LEMMA NextTypes == TypeOK /\ [Next]_vars => TypeOK'
BY BeginTypes, GuardTypes, FailTypes, InstallTypes, PrepareTypes, RestartTypes, WorldTypes DEF Next, Step

\* Every reachable state is well typed, for any branch, packages and units: the
\* quiet count, the exit code and the records stay within what the code has.
THEOREM TypeCorrect == Spec => []TypeOK
BY InitTypes, NextTypes, PTL DEF Spec

-----------------------------------------------------------------------------
(***************************************************************************)
(* How an operation ends: what its exit code and its log entry say, and    *)
(* what it leaves on disk.                                                 *)
(***************************************************************************)

\* An operation goes forward when it deploys.
Forward == pc # "idle" /\ mode = "deploy" => from <= to

\* Where the checkout is and what was restarted, so that the exit code will be true.
AtTo == pc \in Prepare \cup {"restart"} => head = to
Untouched == pc \in Before \cup (Prepare \ {"aux"}) => restarted = {}
Covered == pc = "restart" => Units \ todo \subseteq restarted
Returning ==
    /\ pc \in Restore => /\ exit \in {2, 3, 5}
                         /\ exit = 5 => restarted = {}
                         /\ exit = 3 => Units \subseteq restarted
    /\ pc = "rerestart" => Units \subseteq restarted
HonestInv == AtFrom /\ AtTo /\ Forward /\ Untouched /\ Covered /\ Returning /\ ExitCodeHonest

-----------------------------------------------------------------------------
LEMMA BeginHonest ==
    ASSUME ~ToBehind, TypeOK, HonestInv, Begin PROVE HonestInv'
<1> USE DEF HonestInv, AtFrom, AtTo, Forward, Untouched, Covered, Returning, ExitCodeHonest, Before, Prepare,
        Restore, Stop, Record, envVars, diskVars, procVars, opVars, recordVars, histVars
<1>1. ASSUME NEW m, NEW t, NEW os, Plan(m, t, os), m = "deploy" => head <= t PROVE HonestInv'
  BY <1>1 DEF Plan, ComputePlan, NewRecord, AlreadyThere
<1>2. CASE DeployFrozen
  BY <1>2 DEF DeployFrozen
<1>3. ASSUME NEW m, PlanFails(m) PROVE HonestInv'
  BY <1>3 DEF PlanFails, ComputePlan, NewRecord
<1>4. ASSUME NEW t \in Commits, NEW os, Deploy(t, os) PROVE HonestInv'
  <2>1. head <= t
    BY <1>4, LastAssumption DEF Deploy, TypeOK, Commits
  <2> QED BY <1>1, <1>4, <2>1 DEF Deploy
<1>5. ASSUME NEW t, NEW os, Plan("rollback", t, os) PROVE HonestInv'
  BY <1>1, <1>5
<1> HIDE DEF HonestInv
<1> QED BY <1>2, <1>3, <1>4, <1>5 DEF Begin, RollbackTo, RollbackDefault

\* A throw in the inner try: the checkout will go back to from, or never left it.
LEMMA FailHonest ==
    ASSUME HonestInv, pc \in Prepare, NEW code \in {2, 5}, Fail(code), code = 5 => restarted' = {},
           UNCHANGED <<head, from, to, mode>>
    PROVE  HonestInv'
BY DEF HonestInv, AtFrom, AtTo, Forward, Untouched, Covered, Returning, ExitCodeHonest, Before, Prepare, Restore,
       Fail, Moved, End, Stop, Record

LEMMA ManualHonest ==
    ASSUME NEW m, NEW b, EndManual(m, b) PROVE HonestInv'
BY DEF HonestInv, AtFrom, AtTo, Forward, Untouched, Covered, Returning, ExitCodeHonest, Before, Prepare, Restore,
       EndManual, End, Stop

LEMMA GuardHonest ==
    ASSUME HonestInv, GuardPasses \/ GuardHolds \/ GuardRefuses \/ Poll \/ GaveUp PROVE HonestInv'
<1> USE DEF envVars, diskVars, procVars, opVars, recordVars, histVars
<1>1. CASE GuardPasses \/ GuardHolds \/ Poll
  BY <1>1 DEF GuardPasses, GuardHolds, Poll, AfterGuard, HonestInv, AtFrom, AtTo, Forward, Untouched, Covered,
     Returning, ExitCodeHonest, Before, Prepare, Restore
<1>2. CASE GuardRefuses \/ GaveUp
  <2>1. UNCHANGED <<head, from, to, mode, restarted>>
    BY <1>2 DEF GuardRefuses, GaveUp
  <2>2. CASE pc \in {"guard2", "wait2"}
    <3>1. \E code \in {2, 5} : Fail(code)
      BY <1>2, <2>2 DEF GuardRefuses, GaveUp, RefuseAt
    <3>2. restarted' = {} /\ pc \in Prepare
      BY <2>1, <2>2 DEF HonestInv, Untouched, Prepare
    <3> QED BY <2>1, <3>1, <3>2, FailHonest
  <2>3. CASE pc \in {"guard1", "wait1"}
    <3>1. \E code \in {1, 5} : End(Refusal(code), code)
      BY <1>2, <2>3 DEF GuardRefuses, GaveUp, RefuseAt
    <3> QED BY <2>1, <2>3, <3>1 DEF End, Stop, HonestInv, AtFrom, AtTo, Forward, Untouched, Covered,
        Returning, ExitCodeHonest, Before, Prepare, Restore
  <2> QED BY <1>2, <2>2, <2>3 DEF GuardRefuses, GaveUp
<1> QED BY <1>1, <1>2

LEMMA PrepareHonest ==
    ASSUME TypeOK, HonestInv,
           \/ MoveCheckout \/ MoveFails \/ Verified \/ VerifyFails \/ Build \/ BuildFails
           \/ Preflight \/ PreflightFails \/ InstallUnits \/ BackupFails
           \/ \E p \in Pkgs : Install(p) \/ Repair(p) \/ InstallFails(p)
    PROVE  HonestInv'
<1> USE DEF envVars, diskVars, procVars, opVars, recordVars, histVars
<1>1. CASE MoveCheckout
  <2>1. head' = to
    BY <1>1, LastAssumption DEF MoveCheckout, HonestInv, Forward, AtFrom, Before, TypeOK, Commits
  <2> QED BY <1>1, <2>1 DEF MoveCheckout, HonestInv, AtFrom, AtTo, Forward, Untouched, Covered, Returning,
      ExitCodeHonest, Before, Prepare, Restore
<1>2. CASE MoveFails
  BY <1>2 DEF MoveFails, End, Stop, HonestInv, AtFrom, AtTo, Forward, Untouched, Covered, Returning,
     ExitCodeHonest, Before, Prepare, Restore
<1>3. CASE Verified \/ Build \/ Preflight \/ InstallUnits
  BY <1>3 DEF Verified, Build, Preflight, InstallUnits, HonestInv, AtFrom, AtTo, Forward, Untouched, Covered,
     Returning, ExitCodeHonest, Before, Prepare, Restore
<1>4. ASSUME NEW p \in Pkgs, Install(p) \/ Repair(p) PROVE HonestInv'
  BY <1>4 DEF Install, Repair, HonestInv, AtFrom, AtTo, Forward, Untouched, Covered,
     Returning, ExitCodeHonest, Before, Prepare, Restore
<1>5. CASE BuildFails \/ PreflightFails \/ BackupFails
  BY <1>5, FailHonest DEF BuildFails, PreflightFails, BackupFails, Prepare
<1>6. CASE VerifyFails
  BY <1>6, FailHonest, ManualHonest DEF VerifyFails, Prepare
<1>7. ASSUME NEW p \in Pkgs, InstallFails(p) PROVE HonestInv'
  <2>1. CASE pc = "install"
    BY <1>7, <2>1, FailHonest DEF InstallFails, Prepare
  <2>2. CASE pc = "reinstall"
    <3>1. EndManual(modules', served)
      BY <1>7, <2>2 DEF InstallFails
    <3> QED BY <3>1, ManualHonest
  <2> QED BY <1>7, <2>1, <2>2 DEF InstallFails
<1> QED BY <1>1, <1>2, <1>3, <1>4, <1>5, <1>6, <1>7

LEMMA RestartHonest ==
    ASSUME HonestInv,
           \/ RestartAux \/ RestartAuxFails \/ Ready \/ NotReady \/ Reset \/ ResetFails
           \/ Rebuild \/ RebuildFails \/ \E u \in Units : Restart(u) \/ RestartThrows(u)
    PROVE  HonestInv'
<1> USE DEF envVars, diskVars, procVars, opVars, recordVars, histVars
<1>1. CASE RestartAux
  BY <1>1 DEF RestartAux, End, Stop, HonestInv, AtFrom, AtTo, Forward, Untouched, Covered,
     Returning, ExitCodeHonest, Before, Prepare, Restore
<1>2. CASE RestartAuxFails
  BY <1>2, FailHonest DEF RestartAuxFails, Prepare
<1>3. CASE Ready
  BY <1>3 DEF Ready, End, Stop, HonestInv, AtFrom, AtTo, Forward, Untouched, Covered,
     Returning, ExitCodeHonest, Before, Prepare, Restore
<1>4. CASE NotReady
  <2>1. CASE pc = "restart"
    BY <1>4, <2>1 DEF NotReady, HonestInv, AtFrom, AtTo, Forward, Untouched, Covered,
       Returning, ExitCodeHonest, Before, Prepare, Restore
  <2>2. CASE pc = "rerestart"
    BY <1>4, <2>2, ManualHonest DEF NotReady
  <2> QED BY <1>4, <2>1, <2>2 DEF NotReady
<1>5. CASE Reset \/ Rebuild
  BY <1>5 DEF Reset, Rebuild, End, Stop, HonestInv, AtFrom, AtTo, Forward, Untouched, Covered,
     Returning, ExitCodeHonest, Before, Prepare, Restore
<1>6. CASE ResetFails \/ RebuildFails
  BY <1>6, ManualHonest DEF ResetFails, RebuildFails
<1>7. ASSUME NEW u \in Units, Restart(u) PROVE HonestInv'
  BY <1>7 DEF Restart, HonestInv, AtFrom, AtTo, Forward, Untouched, Covered,
     Returning, ExitCodeHonest, Before, Prepare, Restore
<1>8. ASSUME NEW u \in Units, RestartThrows(u) PROVE HonestInv'
  <2>1. CASE pc = "restart"
    <3>1. restarted' # {} /\ pc' = "idle" /\ exit' = 2
      BY <1>8, <2>1 DEF RestartThrows, End, Stop
    <3> QED BY <3>1 DEF HonestInv, AtFrom, AtTo, Forward, Untouched, Covered,
       Returning, ExitCodeHonest, Before, Prepare, Restore
  <2>2. CASE pc = "rerestart"
    BY <1>8, <2>2, ManualHonest DEF RestartThrows
  <2> QED BY <1>8, <2>1, <2>2 DEF RestartThrows
<1> QED BY <1>1, <1>2, <1>3, <1>4, <1>5, <1>6, <1>7, <1>8

LEMMA WorldHonest ==
    ASSUME HonestInv, World \/ Crash \/ UNCHANGED vars PROVE HonestInv'
<1> USE DEF HonestInv, AtFrom, AtTo, Forward, Untouched, Covered, Returning, ExitCodeHonest, Before, Prepare,
        Restore, Stop, envVars, diskVars, procVars, opVars, recordVars, histVars
<1>1. CASE Push \/ SessionsChange \/ FreezeOrUnfreeze
  BY <1>1 DEF Push, SessionsChange, FreezeOrUnfreeze
<1>2. ASSUME NEW u \in Units, SelfRestart(u) PROVE HonestInv'
  BY <1>2 DEF SelfRestart
<1>3. CASE Crash
  BY <1>3 DEF Crash, Killed
<1>4. CASE UNCHANGED vars
  BY <1>4 DEF vars
<1> QED BY <1>1, <1>2, <1>3, <1>4 DEF World

LEMMA HonestNext == ASSUME ~ToBehind, TypeOK, HonestInv, [Next]_vars PROVE HonestInv'
BY BeginHonest, GuardHonest, PrepareHonest, RestartHonest, WorldHonest DEF Next, Step

\* For any branch, packages, units, flags and failures: an operation that exits 0 left
\* the checkout at its target, one that exits 3 put it back and restarted every unit,
\* and one that refused or restarted nothing left it where it was, as long as nobody
\* deploys to a commit behind the checkout (apply in lib/release-ops.js).
THEOREM ExitCodeTheorem ==
    ASSUME ~ToBehind PROVE Spec => []ExitCodeHonest
<1>1. Init => TypeOK /\ HonestInv
  BY InitTypes DEF Init, HonestInv, AtFrom, AtTo, Forward, Untouched, Covered, Returning, ExitCodeHonest,
     Before, Prepare, Restore
<1>2. TypeOK /\ HonestInv /\ [Next]_vars => (TypeOK /\ HonestInv)'
  BY NextTypes, HonestNext
<1>3. HonestInv => ExitCodeHonest
  BY DEF HonestInv
<1> QED BY <1>1, <1>2, <1>3, PTL DEF Spec

-----------------------------------------------------------------------------
(* The log, and where a rollback without a target goes *)

LogForward == \A i \in DOMAIN log : log[i].result = "deployed" => log[i].from <= log[i].to

\* What a step writes into the log: nothing, or an attempt, and "deployed" only
\* of a deploy that is running.
Logged ==
    \/ log' = log
    \/ \E result \in Results, f \in Commits, t \in Commits :
        /\ Record(result, f, t)
        /\ result = "deployed" => pc # "idle" /\ mode = "deploy" /\ f = from /\ t = to

LEMMA EndLogged ==
    ASSUME TypeOK, NEW result \in Results, NEW code, End(result, code),
           result = "deployed" => pc # "idle" /\ mode = "deploy"
    PROVE  Logged
<1>1. from \in Commits /\ to \in Commits
  BY DEF TypeOK
<1> QED BY <1>1 DEF End, Logged

LEMMA FailLogged == ASSUME TypeOK, NEW code \in {1, 2, 5}, Fail(code) PROVE Logged
<1>1. Refusal(code) \in Results /\ Refusal(code) # "deployed"
  BY DEF Refusal, Results
<1>2. CASE Moved
  BY <1>2 DEF Fail, Logged
<1>3. CASE ~Moved
  <2>1. End(Refusal(code), code)
    BY <1>3 DEF Fail
  <2> HIDE DEF End, Refusal
  <2> QED BY <1>1, <2>1, EndLogged
<1> QED BY <1>2, <1>3

LEMMA ManualLogged == ASSUME TypeOK, NEW m, NEW b, EndManual(m, b) PROVE Logged
<1>1. PICK result \in {"rollback-failed", "restore-failed"} : End(result, 4)
  BY DEF EndManual
<1>2. result \in Results /\ result # "deployed"
  BY DEF Results
<1> QED BY <1>1, <1>2, EndLogged

LEMMA StepLogged == ASSUME TypeOK, Step \/ GaveUp PROVE Logged
<1>0. \A code \in {1, 2, 3, 5} : Refusal(code) \in Results /\ Refusal(code) # "deployed"
  BY DEF Refusal, Results
<1>1. ASSUME NEW code \in {1, 2, 5}, NEW first, RefuseAt(first, code) PROVE Logged
  <2>1. End(Refusal(code), code) \/ Fail(code)
    BY <1>1 DEF RefuseAt
  <2> HIDE DEF End, Fail, Refusal
  <2> QED BY <1>0, <2>1, EndLogged, FailLogged
<1>2. CASE GuardRefuses \/ GaveUp
  BY <1>1, <1>2 DEF GuardRefuses, GaveUp
<1>3. CASE GuardPasses \/ GuardHolds \/ Poll \/ MoveCheckout \/ Verified \/ Build \/ Preflight \/ InstallUnits \/ Reset
  BY <1>3 DEF GuardPasses, GuardHolds, Poll, MoveCheckout, Verified, Build, Preflight, InstallUnits, Reset, Logged
<1>4. CASE MoveFails
  <2>1. End("failed", 2) /\ "failed" \in Results
    BY <1>4 DEF MoveFails, Results
  <2> QED BY <2>1, EndLogged
<1>5. CASE VerifyFails \/ BuildFails \/ PreflightFails \/ BackupFails \/ RestartAuxFails
  <2>1. Fail(2) \/ EndManual(modules, served)
    BY <1>5 DEF VerifyFails, BuildFails, PreflightFails, BackupFails, RestartAuxFails
  <2> QED BY <2>1, FailLogged, ManualLogged
<1>6. ASSUME NEW p \in Pkgs, Install(p) \/ Repair(p) \/ InstallFails(p) PROVE Logged
  <2>1. log' = log \/ Fail(2) \/ EndManual(modules', served)
    BY <1>6 DEF Install, Repair, InstallFails
  <2> QED BY <2>1, FailLogged, ManualLogged DEF Logged
<1>7. CASE RestartAux \/ Ready
  <2>1. pc # "idle"
    BY <1>7 DEF RestartAux, Ready
  <2>2. Succeeded \in Results /\ (Succeeded = "deployed" => mode = "deploy")
    BY DEF Succeeded, Results
  <2>3. log' = log \/ End(Succeeded, 0) \/ End("failed-rolled-back", 3)
    BY <1>7 DEF RestartAux, Ready
  <2>4. "failed-rolled-back" \in Results
    BY DEF Results
  <2> HIDE DEF Succeeded, End
  <2> QED BY <2>1, <2>2, <2>3, <2>4, EndLogged DEF Logged
<1>8. CASE NotReady \/ ResetFails \/ RebuildFails
  <2>1. log' = log \/ EndManual(modules, served) \/ EndManual(modules, NoBuild)
    BY <1>8 DEF NotReady, ResetFails, RebuildFails
  <2> QED BY <2>1, ManualLogged DEF Logged
<1>9. CASE Rebuild
  <2>1. log' = log \/ \E result \in Results \ {"deployed"} : End(result, exit)
    BY <1>9 DEF Rebuild, Refusal, Results
  <2> QED BY <2>1, EndLogged DEF Logged
<1>10. ASSUME NEW u \in Units, Restart(u) \/ RestartThrows(u) PROVE Logged
  <2>1. log' = log \/ End("failed", 2) \/ EndManual(modules, served)
    BY <1>10 DEF Restart, RestartThrows
  <2>2. "failed" \in Results
    BY DEF Results
  <2> QED BY <2>1, <2>2, EndLogged, ManualLogged DEF Logged
<1> QED BY <1>2, <1>3, <1>4, <1>5, <1>6, <1>7, <1>8, <1>9, <1>10 DEF Step

LEMMA NextLogged == ASSUME TypeOK, [Next]_vars PROVE Logged
<1>1. ASSUME NEW m, NEW t \in Commits, NEW os, Plan(m, t, os) PROVE Logged
  <2>1. log' = log \/ Record("units-installed", head, t)
    BY <1>1 DEF Plan, AlreadyThere
  <2>2. "units-installed" \in Results /\ head \in Commits
    BY DEF Results, TypeOK
  <2> QED BY <2>1, <2>2 DEF Logged
<1>2. \A t \in PreviousFor(head) : t \in Commits
  <2>1. log \in Seq(Entry)
    BY DEF TypeOK, Entry
  <2>2. \A i \in DOMAIN log : log[i] \in Entry
    BY <2>1
  <2>3. \A i \in DOMAIN log : log[i].from \in Commits
    BY <2>2 DEF Entry
  <2> QED BY <2>3 DEF PreviousFor, DeploysTo
<1>3. ASSUME NEW m, PlanFails(m) PROVE Logged
  <2>1. Record("failed", head, head) /\ "failed" \in Results /\ head \in Commits
    BY <1>3 DEF PlanFails, Results, TypeOK
  <2> QED BY <2>1 DEF Logged
<1>4. CASE Begin
  BY <1>1, <1>2, <1>3, <1>4 DEF Begin, Deploy, RollbackTo, RollbackDefault, DeployFrozen, Logged
<1>5. CASE World \/ Crash \/ UNCHANGED vars
  BY <1>5 DEF World, Push, SessionsChange, FreezeOrUnfreeze, SelfRestart, Crash, vars, Logged
<1> QED BY <1>4, <1>5, StepLogged DEF Next

LEMMA LogForwardNext == ASSUME TypeOK, Forward, LogForward, [Next]_vars PROVE LogForward'
<1>1. Logged
  BY NextLogged
<1>2. CASE log' = log
  BY <1>2 DEF LogForward
<1>3. ASSUME NEW result \in Results, NEW f \in Commits, NEW t \in Commits, Record(result, f, t),
             result = "deployed" => pc # "idle" /\ mode = "deploy" /\ f = from /\ t = to
      PROVE  LogForward'
  <2>1. result = "deployed" => f <= t
    BY <1>3 DEF Forward
  <2>2. log \in Seq(Entry) /\ [result |-> result, from |-> f, to |-> t] \in Entry
    BY DEF TypeOK, Entry
  <2>3. log' = Append(log, [result |-> result, from |-> f, to |-> t])
    BY <1>3 DEF Record
  <2>4. ASSUME NEW i \in DOMAIN log', log'[i].result = "deployed" PROVE log'[i].from <= log'[i].to
    <3>1. CASE i \in DOMAIN log
      <4>1. log'[i] = log[i]
        BY <2>2, <2>3, <3>1
      <4> QED BY <2>4, <3>1, <4>1 DEF LogForward
    <3>2. CASE i \notin DOMAIN log
      <4>1. log'[i] = [result |-> result, from |-> f, to |-> t]
        BY <2>2, <2>3, <3>2
      <4> QED BY <2>1, <2>4, <4>1
    <3> QED BY <3>1, <3>2
  <2> QED BY <2>4 DEF LogForward
<1> QED BY <1>1, <1>2, <1>3 DEF Logged

\* For any history of deploys, rollbacks, failures and kills, as long as nobody
\* deploys to a commit behind the checkout: a rollback without a target never goes
\* forward (previousFor in lib/releases.js).
THEOREM RollbackTheorem ==
    ASSUME ~ToBehind PROVE Spec => []RollbackGoesBack
<1> DEFINE Inv == TypeOK /\ HonestInv /\ LogForward
<1>1. Init => Inv
  BY InitTypes DEF Init, HonestInv, AtFrom, AtTo, Forward, Untouched, Covered, Returning, ExitCodeHonest,
     Before, Prepare, Restore, LogForward
<1>2. Inv /\ [Next]_vars => Inv'
  BY NextTypes, HonestNext, LogForwardNext DEF HonestInv
<1>3. Inv => RollbackGoesBack
  <2> SUFFICES ASSUME TypeOK, LogForward, NEW i \in DeploysTo(head) PROVE log[i].from < head
    BY DEF RollbackGoesBack, PreviousFor
  <2>1. i \in DOMAIN log /\ log[i].result = "deployed" /\ log[i].to = head /\ log[i].from # head
    BY DEF DeploysTo
  <2>2. log[i] \in Entry
    <3>1. log \in Seq(Entry)
      BY DEF TypeOK, Entry
    <3> QED BY <2>1, <3>1
  <2>3. log[i].from \in Int /\ log[i].to \in Int
    BY <2>2, LastAssumption DEF Entry, Commits
  <2> QED BY <2>1, <2>3 DEF LogForward
<1> HIDE DEF Inv
<1> QED BY <1>1, <1>2, <1>3, PTL DEF Spec

-----------------------------------------------------------------------------
(* What an operation leaves on disk *)

\* Package p is known to be cut, or holds the dependencies of commit c.
Holds(p, c) == p \in cut \/ modules[p] = DepsOf[c][p]
SameDeps(p) == DepsOf[from][p] = DepsOf[head][p]

PastInstall == (Prepare \ {"install"}) \cup {"restart"}
PastBuild == (Prepare \ {"install", "build"}) \cup {"restart"}

\* node_modules at every stage: what was installed is recorded, or makes no difference.
PkgInv(p) ==
    /\ pc \in {"idle", "rebuild", "rerestart"} \cup Before \cup PastInstall => Holds(p, head)
    /\ pc = "install" => IF p \in todo THEN Holds(p, from) ELSE Holds(p, head)
    /\ (pc = "install" /\ p \notin todo) \/ pc \in PastInstall => p \in installed \/ SameDeps(p)
    /\ pc = "reset" => p \in installed \/ Holds(p, from)
    /\ pc = "reinstall" => p \in todo \/ Holds(p, head)

\* Build output b belongs to commit c, built from it or as git leaves it.
Fits(c, b) == b \in {c, LeftByGit(c)}

\* The build output at every stage: until something is built, going back to from leaves one
\* that fits it.
BuildInv ==
    HasBuild =>
        /\ pc \in PastBuild => built
        /\ pc \in Before \cup {"install", "build"} => ~built
        /\ "build" \notin cut =>
            /\ pc \in {"idle", "rerestart"} \cup Before => served = head \/ (~built /\ Fits(head, served))
            /\ pc \in PastBuild => served = head
            /\ pc \in {"install", "build", "reset"} => built \/ Fits(from, CheckedOut(from, served))
            /\ pc \in {"install", "build"} /\ from = to => Fits(from, served)
            /\ pc \in {"reinstall", "rebuild"} => built \/ Fits(from, served)
FilesInv == AtFrom /\ FromOrTo /\ DOMAIN modules = Pkgs /\ (\A p \in Pkgs : PkgInv(p)) /\ BuildInv

\* Checking commit c out, git leaves the output it leaves at c, or touches none.
LEMMA CheckedOutFits ==
    ASSUME head \in Commits, NEW c \in Commits, NEW b
    PROVE  \/ CheckedOut(c, b) = LeftByGit(c)
           \/ OutputOf[c] = Untracked /\ OutputOf[head] = Untracked /\ CheckedOut(c, b) = b
BY DEF CheckedOut, LeftByGit

LEMMA ClearedFits ==
    ASSUME head \in Commits, to \in Commits
    PROVE  \/ Cleared = LeftByGit(head)
           \/ OutputOf[head] = Untracked /\ OutputOf[to] = Untracked /\ Cleared = served
BY DEF Cleared, LeftByGit

\* A move can be undone: what it leaves of the output fits plan.from again once from is back.
LEMMA MoveFits ==
    ASSUME TypeOK, AtFrom, MoveCheckout, Fits(head, served)
    PROVE  Fits(from, CheckedOut(from, served)') /\ (from = to => Fits(from, served'))
<1>1. head = from /\ head' \in {from, to} /\ from \in Commits /\ to \in Commits /\ head' \in Commits
  BY DEF MoveCheckout, AtFrom, Before, TypeOK
<1>2. from' = from /\ served' = IF Moved THEN CheckedOut(head', Cleared) ELSE served
  BY DEF MoveCheckout, opVars
<1>3. from = to => Fits(from, served')
  BY <1>1, <1>2 DEF Moved
<1>4. CASE OutputOf[from] # Untracked
  <2>1. CheckedOut(from, served)' = OutputOf[from]
    BY <1>2, <1>4 DEF CheckedOut
  <2> QED BY <1>3, <1>4, <2>1 DEF Fits, LeftByGit
<1>5. CASE OutputOf[from] = Untracked /\ OutputOf[head'] # Untracked
  <2>1. CheckedOut(from, served)' = NoBuild
    BY <1>2, <1>5 DEF CheckedOut
  <2> QED BY <1>1, <1>3, <1>5, <2>1 DEF Fits, LeftByGit
<1>6. CASE OutputOf[from] = Untracked /\ OutputOf[head'] = Untracked
  <2>1. CheckedOut(from, served)' = served'
    BY <1>2, <1>6 DEF CheckedOut
  <2>2. Moved => served' = Cleared
    BY <1>1, <1>2, <1>6 DEF CheckedOut
  <2>3. Fits(from, served')
    BY <1>1, <1>2, <2>2, ClearedFits DEF Fits
  <2> QED BY <1>3, <2>1, <2>3
<1> QED BY <1>4, <1>5, <1>6

LEMMA BeginFiles == ASSUME FilesInv, Begin PROVE FilesInv'
<1> USE DEF FilesInv, PkgInv, BuildInv, Fits, CheckedOut, AtFrom, FromOrTo, Holds, SameDeps, PastInstall, PastBuild, Before, Prepare,
        Restore, Stop, Record, envVars, diskVars, procVars, opVars, recordVars, histVars
<1>1. ASSUME NEW m, NEW t, NEW os, Plan(m, t, os) PROVE FilesInv'
  BY <1>1 DEF Plan, ComputePlan, NewRecord, AlreadyThere
<1>2. CASE DeployFrozen
  BY <1>2 DEF DeployFrozen
<1>3. ASSUME NEW m, PlanFails(m) PROVE FilesInv'
  BY <1>3 DEF PlanFails, ComputePlan, NewRecord
<1> HIDE DEF FilesInv
<1> QED BY <1>1, <1>2, <1>3 DEF Begin, Deploy, RollbackTo, RollbackDefault

\* A throw after the installs: what is recorded covers what differs from plan.from.
LEMMA FailFiles ==
    ASSUME FilesInv, pc \in Prepare, NEW code, Fail(code), UNCHANGED <<head, modules, from, to, installed>>,
           cut \subseteq cut',
           \/ UNCHANGED <<served, built, cut>>
           \/ UNCHANGED <<served, built>> /\ ("build" \in cut' => "build" \in cut)
           \/ built' /\ "build" \in cut'
    PROVE  FilesInv'
BY DEF FilesInv, PkgInv, BuildInv, Fits, CheckedOut, AtFrom, FromOrTo, Holds, SameDeps, PastInstall, PastBuild, Before, Prepare, Restore,
       Fail, Moved, End, Stop, Record

\* Exit 4, a kill: cut takes in whatever does not match the checkout.
LEMMA StaleFiles ==
    ASSUME pc' = "idle", UNCHANGED head, DOMAIN modules' = Pkgs, cut' = cut \cup Stale(modules', served')
    PROVE  FilesInv'
BY DEF FilesInv, PkgInv, BuildInv, Fits, CheckedOut, AtFrom, FromOrTo, Holds, SameDeps, PastInstall, PastBuild, Before, Prepare, Restore, Stale

LEMMA ManualFiles ==
    ASSUME EndManual(modules', served'), UNCHANGED head, DOMAIN modules' = Pkgs PROVE FilesInv'
BY StaleFiles DEF EndManual, End, Stop

LEMMA GuardFiles ==
    ASSUME FilesInv, GuardPasses \/ GuardHolds \/ GuardRefuses \/ Poll \/ GaveUp PROVE FilesInv'
<1> USE DEF envVars, diskVars, procVars, opVars, recordVars, histVars
<1>1. CASE GuardPasses \/ GuardHolds \/ Poll
  BY <1>1 DEF GuardPasses, GuardHolds, Poll, AfterGuard, FilesInv, PkgInv, BuildInv, Fits, CheckedOut, AtFrom, FromOrTo, Holds, SameDeps,
     PastInstall, PastBuild, Before, Prepare, Restore
<1>2. CASE GuardRefuses \/ GaveUp
  <2>1. UNCHANGED <<head, modules, served, from, to, installed, built, cut>>
    BY <1>2 DEF GuardRefuses, GaveUp
  <2>2. CASE pc \in {"guard2", "wait2"}
    <3>1. \E code \in {2, 5} : Fail(code)
      BY <1>2, <2>2 DEF GuardRefuses, GaveUp, RefuseAt
    <3> QED BY <2>1, <2>2, <3>1, FailFiles DEF Prepare
  <2>3. CASE pc \in {"guard1", "wait1"}
    <3>1. \E code \in {1, 5} : End(Refusal(code), code)
      BY <1>2, <2>3 DEF GuardRefuses, GaveUp, RefuseAt
    <3> QED BY <2>1, <2>3, <3>1 DEF End, Stop, FilesInv, PkgInv, BuildInv, Fits, CheckedOut, AtFrom, FromOrTo, Holds, SameDeps,
        PastInstall, PastBuild, Before, Prepare, Restore
  <2> QED BY <1>2, <2>2, <2>3 DEF GuardRefuses, GaveUp
<1> QED BY <1>1, <1>2

\* The steps in which node_modules of one package change.
LEMMA InstallFiles ==
    ASSUME FilesInv, NEW p \in Pkgs, Install(p) \/ Repair(p) \/ InstallFails(p) PROVE FilesInv'
<1> USE DEF envVars, diskVars, procVars, opVars, recordVars, histVars
<1>1. CASE Install(p)
  <2>1. AtFrom' /\ FromOrTo' /\ DOMAIN modules' = Pkgs /\ BuildInv'
    BY <1>1, PkgsAssumption DEF Install, FilesInv, BuildInv, Fits, CheckedOut, AtFrom, FromOrTo, PastBuild, Before, Prepare, Restore
  <2>2. ASSUME NEW q \in Pkgs PROVE PkgInv(q)'
    <3>1. PkgInv(q) /\ DOMAIN modules = Pkgs
      BY DEF FilesInv
    <3> QED BY <1>1, <3>1 DEF Install, PkgInv, Holds, SameDeps, PastInstall, Before, Prepare
  <2> QED BY <2>1, <2>2 DEF FilesInv
<1>2. CASE Repair(p)
  <2>1. AtFrom' /\ FromOrTo' /\ DOMAIN modules' = Pkgs /\ BuildInv'
    BY <1>2, PkgsAssumption DEF Repair, FilesInv, BuildInv, Fits, CheckedOut, AtFrom, FromOrTo, PastBuild, Before, Prepare, Restore
  <2>2. ASSUME NEW q \in Pkgs PROVE PkgInv(q)'
    <3>1. PkgInv(q) /\ DOMAIN modules = Pkgs
      BY DEF FilesInv
    <3> QED BY <1>2, <3>1 DEF Repair, PkgInv, Holds, SameDeps, PastInstall, Before, Prepare
  <2> QED BY <2>1, <2>2 DEF FilesInv
<1>3. CASE InstallFails(p) /\ pc = "install"
  <2>1. PICK v : /\ modules' = [modules EXCEPT ![p] = v]
                 /\ Fail(2) /\ cut' = IF v = modules[p] THEN cut ELSE cut \cup {p}
    BY <1>3 DEF InstallFails
  <2>2. UNCHANGED <<head, served, from, to, installed, built>>
    BY <1>3 DEF InstallFails
  <2> QED BY <1>3, <2>1, <2>2 DEF Fail, Moved, End, Stop, FilesInv, PkgInv, BuildInv, Fits, CheckedOut, AtFrom, FromOrTo, Holds, SameDeps,
      PastInstall, PastBuild, Before, Prepare, Restore
<1>4. CASE InstallFails(p) /\ pc = "reinstall"
  <2>1. EndManual(modules', served') /\ UNCHANGED head /\ DOMAIN modules' = Pkgs
    BY <1>4 DEF InstallFails, FilesInv
  <2> QED BY <2>1, ManualFiles
<1> QED BY <1>1, <1>2, <1>3, <1>4 DEF InstallFails

LEMMA PrepareFiles ==
    ASSUME TypeOK, FilesInv,
           \/ MoveCheckout \/ MoveFails \/ Verified \/ VerifyFails \/ Build \/ BuildFails
           \/ Preflight \/ PreflightFails \/ InstallUnits \/ BackupFails
    PROVE  FilesInv'
<1> USE DEF envVars, diskVars, procVars, opVars, recordVars, histVars
<1>1. CASE MoveCheckout
  <2>0. HasBuild /\ "build" \notin cut => Fits(head, served)
    BY <1>1 DEF MoveCheckout, FilesInv, BuildInv, Fits, Before
  <2>1. AtFrom' /\ FromOrTo' /\ DOMAIN modules' = Pkgs
    BY <1>1 DEF MoveCheckout, FilesInv, AtFrom, FromOrTo, Before, Prepare
  <2>4. AtFrom
    BY DEF FilesInv
  <2>3. BuildInv'
    <3>1. pc' = "install" /\ UNCHANGED <<from, to, built, cut>> /\ (HasBuild => ~built)
      BY <1>1 DEF MoveCheckout, FilesInv, BuildInv, Before
    <3>2. HasBuild /\ "build" \notin cut =>
            Fits(from, CheckedOut(from, served)') /\ (from = to => Fits(from, served'))
      BY <1>1, <2>0, <2>4, MoveFits
    <3>3. Fits(from, CheckedOut(from, served)') = Fits(from, CheckedOut(from, served))'
      BY <3>1 DEF Fits, LeftByGit
    <3>4. Fits(from, served') = Fits(from, served)'
      BY <3>1 DEF Fits, LeftByGit
    <3> HIDE DEF Fits, CheckedOut
    <3> QED BY <3>1, <3>2, <3>3, <3>4 DEF BuildInv, PastBuild, Before, Prepare
  <2>2. ASSUME NEW p \in Pkgs PROVE PkgInv(p)'
    <3>1. PkgInv(p) /\ head = from /\ head' \in {from, to}
      BY <1>1 DEF MoveCheckout, FilesInv, AtFrom, Before
    <3>2. p \in NeedsInstall \/ (DepsOf[from][p] = DepsOf[head'][p] /\ modules[p] # "missing")
      BY <3>1 DEF NeedsInstall
    <3> HIDE DEF NeedsInstall
    <3> QED BY <1>1, <3>1, <3>2 DEF MoveCheckout, PkgInv, Holds, SameDeps, PastInstall, Before, Prepare
  <2> QED BY <2>1, <2>2, <2>3 DEF FilesInv
<1>2. CASE MoveFails
  <2>1. HasBuild /\ "build" \notin cut => ~built /\ Fits(head, served')
    <3>1. Cleared = LeftByGit(head) \/ Cleared = served
      BY ClearedFits DEF TypeOK
    <3> QED BY <1>2, <3>1 DEF MoveFails, FilesInv, BuildInv, Fits, Before
  <2> QED BY <1>2, <2>1 DEF MoveFails, End, Stop, FilesInv, PkgInv, BuildInv, Fits, CheckedOut, AtFrom, FromOrTo, Holds, SameDeps,
     PastInstall, PastBuild, Before, Prepare, Restore
<1>3. CASE Verified
  BY <1>3 DEF Verified, FilesInv, PkgInv, BuildInv, Fits, CheckedOut, AtFrom, FromOrTo, Holds, SameDeps,
     PastInstall, PastBuild, Before, Prepare, Restore
<1>4. CASE Build
  <2>1. AtFrom' /\ FromOrTo' /\ DOMAIN modules' = Pkgs /\ BuildInv'
    BY <1>4 DEF Build, FilesInv, BuildInv, Fits, CheckedOut, AtFrom, FromOrTo, PastBuild, Before, Prepare, Restore
  <2>2. ASSUME NEW p \in Pkgs PROVE PkgInv(p)'
    BY <1>4, PkgsAssumption DEF Build, FilesInv, PkgInv, Holds, SameDeps, PastInstall, Before, Prepare
  <2> QED BY <2>1, <2>2 DEF FilesInv
<1>5. CASE Preflight \/ InstallUnits
  BY <1>5 DEF Preflight, InstallUnits, FilesInv, PkgInv, BuildInv, Fits, CheckedOut, AtFrom, FromOrTo, Holds, SameDeps,
     PastInstall, PastBuild, Before, Prepare, Restore
<1>6. CASE BuildFails \/ PreflightFails \/ BackupFails
  BY <1>6, FailFiles DEF BuildFails, PreflightFails, BackupFails, Prepare
<1>7. CASE VerifyFails
  <2>1. CASE pc = "install"
    BY <1>7, <2>1, FailFiles DEF VerifyFails, Prepare
  <2>2. CASE pc = "reinstall"
    BY <1>7, <2>2, ManualFiles DEF VerifyFails, FilesInv
  <2> QED BY <1>7, <2>1, <2>2 DEF VerifyFails
<1> QED BY <1>1, <1>2, <1>3, <1>4, <1>5, <1>6, <1>7

LEMMA RestartFiles ==
    ASSUME TypeOK, FilesInv,
           \/ RestartAux \/ RestartAuxFails \/ Ready \/ NotReady \/ Reset \/ ResetFails
           \/ Rebuild \/ RebuildFails \/ \E u \in Units : Restart(u) \/ RestartThrows(u)
    PROVE  FilesInv'
<1> USE DEF envVars, diskVars, procVars, opVars, recordVars, histVars
<1>1. CASE RestartAux \/ Ready
  BY <1>1 DEF RestartAux, Ready, End, Stop, FilesInv, PkgInv, BuildInv, Fits, CheckedOut, AtFrom, FromOrTo, Holds, SameDeps,
     PastInstall, PastBuild, Before, Prepare, Restore
<1>2. CASE RestartAuxFails
  BY <1>2, FailFiles DEF RestartAuxFails, Prepare
<1>3. CASE NotReady
  <2>1. CASE pc = "restart"
    BY <1>3, <2>1 DEF NotReady, FilesInv, PkgInv, BuildInv, Fits, CheckedOut, AtFrom, FromOrTo, Holds, SameDeps,
       PastInstall, PastBuild, Before, Prepare, Restore
  <2>2. CASE pc = "rerestart"
    BY <1>3, <2>2, ManualFiles DEF NotReady, FilesInv
  <2> QED BY <1>3, <2>1, <2>2 DEF NotReady
<1>4. CASE Reset
  <2>1. served' = CheckedOut(from, served) /\ head' = from
    BY <1>4 DEF Reset
  <2> QED BY <1>4, <2>1 DEF Reset, FilesInv, PkgInv, BuildInv, Fits, AtFrom, FromOrTo, Holds, SameDeps,
     PastInstall, PastBuild, Before, Prepare, Restore
<1>5. CASE Rebuild
  <2>1. AtFrom' /\ FromOrTo' /\ DOMAIN modules' = Pkgs /\ BuildInv'
    BY <1>5 DEF Rebuild, End, Stop, FilesInv, BuildInv, Fits, CheckedOut, AtFrom, FromOrTo, PastBuild, Before, Prepare, Restore
  <2>2. ASSUME NEW p \in Pkgs PROVE PkgInv(p)'
    BY <1>5, PkgsAssumption DEF Rebuild, End, Stop, FilesInv, PkgInv, Holds, SameDeps, PastInstall, Before, Prepare
  <2> QED BY <2>1, <2>2 DEF FilesInv
<1>6. CASE ResetFails \/ RebuildFails
  BY <1>6, ManualFiles DEF ResetFails, RebuildFails, FilesInv
<1>7. ASSUME NEW u \in Units, Restart(u) PROVE FilesInv'
  BY <1>7 DEF Restart, FilesInv, PkgInv, BuildInv, Fits, CheckedOut, AtFrom, FromOrTo, Holds, SameDeps,
     PastInstall, PastBuild, Before, Prepare, Restore
<1>8. ASSUME NEW u \in Units, RestartThrows(u) PROVE FilesInv'
  <2>1. CASE pc = "restart"
    BY <1>8, <2>1 DEF RestartThrows, End, Stop, FilesInv, PkgInv, BuildInv, Fits, CheckedOut, AtFrom, FromOrTo, Holds, SameDeps,
       PastInstall, PastBuild, Before, Prepare, Restore
  <2>2. CASE pc = "rerestart"
    BY <1>8, <2>2, ManualFiles DEF RestartThrows, FilesInv
  <2> QED BY <1>8, <2>1, <2>2 DEF RestartThrows
<1> QED BY <1>1, <1>2, <1>3, <1>4, <1>5, <1>6, <1>7, <1>8

LEMMA WorldFiles == ASSUME FilesInv, World \/ Crash \/ UNCHANGED vars PROVE FilesInv'
<1> USE DEF envVars, diskVars, procVars, opVars, recordVars, histVars
<1>1. CASE Crash
  <2>1. DOMAIN modules' = Pkgs
    BY <1>1 DEF Crash, CutModules, FilesInv
  <2> QED BY <1>1, <2>1, StaleFiles DEF Crash, Stop
<1>2. CASE World \/ UNCHANGED vars
  <2>1. UNCHANGED <<head, modules, served, from, to, installed, built, cut, pc, todo>>
    BY <1>2 DEF World, Push, SessionsChange, FreezeOrUnfreeze, SelfRestart, vars
  <2> QED BY <2>1 DEF FilesInv, PkgInv, BuildInv, Fits, CheckedOut, AtFrom, FromOrTo, Holds, SameDeps
<1> QED BY <1>1, <1>2

LEMMA FilesNext == ASSUME TypeOK, FilesInv, [Next]_vars PROVE FilesInv'
BY BeginFiles, GuardFiles, InstallFiles, PrepareFiles, RestartFiles, WorldFiles DEF Next, Step

\* For any branch, packages, failures and kills: between operations node_modules and
\* the build belong to the checkout, except what a failed or killed step is known to
\* have left half done (restoreCheckout in lib/release-ops.js reinstalls only what
\* was recorded, and that is enough).  Only build output that git tracks may, after an
\* operation that never built, be what git has for the commit instead of its build.
THEOREM FilesTheorem == Spec => []FilesMatch
<1>1. Init => TypeOK /\ FilesInv
  <2>1. 0 \in Commits
    BY LastAssumption DEF Commits
  <2>2. DOMAIN DepsOf[0] = Pkgs
    BY <2>1, MapsAssumption
  <2> QED BY <2>2, InitTypes DEF Init, FilesInv, PkgInv, BuildInv, Fits, CheckedOut, AtFrom, FromOrTo, Holds, SameDeps,
      PastInstall, PastBuild, Before, Prepare, Restore
<1>2. TypeOK /\ FilesInv /\ [Next]_vars => (TypeOK /\ FilesInv)'
  BY NextTypes, FilesNext
<1>3. FilesInv => FilesMatch
  BY DEF FilesInv, PkgInv, BuildInv, Fits, Holds, FilesMatch
<1> QED BY <1>1, <1>2, <1>3, PTL DEF Spec
=============================================================================
