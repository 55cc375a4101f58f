------------------------- MODULE DeployControl_proof -------------------------
(* Machine-checked proofs about what guards the deploys of a host: the locks   *)
(* of DeployLocks, for any operations and services, and the controller of      *)
(* Reconcile, for any services, branches, faults and operators.                *)
EXTENDS DeployLocks, Reconcile, TLAPS

(* The controller and the freezes *)

LEMMA OrderShape ==
    /\ Len(Order) \in Nat \ {0} /\ DOMAIN Order = 1..Len(Order)
    /\ \A i \in DOMAIN Order : Order[i] \in Inventory
<1>1. Len(Order) \in Nat /\ DOMAIN Order = 1..Len(Order)
  BY OrderAssumption
<1>2. Len(Order) # 0
  BY OrderAssumption
<1> QED BY <1>1, <1>2 DEF Inventory

\* A pass goes on within the inventory.
LEMMA FinishTypes ==
    ASSUME ControllerTypeOK, NEW action \in Actions, FinishService(action)
    PROVE  report' \in [Inventory -> Actions] /\ stage' \in Stages /\ at' \in DOMAIN Order
<1>1. Svc \in Inventory /\ 1 \in DOMAIN Order
  BY OrderShape DEF Svc, ControllerTypeOK
<1>2. at' \in DOMAIN Order
  <2>1. CASE at < Len(Order)
    BY <2>1, OrderShape DEF FinishService, ControllerTypeOK
  <2>2. CASE ~(at < Len(Order))
    BY <1>1, <2>2 DEF FinishService
  <2> QED BY <2>1, <2>2
<1> QED BY <1>1, <1>2 DEF FinishService, ControllerTypeOK, Stages

LEMMA ControllerInitTypes == ControllerInit => ControllerTypeOK
<1> SUFFICES ASSUME ControllerInit PROVE ControllerTypeOK
  OBVIOUS
<1>1. 0 \in Commits /\ 1 \in DOMAIN Order
  BY OrderShape, LastAssumption DEF Commits
<1>2. ci \in [Inventory \X Commits -> Verdicts]
  BY DEF ControllerInit, Verdicts
<1>3. report \in [Inventory -> Actions] /\ stage \in Stages
  BY DEF ControllerInit, Actions, Stages
<1> QED BY <1>1, <1>2, <1>3 DEF ControllerInit, ControllerTypeOK

LEMMA PassTypes == ControllerTypeOK /\ (StartPass \/ Pass \/ TimedOut \/ Killed) => ControllerTypeOK'
<1> SUFFICES ASSUME ControllerTypeOK, StartPass \/ Pass \/ TimedOut \/ Killed PROVE ControllerTypeOK'
  OBVIOUS
<1>0. /\ Svc \in Inventory /\ 1 \in DOMAIN Order
      /\ head[Svc] \in Commits /\ origin[Svc] \in Commits /\ plan[1] \in Commits /\ target \in Commits
  BY OrderShape DEF Svc, ControllerTypeOK
<1> USE DEF worldVars, freezeVars
<1>1. CASE StartPass
  BY <1>0, <1>1 DEF StartPass, ControllerTypeOK, Stages, Actions
<1>2. CASE PlanService
  <2>1. report' \in [Inventory -> Actions] /\ stage' \in Stages /\ at' \in DOMAIN Order
    <3>1. CASE \E action \in {"current", "docs-only", "waiting"} : FinishService(action)
      BY <3>1, FinishTypes DEF Actions
    <3>2. CASE stage' = "ci" /\ UNCHANGED <<at, report>>
      BY <3>2 DEF ControllerTypeOK, Stages
    <3> QED BY <1>2, <3>1, <3>2 DEF PlanService
  <2> QED BY <1>0, <1>2, <2>1 DEF PlanService, ControllerTypeOK
<1>3. CASE PlanThrows
  BY <1>3, FinishTypes DEF PlanThrows, ControllerTypeOK, Actions
<1>4. CASE ReadCi
  <2>1. report' \in [Inventory -> Actions] /\ stage' \in Stages /\ at' \in DOMAIN Order
    <3>1. CASE \E action \in {"blocked", "waiting"} : FinishService(action)
      BY <3>1, FinishTypes DEF Actions
    <3>2. CASE stage' = "deploy" /\ UNCHANGED <<at, report>>
      BY <3>2 DEF ControllerTypeOK, Stages
    <3> QED BY <1>4, <3>1, <3>2 DEF ReadCi
  <2> QED BY <1>4, <2>1 DEF ReadCi, ControllerTypeOK
<1>5. CASE StartDeploy
  <2>1. report' \in [Inventory -> Actions] /\ stage' \in Stages /\ at' \in DOMAIN Order
    <3>1. CASE \E action \in {"error", "deployed"} : FinishService(action)
      BY <3>1, FinishTypes DEF Actions
    <3>2. CASE stage' = "guard1" /\ UNCHANGED <<at, report>>
      BY <3>2 DEF ControllerTypeOK, Stages
    <3> QED BY <1>5, <3>1, <3>2 DEF StartDeploy
  <2> QED BY <1>0, <1>5, <2>1 DEF StartDeploy, ControllerTypeOK
<1>6. CASE HoldForSessions \/ AdvanceCheckout
  BY <1>0, <1>6 DEF HoldForSessions, AdvanceCheckout, ControllerTypeOK, Stages
<1>7. CASE Restart \/ NotReady \/ RestartThrows \/ GiveUp
  <2>1. report' \in [Inventory -> Actions] /\ stage' \in Stages /\ at' \in DOMAIN Order
    BY <1>7, FinishTypes DEF Restart, NotReady, RestartThrows, GiveUp, Actions
  <2>2. head' \in [Inventory -> Commits] /\ ran' \in [Inventory -> Commits]
    BY <1>0, <1>7 DEF Restart, NotReady, RestartThrows, GiveUp, ControllerTypeOK
  <2>3. left' \subseteq Inventory
    BY <1>0, <1>7 DEF Restart, NotReady, RestartThrows, GiveUp, ControllerTypeOK
  <2> QED BY <1>7, <2>1, <2>2, <2>3 DEF Restart, NotReady, RestartThrows, GiveUp, ControllerTypeOK
<1>8. CASE TimedOut \/ Killed
  BY <1>0, <1>8 DEF TimedOut, Killed, Stopped, ControllerTypeOK, Stages
<1> QED BY <1>1, <1>2, <1>3, <1>4, <1>5, <1>6, <1>7, <1>8 DEF Pass

LEMMA WorldTypes == ControllerTypeOK /\ (World \/ UNCHANGED controllerVars) => ControllerTypeOK'
<1> SUFFICES ASSUME ControllerTypeOK, World \/ UNCHANGED controllerVars PROVE ControllerTypeOK'
  OBVIOUS
<1> USE DEF ControllerTypeOK, worldVars, freezeVars
<1>1. ASSUME NEW t \in Targets, Freeze(t) \/ Unfreeze(t) PROVE ControllerTypeOK'
  BY <1>1 DEF Freeze, Unfreeze
<1>2. ASSUME NEW S, Schedule(S) PROVE ControllerTypeOK'
  BY <1>2 DEF Schedule
<1>3. CASE Complete
  BY <1>3 DEF Complete
<1>4. ASSUME NEW s \in Inventory, Push(s) PROVE ControllerTypeOK'
  <2>1. origin' \in [Inventory -> Commits] /\ pushed' \in BOOLEAN
    BY <1>4, LastAssumption DEF Push, Commits
  <2> QED BY <1>4, <2>1 DEF Push
<1>5. ASSUME NEW s \in Inventory, Visitors(s) PROVE ControllerTypeOK'
  BY <1>5 DEF Visitors
<1>6. ASSUME NEW s \in Inventory, NEW c \in Commits, CheckRun(s, c) PROVE ControllerTypeOK'
  <2>1. ci' \in [Inventory \X Commits -> Verdicts]
    BY <1>6 DEF CheckRun, Verdicts
  <2> QED BY <1>6, <2>1 DEF CheckRun
<1>7. ASSUME NEW s \in Inventory, NEW c \in Commits, ByHand(s, c) PROVE ControllerTypeOK'
  BY <1>7 DEF ByHand
<1>8. CASE UNCHANGED controllerVars
  BY <1>8 DEF controllerVars
<1> QED BY <1>1, <1>2, <1>3, <1>4, <1>5, <1>6, <1>7, <1>8 DEF World, Freezing

LEMMA ControllerNextTypes == ControllerTypeOK /\ [ControllerNext]_controllerVars => ControllerTypeOK'
BY PassTypes, WorldTypes DEF ControllerNext

\* Every reachable state is well typed, for any inventory, branches, faults and
\* operators: a pass never leaves the inventory (lib/reconcile.js).
THEOREM ControllerTypeCorrect == ControllerSpec => []ControllerTypeOK
BY ControllerInitTypes, ControllerNextTypes, PTL DEF ControllerSpec

-----------------------------------------------------------------------------
(* Only green commits, unless somebody pushed *)

\* From the plan on, origin is the planned commit unless somebody pushed; from the
\* CI answer on, the planned commit is green, and green is final.
Planned == stage \in {"ci", "deploy"} => pushed \/ origin[Svc] = plan[2]
Passed == stage = "deploy" => ci[<<Svc, plan[2]>>] = "green"
GreenInv == ControllerTypeOK /\ Planned /\ Passed /\ OnlyGreenUnlessPushed

LEMMA GreenPass == GreenInv /\ (StartPass \/ Pass \/ TimedOut \/ Killed) => GreenInv'
<1> SUFFICES ASSUME GreenInv, StartPass \/ Pass \/ TimedOut \/ Killed PROVE GreenInv'
  OBVIOUS
<1>0. ControllerTypeOK'
  BY PassTypes DEF GreenInv
<1> USE DEF GreenInv, Planned, Passed, OnlyGreenUnlessPushed, Deploying, worldVars
<1>1. ASSUME NEW action, FinishService(action) PROVE stage' \in {"idle", "plan"}
  BY <1>1 DEF FinishService
<1>2. CASE StartPass \/ PlanThrows \/ Restart \/ NotReady \/ RestartThrows \/ GiveUp \/ TimedOut \/ Killed
  <2>1. stage' \in {"idle", "plan"}
    BY <1>1, <1>2 DEF StartPass, PlanThrows, Restart, NotReady, RestartThrows, GiveUp, TimedOut, Killed, Stopped
  <2> QED BY <1>0, <2>1
<1>3. CASE PlanService
  <2>1. stage' \in {"idle", "plan"} \/ (stage' = "ci" /\ UNCHANGED at)
    BY <1>1, <1>3 DEF PlanService
  <2>2. plan'[2] = origin[Svc] /\ UNCHANGED origin
    BY <1>3 DEF PlanService
  <2> QED BY <1>0, <2>1, <2>2 DEF Svc
<1>4. CASE ReadCi
  <2>1. \/ stage' \in {"idle", "plan"}
        \/ stage' = "deploy" /\ UNCHANGED <<at, plan, pushed, origin, ci>> /\ Verdict = "green" /\ stage = "ci"
    BY <1>1, <1>4 DEF ReadCi
  <2> QED BY <1>0, <2>1 DEF Svc, Verdict
<1>5. CASE StartDeploy
  <2>1. \/ stage' \in {"idle", "plan"}
        \/ /\ stage = "deploy" /\ stage' = "guard1" /\ target' = origin[Svc]
           /\ UNCHANGED <<at, plan, pushed, origin, ci>>
    BY <1>1, <1>5 DEF StartDeploy
  <2> QED BY <1>0, <2>1 DEF Svc
<1>6. CASE HoldForSessions \/ AdvanceCheckout
  BY <1>0, <1>6 DEF HoldForSessions, AdvanceCheckout, Svc
<1> QED BY <1>2, <1>3, <1>4, <1>5, <1>6 DEF Pass

LEMMA GreenWorld == GreenInv /\ (World \/ UNCHANGED controllerVars) => GreenInv'
<1> SUFFICES ASSUME GreenInv, World \/ UNCHANGED controllerVars PROVE GreenInv'
  OBVIOUS
<1>0. ControllerTypeOK' /\ Svc \in Inventory /\ plan[2] \in Commits /\ target \in Commits
  BY WorldTypes, OrderShape DEF GreenInv, ControllerTypeOK, Svc
<1> USE DEF GreenInv, Planned, Passed, OnlyGreenUnlessPushed, Deploying
<1>1. ASSUME NEW s \in Inventory, Push(s) PROVE GreenInv'
  <2>1. Svc' = Svc /\ (s # Svc => origin'[Svc] = origin[Svc]) /\ (pushed \/ s = Svc => pushed')
    BY <1>0, <1>1 DEF Push, Svc, ControllerTypeOK
  <2>2. UNCHANGED <<ci, stage, plan, target>> /\ (~pushed' => ~pushed)
    BY <1>1 DEF Push
  <2> QED BY <1>0, <2>1, <2>2
<1>2. ASSUME NEW s \in Inventory, NEW c \in Commits, CheckRun(s, c) PROVE GreenInv'
  <2>1. \A x \in Inventory \X Commits : ci[x] = "green" => ci'[x] = "green"
    BY <1>2 DEF CheckRun, ControllerTypeOK
  <2>2. UNCHANGED <<origin, stage, at, plan, target, pushed>> /\ Svc' = Svc
    BY <1>2 DEF CheckRun, Svc
  <2>3. ci[<<Svc, plan[2]>>] = "green" => ci'[<<Svc, plan[2]>>] = "green"
    BY <1>0, <2>1
  <2>4. ci[<<Svc, target>>] = "green" => ci'[<<Svc, target>>] = "green"
    BY <1>0, <2>1
  <2> QED BY <1>0, <2>2, <2>3, <2>4
<1>3. CASE Freezing \/ (\E s \in Inventory : Visitors(s) \/ \E c \in Commits : ByHand(s, c)) \/ UNCHANGED controllerVars
  <2>1. UNCHANGED <<origin, ci, stage, at, plan, target, pushed>>
    BY <1>3 DEF Freezing, Freeze, Unfreeze, Schedule, Complete, Visitors, ByHand, worldVars, controllerVars
  <2> QED BY <1>0, <2>1 DEF Svc
<1> QED BY <1>1, <1>2, <1>3 DEF World

\* For any inventory, faults, pushes and CI answers: what a pass deploys was green,
\* unless somebody pushed between its plan and its deploy (reconcile in
\* lib/reconcile.js).
THEOREM OnlyGreenTheorem == ControllerSpec => []OnlyGreenUnlessPushed
<1>1. ControllerInit => GreenInv
  BY ControllerInitTypes DEF ControllerInit, GreenInv, Planned, Passed, OnlyGreenUnlessPushed, Deploying
<1>2. GreenInv /\ [ControllerNext]_controllerVars => GreenInv'
  BY GreenPass, GreenWorld DEF ControllerNext
<1>3. GreenInv => OnlyGreenUnlessPushed
  BY DEF GreenInv
<1> QED BY <1>1, <1>2, <1>3, PTL DEF ControllerSpec

-----------------------------------------------------------------------------
(* Windows and the operators' freezes *)

\* The file of a target that an operator froze is the operator's.
Owned == ControllerTypeOK /\ \A t \in asked : files[t] = "operator"

\* For any inventory, one with a service named "all" too: no maintenance window, however
\* scheduled and completed, lifts a freeze that an operator placed on a service or on
\* everything, unless the window names the same target (freeze and unfreeze in
\* lib/incidents.js).
THEOREM FreezeTheorem == ControllerSpec => []OperatorsFreezeHolds
<1>1. ControllerInit => Owned
  BY ControllerInitTypes DEF ControllerInit, Owned
<1>2. Owned /\ [ControllerNext]_controllerVars => Owned'
  <2> SUFFICES ASSUME Owned, [ControllerNext]_controllerVars, NEW t \in asked' PROVE files'[t] = "operator"
    BY ControllerNextTypes DEF Owned
  <2>0. t \in Targets
    BY ControllerNextTypes DEF Owned, ControllerTypeOK
  <2> USE DEF Owned, ControllerTypeOK
  <2>1. ASSUME NEW u \in Targets, Freeze(u) PROVE files'[t] = "operator"
    BY <2>0, <2>1 DEF Freeze
  <2>2. ASSUME NEW u \in Targets, Unfreeze(u) PROVE files'[t] = "operator"
    BY <2>0, <2>2 DEF Unfreeze
  <2>3. ASSUME NEW S \in SUBSET Targets, Schedule(S) PROVE files'[t] = "operator"
    BY <2>0, <2>3 DEF Schedule
  <2>4. CASE Complete
    BY <2>0, <2>4 DEF Complete
  <2>5. CASE UNCHANGED freezeVars
    BY <2>5 DEF freezeVars
  <2>6. StartPass \/ Pass \/ TimedOut \/ Killed \/ UNCHANGED controllerVars => UNCHANGED freezeVars
    BY DEF StartPass, Pass, PlanService, PlanThrows, ReadCi, StartDeploy, HoldForSessions, AdvanceCheckout,
       Restart, NotReady, RestartThrows, GiveUp, TimedOut, Killed, Stopped, controllerVars, freezeVars
  <2>7. ASSUME NEW s \in Inventory, Push(s) \/ Visitors(s) \/ \E c \in Commits : CheckRun(s, c) \/ ByHand(s, c)
        PROVE  UNCHANGED freezeVars
    BY <2>7 DEF Push, Visitors, CheckRun, ByHand, freezeVars
  <2> QED BY <2>1, <2>2, <2>3, <2>4, <2>5, <2>6, <2>7 DEF ControllerNext, World, Freezing
<1>3. Owned => OperatorsFreezeHolds
  BY DEF Owned, OperatorsFreezeHolds, Held
<1> QED BY <1>1, <1>2, <1>3, PTL DEF ControllerSpec

-----------------------------------------------------------------------------
(* The locks *)

USE DeploysAssumption, SvcOfAssumption, NoOpAssumption


\* The steps of the operations other than lock.acquire's and the lock removals.
GuardSteps(o) ==
    \/ AcquireHost(o) \/ HostTimeout(o) \/ MoveCheckout(o) \/ IdleWait(o)
    \/ EndIdleWait(o) \/ Restored(o) \/ Finish(o) \/ ReleaseHost(o)

\* Every step of Next is one of the actions below.
LEMMA NextCases ==
    ASSUME Next
    PROVE \/ \E o \in Ops :
                \/ Create(o) \/ WriteBody(o) \/ Read(o) \/ ProbeHolder(o)
                \/ RemoveStale(o) \/ Recreate(o) \/ ReleaseService(o)
                \/ GuardSteps(o) \/ Crash(o)
          \/ KernelReleasesHostLock
BY Zenon DEF Next, Progress, GuardSteps

-----------------------------------------------------------------------------
\* Every variable keeps its type through every step of every operation.
LEMMA TypeStep == TypeOK /\ [Next]_vars => TypeOK'
<1> SUFFICES ASSUME TypeOK, [Next]_vars PROVE TypeOK'
  OBVIOUS
<1> USE DEF TypeOK, PCs, Guards, Guard, Acquiring, Holding, Ended, Goto, FileOf
<1>1. CASE UNCHANGED vars
  BY <1>1 DEF vars
<1>2. ASSUME NEW o \in Ops, Create(o) PROVE TypeOK'
  <2>1. lockFile' \in [Services -> Ops \cup {NoOp}]
    BY <1>2 DEF Create, OpenExclusive
  <2>2. pc' \in [Ops -> PCs]
    BY <1>2 DEF Create, OpenExclusive
  <2> QED
    BY <1>2, <2>1, <2>2 DEF Create, OpenExclusive
<1>3. ASSUME NEW o \in Ops, WriteBody(o) PROVE TypeOK'
  BY <1>3 DEF WriteBody
<1>4. ASSUME NEW o \in Ops, Read(o) PROVE TypeOK'
  BY <1>4 DEF Read
<1>5. ASSUME NEW o \in Ops, ProbeHolder(o) PROVE TypeOK'
  BY <1>5 DEF ProbeHolder
<1>6. ASSUME NEW o \in Ops, RemoveStale(o) PROVE TypeOK'
  BY <1>6 DEF RemoveStale, Unlink, Alive
<1>7. ASSUME NEW o \in Ops, Recreate(o) PROVE TypeOK'
  <2>1. lockFile' \in [Services -> Ops \cup {NoOp}]
    BY <1>7 DEF Recreate, OpenExclusive
  <2>2. pc' \in [Ops -> PCs]
    BY <1>7 DEF Recreate, OpenExclusive
  <2> QED
    BY <1>7, <2>1, <2>2 DEF Recreate, OpenExclusive
<1>8. ASSUME NEW o \in Ops, ReleaseService(o) PROVE TypeOK'
  BY <1>8 DEF ReleaseService, Unlink
<1>9. ASSUME NEW o \in Ops, GuardSteps(o) PROVE TypeOK'
  <2>0. CASE AcquireHost(o)
    BY <2>0 DEF AcquireHost
  <2>1. CASE ReleaseHost(o)
    BY <2>1 DEF ReleaseHost
  <2>2. CASE HostTimeout(o) \/ EndIdleWait(o) \/ Restored(o) \/ Finish(o)
    <3>1. pc' \in [Ops -> PCs]
      BY <2>2 DEF HostTimeout, EndIdleWait, Restored, Finish
    <3>2. UNCHANGED <<lockFile, written, hostLock, seen, moved, waited, stolen>>
      BY <2>2 DEF HostTimeout, EndIdleWait, Restored, Finish
    <3> QED
      BY <3>1, <3>2
  <2>3. CASE MoveCheckout(o)
    BY <2>3 DEF MoveCheckout
  <2>4. CASE IdleWait(o)
    BY <2>4 DEF IdleWait
  <2> QED
    BY <1>9, <2>0, <2>1, <2>2, <2>3, <2>4 DEF GuardSteps
<1>10. ASSUME NEW o \in Ops, Crash(o) PROVE TypeOK'
  BY <1>10 DEF Crash
<1>11. CASE KernelReleasesHostLock
  BY <1>11 DEF KernelReleasesHostLock
<1> QED
  BY <1>1, <1>2, <1>3, <1>4, <1>5, <1>6, <1>7, <1>8, <1>9, <1>10, <1>11, NextCases

\* The type invariant of the lock protocol holds in every reachable state.
THEOREM TypeCorrect == Spec => []TypeOK
<1>1. Init => TypeOK
  BY DEF Init, TypeOK, PCs
<1> QED
  BY <1>1, TypeStep, PTL DEF Spec

-----------------------------------------------------------------------------
\* Until a live file is stolen, whoever is past open(O_EXCL) owns the file at the path.
Owns ==
    \A o \in Ops :
        pc[o] \in Holding \cup {"write"} /\ SvcOf[o] \notin stolen => FileOf(o) = o

OwnInv == TypeOK /\ Owns

\* No step of any operation takes the file away from an owner without marking it stolen.
LEMMA OwnsStep == OwnInv /\ [Next]_vars => Owns'
<1> SUFFICES ASSUME OwnInv, [Next]_vars PROVE Owns'
  OBVIOUS
<1> USE DEF OwnInv, TypeOK, Owns, Holding, Goto, FileOf
<1>1. CASE UNCHANGED vars
  BY <1>1 DEF vars
<1>2. ASSUME NEW o \in Ops, Create(o) PROVE Owns'
  BY <1>2 DEF Create, OpenExclusive
<1>3. ASSUME NEW o \in Ops, WriteBody(o) PROVE Owns'
  BY <1>3 DEF WriteBody
<1>4. ASSUME NEW o \in Ops, Read(o) PROVE Owns'
  BY <1>4 DEF Read
<1>5. ASSUME NEW o \in Ops, ProbeHolder(o) PROVE Owns'
  BY <1>5 DEF ProbeHolder
<1>6. ASSUME NEW o \in Ops, RemoveStale(o) PROVE Owns'
  <2> SUFFICES ASSUME NEW p \in Ops, pc'[p] \in Holding \cup {"write"}, SvcOf[p] \notin stolen'
               PROVE FileOf(p)' = p
    BY DEF Owns
  <2>1. p # o /\ pc'[p] = pc[p] /\ SvcOf[p] \notin stolen
    BY <1>6 DEF RemoveStale, Unlink
  <2>2. FileOf(p) = p /\ Alive(p)
    BY <2>1 DEF Alive, Ended
  <2>3. SvcOf[p] # SvcOf[o]
    BY <1>6, <2>1, <2>2 DEF RemoveStale, Unlink
  <2> QED
    BY <1>6, <2>2, <2>3 DEF RemoveStale, Unlink
<1>7. ASSUME NEW o \in Ops, Recreate(o) PROVE Owns'
  BY <1>7 DEF Recreate, OpenExclusive
<1>8. ASSUME NEW o \in Ops, ReleaseService(o) PROVE Owns'
  BY <1>8 DEF ReleaseService, Unlink
<1>9. ASSUME NEW o \in Ops, GuardSteps(o) PROVE Owns'
  BY <1>9 DEF GuardSteps, AcquireHost, HostTimeout, MoveCheckout, IdleWait,
     EndIdleWait, Restored, Finish, ReleaseHost
<1>10. ASSUME NEW o \in Ops, Crash(o) PROVE Owns'
  BY <1>10 DEF Crash, Acquiring
<1>11. CASE KernelReleasesHostLock
  BY <1>11 DEF KernelReleasesHostLock
<1> QED
  BY <1>1, <1>2, <1>3, <1>4, <1>5, <1>6, <1>7, <1>8, <1>9, <1>10, <1>11, NextCases

\* Two operations hold one service's lock only after a live operation's file was
\* removed as stale: what lib/lock.js guarantees whatever crashes and interleaves.
THEOREM ExclusiveTheorem == Spec => []ExclusiveUnlessStolen
<1>1. Init => OwnInv
  BY DEF Init, OwnInv, TypeOK, Owns, PCs, Holding
<1>2. OwnInv /\ [Next]_vars => OwnInv'
  BY TypeStep, OwnsStep DEF OwnInv
<1>3. OwnInv => ExclusiveUnlessStolen
  BY DEF OwnInv, Owns, ExclusiveUnlessStolen, FileOf
<1> QED
  BY <1>1, <1>2, <1>3, PTL DEF Spec

-----------------------------------------------------------------------------
\* A deploy between its two lock hand-overs is the one the kernel lock names.
HoldsHost(o) == pc[o] = "unhost" \/ (o \in Deploys /\ pc[o] = "work")
Named == \A o \in Ops : HoldsHost(o) => hostLock = o

\* Who has no lock yet has moved nothing; who moved and waits does so in its second guard.
Early == {"start", "queue"} \cup Acquiring
Waits ==
    \A o \in Ops :
        /\ pc[o] \in Early => o \notin moved
        /\ pc[o] \in {"wait", "requeue"} /\ o \in moved => "immediately before the restart" \in waited[o]
        /\ pc[o] = "restore" => RestoresUnlocked(o)

HostInv == TypeOK /\ Named /\ Waits

LEMMA NamedStep == TypeOK /\ Named /\ [Next]_vars => Named'
<1> SUFFICES ASSUME TypeOK, Named, [Next]_vars PROVE Named'
  OBVIOUS
<1> USE DEF Named, HoldsHost, TypeOK, Goto
<1>1. CASE UNCHANGED vars
  BY <1>1 DEF vars
<1>2. ASSUME NEW o \in Ops,
             Create(o) \/ WriteBody(o) \/ Read(o) \/ ProbeHolder(o) \/ RemoveStale(o)
               \/ Recreate(o) \/ ReleaseService(o)
      PROVE Named'
  BY <1>2 DEF Create, WriteBody, Read, ProbeHolder, RemoveStale, Recreate,
     ReleaseService, OpenExclusive, Unlink
<1>3. ASSUME NEW o \in Ops, GuardSteps(o) PROVE Named'
  <2>1. CASE AcquireHost(o)
    BY <2>1 DEF AcquireHost
  <2>2. CASE HostTimeout(o) \/ EndIdleWait(o) \/ Restored(o) \/ Finish(o) \/ MoveCheckout(o)
    BY <2>2 DEF HostTimeout, EndIdleWait, Restored, Finish, MoveCheckout
  <2>3. CASE IdleWait(o)
    <3>1. \A p \in Ops : HoldsHost(p)' => p # o /\ HoldsHost(p)
      BY <2>3 DEF IdleWait
    <3> QED BY <2>3, <3>1 DEF IdleWait
  <2>4. CASE ReleaseHost(o)
    <3>1. \A p \in Ops : HoldsHost(p)' => p # o /\ HoldsHost(p)
      BY <2>4 DEF ReleaseHost
    <3> QED BY <2>4, <3>1 DEF ReleaseHost
  <2> QED BY <1>3, <2>1, <2>2, <2>3, <2>4 DEF GuardSteps
<1>4. ASSUME NEW o \in Ops, Crash(o) PROVE Named'
  BY <1>4 DEF Crash
<1>5. CASE KernelReleasesHostLock
  BY <1>5 DEF KernelReleasesHostLock
<1> QED BY <1>1, <1>2, <1>3, <1>4, <1>5, NextCases

LEMMA WaitsStep == TypeOK /\ Waits /\ [Next]_vars => Waits'
<1> SUFFICES ASSUME TypeOK, Waits, [Next]_vars PROVE Waits'
  OBVIOUS
<1> USE DEF Waits, Early, Acquiring, RestoresUnlocked, TypeOK, Goto
<1>1. CASE UNCHANGED vars
  BY <1>1 DEF vars
<1>2. ASSUME NEW o \in Ops, Create(o) \/ Read(o) \/ ProbeHolder(o) \/ RemoveStale(o) \/ Recreate(o)
      PROVE Waits'
  BY <1>2 DEF Create, Read, ProbeHolder, RemoveStale, Recreate, OpenExclusive, Unlink
<1>3. ASSUME NEW o \in Ops, WriteBody(o) \/ ReleaseService(o) PROVE Waits'
  BY <1>3 DEF WriteBody, ReleaseService, Unlink
<1>4. ASSUME NEW o \in Ops, GuardSteps(o) PROVE Waits'
  <2>1. CASE HostTimeout(o)
    BY <2>1 DEF HostTimeout
  <2>2. CASE AcquireHost(o) \/ EndIdleWait(o) \/ Restored(o) \/ Finish(o) \/ ReleaseHost(o)
    BY <2>2 DEF AcquireHost, EndIdleWait, Restored, Finish, ReleaseHost
  <2>3. CASE MoveCheckout(o)
    BY <2>3 DEF MoveCheckout
  <2>4. CASE IdleWait(o)
    BY <2>4 DEF IdleWait, Guard, Guards
  <2> QED BY <1>4, <2>1, <2>2, <2>3, <2>4 DEF GuardSteps
<1>5. ASSUME NEW o \in Ops, Crash(o) PROVE Waits'
  BY <1>5 DEF Crash
<1>6. CASE KernelReleasesHostLock
  BY <1>6 DEF KernelReleasesHostLock
<1> QED BY <1>1, <1>2, <1>3, <1>4, <1>5, <1>6, NextCases

\* Across services, crashes, timeouts and idle waits, two deploys never change the host at
\* once, unless one restores after the host lock did not come back from its second idle wait
\* (waitOutsideLock in lib/deploy-guard.js).
THEOREM HostLockTheorem == Spec => []OneDeployWorks
<1>1. Init => HostInv
  BY DEF Init, HostInv, Named, Waits, Early, HoldsHost, TypeOK, PCs
<1>2. HostInv /\ [Next]_vars => HostInv'
  BY TypeStep, NamedStep, WaitsStep DEF HostInv
<1>3. HostInv => OneDeployWorks
  BY DEF HostInv, Named, Waits, HoldsHost, Changing, OneDeployWorks
<1> QED
  BY <1>1, <1>2, <1>3, PTL DEF Spec

-----------------------------------------------------------------------------
\* With one operation at a time inside lock.acquire, an unwritten file is its
\* creator's or a dead one's, a probe has read the pid of the file still there,
\* and the file about to be removed as stale has no live creator.
Creators == \A s \in written : lockFile[s] # NoOp
Unwritten ==
    \A s \in Services :
        lockFile[s] # NoOp =>
            /\ SvcOf[lockFile[s]] = s
            /\ s \in written \/ pc[lockFile[s]] \in {"write", "dead"}
Probed ==
    \A o \in Ops :
        pc[o] = "probe" => seen[o] \in Ops /\ (FileOf(o) = NoOp \/ FileOf(o) = seen[o])
Justified ==
    \A o \in Ops : pc[o] = "remove" => FileOf(o) = NoOp \/ ~Alive(FileOf(o))
NeverStolen == stolen = {}

SerialInv ==
    /\ OwnInv /\ OneAcquirer
    /\ Creators /\ Unwritten /\ Probed /\ Justified /\ NeverStolen

\* SerialInv is inductive under steps that end with at most one acquirer per service.
LEMMA SerialStep == SerialInv /\ [Next /\ OneAcquirer']_vars => SerialInv'
<1> SUFFICES ASSUME SerialInv, [Next /\ OneAcquirer']_vars PROVE SerialInv'
  OBVIOUS
<1>0. OwnInv' /\ OneAcquirer'
  <2>1. [Next]_vars
    OBVIOUS
  <2> QED
    BY <2>1, TypeStep, OwnsStep DEF OwnInv, SerialInv, OneAcquirer, vars
<1> USE DEF SerialInv, OwnInv, TypeOK, Goto, FileOf, Alive, Ended
<1>a. OneAcquirer /\ OneAcquirer' /\ Owns
  BY <1>0
<1>1. CASE UNCHANGED vars
  BY <1>0, <1>1 DEF vars, Creators, Unwritten, Probed, Justified, NeverStolen
<1>2. ASSUME NEW o \in Ops, Create(o) \/ Recreate(o) PROVE SerialInv'
  <2>1. Creators' /\ Unwritten' /\ NeverStolen'
    BY <1>2 DEF Create, Recreate, OpenExclusive, Creators, Unwritten, NeverStolen
  <2>2. Probed'
    BY <1>2, <1>a DEF Create, Recreate, OpenExclusive, Probed, OneAcquirer, Acquiring
  <2>3. Justified'
    BY <1>2, <1>a DEF Create, Recreate, OpenExclusive, Justified, OneAcquirer, Acquiring
  <2> QED
    BY <1>0, <2>1, <2>2, <2>3
<1>3. ASSUME NEW o \in Ops, WriteBody(o) PROVE SerialInv'
  <2>1. FileOf(o) = o
    BY <1>3 DEF Owns, NeverStolen, WriteBody
  <2> QED
    BY <1>0, <1>3, <2>1 DEF WriteBody, Creators, Unwritten, Probed, Justified, NeverStolen
<1>4. ASSUME NEW o \in Ops, Read(o) PROVE SerialInv'
  <2>1. SvcOf[o] \notin written /\ FileOf(o) # NoOp => pc[FileOf(o)] = "dead"
    BY <1>4, <1>a DEF Read, Unwritten, OneAcquirer, Acquiring
  <2>2. Justified'
    BY <1>4, <2>1 DEF Read, Justified, Creators
  <2> QED
    BY <1>0, <1>4, <2>2 DEF Read, Creators, Unwritten, Probed, NeverStolen
<1>5. ASSUME NEW o \in Ops, ProbeHolder(o) PROVE SerialInv'
  <2>1. Justified'
    BY <1>5 DEF ProbeHolder, Justified, Probed
  <2> QED
    BY <1>0, <1>5, <2>1 DEF ProbeHolder, Creators, Unwritten, Probed, NeverStolen
<1>6. ASSUME NEW o \in Ops, RemoveStale(o) PROVE SerialInv'
  <2>1. NeverStolen'
    BY <1>6 DEF RemoveStale, Unlink, NeverStolen, Justified
  <2> QED
    BY <1>0, <1>6, <2>1 DEF RemoveStale, Unlink, Creators, Unwritten, Probed, Justified
<1>7. ASSUME NEW o \in Ops, ReleaseService(o) PROVE SerialInv'
  BY <1>0, <1>7 DEF ReleaseService, Unlink, Creators, Unwritten, Probed, Justified, NeverStolen
<1>8. ASSUME NEW o \in Ops, GuardSteps(o) PROVE SerialInv'
  BY <1>0, <1>8 DEF GuardSteps, AcquireHost, HostTimeout, MoveCheckout, IdleWait, EndIdleWait,
     Restored, Finish, ReleaseHost, Creators, Unwritten, Probed, Justified, NeverStolen
<1>9. ASSUME NEW o \in Ops, Crash(o) PROVE SerialInv'
  BY <1>0, <1>9 DEF Crash, Creators, Unwritten, Probed, Justified, NeverStolen
<1>10. CASE KernelReleasesHostLock
  BY <1>0, <1>10 DEF KernelReleasesHostLock, Creators, Unwritten, Probed, Justified, NeverStolen
<1> QED
  BY <1>1, <1>2, <1>3, <1>4, <1>5, <1>6, <1>7, <1>8, <1>9, <1>10, NextCases

\* If no two operations run lock.acquire on a service at once, crashes included,
\* "one operation per service at a time" holds: the race is confined to lock.acquire.
THEOREM SerialTheorem == SerialSpec => []OneOperationPerService
<1>1. Init => SerialInv
  BY DEF Init, SerialInv, OwnInv, TypeOK, Owns, OneAcquirer, Creators, Unwritten, Probed,
     Justified, NeverStolen, PCs, Holding, Acquiring, FileOf
<1>2. SerialInv => OneOperationPerService
  BY DEF SerialInv, OwnInv, Owns, NeverStolen, OneOperationPerService, FileOf, TypeOK
<1> QED
  BY <1>1, <1>2, SerialStep, PTL DEF SerialSpec
==============================================================================
