----------------------------- MODULE Reconcile -----------------------------
(***************************************************************************)
(* The deploy controller (lib/reconcile.js, run every 5 minutes by         *)
(* openvibe-reconcile.timer) and the freezes that hold it                  *)
(* (lib/incidents.js).  A pass takes the services in inventory order:      *)
(* plan, read the commit's CI, deploy as `ovhost deploy --wait-idle` does. *)
(*                                                                         *)
(* The deploy is the outline of InPlaceDeploy: wait for sessions, move the *)
(* checkout, wait again, restart.  Each service has a linear branch.       *)
(***************************************************************************)
EXTENDS Integers, Sequences

CONSTANTS
    Order,          \* the services, in inventory order
    AutoServices,   \* the ones whose deploy policy is auto
    Last,           \* the newest commit a branch will ever have
    RuntimeOf,      \* RuntimeOf[c]: what commit c has besides documentation and tests
    Faults,         \* what may go wrong: a subset of AllFaults
    Operators       \* people freeze, schedule windows and deploy by hand too

Inventory == {Order[i] : i \in DOMAIN Order}
Commits == 0..Last
Targets == Inventory \cup {"all"}
Verdicts == {"none", "pending", "green", "red"}
AllFaults == {"plan", "github", "not ready", "restart throws", "killed"}

ASSUME OrderAssumption == Order \in Seq(Inventory) /\ Order # <<>>
ASSUME LastAssumption == Last \in Nat
ASSUME FaultsAssumption == Faults \subseteq AllFaults

VARIABLES
    origin,     \* the tip of each service's remote branch
    ci,         \* the check runs of each service's commits
    busy,       \* the services with protected sessions
    files,      \* the freeze file of each target: who wrote it, or "none"
    head,       \* the commit each checkout is at
    ran,        \* the commit each service's units were started from
    report,     \* each service's action in the last pass
    stage,         \* the stage of the pass, "idle" between passes
    at,         \* the index of the service the pass is at
    plan,       \* <<from, to>> of its plan
    target,     \* what the deploy resolved origin/<branch> to
    \* history
    asked,      \* targets an operator froze, not unfrozen nor put under a window since
    pushed,     \* a push to this service came after its plan
    left        \* services whose checkout a pass or a failed restart moved without a restart

controllerVars == <<origin, ci, busy, files, head, ran, report, stage, at, plan, target, asked, pushed, left>>
worldVars == <<origin, ci, busy>>
freezeVars == <<files, asked>>

Svc == Order[at]
Deploying == stage \in {"guard1", "wait1", "guard2", "wait2"}      \* it holds Svc's lock
Stages == {"idle", "plan", "ci", "deploy", "guard1", "wait1", "guard2", "wait2"}
Actions == {"-", "current", "docs-only", "waiting", "blocked", "deployed", "failed", "error"}

ControllerTypeOK ==
    /\ origin \in [Inventory -> Commits]
    /\ ci \in [Inventory \X Commits -> Verdicts]
    /\ busy \subseteq Inventory
    /\ files \in [Targets -> {"none", "operator", "window"}]
    /\ head \in [Inventory -> Commits] /\ ran \in [Inventory -> Commits]
    /\ report \in [Inventory -> Actions]
    /\ stage \in Stages /\ at \in DOMAIN Order
    /\ plan \in Commits \X Commits /\ target \in Commits
    /\ asked \subseteq Targets /\ pushed \in BOOLEAN /\ left \subseteq Inventory

ControllerInit ==
    /\ origin = [s \in Inventory |-> 0]
    /\ ci = [x \in Inventory \X Commits |-> IF x[2] = 0 THEN "green" ELSE "none"]
    /\ busy \in SUBSET Inventory
    /\ asked \in SUBSET Targets
    /\ files = [t \in Targets |-> IF t \in asked THEN "operator" ELSE "none"]
    /\ head = [s \in Inventory |-> 0] /\ ran = [s \in Inventory |-> 0]
    /\ report = [s \in Inventory |-> "-"]
    /\ stage = "idle" /\ at = 1 /\ plan = <<0, 0>> /\ target = 0
    /\ pushed = FALSE /\ left = {}

-----------------------------------------------------------------------------
(* lib/incidents.js *)

\* frozen: the service's own file, else all's.
Held(t) == files[t] # "none"
Frozen(s) == Held(s) \/ Held("all")

Freeze(t) ==
    /\ files' = [files EXCEPT ![t] = "operator"]
    /\ asked' = asked \cup {t}
    /\ UNCHANGED <<worldVars, head, ran, report, stage, at, plan, target, pushed, left>>

Unfreeze(t) ==
    /\ t \in asked \/ files[t] # "none"
    /\ files' = [files EXCEPT ![t] = "none"]
    /\ asked' = asked \ {t}
    /\ UNCHANGED <<worldVars, head, ran, report, stage, at, plan, target, pushed, left>>

\* maintenance schedule --services S --freeze, or freeze --incident: the same file, now in
\* the name of an incident, whoever froze the target before.  "all" is a name like others.
Schedule(S) ==
    /\ files' = [t \in Targets |-> IF t \in S THEN "window" ELSE files[t]]
    /\ asked' = asked \ S
    /\ UNCHANGED <<worldVars, head, ran, report, stage, at, plan, target, pushed, left>>

\* Mutant: complete lifts the freezes of the operators too.
Complete_LiftsAll ==
    /\ \E t \in Targets : files[t] = "window"
    /\ files' = [t \in Targets |-> "none"]
    /\ UNCHANGED <<worldVars, asked, head, ran, report, stage, at, plan, target, pushed, left>>

\* maintenance complete lifts the freezes that name its incident.
Complete ==
    /\ \E t \in Targets : files[t] = "window"
    /\ files' = [t \in Targets |-> IF files[t] = "window" THEN "none" ELSE files[t]]
    /\ UNCHANGED <<worldVars, asked, head, ran, report, stage, at, plan, target, pushed, left>>

-----------------------------------------------------------------------------
(* lib/reconcile.js *)

StartPass ==
    /\ stage = "idle" /\ stage' = "plan" /\ at' = 1
    /\ report' = [s \in Inventory |-> "-"]
    /\ UNCHANGED <<worldVars, freezeVars, head, ran, plan, target, pushed, left>>

\* Mutant: an error ends the pass.
FinishService_StopsOnError(action) ==
    /\ report' = [report EXCEPT ![Svc] = action]
    /\ IF at < Len(Order) /\ action # "error"
       THEN stage' = "plan" /\ at' = at + 1
       ELSE stage' = "idle" /\ at' = 1

\* The service is done with: the next one, or the end of the pass.
FinishService(action) ==
    /\ report' = [report EXCEPT ![Svc] = action]
    /\ IF at < Len(Order)
       THEN stage' = "plan" /\ at' = at + 1
       ELSE stage' = "idle" /\ at' = 1

PlanService ==
    /\ stage = "plan"
    /\ plan' = <<head[Svc], origin[Svc]>> /\ pushed' = FALSE
    /\ IF head[Svc] = origin[Svc] THEN FinishService("current")
       ELSE IF RuntimeOf[head[Svc]] = RuntimeOf[origin[Svc]] THEN FinishService("docs-only")
       ELSE IF Svc \notin AutoServices THEN FinishService("waiting")
       ELSE stage' = "ci" /\ UNCHANGED <<at, report>>
    /\ UNCHANGED <<worldVars, freezeVars, head, ran, target, left>>

PlanThrows ==
    /\ stage = "plan" /\ "plan" \in Faults
    /\ FinishService("error")
    /\ UNCHANGED <<worldVars, freezeVars, head, ran, plan, target, pushed, left>>

\* Mutant: check runs still going count as passed.
Verdict_PendingPasses == IF ci[<<Svc, plan[2]>>] = "pending" THEN "green" ELSE ci[<<Svc, plan[2]>>]

\* ciStatus of the planned commit.
Verdict == ci[<<Svc, plan[2]>>]

ReadCi ==
    /\ stage = "ci"
    /\ \E v \in {Verdict} \cup (IF "github" \in Faults THEN {"unknown"} ELSE {}) :
           IF v = "green" THEN stage' = "deploy" /\ UNCHANGED <<at, report>>
           ELSE FinishService(IF v = "red" THEN "blocked" ELSE "waiting")
    /\ UNCHANGED <<worldVars, freezeVars, head, ran, plan, target, pushed, left>>

\* lib.deploy, given no commit: the freeze, then a fetch and origin/<branch> once more.
StartDeploy ==
    /\ stage = "deploy"
    /\ IF Frozen(Svc) THEN FinishService("error") /\ UNCHANGED target
       ELSE /\ target' = origin[Svc]
            /\ IF origin[Svc] = head[Svc] THEN FinishService("deployed")     \* result "unchanged"
               ELSE stage' = "guard1" /\ UNCHANGED <<at, report>>
    /\ UNCHANGED <<worldVars, freezeVars, head, ran, plan, pushed, left>>

\* guardSessions with --wait-idle: sessions at the first probe, so it polls.
HoldForSessions ==
    /\ stage \in {"guard1", "guard2"} /\ Svc \in busy
    /\ stage' = IF stage = "guard1" THEN "wait1" ELSE "wait2"
    /\ UNCHANGED <<worldVars, freezeVars, head, ran, report, at, plan, target, pushed, left>>

\* No sessions, at once or after polling: the checkout moves.
AdvanceCheckout ==
    /\ stage \in {"guard1", "wait1"} /\ Svc \notin busy
    /\ head' = [head EXCEPT ![Svc] = target] /\ stage' = "guard2"
    /\ UNCHANGED <<worldVars, freezeVars, ran, report, at, plan, target, pushed, left>>

MayRestart == stage \in {"guard2", "wait2"} /\ Svc \notin busy

\* No sessions: the units restart and become ready.
Restart ==
    /\ MayRestart
    /\ ran' = [ran EXCEPT ![Svc] = target]
    /\ FinishService("deployed")
    /\ left' = left \ {Svc}
    /\ UNCHANGED <<worldVars, freezeVars, head, plan, target, pushed>>

\* Not ready, and rolled back (exit 3).
NotReady ==
    /\ MayRestart /\ "not ready" \in Faults
    /\ head' = [head EXCEPT ![Svc] = plan[1]]
    /\ ran' = [ran EXCEPT ![Svc] = plan[1]]
    /\ FinishService("failed")
    /\ left' = left \ {Svc}
    /\ UNCHANGED <<worldVars, freezeVars, plan, target, pushed>>

\* systemctl restart failed (exit 2): the checkout stays.
RestartThrows ==
    /\ MayRestart /\ "restart throws" \in Faults
    /\ FinishService("error")
    /\ left' = left \cup {Svc}
    /\ UNCHANGED <<worldVars, freezeVars, head, ran, plan, target, pushed>>

\* drain.waitMaxSeconds passed: the checkout is put back if it moved.
GiveUp ==
    /\ stage \in {"wait1", "wait2"}
    /\ head' = [head EXCEPT ![Svc] = plan[1]]
    /\ FinishService("error")
    /\ UNCHANGED <<worldVars, freezeVars, ran, plan, target, pushed, left>>

\* The pass is over and nothing is put back.
Stopped ==
    /\ stage' = "idle" /\ at' = 1
    /\ left' = IF stage \in {"guard2", "wait2"} THEN left \cup {Svc} ELSE left
    /\ UNCHANGED <<worldVars, freezeVars, head, ran, report, plan, target, pushed>>

\* TimeoutStartSec=30min of openvibe-reconcile.service passes in a wait for sessions, which
\* is up to 8 hours long by default.
TimedOut == stage \in {"wait1", "wait2"} /\ Stopped

\* It passes while the pass is at work, or somebody kills the pass there.
Killed == stage \notin {"idle", "wait1", "wait2"} /\ "killed" \in Faults /\ Stopped

-----------------------------------------------------------------------------
(* The world: developers, CI, visitors and operators *)

Push(s) ==
    /\ origin[s] < Last
    /\ origin' = [origin EXCEPT ![s] = @ + 1]
    /\ pushed' = (pushed \/ s = Svc)
    /\ UNCHANGED <<ci, busy, freezeVars, head, ran, report, stage, at, plan, target, left>>

CheckRun(s, c) ==
    /\ c \in 1..origin[s]
    /\ \/ ci[<<s, c>>] = "none" /\ ci' = [ci EXCEPT ![<<s, c>>] = "pending"]
       \/ ci[<<s, c>>] = "pending" /\ \E v \in {"green", "red"} : ci' = [ci EXCEPT ![<<s, c>>] = v]
    /\ UNCHANGED <<origin, busy, freezeVars, head, ran, report, stage, at, plan, target, pushed, left>>

Visitors(s) ==
    /\ busy' = IF s \in busy THEN busy \ {s} ELSE busy \cup {s}
    /\ UNCHANGED <<origin, ci, freezeVars, head, ran, report, stage, at, plan, target, pushed, left>>

\* ovhost deploy or rollback by hand: refused while the pass holds the service's lock.
ByHand(s, c) ==
    /\ Operators /\ ~(Deploying /\ s = Svc)
    /\ c \in 0..origin[s]
    /\ head' = [head EXCEPT ![s] = c] /\ ran' = [ran EXCEPT ![s] = c]
    /\ left' = left \ {s}
    /\ UNCHANGED <<worldVars, freezeVars, report, stage, at, plan, target, pushed>>

-----------------------------------------------------------------------------
Pass ==
    \/ PlanService \/ PlanThrows \/ ReadCi \/ StartDeploy \/ HoldForSessions \/ AdvanceCheckout \/ Restart
    \/ NotReady \/ RestartThrows \/ GiveUp

Freezing ==
    /\ Operators
    /\ \/ \E t \in Targets : Freeze(t) \/ Unfreeze(t)
       \/ \E S \in (SUBSET Targets) \ {{}} : Schedule(S)
       \/ Complete

World ==
    \/ \E s \in Inventory : Push(s) \/ Visitors(s) \/ \E c \in Commits : CheckRun(s, c) \/ ByHand(s, c)
    \/ Freezing

ControllerNext == StartPass \/ Pass \/ TimedOut \/ Killed \/ World

ControllerSpec == ControllerInit /\ [][ControllerNext]_controllerVars


-----------------------------------------------------------------------------
\* Whatever the controller deploys was green, unless somebody pushed between
\* its plan and its deploy.
OnlyGreenUnlessPushed ==
    Deploying => IF target = plan[2] THEN ci[<<Svc, target>>] = "green" ELSE pushed

\* What an operator froze, a service or everything, stays held whatever windows are
\* scheduled and completed, until it is unfrozen or a window names it too.
OperatorsFreezeHolds == \A t \in asked : Held(t)

\* The pushes have ended, nothing holds the service, and no service before it has sessions
\* a pass would wait for.
Before(s) == {Order[i] : i \in {j \in DOMAIN Order : \A k \in 1..j : Order[k] # s}}
Calm(s) ==
    /\ origin[s] = Last /\ ci[<<s, Last>>] = "green"
    /\ ~Frozen(s) /\ s \notin busy /\ Before(s) \cap busy = {}
Current(s) == RuntimeOf[ran[s]] = RuntimeOf[Last]

-----------------------------------------------------------------------------
\* "It deploys only when every one completed and passed" (docs/deploy-strategies.md:182).
OnlyGreenIsDeployed == Deploying => ci[<<Svc, target>>] = "green"
=============================================================================
