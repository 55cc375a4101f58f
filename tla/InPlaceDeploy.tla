--------------------------- MODULE InPlaceDeploy ---------------------------
(***************************************************************************)
(* Deploy and rollback of one in-place git checkout (lib/release-ops.js):  *)
(* the files a service runs from are changed under it, then its units are  *)
(* restarted, and whatever fails on the way has to be put back.            *)
(*                                                                         *)
(* One operation runs at a time here; DeployLocks says when that is so.    *)
(* The remote branch is linear: commit n + 1 is the child of commit n.     *)
(***************************************************************************)
EXTENDS Integers, FiniteSets, Sequences

CONSTANTS
    Last,           \* the newest commit the branch will ever have
    Pkgs,           \* package directories, each with its node_modules
    Units,          \* the service units (plan.units)
    CodeOf,         \* CodeOf[c]: what commit c has outside noRestartPaths
    DepsOf,         \* DepsOf[c][p]: the dependency fields and lockfile of p at c
    UnitFileOf,     \* UnitFileOf[c]: the unit files of commit c
    AuxOf,          \* AuxOf[c]: the restartOn paths of the auxiliary unit at c
    HasBuild,       \* the strategy builds what it serves
    OutputOf,       \* OutputOf[c]: whose build output commit c has in git, or Untracked
    DrainPolicy,    \* "refuse", "wait" or "report"
    QuietChecks,    \* idle polls in a row that end --wait-idle
    SessionStates,  \* what the session probe may answer
    FreezeStates,   \* {FALSE}, or BOOLEAN when operators freeze the service
    OptionSets,     \* the sets of flags an operator gives
    ToBehind,       \* operators also pass deploy --to a commit behind the checkout
    MaxAttempts     \* bound: attempts in the release log

Commits == 0..Last
Special == {"mixed", "missing"}     \* node_modules of a cut install; none at all
NoBuild == -1                       \* the output of a build that failed half way; none at all
Untracked == -2                     \* git does not have the build output of this commit
Killed == 7                         \* the operation died: no exit code

ASSUME LastAssumption == Last \in Nat
ASSUME PkgsAssumption == "build" \notin Pkgs
ASSUME UnitsAssumption == IsFiniteSet(Units)
ASSUME QuietAssumption == QuietChecks \in Nat \ {0}
ASSUME OptionAssumption == OptionSets \subseteq SUBSET {"force", "wait", "restart", "units"}
ASSUME MapsAssumption ==
    /\ DOMAIN CodeOf = Commits /\ DOMAIN AuxOf = Commits
    /\ OutputOf \in [Commits -> Commits \cup {Untracked}]
    /\ \A c \in Commits : /\ DepsOf[c] = [p \in Pkgs |-> DepsOf[c][p]]
                          /\ \A p \in Pkgs : DepsOf[c][p] \notin Special
ASSUME FreezeAssumption == FreezeStates \subseteq BOOLEAN
ASSUME SessionAssumption == SessionStates \subseteq {"none", "active", "unknown"} /\ "none" \in SessionStates

VARIABLES
    origin,     \* the tip of the remote branch
    sessions,   \* the protected sessions, as a probe would answer now
    frozen,     \* a freeze file exists for the service
    head,       \* the commit checked out
    modules,    \* node_modules of each package: the deps installed, or Special
    served,     \* the commit whose build output is on disk
    unitFiles,  \* the commit whose unit files are installed
    running,    \* the commit each unit's process was started from
    aux,        \* the commit the auxiliary unit was started from
    pc,         \* the stage of the operation, "idle" when none runs
    mode,       \* "deploy" or "rollback"
    opts,       \* its flags
    from, to,   \* plan.from, plan.to
    todo,       \* packages or units the stage has left
    installed,  \* record.installed
    built,      \* record.built
    quiet,      \* idle polls in a row
    exit,       \* exit code of the last operation; of this one, once decided
    log,        \* the release log
    \* history
    restarted,  \* the units (and "aux") this operation asked systemd to restart
    probed,     \* what this operation's last probe answered, since the checkout moved
    torn,       \* a process may run other code than the checkout has
    cut         \* packages (and "build") a failed step left not matching the checkout

envVars == <<origin, sessions, frozen>>
diskVars == <<head, modules, served, unitFiles>>
procVars == <<running, aux>>
opVars == <<mode, opts, from, to>>
recordVars == <<installed, built>>
histVars == <<restarted, probed, torn, cut>>
vars == <<envVars, diskVars, procVars, opVars, recordVars, histVars, pc, todo, quiet, exit, log>>

\* The inner try of apply: a failure in one of these puts the checkout back.
Prepare == {"install", "build", "preflight", "units", "guard2", "wait2", "aux"}
Restore == {"reset", "reinstall", "rebuild"}
PCs == {"idle", "guard1", "wait1", "move", "restart", "rerestart"} \cup Prepare \cup Restore

Versions == (UNION {{DepsOf[c][p] : p \in Pkgs} : c \in Commits}) \cup Special
Results == {"units-installed", "deployed", "rolled-back", "failed-rolled-back",
            "rollback-failed", "restore-failed", "refused", "failed"}

TypeOK ==
    /\ origin \in Commits /\ head \in Commits /\ from \in Commits /\ to \in Commits
    /\ sessions \in SessionStates /\ probed \in SessionStates \cup {"never"}
    /\ frozen \in BOOLEAN /\ built \in BOOLEAN /\ torn \in BOOLEAN
    /\ modules \in [Pkgs -> Versions]
    /\ served \in Commits \cup {NoBuild}
    /\ unitFiles \in Commits /\ aux \in Commits
    /\ running \in [Units -> Commits]
    /\ pc \in PCs /\ mode \in {"deploy", "rollback"} /\ opts \in OptionSets \cup {{}}
    /\ todo \subseteq Pkgs \cup Units
    /\ installed \subseteq Pkgs /\ cut \subseteq Pkgs \cup {"build"}
    /\ quiet \in 0..(QuietChecks - 1) /\ exit \in 0..Killed
    /\ log \in Seq([result : Results, from : Commits, to : Commits])
    /\ restarted \subseteq Units \cup {"aux"}

Init ==
    /\ origin = 0 /\ head = 0 /\ from = 0 /\ to = 0
    /\ sessions = "none" /\ probed = "never" /\ frozen = FALSE
    /\ modules = DepsOf[0] /\ served = 0 /\ unitFiles = 0 /\ aux = 0
    /\ running = [u \in Units |-> 0]
    /\ pc = "idle" /\ mode = "deploy" /\ opts = {}
    /\ todo = {} /\ installed = {} /\ built = FALSE /\ quiet = 0 /\ exit = 0
    /\ log = <<>> /\ restarted = {} /\ torn = FALSE /\ cut = {}
-----------------------------------------------------------------------------
(* computePlan, for the operation's from, to, mode and flags *)

RestartNeeded == Units # {} /\ ("restart" \in opts \/ CodeOf[from] # CodeOf[to])
AuxRestart == mode = "deploy" /\ AuxOf[from] # AuxOf[to]
NeedsInstall == {p \in Pkgs : DepsOf[from][p] # DepsOf[to][p] \/ modules[p] = "missing"}
Moved == from # to      \* record.checkoutMoved, past the move

\* releases.previousFor: the from of the latest deploy in the log that brought the checkout to c.
DeploysTo(c) == {i \in DOMAIN log : log[i].result = "deployed" /\ log[i].to = c /\ log[i].from # c}
PreviousFor(c) ==        \* a set: empty for null
    {log[i].from : i \in {i \in DeploysTo(c) : \A j \in DeploysTo(c) : j <= i}}

-----------------------------------------------------------------------------
(* How an operation ends *)

Record(result, f, t) == log' = Append(log, [result |-> result, from |-> f, to |-> t])

Stop(code) == pc' = "idle" /\ exit' = code /\ todo' = {} /\ quiet' = 0

End(result, code) == Stop(code) /\ Record(result, from, to)

\* With node_modules m and build output b on disk: what does not match the checkout.
Stale(m, b) == {p \in Pkgs : m[p] # DepsOf[head][p]}
                 \cup (IF HasBuild /\ b # head THEN {"build"} ELSE {})

\* Exit 4: MANUAL INTERVENTION, whatever is on disk and running stays.
EndManual(m, b) ==
    /\ End(IF exit = 3 THEN "rollback-failed" ELSE "restore-failed", 4)
    /\ torn' = TRUE
    /\ cut' = cut \cup Stale(m, b)

Refusal(code) == IF code = 5 THEN "refused" ELSE "failed"

\* A throw inside the inner try: restore the checkout if it moved, else report and stop.
Fail(code) ==
    IF Moved
    THEN pc' = "reset" /\ exit' = code /\ todo' = {} /\ quiet' = 0 /\ UNCHANGED log
    ELSE End(Refusal(code), code)

-----------------------------------------------------------------------------
(* From the command to the first change of the checkout *)

\* plan.unitDrift: the unit files on the host are not those of commit t.
UnitDrift(t) == UnitFileOf[unitFiles] # UnitFileOf[t]

ComputePlan(m, t, os) == mode' = m /\ opts' = os /\ from' = head /\ to' = t

NewRecord == installed' = {} /\ built' = FALSE /\ restarted' = {} /\ probed' = "never"

\* At most the unit files are installed, and only that is recorded ("unchanged" is not).
AlreadyThere(m, t, os) ==
    /\ Stop(0)
    /\ IF m = "deploy" /\ "units" \in os /\ UnitDrift(t)
       THEN unitFiles' = head /\ Record("units-installed", head, t)
       ELSE UNCHANGED <<unitFiles, log>>

\* The branch and the local changes are as expected, and t is a commit the clone has.
Plan(m, t, os) ==
    /\ pc = "idle" /\ Len(log) < MaxAttempts
    /\ ComputePlan(m, t, os) /\ NewRecord
    /\ IF t = head /\ "restart" \notin os
       THEN AlreadyThere(m, t, os)
       ELSE /\ pc' = IF RestartNeeded' THEN "guard1" ELSE "move"
            /\ UNCHANGED <<unitFiles, exit, todo, quiet, log>>
    /\ UNCHANGED <<envVars, head, modules, served, procVars, torn, cut>>

\* ovhost deploy, t = origin, or deploy --to t: the freeze is looked at before any lock.
Deploy(t, os) ==
    /\ t <= origin /\ (t >= head \/ ToBehind)
    /\ ~frozen \/ "force" \in os
    /\ Plan("deploy", t, os)

DeployFrozen ==
    /\ pc = "idle" /\ frozen
    /\ exit' = 6
    /\ UNCHANGED <<envVars, diskVars, procVars, opVars, recordVars, histVars, pc, todo, quiet, log>>

\* ovhost rollback --to t, and without --to the release before this one in the log.
RollbackTo(t, os) == t <= origin /\ Plan("rollback", t, os)
RollbackDefault(os) == \E t \in PreviousFor(head) : Plan("rollback", t, os)

\* Host lock timeout, failed fetch, wrong branch, tracked local changes.
PlanFails(m) ==
    /\ pc = "idle" /\ Len(log) < MaxAttempts
    /\ ComputePlan(m, head, {}) /\ NewRecord
    /\ \E code \in {1, 2} : Stop(code)
    /\ Record("failed", head, head)
    /\ UNCHANGED <<envVars, diskVars, procVars, torn, cut>>

-----------------------------------------------------------------------------
(* guardSessions, before the checkout moves and immediately before the restart *)

Passes ==
    \/ sessions = "none" \/ "force" \in opts
    \/ DrainPolicy = "report" /\ sessions = "active" /\ "wait" \notin opts
Waits == ~Passes /\ ("wait" \in opts \/ DrainPolicy = "wait")

Seen == probed' = IF pc \in {"guard2", "wait2"} THEN sessions ELSE probed
AfterGuard == IF pc \in {"guard1", "wait1"} THEN "move" ELSE "aux"

GuardPasses ==
    /\ pc \in {"guard1", "guard2"} /\ Passes
    /\ Seen /\ pc' = AfterGuard
    /\ UNCHANGED <<envVars, diskVars, procVars, opVars, recordVars, restarted, torn, cut, todo, quiet, exit, log>>

GuardHolds ==
    /\ pc \in {"guard1", "guard2"} /\ Waits
    /\ Seen /\ pc' = IF pc = "guard1" THEN "wait1" ELSE "wait2"
    /\ UNCHANGED <<envVars, diskVars, procVars, opVars, recordVars, restarted, torn, cut, todo, quiet, exit, log>>

\* Before the move nothing has to be put back.
RefuseAt(first, code) == IF pc = first THEN End(Refusal(code), code) ELSE Fail(code)

GuardRefuses ==
    /\ pc \in {"guard1", "guard2"} /\ ~Passes /\ ~Waits
    /\ Seen /\ RefuseAt("guard1", 5)
    /\ UNCHANGED <<envVars, diskVars, procVars, opVars, recordVars, restarted, torn, cut>>

Poll ==
    /\ pc \in {"wait1", "wait2"}
    /\ Seen
    /\ IF sessions = "none" /\ quiet + 1 = QuietChecks
       THEN pc' = AfterGuard /\ quiet' = 0
       ELSE /\ quiet' = IF sessions = "none" THEN quiet + 1 ELSE 0
            /\ UNCHANGED pc
    /\ UNCHANGED <<envVars, diskVars, procVars, opVars, recordVars, restarted, torn, cut, todo, exit, log>>

\* Mutant: only the first guard's wait is limited.
GaveUp_FirstOnly ==
    /\ pc = "wait1" /\ End("refused", 5)
    /\ UNCHANGED <<envVars, diskVars, procVars, opVars, recordVars, histVars>>

\* waitMaxSeconds passed (5; logged as gave-up-waiting, here also "refused"), or the host lock did not come back (before the move 1, after it 2).
GaveUp ==
    /\ pc \in {"wait1", "wait2"}
    /\ \E code \in {5, IF pc = "wait1" THEN 1 ELSE 2} : RefuseAt("wait1", code)
    /\ UNCHANGED <<envVars, diskVars, procVars, opVars, recordVars, histVars>>
-----------------------------------------------------------------------------
(* The checkout moves: git merge --ff-only, or reset --hard for a rollback *)

\* Before it: tracked build output is restored from git, output the release tracks removed.
Cleared ==
    IF OutputOf[head] # Untracked THEN OutputOf[head]
    ELSE IF OutputOf[to] # Untracked THEN NoBuild ELSE served

\* git takes the checkout to c with build output b on disk: it writes the output c has, and
\* removes what only the old commit has.
CheckedOut(c, b) ==
    IF OutputOf[c] # Untracked THEN OutputOf[c]
    ELSE IF OutputOf[head] # Untracked THEN NoBuild ELSE b

\* Merging a commit the checkout already contains is "Already up to date", exit 0.
MoveCheckout ==
    /\ pc = "move"
    /\ head' = IF mode = "deploy" /\ to < head THEN head ELSE to
    /\ served' = IF Moved THEN CheckedOut(head', Cleared) ELSE served
    /\ pc' = "install" /\ todo' = NeedsInstall
    /\ UNCHANGED <<envVars, modules, unitFiles, procVars, opVars, recordVars, histVars, quiet, exit, log>>

MoveFails ==
    /\ pc = "move" /\ Moved
    /\ End("failed", 2)
    /\ served' \in {served, Cleared}
    /\ UNCHANGED <<envVars, head, modules, unitFiles, procVars, opVars, recordVars, histVars>>

\* npm ci in one package; inside the inner try a success is recorded for the restore.
Install(p) ==
    /\ pc \in {"install", "reinstall"} /\ p \in todo
    /\ modules' = [modules EXCEPT ![p] = DepsOf[head][p]]
    /\ todo' = todo \ {p} /\ cut' = cut \ {p}
    /\ installed' = IF pc = "install" THEN installed \cup {p} ELSE installed
    /\ UNCHANGED <<envVars, head, served, unitFiles, procVars, opVars, built, restarted, probed, torn, pc, quiet, exit, log>>

\* verifyAndRepair, once every install of the stage is done: what is missing is installed, unrecorded.
Repair(p) ==
    /\ pc \in {"install", "reinstall"} /\ todo = {} /\ modules[p] = "missing"
    /\ modules' = [modules EXCEPT ![p] = DepsOf[head][p]]
    /\ cut' = cut \ {p}
    /\ UNCHANGED <<envVars, head, served, unitFiles, procVars, opVars, recordVars, restarted, probed, torn, pc, todo, quiet, exit, log>>

\* Not enough memory, a failed or killed npm: the package keeps its modules, loses or mixes them.
InstallFails(p) ==
    /\ pc \in {"install", "reinstall"}
    /\ p \in todo \/ (todo = {} /\ modules[p] = "missing")
    /\ \E v \in {modules[p]} \cup Special :
        /\ modules' = [modules EXCEPT ![p] = v]
        /\ IF pc = "install"
           THEN /\ Fail(2)
                /\ cut' = IF v = modules[p] THEN cut ELSE cut \cup {p}
                /\ UNCHANGED torn
           ELSE EndManual(modules', served)
    /\ UNCHANGED <<envVars, head, served, unitFiles, procVars, opVars, recordVars, restarted, probed>>

Verified ==
    /\ pc \in {"install", "reinstall"} /\ todo = {}
    /\ \A p \in Pkgs : modules[p] # "missing"
    /\ pc' = IF pc = "install" THEN "build" ELSE "rebuild"
    /\ UNCHANGED <<envVars, diskVars, procVars, opVars, recordVars, histVars, todo, quiet, exit, log>>

\* A dependency still does not resolve after the repair.
VerifyFails ==
    /\ pc \in {"install", "reinstall"} /\ todo = {}
    /\ IF pc = "install" THEN Fail(2) /\ UNCHANGED <<torn, cut>> ELSE EndManual(modules, served)
    /\ UNCHANGED <<envVars, diskVars, procVars, opVars, recordVars, restarted, probed>>

Build ==
    /\ pc = "build"
    /\ IF HasBuild THEN built' = TRUE /\ served' = head /\ cut' = cut \ {"build"}
                   ELSE UNCHANGED <<built, served, cut>>
    /\ pc' = "preflight"
    /\ UNCHANGED <<envVars, head, modules, unitFiles, procVars, opVars, installed, restarted, probed, torn, todo, quiet, exit, log>>

BuildFails ==
    /\ pc = "build" /\ HasBuild
    /\ built' = TRUE /\ served' = NoBuild
    /\ Fail(2)
    /\ cut' = cut \cup {"build"}
    /\ UNCHANGED <<envVars, head, modules, unitFiles, procVars, opVars, installed, restarted, probed, torn>>

Preflight ==
    /\ pc = "preflight" /\ pc' = "units"
    /\ UNCHANGED <<envVars, diskVars, procVars, opVars, recordVars, histVars, todo, quiet, exit, log>>

\* A preflight check fails, or nginx -t refuses the vhosts.
PreflightFails ==
    /\ pc = "preflight" /\ Fail(2)
    /\ UNCHANGED <<envVars, diskVars, procVars, opVars, recordVars, histVars>>

\* Mutant: the sessions are not looked at again before the restart.
InstallUnits_NoSecondGuard ==
    /\ pc = "units" /\ pc' = "aux"
    /\ unitFiles' = IF "units" \in opts THEN head ELSE unitFiles
    /\ UNCHANGED <<envVars, head, modules, served, procVars, opVars, recordVars, histVars, todo, quiet, exit, log>>

InstallUnits ==
    /\ pc = "units"
    /\ unitFiles' = IF "units" \in opts THEN head ELSE unitFiles
    /\ pc' = IF RestartNeeded THEN "guard2" ELSE "aux"
    /\ UNCHANGED <<envVars, head, modules, served, procVars, opVars, recordVars, histVars, todo, quiet, exit, log>>

\* systemctl enable or the database backup fails: the unit files stay.
BackupFails ==
    /\ pc = "units" /\ Fail(2)
    /\ unitFiles' = IF "units" \in opts THEN head ELSE unitFiles
    /\ UNCHANGED <<envVars, head, modules, served, procVars, opVars, recordVars, histVars>>

Succeeded == IF mode = "deploy" THEN "deployed" ELSE "rolled-back"

RestartAux ==
    /\ pc = "aux"
    /\ IF AuxRestart THEN aux' = head /\ restarted' = restarted \cup {"aux"}
                     ELSE UNCHANGED <<aux, restarted>>
    /\ IF RestartNeeded
       THEN pc' = "restart" /\ todo' = Units /\ UNCHANGED <<quiet, exit, log>>
       ELSE End(Succeeded, 0)
    /\ UNCHANGED <<envVars, diskVars, running, opVars, recordVars, probed, torn, cut>>

\* systemctl restart reports failure: the old process is gone or was never stopped.
RestartAuxFails ==
    /\ pc = "aux" /\ AuxRestart
    /\ aux' \in {aux, head} /\ restarted' = restarted \cup {"aux"}
    /\ Fail(2)
    /\ UNCHANGED <<envVars, diskVars, running, opVars, recordVars, probed, torn, cut>>

-----------------------------------------------------------------------------
(* restartAndWait, and putting everything back *)

Restart(u) ==
    /\ pc \in {"restart", "rerestart"} /\ u \in todo
    /\ running' = [running EXCEPT ![u] = head]
    /\ todo' = todo \ {u} /\ restarted' = restarted \cup {u}
    /\ UNCHANGED <<envVars, diskVars, aux, opVars, recordVars, probed, torn, cut, pc, quiet, exit, log>>

\* The first restartAndWait stands outside every catch but the outermost one.
RestartThrows(u) ==
    /\ pc \in {"restart", "rerestart"} /\ u \in todo
    /\ \E c \in {running[u], head} : running' = [running EXCEPT ![u] = c]
    /\ restarted' = restarted \cup {u}
    /\ IF pc = "restart"
       THEN End("failed", 2) /\ torn' = TRUE /\ UNCHANGED cut
       ELSE EndManual(modules, served)
    /\ UNCHANGED <<envVars, diskVars, aux, opVars, recordVars, probed>>

Ready ==
    /\ pc \in {"restart", "rerestart"} /\ todo = {}
    /\ IF pc = "restart" THEN End(Succeeded, 0) ELSE End("failed-rolled-back", 3)
    /\ torn' = FALSE
    /\ UNCHANGED <<envVars, diskVars, procVars, opVars, recordVars, restarted, probed, cut>>

NotReady ==
    /\ pc \in {"restart", "rerestart"} /\ todo = {}
    /\ IF pc = "restart"
       THEN pc' = "reset" /\ exit' = 3 /\ UNCHANGED <<todo, quiet, log, torn, cut>>
       ELSE EndManual(modules, served)
    /\ UNCHANGED <<envVars, diskVars, procVars, opVars, recordVars, restarted, probed>>

\* Mutant: the checkout is put back without reinstalling what was installed.
Reset_NoReinstall ==
    /\ pc = "reset"
    /\ head' = from /\ served' = CheckedOut(from, served)
    /\ pc' = "reinstall" /\ todo' = {}
    /\ UNCHANGED <<envVars, modules, unitFiles, procVars, opVars, recordVars, histVars, quiet, exit, log>>

\* Mutant: dependencies are reinstalled, but the checkout stays.
Reset_KeepsHead ==
    /\ pc = "reset"
    /\ pc' = "reinstall" /\ todo' = installed
    /\ UNCHANGED <<envVars, diskVars, procVars, opVars, recordVars, histVars, quiet, exit, log>>

\* restoreCheckout: reset --hard, of tracked build output too, then the packages this operation
\* recorded.
Reset ==
    /\ pc = "reset"
    /\ head' = from /\ served' = CheckedOut(from, served)
    /\ pc' = "reinstall" /\ todo' = installed
    /\ UNCHANGED <<envVars, modules, unitFiles, procVars, opVars, recordVars, histVars, quiet, exit, log>>

ResetFails ==
    /\ pc = "reset" /\ EndManual(modules, served)
    /\ UNCHANGED <<envVars, diskVars, procVars, opVars, recordVars, restarted, probed>>

\* Mutant: the automatic rollback does not restart the units again.
Rebuild_NoRestart ==
    /\ pc = "rebuild"
    /\ IF built THEN served' = head /\ cut' = cut \ {"build"} ELSE UNCHANGED <<served, cut>>
    /\ End(IF exit = 3 THEN "failed-rolled-back" ELSE Refusal(exit), exit)
    /\ UNCHANGED <<envVars, head, modules, unitFiles, procVars, opVars, recordVars, restarted, probed, torn>>

Rebuild ==
    /\ pc = "rebuild"
    /\ IF built THEN served' = head /\ cut' = cut \ {"build"} ELSE UNCHANGED <<served, cut>>
    /\ IF exit = 3
       THEN pc' = "rerestart" /\ todo' = Units /\ UNCHANGED <<quiet, exit, log>>
       ELSE End(Refusal(exit), exit)
    /\ UNCHANGED <<envVars, head, modules, unitFiles, procVars, opVars, recordVars, restarted, probed, torn>>

RebuildFails ==
    /\ pc = "rebuild" /\ built
    /\ served' = NoBuild /\ EndManual(modules, NoBuild)
    /\ UNCHANGED <<envVars, head, modules, unitFiles, procVars, opVars, recordVars, restarted, probed>>

-----------------------------------------------------------------------------
(* The world around an operation *)

Push ==
    /\ origin < Last /\ origin' = origin + 1
    /\ UNCHANGED <<sessions, frozen, diskVars, procVars, opVars, recordVars, histVars, pc, todo, quiet, exit, log>>

SessionsChange ==
    /\ sessions' \in SessionStates \ {sessions}
    /\ UNCHANGED <<origin, frozen, diskVars, procVars, opVars, recordVars, histVars, pc, todo, quiet, exit, log>>

\* ovhost freeze and unfreeze, between operations.
FreezeOrUnfreeze ==
    /\ pc = "idle" /\ frozen' \in FreezeStates \ {frozen}
    /\ UNCHANGED <<origin, sessions, diskVars, procVars, opVars, recordVars, histVars, pc, todo, quiet, exit, log>>

\* systemd's Restart=: a unit that dies is started again from what is on disk.
SelfRestart(u) ==
    /\ running[u] # head
    /\ running' = [running EXCEPT ![u] = head]
    /\ torn' = (torn \/ pc # "idle")
    /\ UNCHANGED <<envVars, diskVars, aux, opVars, recordVars, restarted, probed, cut, pc, todo, quiet, exit, log>>

\* What a kill leaves of the step it cut short.
CutModules == {modules} \cup
    (IF pc \in {"install", "reinstall"}
     THEN {[modules EXCEPT ![p] = v] : p \in todo \cap Pkgs, v \in Special} ELSE {})
CutBuild == {served} \cup (IF pc = "move" /\ Moved THEN {Cleared} ELSE {}) \cup
    (IF (pc = "build" /\ HasBuild) \/ (pc = "rebuild" /\ built) THEN {NoBuild} ELSE {})

\* ovhost is killed or the host goes down: no record, nothing undone.
Crash ==
    /\ pc # "idle"
    /\ Stop(Killed)
    /\ modules' \in CutModules /\ served' \in CutBuild
    /\ torn' = (torn \/ pc \notin {"guard1", "wait1", "move"})
    /\ cut' = cut \cup Stale(modules', served')
    /\ UNCHANGED <<envVars, head, unitFiles, procVars, opVars, recordVars, restarted, probed, log>>

-----------------------------------------------------------------------------
Begin ==
    \/ \E t \in Commits, os \in OptionSets : Deploy(t, os) \/ RollbackTo(t, os)
    \/ \E os \in OptionSets : RollbackDefault(os)
    \/ DeployFrozen
    \/ \E m \in {"deploy", "rollback"} : PlanFails(m)

\* What a running operation does next.
Step ==
    \/ GuardPasses \/ GuardHolds \/ GuardRefuses \/ Poll \/ MoveCheckout \/ MoveFails
    \/ \E p \in Pkgs : Install(p) \/ Repair(p) \/ InstallFails(p)
    \/ Verified \/ VerifyFails \/ Build \/ BuildFails \/ Preflight \/ PreflightFails
    \/ InstallUnits \/ BackupFails \/ RestartAux \/ RestartAuxFails
    \/ \E u \in Units : Restart(u) \/ RestartThrows(u)
    \/ Ready \/ NotReady \/ Reset \/ ResetFails \/ Rebuild \/ RebuildFails

World == Push \/ SessionsChange \/ FreezeOrUnfreeze \/ (\E u \in Units : SelfRestart(u))

Next == Begin \/ Step \/ GaveUp \/ World \/ Crash

Spec == Init /\ [][Next]_vars

\* A live process takes its steps, and a poll that never sees quiet ends after waitMaxSeconds.
FairSpec == Spec /\ WF_vars(Step) /\ WF_vars(GaveUp)

-----------------------------------------------------------------------------
\* Between operations every unit runs the code the checkout has, whatever was
\* refused, failed or rolled back before, until an operation was killed, stopped
\* at exit 4, had systemctl restart fail, or a unit restarted by itself meanwhile.
ServesCheckout ==
    pc = "idle" /\ ~torn => \A u \in Units : CodeOf[running[u]] = CodeOf[head]

\* What git leaves of the build output at commit c: its own; none, where other commits have one.
LeftByGit(c) ==
    IF OutputOf[c] # Untracked THEN OutputOf[c]
    ELSE IF \E d \in Commits : OutputOf[d] # Untracked THEN NoBuild ELSE c

\* Between operations node_modules and the served build match the checkout, except what a
\* cut install or build, a kill or an exit 4 is known to have left.  Build output that git
\* tracks is the build of the checkout too, unless the operation ended before its build: then
\* it may be what git has, which nobody built on this host.
FilesMatch ==
    pc = "idle" =>
        /\ \A p \in Pkgs \ cut : modules[p] = DepsOf[head][p]
        /\ HasBuild /\ "build" \notin cut => served = head \/ (~built /\ served = LeftByGit(head))

\* What the exit code says of the checkout and the units is true of the host.
ExitCodeHonest ==
    pc = "idle" =>
        /\ exit = 0 => head = to
        /\ exit = 3 => head = from /\ Units \subseteq restarted
        /\ exit = 5 => head = from /\ restarted = {}
        /\ exit = 2 /\ restarted = {} => head = from

\* The first unit restarts only after a probe that came after the checkout moved
\* saw no session, unless the operator or the drain policy lets sessions drop.
GuardedRestart ==
    pc = "restart" /\ restarted \subseteq {"aux"} /\ "force" \notin opts =>
        probed = "none" \/ (DrainPolicy = "report" /\ probed = "active" /\ "wait" \notin opts)

\* A rollback without --to always goes to an older commit, never forward again.
RollbackGoesBack == \A t \in PreviousFor(head) : t < head

\* A deploy or a rollback ends, even if the sessions it waits for never do.
EveryOperationEnds == pc # "idle" ~> pc = "idle"

-----------------------------------------------------------------------------
\* "Any failure in 5 restores the checkout, its dependencies and rebuilds (a build writes what
\* is served)" (docs/deploy-strategies.md:46), here one after an install of that step.
FailureRebuilds ==
    pc = "idle" /\ exit = 2 /\ installed # {} /\ HasBuild /\ cut = {} /\ ~torn => served = head

\* "Restart the units ..., wait for readiness ..., and on failure roll back:
\* restore, reinstall, rebuild, restart (exit 3, or 4)" (docs/deploy-strategies.md:48-49).
RestartFailureRollsBack ==
    pc = "idle" /\ restarted \cap Units # {} /\ exit \notin {0, 4, Killed} => head = from
=============================================================================
