--------------------------- MODULE ReleaseLayout ---------------------------
(***************************************************************************)
(* The release-layout strategy (lib/release-layout.js): a new release is   *)
(* prepared in a directory of its own, `current` is switched to it by an   *)
(* atomic rename, the units restart only when they have to, and releases   *)
(* beyond `keep` are pruned unless something still runs from them.         *)
(*                                                                         *)
(* One operation at a time; the idle wait of guardSessions, modelled in    *)
(* InPlaceDeploy, is here just staying at the guard.                       *)
(***************************************************************************)
EXTENDS Integers, FiniteSets, Sequences

CONSTANTS
    Last,           \* the newest commit the branch will ever have
    Units,          \* the service units
    CodeOf,         \* CodeOf[c]: what commit c has outside noRestartPaths
    UnitFileOf,     \* UnitFileOf[c]: the service's unit files at c
    SocketOf,       \* SocketOf[c]: the socket's unit file at c
    SchemaOf,       \* SchemaOf[c]: the backupOnChange files at c
    Formats,        \* what release.idFormat may be: "sha12" names the commit only
    Keep,           \* release.keep
    SystemdSilent,  \* systemctl may fail while prune asks what is in use
    SessionStates,  \* what the session probe may answer
    OptionSets,     \* the sets of flags an operator gives
    MaxAttempts     \* bound: operations planned

Commits == 0..Last
Killed == 7         \* the operation died: no exit code

ASSUME LastAssumption == Last \in Nat
ASSUME KeepAssumption == Keep \in Nat
ASSUME AttemptsAssumption == MaxAttempts \in Nat
ASSUME SessionAssumption == "none" \in SessionStates

VARIABLES
    format,         \* release.idFormat of the service
    origin,         \* the tip of the remote branch
    sessions,       \* the protected sessions, as a probe would answer now
    dirs,           \* the release directories: <<commit, when it was made>>
    linked,         \* the ones that have release.links
    moduled,        \* the ones whose dependencies resolve
    current,        \* the release the link points at
    unitFiles,      \* the commit whose unit files are installed
    running,        \* the release each unit's process was started in
    workers,        \* releases that worker unit instances run from
    listening,      \* the commit whose socket unit file the open socket was started from
    held,           \* systemd holds the listener
    made,           \* operations planned so far: the clock of the release names
    pc,             \* the stage of the operation, "idle" when none runs
    mode, opts,     \* "deploy" or "rollback", and its flags
    leaving,        \* plan.currentDir
    dir,            \* the release the operation is about to make current
    named,          \* plan.toRelease
    restartNeeded,  \* plan.restartNeeded
    prepared,       \* record.prepared
    switched,       \* record.switched
    socketChanged,  \* installReleaseUnits wrote the socket unit file
    exit,           \* exit code of the last operation
    log,            \* the release log
    \* history
    fresh,          \* a guard passed, and no backup ran since
    cut,            \* releases left behind by a preparation that was killed or failed
    torn,           \* an operation ended with units and current apart
    unbound         \* ... or with the socket unit file and the open socket apart

envVars == <<format, origin, sessions>>
dirVars == <<dirs, linked, moduled, cut>>
hostVars == <<current, unitFiles>>
procVars == <<running, workers, listening, held>>
planVars == <<mode, opts, leaving, dir, named, restartNeeded>>
recordVars == <<prepared, switched, socketChanged>>
histVars == <<fresh, torn, unbound>>
vars == <<envVars, dirVars, hostVars, procVars, planVars, recordVars, histVars, made, pc, exit, log>>

Releases == Commits \X (0..MaxAttempts)
Sha(r) == r[1]
\* The directory's name: newReleaseId.
Sha12 == format = "sha12"
Name(r) == IF Sha12 THEN <<Sha(r), 0>> ELSE r

Preparing == {"worktree", "links", "modules"}
Guarding == {"guard", "backup", "guard2"}
PCs == {"idle", "switch", "settle", "install", "restart", "ready", "prune",
        "back", "reinstall", "rerestart", "reready"} \cup Preparing \cup Guarding
Results == {"deployed", "rolled-back", "prepared", "failed-rolled-back", "rollback-failed",
            "refused", "failed"}

TypeOK ==
    /\ format \in Formats /\ origin \in Commits /\ sessions \in SessionStates
    /\ dirs \subseteq Releases /\ linked \subseteq Releases /\ moduled \subseteq Releases
    /\ current \in Releases /\ unitFiles \in Commits
    /\ running \in [Units -> Releases] /\ workers \subseteq Releases
    /\ listening \in Commits /\ held \in BOOLEAN /\ made \in 0..MaxAttempts
    /\ pc \in PCs /\ mode \in {"deploy", "rollback"} /\ opts \in OptionSets \cup {{}}
    /\ leaving \in Releases /\ dir \in Releases /\ named \in Releases
    /\ {restartNeeded, prepared, switched, socketChanged} \subseteq BOOLEAN
    /\ exit \in 0..Killed /\ cut \subseteq Releases
    /\ log \in Seq([result : Results, from : Releases, to : Releases])
    /\ {fresh, torn, unbound} \subseteq BOOLEAN

First == <<0, 0>>

Init ==
    /\ format \in Formats /\ origin = 0 /\ sessions = "none"
    /\ dirs = {First} /\ linked = {First} /\ moduled = {First} /\ cut = {}
    /\ current = First /\ unitFiles = 0
    /\ running = [u \in Units |-> First] /\ workers = {} /\ listening = 0 /\ held = TRUE
    /\ made = 0 /\ pc = "idle" /\ mode = "deploy" /\ opts = {}
    /\ leaving = First /\ dir = First /\ named = First /\ restartNeeded = FALSE
    /\ prepared = FALSE /\ switched = FALSE /\ socketChanged = FALSE
    /\ exit = 0 /\ log = <<>>
    /\ fresh = FALSE /\ torn = FALSE /\ unbound = FALSE

-----------------------------------------------------------------------------
(* How an operation ends *)

Record(result) == log' = Append(log, [result |-> result, from |-> Name(leaving), to |-> Name(named)])
End(result, code) == pc' = "idle" /\ exit' = code /\ Record(result)

\* Stopped half way, with the unit files of commit c installed and the socket of commit l open.
Apart(c, l) == torn' = TRUE /\ unbound' = (SocketOf[c] # SocketOf[l])

\* worktreeRemove of a release this operation made; its own failure is ignored.
RemovePrepared ==
    \/ prepared /\ dirs' = dirs \ {dir} /\ UNCHANGED <<linked, cut>>
    \/ prepared /\ cut' = cut \cup {dir} /\ UNCHANGED <<dirs, linked>>
    \/ ~prepared /\ UNCHANGED <<dirs, linked, cut>>

-----------------------------------------------------------------------------
(* computePlan *)

UnitDrift(c) == UnitFileOf[unitFiles] # UnitFileOf[c] \/ SocketOf[unitFiles] # SocketOf[c]

\* The release of commit c a sha12 deploy finds in place.
Existing(c) == {r \in dirs : Sha12 /\ Sha(r) = c /\ r # current}

\* A rollback, or a deploy, to release r; stage is where its work begins.
Plan(m, r, os, upToDate, stage) ==
    /\ pc = "idle" /\ made < MaxAttempts
    /\ made' = made + 1
    /\ mode' = m /\ opts' = os /\ leaving' = current /\ named' = r
    /\ dir' = IF upToDate THEN current ELSE r
    /\ restartNeeded' = (Units # {} /\ ("restart" \in os \/ CodeOf[Sha(current)] # CodeOf[Sha(r)]
                                        \/ UnitDrift(Sha(r))))
    /\ prepared' = FALSE /\ switched' = FALSE /\ socketChanged' = FALSE /\ fresh' = FALSE
    /\ IF upToDate /\ "restart" \notin os
       THEN exit' = 0 /\ UNCHANGED pc       \* "unchanged" is not recorded
       ELSE /\ pc' = IF ~upToDate /\ stage \in Preparing THEN stage
                     ELSE IF restartNeeded' THEN "guard" ELSE "switch"
            /\ UNCHANGED exit
    /\ UNCHANGED <<envVars, dirVars, hostVars, procVars, torn, unbound, log>>

Deploy(c, os) ==
    /\ c <= origin
    /\ IF Existing(c) # {}
       THEN \E r \in Existing(c) : Plan("deploy", r, os, c = Sha(current), "modules")
       ELSE Plan("deploy", <<c, made + 1>>, os, c = Sha(current), "worktree")

RollbackTo(r, os) ==
    /\ r \in dirs /\ "prepareOnly" \notin os
    /\ Plan("rollback", r, os, r = current, "switch")

\* Where the release log says the current release came from, if that is still there ...
LoggedDeploys == {i \in DOMAIN log :
    /\ log[i].result = "deployed" /\ log[i].to = Name(current) /\ log[i].from # Name(current)
    /\ \E r \in dirs : Name(r) = log[i].from}
\* ... else the newest other release.
Newest(S) == {r \in S : \A s \in S : s[2] <= r[2]}
RollbackTarget ==
    IF LoggedDeploys # {}
    THEN {r \in dirs : \E i \in LoggedDeploys : Name(r) = log[i].from /\ \A j \in LoggedDeploys : j <= i}
    ELSE Newest(dirs \ {current})

RollbackDefault(os) == \E r \in RollbackTarget : RollbackTo(r, os)

\* The host lock, the fetch or a name lookup failed.
PlanFails ==
    /\ pc = "idle" /\ made < MaxAttempts
    /\ made' = made + 1
    /\ \E code \in {1, 2} : exit' = code
    /\ log' = Append(log, [result |-> "failed", from |-> Name(current), to |-> Name(current)])
    /\ UNCHANGED <<envVars, dirVars, hostVars, procVars, planVars, recordVars, histVars, pc>>

-----------------------------------------------------------------------------
(* prepare: while the current release keeps serving *)

AddWorktree ==
    /\ pc = "worktree" /\ pc' = "links"
    /\ dirs' = dirs \cup {dir} /\ prepared' = TRUE
    /\ UNCHANGED <<envVars, linked, moduled, cut, hostVars, procVars, planVars, switched, socketChanged, histVars, made, exit, log>>

MakeLinks ==
    /\ pc = "links" /\ pc' = "modules"
    /\ linked' = linked \cup {dir}
    /\ UNCHANGED <<envVars, dirs, moduled, cut, hostVars, procVars, planVars, recordVars, histVars, made, exit, log>>

AfterPrepare == IF restartNeeded THEN "guard" ELSE "switch"
Checked == cut' = IF dir \in linked THEN cut \ {dir} ELSE cut

\* Mutant: a release left in place is not checked again.
CheckModules_NoRepair ==
    /\ pc = "modules"
    /\ moduled' = IF prepared THEN moduled \cup {dir} ELSE moduled
    /\ Checked
    /\ IF "prepareOnly" \in opts THEN End("prepared", 0) ELSE pc' = AfterPrepare /\ UNCHANGED <<exit, log>>
    /\ UNCHANGED <<envVars, dirs, linked, hostVars, procVars, planVars, recordVars, histVars, made>>

\* Install or hard-link node_modules, verify and repair, preflight, chown.
CheckModules ==
    /\ pc = "modules"
    /\ moduled' = moduled \cup {dir} /\ Checked
    /\ IF "prepareOnly" \in opts THEN End("prepared", 0) ELSE pc' = AfterPrepare /\ UNCHANGED <<exit, log>>
    /\ UNCHANGED <<envVars, dirs, linked, hostVars, procVars, planVars, recordVars, histVars, made>>

\* Any failure removes the new release; npm may have emptied node_modules of one it reused.
PrepareFails ==
    /\ pc \in Preparing
    /\ \/ RemovePrepared /\ UNCHANGED moduled
       \/ /\ pc = "modules" /\ ~prepared
          /\ moduled' = moduled \ {dir} /\ cut' = cut \cup {dir} /\ UNCHANGED <<dirs, linked>>
    /\ End("failed", 2)
    /\ UNCHANGED <<envVars, hostVars, procVars, planVars, recordVars, histVars, made>>

-----------------------------------------------------------------------------
(* Sessions and the backup, before the switch *)

BackupNeeded == SchemaOf[Sha(leaving)] # SchemaOf[Sha(dir)]
SessionsAllow == sessions = "none" \/ "force" \in opts

GuardPasses ==
    /\ pc \in {"guard", "guard2"} /\ SessionsAllow
    /\ pc' = IF pc = "guard" /\ BackupNeeded THEN "backup" ELSE "switch"
    /\ fresh' = TRUE
    /\ UNCHANGED <<envVars, dirVars, hostVars, procVars, planVars, recordVars, torn, unbound, made, exit, log>>

\* Refused, or gave up waiting.
GuardRefuses ==
    /\ pc \in {"guard", "guard2"} /\ ~SessionsAllow
    /\ RemovePrepared /\ UNCHANGED moduled
    /\ End("refused", 5)
    /\ UNCHANGED <<envVars, hostVars, procVars, planVars, recordVars, histVars, made>>

\* A backup takes long: sessions may have begun since.
Backup ==
    /\ pc = "backup" /\ pc' = "guard2" /\ fresh' = FALSE
    /\ UNCHANGED <<envVars, dirVars, hostVars, procVars, planVars, recordVars, torn, unbound, made, exit, log>>

\* The backup failed, or the host lock did not come back after an idle wait.
BackupFails ==
    /\ pc \in Guarding
    /\ RemovePrepared /\ UNCHANGED moduled
    /\ \E code \in {1, 2} : End("failed", code)
    /\ UNCHANGED <<envVars, hostVars, procVars, planVars, recordVars, histVars, made>>

-----------------------------------------------------------------------------
(* The switch, and without a restart the wait for the ready URL *)

Switch ==
    /\ pc = "switch"
    /\ current' = dir /\ switched' = (dir # leaving)
    /\ pc' = IF restartNeeded THEN "install" ELSE "settle"
    /\ UNCHANGED <<envVars, dirVars, unitFiles, procVars, planVars, prepared, socketChanged, histVars, made, exit, log>>

\* The rename is atomic: the link stays as it was.
SwitchFails ==
    /\ pc = "switch" /\ dir # leaving
    /\ End("failed", 2)
    /\ UNCHANGED <<envVars, dirVars, hostVars, procVars, planVars, recordVars, histVars, made>>

\* record.pruned comes before the record is written, and only after a deploy.
Succeed ==
    IF mode = "deploy" THEN pc' = "prune" /\ UNCHANGED <<exit, log>> ELSE End("rolled-back", 0)

Settled ==
    /\ pc = "settle" /\ Succeed
    /\ UNCHANGED <<envVars, dirVars, hostVars, procVars, planVars, recordVars, histVars, made>>

SettleFails ==
    /\ pc = "settle"
    /\ \/ current' = leaving /\ End("failed-rolled-back", 3)
       \/ End("failed", 2) /\ UNCHANGED current     \* the switch back threw
    /\ UNCHANGED <<envVars, dirVars, unitFiles, procVars, planVars, recordVars, histVars, made>>

-----------------------------------------------------------------------------
(* installReleaseUnits and restartRelease, forwards and back again *)

\* The release whose unit files are being installed.
Installing == IF pc = "install" THEN dir ELSE leaving

InstallUnits ==
    /\ pc \in {"install", "reinstall"}
    /\ unitFiles' = Sha(Installing)
    /\ socketChanged' = (SocketOf[unitFiles] # SocketOf[Sha(Installing)])
    /\ pc' = IF pc = "install" THEN "restart" ELSE "rerestart"
    /\ UNCHANGED <<envVars, dirVars, current, procVars, planVars, prepared, switched, histVars, made, exit, log>>

\* A throw on the way forward stops there (exit 2), on the way back is exit 4.
Throw(forward) ==
    IF pc = forward THEN End("failed", 2) ELSE End("rollback-failed", 4)

InstallUnitsFails ==
    /\ pc \in {"install", "reinstall"}
    /\ unitFiles' \in {unitFiles, Sha(Installing)}
    /\ Throw("install") /\ Apart(unitFiles', listening)
    /\ UNCHANGED <<envVars, dirVars, current, procVars, planVars, recordVars, fresh, made>>

\* The socket rule.
Rebind == socketChanged \/ ~held

\* rebindSocket: the service stops, the socket restarts, the service starts on it.
RebindSocket == listening' = unitFiles /\ held' = TRUE

RestartUnits ==
    /\ pc \in {"restart", "rerestart"}
    /\ running' = [u \in Units |-> current]
    /\ IF Rebind THEN RebindSocket /\ unbound' = FALSE
                 ELSE UNCHANGED <<listening, held, unbound>>
    /\ pc' = IF pc = "restart" THEN "ready" ELSE "reready"
    /\ UNCHANGED <<envVars, dirVars, hostVars, workers, planVars, recordVars, fresh, torn, made, exit, log>>

RestartThrows ==
    /\ pc \in {"restart", "rerestart"}
    /\ \E S \in SUBSET Units : running' = [u \in Units |-> IF u \in S THEN current ELSE running[u]]
    /\ \/ Rebind /\ RebindSocket
       \/ UNCHANGED <<listening, held>>
    /\ Throw("restart") /\ Apart(unitFiles, listening')
    /\ UNCHANGED <<envVars, dirVars, hostVars, workers, planVars, recordVars, fresh, made>>

Ready ==
    /\ pc \in {"ready", "reready"}
    /\ torn' = FALSE
    /\ IF pc = "ready" THEN Succeed ELSE End("failed-rolled-back", 3)
    /\ UNCHANGED <<envVars, dirVars, hostVars, procVars, planVars, recordVars, fresh, unbound, made>>

NotReady ==
    /\ pc \in {"ready", "reready"}
    /\ IF pc = "ready"
       THEN pc' = "back" /\ UNCHANGED <<exit, log, torn, unbound>>
       ELSE End("rollback-failed", 4) /\ Apart(unitFiles, listening)
    /\ UNCHANGED <<envVars, dirVars, hostVars, procVars, planVars, recordVars, fresh, made>>

\* Mutant: the link goes back, the unit files do not.
SwitchBack_KeepsUnits ==
    /\ pc = "back" /\ pc' = "rerestart"
    /\ current' = IF switched THEN leaving ELSE current
    /\ UNCHANGED <<envVars, dirVars, unitFiles, procVars, planVars, recordVars, histVars, made, exit, log>>

SwitchBack ==
    /\ pc = "back" /\ pc' = "reinstall"
    /\ current' = IF switched THEN leaving ELSE current
    /\ UNCHANGED <<envVars, dirVars, unitFiles, procVars, planVars, recordVars, histVars, made, exit, log>>

SwitchBackFails ==
    /\ pc = "back" /\ switched
    /\ End("rollback-failed", 4) /\ Apart(unitFiles, listening)
    /\ UNCHANGED <<envVars, dirVars, hostVars, procVars, planVars, recordVars, fresh, made>>

-----------------------------------------------------------------------------
(* prune *)

\* Mutant: only worker instances are asked, as before 2026-10-17.
InUse_WorkersOnly == workers

\* releasesInUse: a unit or worker template systemctl cannot answer for is skipped.
InUse == {running[u] : u \in Units} \cup workers
Seen == IF SystemdSilent THEN SUBSET InUse ELSE {InUse}

Newer(r) == {s \in dirs : s[2] > r[2]}

Prune ==
    /\ pc = "prune"
    /\ \E seen \in Seen :
           dirs' = {r \in dirs : \/ Cardinality(Newer(r)) < Keep
                                 \/ r \in {current, leaving} \cup seen}
    /\ End("deployed", 0)
    /\ UNCHANGED <<envVars, linked, moduled, cut, hostVars, procVars, planVars, recordVars, histVars, made>>

-----------------------------------------------------------------------------
(* The world around an operation *)

Push ==
    /\ origin < Last /\ origin' = origin + 1
    /\ UNCHANGED <<format, sessions, dirVars, hostVars, procVars, planVars, recordVars, histVars, made, pc, exit, log>>

SessionsChange ==
    /\ sessions' \in SessionStates \ {sessions}
    /\ UNCHANGED <<format, origin, dirVars, hostVars, procVars, planVars, recordVars, histVars, made, pc, exit, log>>

\* systemd starts a unit again, or a worker instance, in what current is then.
SelfRestart(u) ==
    /\ running[u] # current
    /\ running' = [running EXCEPT ![u] = current]
    /\ torn' = (torn \/ pc # "idle")
    /\ UNCHANGED <<envVars, dirVars, hostVars, workers, listening, held, planVars, recordVars, fresh, unbound, made, pc, exit, log>>

WorkersChange ==
    /\ workers' \in {workers \cup {current}} \cup {workers \ {r} : r \in workers}
    /\ workers' # workers
    /\ UNCHANGED <<envVars, dirVars, hostVars, running, listening, held, planVars, recordVars, histVars, made, pc, exit, log>>

\* The service bound the port itself.
SocketLost ==
    /\ held /\ held' = FALSE
    /\ UNCHANGED <<envVars, dirVars, hostVars, running, workers, listening, planVars, recordVars, histVars, made, pc, exit, log>>

\* ovhost is killed: no record, nothing undone.
Crash ==
    /\ pc # "idle" /\ pc' = "idle" /\ exit' = Killed
    /\ cut' = IF pc \in {"links", "modules"} THEN cut \cup {dir} ELSE cut
    /\ moduled' \in {moduled} \cup (IF pc = "modules" THEN {moduled \ {dir}} ELSE {})
    /\ IF pc \in Preparing \cup Guarding \cup {"switch"} THEN UNCHANGED <<torn, unbound>>
       ELSE Apart(unitFiles, listening)
    /\ UNCHANGED <<envVars, dirs, linked, hostVars, procVars, planVars, recordVars, fresh, made, log>>

-----------------------------------------------------------------------------
Begin ==
    \/ \E os \in OptionSets : \/ \E c \in Commits : Deploy(c, os)
                              \/ \E r \in dirs : RollbackTo(r, os)
                              \/ RollbackDefault(os)
    \/ PlanFails

Step ==
    \/ AddWorktree \/ MakeLinks \/ CheckModules \/ PrepareFails
    \/ GuardPasses \/ GuardRefuses \/ Backup \/ BackupFails
    \/ Switch \/ SwitchFails \/ Settled \/ SettleFails
    \/ InstallUnits \/ InstallUnitsFails \/ RestartUnits \/ RestartThrows
    \/ Ready \/ NotReady \/ SwitchBack \/ SwitchBackFails \/ Prune

World ==
    \/ Push \/ SessionsChange \/ WorkersChange \/ SocketLost
    \/ \E u \in Units : SelfRestart(u)

Next == Begin \/ Step \/ World \/ Crash

Spec == Init /\ [][Next]_vars

-----------------------------------------------------------------------------
\* What current points at, what a unit runs from and what a worker runs from is
\* never removed, by a prune or by the cleanup of a failed preparation
\* ("never the current release, ... the one the service's process runs from,
\* or one a worker unit instance still runs from", lib/release-layout.js:25-27).
NeverPrunedInUse ==
    current \in dirs /\ (\A u \in Units : running[u] \in dirs) /\ workers \subseteq dirs

\* A release becomes current only with its links made and its dependencies
\* resolved, by a deploy or a rollback, unless it was left behind unfinished:
\* by a killed preparation, by a failed one whose directory was not removed, or
\* by a failed install in a release already there (lib/release-layout.js:405).
CurrentIsWhole == current \in (linked \cap moduled) \cup cut

\* Between operations the units run the code current has, and the unit files and
\* the open socket are current's, until an operation stopped half way.
HostMatchesCurrent ==
    pc = "idle" /\ ~torn =>
        /\ \A u \in Units : CodeOf[Sha(running[u])] = CodeOf[Sha(current)]
        /\ Units # {} => ~UnitDrift(Sha(current))
        /\ Units # {} /\ ~unbound => SocketOf[listening] = SocketOf[unitFiles]

\* Unless forced, the switch that leads to a restart follows a look at the
\* sessions that no backup came after.
SwitchAfterFreshGuard ==
    pc = "switch" /\ restartNeeded /\ "force" \notin opts => fresh

\* "links made in every release" (lib/release-layout.js:10): the current one has them.
LinksInEveryRelease == current \in linked
=============================================================================
