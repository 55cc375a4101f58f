------------------------------- MODULE Drill -------------------------------
(***************************************************************************)
(* The restore drill of one service (lib/commands/drill.js over            *)
(* lib/dbengine.js): restore a backup into scratch databases and a scratch *)
(* directory, start a second instance of the service against them, compare *)
(* it with production, and remove everything again.                        *)
(*                                                                         *)
(* A drill is one ovhost process, named by its stamp.  Deploys move the    *)
(* production checkout, and backups prune the copy, while it runs; a kill  *)
(* may fall between any two calls.  The drill lock of the service is taken *)
(* here as atomic (its steps are in DeployLocks).                          *)
(***************************************************************************)
EXTENDS Naturals, FiniteSets

CONSTANTS
    Drills,         \* the drills of the service that are ever started
    Dbs,            \* its PostgreSQL databases
    MaxMishaps,     \* how many calls fail
    MaxKills,       \* how many drills are killed
    MaxDeploys      \* how often a deploy or rollback moves the checkout

ASSUME DbsAssumption == Dbs # {}     \* lib/inventory.js:434
ASSUME BoundsAssumption == {MaxMishaps, MaxKills, MaxDeploys} \subseteq Nat

VARIABLES
    decl,       \* the drill block: what it maps and overrides
    switches,   \* the checkout has the switches that drill.requires names
    backup,     \* the newest backup of the service
    dbs, roles, \* scratch databases and roles in the cluster: <<drill, database>>
    full,       \* the scratch databases that were restored to the end
    dirs,       \* drills whose directory exists
    inst,       \* the drill instances: none, starting, or listening on the drill port
    env,        \* the names an instance has production's value for
    old,        \* an instance that runs a release without the switches
    lock,       \* who holds the drill lock
    dr,         \* each drill: its stage and its record
    mishaps, kills, deploys

clusterVars == <<dbs, roles, full>>
instVars == <<inst, env, old>>
worldVars == <<decl, switches, backup>>
boundVars == <<mishaps, kills, deploys>>
drillVars == <<worldVars, clusterVars, dirs, instVars, lock, dr, boundVars>>

Scratch == Drills \X Dbs
Addresses == (Dbs \X {"url", "directUrl"}) \cup {<<"VALKEY", "url">>}
Backups == [dump : {"good", "differs", "unlistable", "unrestorable", "gone"},
            objects : {"good", "unsafe member", "blob mismatch"}]
Running == {"space", "sweep", "prepare", "copy", "role", "createdb", "pgrestore", "objects", "counts",
            "start", "show", "ready", "compare", "acceptance"}
Cleanup == {"stop", "drop", "drop role", "remove", "record"}
Ended == {"idle", "refused", "done", "dead"}
Fresh == [pc |-> "idle", todo |-> {}, at |-> {}, scratch |-> {}, kept |-> FALSE, pid |-> FALSE, created |-> FALSE,
          failure |-> "-", stop |-> "-", undropped |-> {}, result |-> "-", by |-> {}, keep |-> FALSE]

TypeOK ==
    /\ decl.mapped \subseteq Dbs /\ decl.env \subseteq Addresses /\ decl.startable \in BOOLEAN
    /\ switches \in BOOLEAN /\ backup \in Backups
    /\ dbs \subseteq Scratch /\ roles \subseteq Scratch /\ full \subseteq dbs
    /\ dirs \subseteq Drills
    /\ inst \in [Drills -> {"none", "starting", "up"}]
    /\ Cardinality({d \in Drills : inst[d] = "up"}) <= 1
    /\ env \in [Drills -> SUBSET Addresses] /\ old \subseteq Drills
    /\ lock \subseteq Drills /\ Cardinality(lock) <= 1
    /\ \A d \in Drills : dr[d].pc \in Running \cup Cleanup \cup Ended \cup {"lock"}

\* The inventory may leave out a database, a variable or the Valkey URL.
DrillInit ==
    /\ decl \in [mapped : SUBSET Dbs, env : SUBSET Addresses, startable : BOOLEAN]
    /\ switches \in BOOLEAN
    /\ backup \in Backups
    /\ dbs = {} /\ roles = {} /\ full = {} /\ dirs = {}
    /\ inst = [d \in Drills |-> "none"] /\ env = [d \in Drills |-> {}] /\ old = {}
    /\ lock = {} /\ dr = [d \in Drills |-> Fresh]
    /\ mishaps = 0 /\ kills = 0 /\ deploys = 0

-----------------------------------------------------------------------------
(* How a drill goes on *)

At(d, stage) == dr[d].pc = stage
Goto(d, stage) == dr' = [dr EXCEPT ![d].pc = stage]
Fault == mishaps < MaxMishaps /\ mishaps' = mishaps + 1
NoFault == UNCHANGED mishaps

\* fail(stage, message), then the finally: the first failure is the one recorded.
Failed(r, stage) == [r EXCEPT !.failure = IF @ = "-" THEN stage ELSE @, !.pc = "stop"]
Fail(d, stage) == dr' = [dr EXCEPT ![d] = Failed(@, stage)]

-----------------------------------------------------------------------------
(* Before anything is created *)

\* normaliseDrill of lib/inventory.js: at least one database, each with both variables.
DeclarationAccepted ==
    /\ decl.mapped # {}
    /\ \A b \in decl.mapped : {<<b, "url">>, <<b, "directUrl">>} \subseteq decl.env

\* Mutant: Valkey may keep its production value.
FullyOverridden_NoValkey == DeclarationAccepted /\ decl.mapped = Dbs

\* Every database is mapped, and Valkey is pointed elsewhere.
FullyOverridden ==
    /\ DeclarationAccepted
    /\ decl.mapped = Dbs
    /\ <<"VALKEY", "url">> \in decl.env

\* missingRequirements: the files of the checkout hold the text drill.requires names.
RequirementsMet == switches

\* resolveBackup: the newest good record with a dump of every database, and its files.
BackupResolved == backup.dump # "gone"

\* startSpec: an absolute ExecStart without substitutions, or drill.command.
StartSpec == decl.startable

Listening(d) == inst[d] = "up"
PortInUse == \E d \in Drills : Listening(d)

\* The refusals of drill(): each throws before the lock is asked for.
Precheck(d) ==
    /\ At(d, "idle")
    /\ \E keep \in BOOLEAN :
         dr' = [dr EXCEPT ![d].keep = keep,
                          ![d].pc = IF FullyOverridden /\ RequirementsMet /\ ~PortInUse /\ BackupResolved /\ StartSpec
                                    THEN "lock" ELSE "refused"]
    /\ UNCHANGED <<worldVars, clusterVars, dirs, instVars, lock, boundVars>>

\* A lock whose holder is dead is recovered.
Acquire(d) ==
    /\ At(d, "lock")
    /\ IF \A e \in lock : At(e, "dead")
       THEN lock' = {d} /\ Goto(d, "space")
       ELSE Goto(d, "refused") /\ UNCHANGED lock
    /\ UNCHANGED <<worldVars, clusterVars, dirs, instVars, boundVars>>

-----------------------------------------------------------------------------
(* Making room, and the leftovers of killed drills *)

\* Mutant: nothing is swept.
Leftovers_None == {}

\* scratchLeftovers: databases first, then roles.
Leftovers == (dbs \X {"database"}) \cup (roles \X {"role"})

Space(d) ==
    /\ At(d, "space")
    /\ \/ NoFault /\ dr' = [dr EXCEPT ![d].pc = "sweep", ![d].todo = Leftovers]
       \/ Fault /\ Fail(d, "space")
    /\ UNCHANGED <<worldVars, clusterVars, dirs, instVars, lock, kills, deploys>>

\* dropdb --force ends the sessions of whoever is still connected.
DropDatabase(x) == dbs' = dbs \ {x} /\ full' = full \ {x} /\ UNCHANGED roles

\* A role that still owns its database is not dropped.
DropRole(x) == roles' = roles \ {x} /\ UNCHANGED <<dbs, full>>
RoleCanGo(x) == x \notin dbs

\* Every leftover database, then every leftover role; one that does not go ends the drill.
Sweep(d) ==
    /\ At(d, "sweep")
    /\ LET left == {t \in dr[d].todo : t[2] = "database"}
           next == IF left # {} THEN left ELSE dr[d].todo
       IN  \/ /\ next = {} /\ NoFault /\ Goto(d, "prepare") /\ UNCHANGED clusterVars
           \/ \E t \in next :
                /\ IF t[2] = "database" THEN DropDatabase(t[1]) ELSE RoleCanGo(t[1]) /\ DropRole(t[1])
                /\ dr' = [dr EXCEPT ![d].todo = @ \ {t}] /\ NoFault
           \/ next # {} /\ Fault /\ Fail(d, "error") /\ UNCHANGED clusterVars
    /\ UNCHANGED <<worldVars, dirs, instVars, lock, kills, deploys>>

Prepare(d) ==
    /\ At(d, "prepare")
    /\ \/ /\ d \notin dirs /\ NoFault /\ dirs' = dirs \cup {d}
          /\ dr' = [dr EXCEPT ![d].created = TRUE, ![d].pc = "copy", ![d].todo = Dbs]
       \/ Fault /\ Fail(d, "prepare") /\ UNCHANGED dirs
       \/ Fault /\ dirs' = dirs \cup {d} /\ dr' = [dr EXCEPT ![d] = Failed([@ EXCEPT !.created = TRUE], "error")]
    /\ UNCHANGED <<worldVars, clusterVars, instVars, lock, kills, deploys>>

-----------------------------------------------------------------------------
(* 1. Restore *)

\* verifyDump: pg_restore --list reads the archive's table of contents.
Listable == backup.dump \notin {"gone", "unlistable"}

\* install, pg_restore --list: the next database, or on to the objects.
Copy(d) ==
    /\ At(d, "copy")
    /\ IF dr[d].todo = {} THEN NoFault /\ Goto(d, "objects")
       ELSE \/ /\ Listable /\ NoFault
               /\ \E b \in dr[d].todo :
                    dr' = [dr EXCEPT ![d].pc = "role", ![d].todo = @ \ {b}, ![d].at = {<<d, b>>}]
            \/ ~Listable /\ NoFault /\ Fail(d, "restore")
            \/ Fault /\ Fail(d, "restore")
    /\ UNCHANGED <<worldVars, clusterVars, dirs, instVars, lock, kills, deploys>>

\* createRole and createDatabase of lib/dbengine.js.
WithRole(x) == roles \cup x
WithDatabase(x) == dbs \cup x

\* createRole, and the scratch that cleanup will drop.  psql may be cut off after the
\* server has committed: the role is there, and no scratch names it.
CreateRole(d) ==
    /\ At(d, "role")
    /\ \/ /\ roles' = WithRole(dr[d].at) /\ NoFault
          /\ dr' = [dr EXCEPT ![d].pc = "createdb", ![d].scratch = @ \cup dr[d].at]
       \/ Fault /\ roles' \in {roles, WithRole(dr[d].at)} /\ Fail(d, "error")
    /\ UNCHANGED <<worldVars, dbs, full, dirs, instVars, lock, kills, deploys>>

CreateDatabase(d) ==
    /\ At(d, "createdb")
    /\ \/ dbs' = WithDatabase(dr[d].at) /\ NoFault /\ Goto(d, "pgrestore")
       \/ Fault /\ dbs' \in {dbs, WithDatabase(dr[d].at)} /\ Fail(d, "error")
    /\ UNCHANGED <<worldVars, roles, full, dirs, instVars, lock, kills, deploys>>

\* restore of lib/dbengine.js: pg_restore fails half way through a damaged archive.
DumpRestores == backup.dump # "unrestorable"

PgRestore(d) ==
    /\ At(d, "pgrestore")
    /\ \/ /\ DumpRestores /\ NoFault
          /\ full' = full \cup dr[d].at /\ Goto(d, "copy")
       \/ ~DumpRestores /\ NoFault /\ Fail(d, "error") /\ UNCHANGED full
       \/ Fault /\ Fail(d, "error") /\ UNCHANGED full
    /\ UNCHANGED <<worldVars, dbs, roles, dirs, instVars, lock, kills, deploys>>

\* tarMemberProblem: only plain files and directories with relative names are extracted.
MembersSafe == backup.objects # "unsafe member"

\* verifyObjectBlobs: every blob hashes to its name.
BlobsMatch == backup.objects # "blob mismatch"

\* The object archives, listed before they are extracted and hashed afterwards.
Objects(d) ==
    /\ At(d, "objects")
    /\ \/ LET good == MembersSafe /\ BlobsMatch /\ backup.dump # "gone"
          IN  NoFault /\ IF good THEN Goto(d, "counts") ELSE Fail(d, "objects")
       \/ Fault /\ Fail(d, "objects")
    /\ UNCHANGED <<worldVars, clusterVars, dirs, instVars, lock, kills, deploys>>

\* countRows of the restored copies.
RestoredCounts(d) ==
    /\ At(d, "counts")
    /\ \/ NoFault /\ Goto(d, "start")
       \/ Fault /\ Fail(d, "error")
    /\ UNCHANGED <<worldVars, clusterVars, dirs, instVars, lock, kills, deploys>>

-----------------------------------------------------------------------------
(* 2. The instance *)

\* drill.env is loaded after production's file: both names of every restored database,
\* and what the drill block sets.
Overridden == (decl.mapped \X {"url", "directUrl"}) \cup (decl.env \cap {<<"VALKEY", "url">>})

\* systemd-run.  The checkout is whatever is deployed by now.
StartInstance(d) ==
    /\ At(d, "start")
    /\ \/ /\ NoFault /\ Goto(d, "show")
          /\ inst' = [inst EXCEPT ![d] = "starting"]
          /\ env' = [env EXCEPT ![d] = Addresses \ Overridden]
          /\ old' = IF switches THEN old ELSE old \cup {d}
       \/ Fault /\ Fail(d, "start") /\ UNCHANGED instVars
    /\ UNCHANGED <<worldVars, clusterVars, dirs, lock, kills, deploys>>

Stopped(d) ==
    /\ inst' = [inst EXCEPT ![d] = "none"]
    /\ env' = [env EXCEPT ![d] = {}] /\ old' = old \ {d}

\* A process that finds the drill port taken exits.
InstanceListens(d) ==
    /\ inst[d] = "starting"
    /\ IF ~PortInUse
       THEN inst' = [inst EXCEPT ![d] = "up"] /\ UNCHANGED <<env, old>>
       ELSE Stopped(d)
    /\ UNCHANGED <<worldVars, clusterVars, dirs, lock, dr, boundVars>>

\* RuntimeMaxSec, or a crash of the instance.
InstanceEnds(d) ==
    /\ inst[d] # "none" /\ Stopped(d)
    /\ UNCHANGED <<worldVars, clusterVars, dirs, lock, dr, boundVars>>

\* systemctl show: without a MainPID the instance counts as gone.
ShowPid(d) ==
    /\ At(d, "show")
    /\ \/ inst[d] # "none" /\ NoFault /\ dr' = [dr EXCEPT ![d].pid = TRUE, ![d].pc = "ready"]
       \/ inst[d] = "none" /\ NoFault /\ Fail(d, "start")
       \/ Fault /\ Fail(d, "start")
    /\ UNCHANGED <<worldVars, clusterVars, dirs, instVars, lock, kills, deploys>>

\* Whoever listens on the port answers, as long as its databases are there.
Answering == {e \in Drills : Listening(e) /\ {e} \X Dbs \subseteq full}

\* 3. The poll: an answer, an instance that is gone, or the end of the wait.
Ready(d) ==
    /\ At(d, "ready")
    /\ \/ Answering # {} /\ NoFault /\ Goto(d, "compare")
       \/ /\ Answering = {} /\ inst[d] = "none" /\ NoFault
          /\ dr' = [dr EXCEPT ![d] = Failed([@ EXCEPT !.pid = FALSE], "ready")]
       \/ Answering = {} /\ inst[d] # "none" /\ Fault /\ Fail(d, "ready")
    /\ UNCHANGED <<worldVars, clusterVars, dirs, instVars, lock, kills, deploys>>

\* compareBodies, and row counts within the tolerance.
SameAsProduction == backup.dump # "differs"

\* Paths and row counts, against production.
Compare(d) ==
    /\ At(d, "compare")
    /\ \/ /\ Answering # {} /\ SameAsProduction /\ NoFault
          /\ dr' = [dr EXCEPT ![d].by = Answering, ![d].pc = "acceptance"]
       \/ (Answering = {} \/ ~SameAsProduction) /\ NoFault /\ Fail(d, "compare")
       \/ Fault /\ Fail(d, "compare")
    /\ UNCHANGED <<worldVars, clusterVars, dirs, instVars, lock, kills, deploys>>

Acceptance(d) ==
    /\ At(d, "acceptance")
    /\ \/ Answering # {} /\ NoFault /\ dr' = [dr EXCEPT ![d].by = @ \cup Answering, ![d].pc = "stop"]
       \/ Answering = {} /\ NoFault /\ Fail(d, "acceptance")
       \/ Fault /\ Fail(d, "acceptance")
    /\ UNCHANGED <<worldVars, clusterVars, dirs, instVars, lock, kills, deploys>>

-----------------------------------------------------------------------------
(* 4. Cleanup, always *)

Cleaning(r, stop) == [r EXCEPT !.stop = stop, !.pc = "drop", !.todo = r.scratch]

\* stopInstance: SIGTERM, SIGKILL, and is the port free.  Without a pid there is nothing to stop.
Stop(d) ==
    /\ At(d, "stop")
    /\ IF ~dr[d].pid
       THEN NoFault /\ dr' = [dr EXCEPT ![d] = Cleaning(@, "-")] /\ UNCHANGED instVars
       ELSE \/ /\ Stopped(d) /\ NoFault
               /\ LET free == \A e \in Drills \ {d} : ~Listening(e)
                  IN  dr' = [dr EXCEPT ![d] = Cleaning(@, IF free THEN "ok" ELSE "failed")]
            \/ Fault /\ dr' = [dr EXCEPT ![d] = Cleaning(@, "failed")] /\ UNCHANGED instVars
    /\ UNCHANGED <<worldVars, clusterVars, dirs, lock, kills, deploys>>

Drop(d) ==
    /\ At(d, "drop")
    /\ IF dr[d].todo = {}
       THEN NoFault /\ Goto(d, "remove") /\ UNCHANGED clusterVars
       ELSE \E x \in dr[d].todo :
              \/ /\ NoFault /\ DropDatabase(x)
                 /\ dr' = [dr EXCEPT ![d].pc = "drop role", ![d].at = {x}]
              \/ /\ Fault /\ UNCHANGED clusterVars
                 /\ dr' = [dr EXCEPT ![d].pc = "drop role", ![d].at = {x}, ![d].undropped = @ \cup {x}]
    /\ UNCHANGED <<worldVars, dirs, instVars, lock, kills, deploys>>

\* Mutant: when the database did not go, the role is not tried and not recorded either.
DropTheRole_Masked(d) ==
    /\ At(d, "drop role")
    /\ \/ (\A x \in dr[d].at : RoleCanGo(x)) /\ NoFault /\ roles' = roles \ dr[d].at
          /\ dr' = [dr EXCEPT ![d].pc = "drop", ![d].todo = @ \ dr[d].at]
       \/ UNCHANGED roles /\ Fault
          /\ dr' = [dr EXCEPT ![d].pc = "drop", ![d].todo = @ \ dr[d].at]
    /\ UNCHANGED <<worldVars, dbs, full, dirs, instVars, lock, kills, deploys>>

\* The role is tried whether or not its database went.
DropTheRole(d) ==
    /\ At(d, "drop role")
    /\ LET tried == [dr[d] EXCEPT !.pc = "drop", !.todo = @ \ dr[d].at]
           failed == [tried EXCEPT !.undropped = @ \cup dr[d].at]
           canGo == \A x \in dr[d].at : RoleCanGo(x)
       IN  \/ canGo /\ NoFault /\ roles' = roles \ dr[d].at /\ dr' = [dr EXCEPT ![d] = tried]
           \/ ~canGo /\ NoFault /\ UNCHANGED roles /\ dr' = [dr EXCEPT ![d] = failed]
           \/ Fault /\ UNCHANGED roles /\ dr' = [dr EXCEPT ![d] = failed]
    /\ UNCHANGED <<worldVars, dbs, full, dirs, instVars, lock, kills, deploys>>

\* The directory stays with --keep, when the instance may still run, or when rm fails.
RemoveDirectory(d) ==
    /\ At(d, "remove")
    /\ LET r == [dr[d] EXCEPT !.failure = IF dr[d].stop = "failed" /\ @ = "-" THEN "stop" ELSE @,
                              !.pc = "record"]
       IN  \/ /\ ~r.created /\ NoFault /\ UNCHANGED dirs
              /\ dr' = [dr EXCEPT ![d] = r]
           \/ /\ r.created /\ (r.keep \/ r.stop = "failed") /\ NoFault /\ UNCHANGED dirs
              /\ dr' = [dr EXCEPT ![d] = [r EXCEPT !.kept = TRUE]]
           \/ /\ r.created /\ ~r.keep /\ r.stop # "failed" /\ NoFault /\ dirs' = dirs \ {d}
              /\ dr' = [dr EXCEPT ![d] = r]
           \/ /\ r.created /\ ~r.keep /\ r.stop # "failed" /\ Fault /\ UNCHANGED dirs
              /\ dr' = [dr EXCEPT ![d] = [r EXCEPT !.kept = TRUE]]
    /\ UNCHANGED <<worldVars, clusterVars, instVars, lock, kills, deploys>>

\* The log line, then the lock, which goes even when the line could not be written.
Record(d) ==
    /\ At(d, "record")
    /\ dr' = [dr EXCEPT ![d].pc = "done", ![d].result = IF dr[d].failure = "-" THEN "passed" ELSE "failed"]
    /\ lock' = lock \ {d}
    /\ UNCHANGED <<worldVars, clusterVars, dirs, instVars, boundVars>>

-----------------------------------------------------------------------------
(* The rest of the host *)

\* A deploy or a rollback: the checkout may lose the switches, or get them.
Redeploy ==
    /\ deploys < MaxDeploys /\ deploys' = deploys + 1
    /\ switches' = ~switches
    /\ UNCHANGED <<decl, backup, clusterVars, dirs, instVars, lock, dr, mishaps, kills>>

\* A nightly prune removes the directory.
PruneBackup ==
    /\ backup.dump # "gone" /\ backup' = [backup EXCEPT !.dump = "gone"]
    /\ UNCHANGED <<decl, switches, clusterVars, dirs, instVars, lock, dr, boundVars>>

Kill(d) ==
    /\ ~(dr[d].pc \in Ended) /\ kills < MaxKills /\ kills' = kills + 1
    /\ Goto(d, "dead")
    /\ UNCHANGED <<worldVars, clusterVars, dirs, instVars, lock, mishaps, deploys>>

Step(d) ==
    \/ Precheck(d) \/ Acquire(d) \/ Space(d) \/ Sweep(d) \/ Prepare(d)
    \/ Copy(d) \/ CreateRole(d) \/ CreateDatabase(d) \/ PgRestore(d) \/ Objects(d) \/ RestoredCounts(d)
    \/ StartInstance(d) \/ ShowPid(d) \/ Ready(d) \/ Compare(d) \/ Acceptance(d)
    \/ Stop(d) \/ Drop(d) \/ DropTheRole(d) \/ RemoveDirectory(d) \/ Record(d)

DrillNext ==
    \/ \E d \in Drills : Step(d) \/ Kill(d) \/ InstanceListens(d) \/ InstanceEnds(d)
    \/ Redeploy \/ PruneBackup

DrillSpec == DrillInit /\ [][DrillNext]_drillVars

-----------------------------------------------------------------------------
(* Properties *)

\* Whatever the inventory leaves out, an instance that runs has production's value for
\* none of its databases' URLs, nor for Valkey's.
InstanceIsolated == \A d \in Drills : inst[d] # "none" => env[d] = {}

\* What a drill that came to its end leaves behind is in its record: databases and roles
\* that did not go, a directory that was kept, an instance that was not stopped.
EndsClean ==
    \A d \in Drills : At(d, "done") =>
        /\ \A x \in dbs \cap ({d} \X Dbs) : x \in dr[d].undropped
        /\ \A x \in roles \cap ({d} \X Dbs) :
              x \in dr[d].undropped \/ (x \notin dr[d].scratch /\ dr[d].failure = "error")
        /\ d \in dirs => dr[d].kept
        /\ inst[d] # "none" => dr[d].stop = "failed" \/ dr[d].failure = "start"

\* A drill that passed was answered by its own instance on a full restore, although
\* an instance of a drill that was killed may hold the port.
PassedIsOwn ==
    \A d \in Drills : dr[d].result = "passed" => dr[d].by = {d}

-----------------------------------------------------------------------------
\* "an older release would ignore them and run its side effects against the world":
\* no instance runs a release without the switches.
SwitchesOn == old = {}
=============================================================================
