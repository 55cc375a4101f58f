------------------------------ MODULE Backups ------------------------------
(***************************************************************************)
(* Backups: the nightly `ovhost backup --all --offsite` with its local     *)
(* retention and off-host copies (lib/commands/backup.js, lib/retention.js,*)
(* lib/offsite.js), and the backups of one service that a deploy or a      *)
(* person makes beside it.                                                 *)
(*                                                                         *)
(* Time is counted in nights; a backup ends in the night it began.  Two    *)
(* backups of one service never get the same stamp.  A record is appended  *)
(* whole or not at all.  What is encrypted, hashed and logged is left out. *)
(***************************************************************************)
EXTENDS Integers, Sequences, FiniteSets

CONSTANTS
    Order,          \* the services with something to back up, in inventory order
    HasDb,          \* the ones with PostgreSQL databases
    HasObjects,     \* the ones with object directories
    Daily, Weekly,  \* --keep-daily and --keep-weekly
    WeekLength,     \* days in an ISO week
    DumpEvery,      \* LOGICAL_DUMP_INTERVAL_DAYS
    OffsiteDays,    \* BACKUP_OFFSITE_RETENTION_DAYS
    MinKeep,        \* MIN_KEEP_RUNS
    Faults,         \* what may go wrong
    LastNight,      \* bound: nights
    MaxFaults,      \* bound: things that go wrong
    MaxByHand       \* bound: backups of one service

Services == {Order[i] : i \in DOMAIN Order}
Nights == 0..LastNight
Actors == {"nightly", "byhand"}
Kinds == {"dump", "objects"}
Files == Services \X Kinds
Never == -1         \* no run yet

ASSUME OrderAssumption == Order \in Seq(Services) /\ Order # <<>>
ASSUME PolicyAssumption == Daily \in Nat \ {0} /\ Weekly \in Nat \ {0} /\ DumpEvery \in Nat
ASSUME InventoryAssumption == HasDb \subseteq Services
ASSUME NightsAssumption == LastNight \in Nat
ASSUME BoundsAssumption == MaxFaults \in Nat /\ MaxByHand \in Nat

VARIABLES
    night,          \* the day it is
    stamps,         \* stamps given out so far
    dirs,           \* dirs[s]: the stamps of the directories of <backupDir>/<s>
    records,        \* records[s]: <stateDir>/backups/<s>.jsonl
    pc,             \* pc[a]: the stage of the actor, "idle" when it runs no backup
    at,             \* at[a]: the index of the service it is at
    id,             \* id[a]: the stamp of its backup
    wanted,         \* wanted[a]: what the backup is to hold
    made,           \* made[a]: what was copied into staging
    failed,         \* failed[a]: what could not be copied
    \* the nightly run and its summary
    run,            \* the night of the last run
    summary,        \* the copies the run made: what --offsite uploads
    runOk,          \* nothing failed in it so far
    missed,         \* the copies the push could not upload
    written,        \* what the summary in backup-runs says of it: "none", "ok" or "failed"
    \* the bucket
    objects,        \* objects[n]: the files uploaded under the run of night n
    manifests,      \* the nights with a manifest.json
    \* history
    faults, byHand, \* how much of the bounds is used
    copied          \* the files that were ever off-host

dataVars == <<dirs, records>>
workVars == <<at, id, wanted, made, failed>>
runVars == <<run, summary, runOk, missed, written>>
bucketVars == <<objects, manifests, copied>>
boundVars == <<faults, byHand>>
vars == <<night, stamps, dataVars, pc, workVars, runVars, bucketVars, boundVars>>

Svc(a) == Order[at[a]]
\* A stamp names a day and orders the backups.
Stamps == Nights \X Nat
Slot(t, days) == t[1] \div days
Later(t, u) == t[2] > u[2]
NoId == <<0, 0>>

\* A file of the backup t, and the file it is off-host.
Copies == [file : Files, at : Stamps]
FilesOf(C) == {c.file : c \in C}

\* One line of a service's log.  dir: it names a directory.  dump: it lists a dump that was made.
Record(t, ok, dir, dump) == [at |-> t, ok |-> ok, dir |-> dir, dump |-> dump]

Working == {"verify", "refuse", "copy", "move", "record"}
PCs == {"idle", "prune", "upload", "manifest", "expire", "finish"} \cup Working

TypeOK ==
    /\ night \in Nights /\ stamps \in Nat
    /\ dirs \in [Services -> SUBSET Stamps]
    /\ records \in [Services -> SUBSET [at : Stamps, ok : BOOLEAN, dir : BOOLEAN, dump : BOOLEAN]]
    /\ pc \in [Actors -> PCs] /\ at \in [Actors -> DOMAIN Order] /\ id \in [Actors -> Stamps]
    /\ wanted \in [Actors -> SUBSET Kinds]
    /\ made \in [Actors -> SUBSET Kinds] /\ failed \in [Actors -> SUBSET Kinds]
    /\ run \in Nights \cup {Never} /\ summary \subseteq Copies /\ runOk \in BOOLEAN
    /\ missed \subseteq Copies /\ written \in {"none", "ok", "failed"}
    /\ objects \in [Nights -> SUBSET Files] /\ manifests \subseteq Nights /\ copied \subseteq Files
    /\ faults \in 0..MaxFaults /\ byHand \in 0..MaxByHand

Init ==
    /\ night = 0 /\ stamps = 0
    /\ dirs = [s \in Services |-> {}] /\ records = [s \in Services |-> {}]
    /\ pc = [a \in Actors |-> "idle"] /\ at = [a \in Actors |-> 1] /\ id = [a \in Actors |-> NoId]
    /\ wanted = [a \in Actors |-> {}] /\ made = [a \in Actors |-> {}] /\ failed = [a \in Actors |-> {}]
    /\ run = Never /\ summary = {} /\ runOk = FALSE /\ missed = {} /\ written = "none"
    /\ objects = [n \in Nights |-> {}] /\ manifests = {} /\ copied = {}
    /\ faults = 0 /\ byHand = 0

Goto(a, stage) == pc' = [pc EXCEPT ![a] = stage]
Fault(kind) == kind \in Faults /\ faults < MaxFaults /\ faults' = faults + 1

-----------------------------------------------------------------------------
(* lib/retention.js *)

\* The newest stamp of each of the last k slots of so many days that have one.
NewestPer(S, days, k) ==
    {t \in S : /\ \A u \in S : Slot(u, days) = Slot(t, days) => ~Later(u, t)
               /\ Cardinality({Slot(u, days) : u \in {v \in S : Slot(v, days) > Slot(t, days)}}) < k}

Keep(S) == NewestPer(S, 1, Daily) \cup NewestPer(S, WeekLength, Weekly)

-----------------------------------------------------------------------------
(* backup: one service, by the nightly run or beside it *)

Recorded(s) == {r.at : r \in {x \in records[s] : x.dir}}
Good(s) == {r.at : r \in {x \in records[s] : x.dir /\ x.ok}}
GoodDumps(s) == {r.at : r \in {x \in records[s] : x.ok /\ x.dump}}

\* A dump is due when the last good one is over DumpEvery days old; whether one of just that
\* age is depends on the timer's random delay.
DumpDue(s) ==
    CASE \A t \in GoodDumps(s) : night - t[1] > DumpEvery -> {TRUE}
      [] \E t \in GoodDumps(s) : night - t[1] < DumpEvery -> {FALSE}
      [] OTHER -> BOOLEAN

\* What the backup is to copy; nothing at all is a run that only verifies.
Choose(a, s, logical) ==
    \E due \in IF s \notin HasDb THEN {FALSE} ELSE IF logical THEN {TRUE} ELSE DumpDue(s) :
        LET w == (IF due THEN {"dump"} ELSE {}) \cup (IF s \in HasObjects THEN {"objects"} ELSE {}) IN
        /\ wanted' = [wanted EXCEPT ![a] = w]
        /\ IF w = {} THEN Goto(a, "record") /\ UNCHANGED <<id, stamps>>
           ELSE /\ Goto(a, "copy")
                /\ stamps' = stamps + 1 /\ id' = [id EXCEPT ![a] = <<night, stamps + 1>>]

\* Only ovhost backup of one service can be given --logical on a night without.
Logical(a) == IF a = "byhand" THEN BOOLEAN ELSE {FALSE}

\* verifyPostgres: pgBackRest and the WAL archiver are healthy (WalCheck says of the archiver
\* how that is found out); nothing to ask where there is no database.
Verify(a) ==
    /\ pc[a] = "verify"
    /\ \E logical \in Logical(a) : Choose(a, Svc(a), logical)
    /\ UNCHANGED <<night, dataVars, at, made, failed, runVars, bucketVars, boundVars>>

\* pgBackRest's newest backup is too old, its stanza is not ok, the archiver has failed, or one
\* of them does not answer.
Unhealthy(a) ==
    /\ pc[a] = "verify" /\ Svc(a) \in HasDb /\ Fault("unhealthy")
    /\ Goto(a, "refuse")
    /\ UNCHANGED <<night, stamps, dataVars, workVars, runVars, bucketVars, byHand>>

\* The backup is over, and the process forgets it; the nightly run goes on to prune the service.
Over(a, ok) ==
    /\ id' = [id EXCEPT ![a] = NoId]
    /\ made' = [made EXCEPT ![a] = {}] /\ failed' = [failed EXCEPT ![a] = {}] /\ wanted' = [wanted EXCEPT ![a] = {}]
    /\ IF a = "nightly"
       THEN Goto(a, "prune") /\ runOk' = (runOk /\ ok) /\ UNCHANGED at
       ELSE Goto(a, "idle") /\ at' = [at EXCEPT ![a] = 1] /\ UNCHANGED runOk

Log(a, ok, dir, dump) ==
    records' = [records EXCEPT ![Svc(a)] = @ \cup {Record(id[a], ok, dir, dump)}]

\* A failed verification is a record too.
Refuse(a) ==
    /\ pc[a] = "refuse"
    /\ Log(a, FALSE, FALSE, FALSE) /\ Over(a, FALSE)
    /\ UNCHANGED <<night, stamps, dirs, run, summary, missed, written, bucketVars, boundVars>>

\* The dumps and the archives, each of which may fail by itself; an object directory that is
\* not there is skipped, which is no failure.
Copy(a) ==
    /\ pc[a] = "copy" /\ Goto(a, "move")
    /\ wanted' = [wanted EXCEPT ![a] = {}]
    /\ \/ made' = [made EXCEPT ![a] = wanted[a]] /\ UNCHANGED <<failed, faults>>
       \/ \E lost \in (SUBSET wanted[a]) \ {{}} :
              /\ made' = [made EXCEPT ![a] = wanted[a] \ lost]
              /\ \/ failed' = [failed EXCEPT ![a] = lost] /\ Fault("copy")
                 \/ lost = {"objects"} /\ UNCHANGED failed /\ Fault("skip")
    /\ UNCHANGED <<night, stamps, dataVars, at, id, runVars, bucketVars, byHand>>

\* Staging becomes the dated directory, unless nothing was copied.
MovedTo(a) == IF made[a] = {} THEN dirs ELSE [dirs EXCEPT ![Svc(a)] = @ \cup {id[a]}]

Move(a) ==
    /\ pc[a] = "move" /\ Goto(a, "record")
    /\ dirs' = MovedTo(a)
    /\ UNCHANGED <<night, stamps, records, workVars, runVars, bucketVars, boundVars>>

\* A command before or after the move failed, or the append of the record: staging is removed
\* and nothing is recorded, not even of a directory that was moved.
Throws(a) ==
    /\ Fault("throws")
    /\ \/ pc[a] \in {"refuse", "copy", "move", "record"} /\ UNCHANGED dirs
       \/ pc[a] = "move" /\ dirs' = MovedTo(a)
    /\ Over(a, FALSE)
    /\ UNCHANGED <<night, stamps, records, run, summary, missed, written, bucketVars, byHand>>

\* The record: good when something was copied and nothing failed.  The nightly run hands the
\* upload what there is, also of a backup that failed in part.
RecordBackup(a) ==
    /\ pc[a] = "record"
    /\ IF id[a] = NoId THEN Log(a, TRUE, FALSE, FALSE)
       ELSE Log(a, failed[a] = {} /\ made[a] # {}, TRUE, "dump" \in made[a])
    /\ Over(a, failed[a] = {})
    /\ summary' = IF a = "nightly"
                  THEN summary \cup {[file |-> <<Svc(a), k>>, at |-> id[a]] : k \in made[a]} ELSE summary
    /\ UNCHANGED <<night, stamps, dirs, run, missed, written, bucketVars, boundVars>>

\* ovhost backup of one service: by a person, or by a deploy before its restart.
ByHand(s) ==
    /\ pc["byhand"] = "idle" /\ byHand < MaxByHand /\ byHand' = byHand + 1
    /\ \E i \in DOMAIN Order : Order[i] = s /\ at' = [at EXCEPT !["byhand"] = i]
    /\ Goto("byhand", "verify")
    /\ UNCHANGED <<night, stamps, dataVars, id, wanted, made, failed, runVars, bucketVars, faults>>

-----------------------------------------------------------------------------
(* backupAll *)

StartRun ==
    /\ pc["nightly"] = "idle" /\ run < night
    /\ run' = night /\ summary' = {} /\ runOk' = TRUE /\ written' = "none"
    /\ Goto("nightly", "verify")
    /\ UNCHANGED <<night, stamps, dataVars, workVars, missed, bucketVars, boundVars>>

\* Mutant: failed backups take up the slots of good ones.
Doomed_CountsFailed(s) ==
    LET here == dirs[s] \cap Recorded(s) IN here \ Keep(here)

\* Mutant: a directory is failed unless it is recorded as good.
Doomed_SweepsUnrecorded(s) ==
    LET good == dirs[s] \cap Good(s) IN
    {d \in dirs[s] : IF d \in good THEN d \notin Keep(good) ELSE \E g \in good : Later(g, d)}

\* What prune removes: good backups beyond the policy, failed ones older than a good one.
Doomed(s) ==
    LET good == dirs[s] \cap Good(s) IN
    {d \in dirs[s] \cap Recorded(s) : IF d \in good THEN d \notin Keep(good) ELSE \E g \in good : Later(g, d)}

\* On to the next service, or to the upload.
NextService ==
    IF at["nightly"] < Len(Order)
    THEN at' = [at EXCEPT !["nightly"] = @ + 1] /\ Goto("nightly", "verify")
    ELSE at' = [at EXCEPT !["nightly"] = 1] /\ Goto("nightly", "upload")

Prune ==
    /\ pc["nightly"] = "prune"
    /\ dirs' = [dirs EXCEPT ![Svc("nightly")] = @ \ Doomed(Svc("nightly"))]
    /\ NextService
    /\ UNCHANGED <<night, stamps, records, id, wanted, made, failed, runVars, bucketVars, boundVars>>

\* rm failed: what comes after it stays, and the service counts as failed.
PruneFails ==
    /\ pc["nightly"] = "prune" /\ Doomed(Svc("nightly")) # {} /\ Fault("prune")
    /\ \E D \in SUBSET Doomed(Svc("nightly")) : dirs' = [dirs EXCEPT ![Svc("nightly")] = @ \ D]
    /\ runOk' = FALSE /\ NextService
    /\ UNCHANGED <<night, stamps, records, id, wanted, made, failed, run, summary, missed, written, bucketVars, byHand>>

-----------------------------------------------------------------------------
(* lib/offsite.js *)

\* A copy whose directory has been pruned since cannot be read.
Pruned == {c \in summary : c.at \notin dirs[c.file[1]]}

Uploaded ==
    /\ \/ missed' = Pruned /\ UNCHANGED faults
       \/ missed' \in SUBSET summary /\ Pruned \subseteq missed' /\ missed' # Pruned /\ Fault("upload")
    /\ objects' = [objects EXCEPT ![run] = @ \cup FilesOf(summary \ missed')]

\* Mutant: the run is ok although an upload failed.
Upload_KeepsOk ==
    /\ pc["nightly"] = "upload" /\ Goto("nightly", "manifest")
    /\ Uploaded /\ UNCHANGED runOk
    /\ UNCHANGED <<night, stamps, dataVars, workVars, run, summary, written, manifests, copied, byHand>>

\* push: each file by itself, encrypted.
Upload ==
    /\ pc["nightly"] = "upload" /\ Goto("nightly", "manifest")
    /\ Uploaded /\ runOk' = (runOk /\ missed' = {})
    /\ UNCHANGED <<night, stamps, dataVars, workVars, run, summary, written, manifests, copied, byHand>>

\* Then the manifest, whatever could not be uploaded; only a complete push expires old runs.
Manifest ==
    /\ pc["nightly"] = "manifest"
    /\ Goto("nightly", IF missed = {} THEN "expire" ELSE "finish")
    /\ manifests' = manifests \cup {run}
    /\ copied' = copied \cup FilesOf(summary \ missed)
    /\ UNCHANGED <<night, stamps, dataVars, workVars, runVars, objects, boundVars>>

ManifestFails ==
    /\ pc["nightly"] = "manifest" /\ Fault("manifest")
    /\ Goto("nightly", "finish") /\ runOk' = FALSE
    /\ UNCHANGED <<night, stamps, dataVars, workVars, run, summary, missed, written, bucketVars, byHand>>

\* pruneRemote: the runs past OffsiteDays, except this one and the newest MinKeep with a manifest.
\* Whether one of just that age is past it depends on the timer's random delay.
Protected == {n \in manifests : Cardinality({m \in manifests : m > n}) < MinKeep} \cup {run}
Stored == {n \in Nights : objects[n] # {}} \cup manifests
Expired(late) == {n \in Stored \ Protected : night - n > OffsiteDays \/ (late /\ night - n = OffsiteDays)}

Expire ==
    /\ pc["nightly"] = "expire" /\ Goto("nightly", "finish")
    /\ \E late \in BOOLEAN :
           /\ objects' = [n \in Nights |-> IF n \in Expired(late) THEN {} ELSE objects[n]]
           /\ manifests' = manifests \ Expired(late)
    /\ UNCHANGED <<night, stamps, dataVars, workVars, runVars, copied, boundVars>>

\* A delete failed: some runs are gone, and of one more only a part.
ExpireFails ==
    /\ pc["nightly"] = "expire" /\ Fault("expire") /\ Goto("nightly", "finish") /\ runOk' = FALSE
    /\ \E late \in BOOLEAN : \E n \in Expired(late), gone \in SUBSET Expired(late), left \in SUBSET Files :
           /\ n \notin gone /\ left \subseteq objects[n]
           /\ objects' = [m \in Nights |-> IF m \in gone THEN {} ELSE IF m = n THEN left ELSE objects[m]]
           /\ manifests' \in {manifests \ gone, manifests \ (gone \cup {n})}
    /\ UNCHANGED <<night, stamps, dataVars, workVars, run, summary, missed, written, copied, byHand>>

\* The summary is written.
Finish ==
    /\ pc["nightly"] = "finish" /\ Goto("nightly", "idle")
    /\ written' = IF runOk THEN "ok" ELSE "failed"
    /\ missed' = {}
    /\ UNCHANGED <<night, stamps, dataVars, workVars, run, summary, runOk, bucketVars, boundVars>>

\* ovhost offsite push: the last run once more.  A summary that was not ok stays so.
PushAgain ==
    /\ pc["nightly"] = "idle" /\ written # "none" /\ byHand < MaxByHand /\ byHand' = byHand + 1
    /\ Goto("nightly", "upload")
    /\ runOk' = (written = "ok")
    /\ UNCHANGED <<night, stamps, dataVars, workVars, run, summary, missed, written, bucketVars, faults>>

-----------------------------------------------------------------------------
(* The world *)

\* The timer fires every night, unless the host is down.
NightFalls ==
    /\ night < LastNight /\ night' = night + 1
    /\ pc = [a \in Actors |-> "idle"]
    /\ IF run = night THEN UNCHANGED faults ELSE Fault("off")
    /\ UNCHANGED <<stamps, dataVars, pc, workVars, runVars, bucketVars, byHand>>

\* ovhost is killed, or the host goes down: staging is left, no summary is written, and an
\* upload may have got through in part.
Killed(a) ==
    /\ pc[a] # "idle" /\ Fault("killed") /\ Goto(a, "idle")
    /\ at' = [at EXCEPT ![a] = 1] /\ id' = [id EXCEPT ![a] = NoId]
    /\ made' = [made EXCEPT ![a] = {}] /\ failed' = [failed EXCEPT ![a] = {}] /\ wanted' = [wanted EXCEPT ![a] = {}]
    /\ missed' = IF a = "nightly" THEN {} ELSE missed
    /\ IF pc[a] = "upload"
       THEN \E F \in SUBSET FilesOf(summary \ Pruned) : objects' = [objects EXCEPT ![run] = @ \cup F]
       ELSE UNCHANGED objects
    /\ UNCHANGED <<night, stamps, dataVars, run, summary, runOk, written, manifests, copied, byHand>>

-----------------------------------------------------------------------------
BackUp(a) ==
    \/ Verify(a) \/ Unhealthy(a) \/ Refuse(a)
    \/ Copy(a) \/ Move(a) \/ Throws(a) \/ RecordBackup(a)
    \/ Killed(a)

Run ==
    \/ StartRun \/ Prune \/ PruneFails \/ Finish
    \/ Upload \/ Manifest \/ ManifestFails \/ Expire \/ ExpireFails \/ PushAgain

Next ==
    \/ \E a \in Actors : BackUp(a)
    \/ \E s \in Services : ByHand(s)
    \/ Run \/ NightFalls

Spec == Init /\ [][Next]_vars

-----------------------------------------------------------------------------
\* "The newest good backup of each of the last 7 days that have one, and ... of each of the
\* last 4 ISO weeks that have one" (docs/backups.md, Retention): of all the good backups there
\* ever were, not only of those an earlier prune left, and whatever failed since.
RetentionKept == \A s \in Services : Keep(Good(s)) \subseteq dirs[s]

\* "Only directories named by a stamp and recorded ... are ever pruned"; "a failed backup is
\* removed only once a newer good one exists" (docs/backups.md, Retention): a backup that is
\* about to be recorded is safe from the nightly prune.
PruneIsSafe ==
    [][\A s \in Services : \A d \in dirs[s] \ dirs'[s] :
         /\ d \in Recorded(s)
         /\ d \in Good(s) \/ \E g \in Good(s) \cap dirs'[s] : Later(g, d)]_vars

\* A run whose summary says ok has everything it copied off-host, and a good dump of every
\* database that is no older than the interval; where every backup holds a dump, it is on disk.
OkMeansBackedUp ==
    pc["nightly"] = "idle" /\ written = "ok" =>
        /\ run \in manifests /\ FilesOf(summary) \subseteq objects[run]
        /\ \A s \in HasDb : \E t \in GoodDumps(s) :
               /\ run - t[1] <= DumpEvery
               /\ s \notin HasObjects => t \in dirs[s]

-----------------------------------------------------------------------------
\* "Failing uploads therefore never let the last good off-host copies age out"
\* (docs/backups.md, Retention).
OffsiteKeepsLastCopy ==
    pc["nightly"] = "idle" => \A f \in copied : \E n \in manifests : f \in objects[n]
=============================================================================
