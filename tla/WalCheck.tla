------------------------------ MODULE WalCheck ------------------------------
(***************************************************************************)
(* What every backup of a service with a database asks first, in           *)
(* verifyPostgres of lib/commands/backup.js: has the WAL archiver of the   *)
(* cluster failed since somebody last looked?  The count seen last is in   *)
(* one file of the host, pgbackrest-archiver.json, which the nightly run,  *)
(* the backups a deploy makes and the ones people make all read and write  *)
(* without a lock.  executor.writeFile empties the file, then writes it.   *)
(* Backups leaves of this that a verification may fail.                    *)
(***************************************************************************)
EXTENDS Integers

CONSTANTS
    Lookers,        \* the processes that back services up
    WalServices,    \* the services with databases: each has its backup log
    RiseLimit,      \* bound: how often the archiver fails
    MishapLimit     \* bound: things that go wrong

\* pgbackrest-archiver.json, when it holds no count; either way readArchiver gives null.
Absent == -1
Empty == -2
Null == -1

ASSUME LimitAssumption == RiseLimit \in Nat /\ MishapLimit \in Nat

VARIABLES
    failedCount,    \* pg_stat_archiver.failed_count
    archiverFile,   \* pgbackrest-archiver.json
    stage,          \* stage[p]: how far the process is with its service
    service,        \* service[p]: the service it backs up
    count,          \* count[p]: the failed_count it was told
    previous,       \* previous[p]: what it found in the file
    halfLines,      \* the services whose log ends in half a line
    mishaps,        \* how much of the bound is used
    \* history
    told,           \* the highest count a failed record names, or a first look ever found
    silenced        \* a rise was forgotten: its process died or could not record it, or the file was found empty

lookVars == <<stage, service, count, previous>>
walVars == <<failedCount, archiverFile, lookVars, halfLines, mishaps, told, silenced>>

\* "report" and "refuse": the failed verification is still to be recorded; "backup": it passed.
Stages == {"idle", "asked", "compared", "write", "report", "refuse", "backup"}

WalTypeOK ==
    /\ failedCount \in Nat /\ archiverFile \in Nat \cup {Absent, Empty}
    /\ stage \in [Lookers -> Stages] /\ service \in [Lookers -> WalServices]
    /\ count \in [Lookers -> Nat] /\ previous \in [Lookers -> Nat \cup {Null}]
    /\ halfLines \subseteq WalServices /\ mishaps \in 0..MishapLimit
    /\ told \in Nat /\ silenced \in BOOLEAN

WalInit ==
    /\ failedCount = 0 /\ archiverFile = Absent
    /\ stage = [p \in Lookers |-> "idle"] /\ service \in [Lookers -> WalServices]
    /\ count = [p \in Lookers |-> 0] /\ previous = [p \in Lookers |-> Null]
    /\ halfLines = {} /\ mishaps = 0 /\ told = 0 /\ silenced = FALSE

Mishap == mishaps < MishapLimit /\ mishaps' = mishaps + 1
At(p, now) == stage' = [stage EXCEPT ![p] = now]

\* walOk is false.
Rose(p) == previous[p] # Null /\ count[p] > previous[p]

\* The process has seen a rise and is on its way to report it, having emptied the file.
Reporting(p) == stage[p] \in {"write", "report"} /\ Rose(p)
Known(n) == n <= told \/ \E p \in Lookers : Reporting(p) /\ count[p] >= n

\* The process will not report what it saw.
Forgets(p) == silenced' = (silenced \/ (Reporting(p) /\ count[p] > told))

-----------------------------------------------------------------------------
\* pgBackRest is healthy, and PostgreSQL answers.
Ask(p, s) ==
    /\ stage[p] = "idle" /\ At(p, "asked")
    /\ service' = [service EXCEPT ![p] = s] /\ count' = [count EXCEPT ![p] = failedCount]
    /\ UNCHANGED <<failedCount, archiverFile, previous, halfLines, mishaps, told, silenced>>

\* Any other answer, or none, is a failed verification too.
AskFails(p, s) ==
    /\ stage[p] = "idle" /\ At(p, "refuse") /\ Mishap
    /\ service' = [service EXCEPT ![p] = s]
    /\ UNCHANGED <<failedCount, archiverFile, count, previous, halfLines, told, silenced>>

\* readArchiver: no file, or an empty one, is a first look.
ReadArchiver(p) ==
    /\ stage[p] = "asked" /\ At(p, "compared")
    /\ previous' = [previous EXCEPT ![p] = IF archiverFile \in {Absent, Empty} THEN Null ELSE archiverFile]
    /\ told' = IF archiverFile = Absent /\ count[p] > told THEN count[p] ELSE told
    /\ silenced' = (silenced \/ (archiverFile = Empty /\ ~Known(count[p])))
    /\ UNCHANGED <<failedCount, archiverFile, service, count, halfLines, mishaps>>

\* writeArchiver fails before it touches the file: the failed verification is of another error.
OpenFails(p) ==
    /\ stage[p] = "compared" /\ At(p, "refuse") /\ Mishap
    /\ UNCHANGED <<failedCount, archiverFile, service, count, previous, halfLines, told, silenced>>

Truncate(p) ==
    /\ stage[p] = "compared" /\ At(p, "write")
    /\ archiverFile' = Empty
    /\ UNCHANGED <<failedCount, service, count, previous, halfLines, mishaps, told, silenced>>

\* A full disk: the file stays empty.
WriteFails(p) ==
    /\ stage[p] = "write" /\ At(p, "refuse") /\ Mishap
    /\ Forgets(p)
    /\ UNCHANGED <<failedCount, archiverFile, service, count, previous, halfLines, told>>

\* Mutant: the count to remember is asked of PostgreSQL once more.
WriteArchiver_AsksAgain(p) ==
    /\ stage[p] = "write" /\ At(p, IF Rose(p) THEN "report" ELSE "backup")
    /\ archiverFile' = failedCount
    /\ UNCHANGED <<failedCount, service, count, previous, halfLines, mishaps, told, silenced>>

\* The count is remembered even when it rose, and before the rise is recorded.
WriteArchiver(p) ==
    /\ stage[p] = "write" /\ At(p, IF Rose(p) THEN "report" ELSE "backup")
    /\ archiverFile' = count[p]
    /\ UNCHANGED <<failedCount, service, count, previous, halfLines, mishaps, told, silenced>>

\* The record of the failed verification, or of the backup that followed a good one.  Behind
\* half a line it cannot be read.
AppendRecord(p) ==
    /\ stage[p] \in {"report", "refuse", "backup"} /\ At(p, "idle")
    /\ halfLines' = halfLines \ {service[p]}
    /\ IF service[p] \in halfLines
       THEN Forgets(p) /\ UNCHANGED told
       ELSE /\ told' = IF Reporting(p) /\ count[p] > told THEN count[p] ELSE told
            /\ UNCHANGED silenced
    /\ UNCHANGED <<failedCount, archiverFile, service, count, previous, mishaps>>

\* appendFile fails, perhaps in the middle of the line.
AppendFails(p) ==
    /\ stage[p] \in {"report", "refuse", "backup"} /\ At(p, "idle") /\ Mishap
    /\ halfLines' \in {halfLines, halfLines \cup {service[p]}}
    /\ Forgets(p)
    /\ UNCHANGED <<failedCount, archiverFile, service, count, previous, told>>

\* The process dies, or its backup throws before there is a record.
Dies(p) ==
    /\ stage[p] # "idle" /\ At(p, "idle") /\ Mishap
    /\ Forgets(p)
    /\ UNCHANGED <<failedCount, archiverFile, service, count, previous, halfLines, told>>

\* A WAL segment fails to archive.
ArchiverFails ==
    /\ failedCount < RiseLimit /\ failedCount' = failedCount + 1
    /\ UNCHANGED <<archiverFile, lookVars, halfLines, mishaps, told, silenced>>

-----------------------------------------------------------------------------
Look(p) ==
    \/ \E s \in WalServices : Ask(p, s) \/ AskFails(p, s)
    \/ ReadArchiver(p) \/ OpenFails(p) \/ Truncate(p) \/ WriteFails(p) \/ WriteArchiver(p)
    \/ AppendRecord(p) \/ AppendFails(p) \/ Dies(p)

WalNext == ArchiverFails \/ \E p \in Lookers : Look(p)

WalSpec == WalInit /\ [][WalNext]_walVars

-----------------------------------------------------------------------------
\* "Each run compares against it, so a WAL segment that failed to archive is caught"
\* (docs/backups.md:37): a count that was remembered has been named in the record of a failed
\* verification, or a process that saw the rise is about to record it, whoever looked first and
\* whoever looked meanwhile.  The count is remembered before the rise is recorded, so this can
\* fail in three ways: the process that saw the rise dies or cannot write in between, its
\* record goes behind half a line, or the file is found empty, half way through a write or
\* after one that was cut short.
WalRiseRecorded == silenced \/ archiverFile \in {Absent, Empty} \/ Known(archiverFile)

\* The same sentence without exceptions.  It fails even when nothing goes wrong: a backup that
\* reads the file while another one has emptied it takes its look for the first, and remembers
\* a count that no record names.
RiseIsCaught == archiverFile \in {Absent, Empty} \/ Known(archiverFile)
=============================================================================
