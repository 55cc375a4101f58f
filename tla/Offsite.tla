------------------------------ MODULE Offsite ------------------------------
(***************************************************************************)
(* The off-host copies file by file (lib/offsite.js): a push encrypts and  *)
(* uploads the copies of one backup run, `ovhost offsite push` pushes a    *)
(* recorded run once more, a complete push prunes what has expired, and    *)
(* `ovhost restore-download` brings the copies of a service back.          *)
(*                                                                         *)
(* Backups models which runs exist and what the nightly run reports; here  *)
(* a run holds the copies it pushed and the question is whether they come  *)
(* back.  Between any two requests the process may die, a request may fail *)
(* with or without its effect, and the bucket may damage an object.        *)
(***************************************************************************)
EXTENDS Sealed, FiniteSets, SequencesExt

CONSTANTS
    Files,          \* the names of the copies, in the order a run lists them
    ServiceOf,      \* the service a file is a copy of
    IsDump,         \* the files that are pg_dump archives
    Listing,        \* the names under a run in the order the bucket lists them
    Plain,          \* Plain[r][f]: the copy run r made
    PartSize,       \* blocks that fill a part of a multipart upload
    Batches,        \* the sets of copies a run may make
    LocalDays,      \* days a local copy is kept at least
    Retention,      \* BACKUP_OFFSITE_RETENTION_DAYS
    MinKeep,        \* MIN_KEEP_RUNS
    Outs,           \* directories given with --out
    Live,           \* the directories of services, backups and state
    Faults,         \* what may go wrong
    LastDay,        \* bound: days
    MaxPushes,      \* bound: pushes, damages and edits of the configuration
    MaxFaults       \* bound: things that go wrong

Runs == 1..LastDay          \* the stamp of a run is its day
FileSet == {Files[i] : i \in DOMAIN Files}
Services == {ServiceOf[f] : f \in FileSet}
Pushers == {"nightly", "byhand"}
Nobody == "nobody"          \* no master key
Names == FileSet \cup {"manifest.json"}

(***************************************************************************)
(* A copy has a name of its own below its service and an end that says     *)
(* what it is (backupAll), so none is the manifest; a part of an upload    *)
(* and a chunk hold something; the settings are whole numbers of days and  *)
(* runs (loadConfig).                                                      *)
(***************************************************************************)
ASSUME FilesAssumption ==
    /\ Files \in Seq(FileSet) /\ "manifest.json" \notin FileSet
    /\ Batches \subseteq SUBSET FileSet
    /\ Listing \in Seq(Names) /\ \A name \in Names : \E i \in DOMAIN Listing : Listing[i] = name
ASSUME CopiesAssumption == \A r \in Runs, f \in FileSet : Plain[r][f] \in Plaintexts
ASSUME PartsAssumption == PartSize \in Nat \ {0}
ASSUME KeysAssumption == Masters # {} /\ Nobody \notin Masters
ASSUME DaysAssumption == {Retention, MinKeep, LastDay} \subseteq Nat

VARIABLES
    today,          \* the day it is
    config,         \* backup.env and the key file: valid, prune, master
    local,          \* local[r]: the copies of run r still on this host
    recorded,       \* the runs with a summary in backup-runs
    objects,        \* objects[<<r, f>>]: what the bucket holds under a key
    manifests,      \* manifests[r]: its manifest.json
    push,           \* push[p]: the push under way
    restore,        \* the restore-download under way, or the last one
    disk,           \* disk[<<out, f>>]: a file of a download directory, of which run
    pushes, faults, \* spent of the bounds
    sound           \* sound[r]: the key of the complete push nothing disturbed since

vars == <<today, config, local, recorded, objects, manifests, push, restore,
          disk, pushes, faults, sound>>

(***************************************************************************)
(* parseValues, loadConfig, checkPrivateFile and loadKey: root reads both  *)
(* files, refuses one that others may read or that is not well formed, and *)
(* takes the key as it is now.                                             *)
(***************************************************************************)
LoadConfig == config.valid

LoadKey == config.master

(***************************************************************************)
(* uploadIterable: full parts while there is enough, then the rest; one    *)
(* PutObject when no part was filled.                                      *)
(***************************************************************************)
FullParts(stream) == Len(stream) \div PartSize

Part(stream, i) == SubSeq(stream, (i - 1) * PartSize + 1, i * PartSize)

Rest(stream) == SubSeq(stream, FullParts(stream) * PartSize + 1, Len(stream))

UploadIterable(stream) ==
    FlattenSeq([i \in 1..FullParts(stream) |-> Part(stream, i)]) \o Rest(stream)

Uploaded(object) == [object EXCEPT !.blocks = UploadIterable(object.blocks)]

(***************************************************************************)
(* What the bucket holds: objects appear whole under their key.            *)
(***************************************************************************)
Put(f, key, value) ==
    [k \in DOMAIN f \cup {key} |-> IF k = key THEN value ELSE f[k]]

Without(f, keys) == [k \in DOMAIN f \ keys |-> f[k]]

NamesIn(r) == {f \in FileSet : <<r, f>> \in DOMAIN objects}

(***************************************************************************)
(* listRuns: the runs that have any object, newest first.                  *)
(***************************************************************************)
ListRuns == {r \in Runs : NamesIn(r) # {} \/ r \in DOMAIN manifests}

Newest(runs, n) == {r \in runs : Cardinality({q \in runs : q > r}) < n}

(***************************************************************************)
(* createEncryptStream draws a salt nothing was sealed with before.        *)
(***************************************************************************)
SaltsInUse ==
    {objects[k].header.salt : k \in DOMAIN objects}
      \cup UNION {{e.cipher.header.salt : e \in manifests[r].entries} : r \in DOMAIN manifests}
      \cup UNION {{e.cipher.header.salt : e \in push[p].entries} : p \in Pushers}

FreshSalt == CHOOSE s \in Salts \ SaltsInUse : \A t \in Salts \ SaltsInUse : s <= t

(***************************************************************************)
(* push: each file in turn, then the manifest, then the prune.  alone says *)
(* that no other push has overlapped this one.                             *)
(***************************************************************************)
IdlePush == [pc |-> "idle", run |-> 0, master |-> Nobody, prune |-> FALSE, todo |-> {}, entries |-> {},
             failures |-> {}, doomed |-> {}, alone |-> FALSE]

Pushing(p) == push[p].pc # "idle"

Alone(p) == \A q \in Pushers \ {p} : ~Pushing(q)

StartedPush(p, r, files) ==
    [q \in Pushers |->
        IF q = p THEN [IdlePush EXCEPT !.pc = "files", !.run = r, !.master = LoadKey,
                                       !.prune = config.prune, !.todo = files,
                                       !.alone = Alone(p)]
        ELSE [push[q] EXCEPT !.alone = FALSE]]

(***************************************************************************)
(* backup --all --offsite: a run that copied some of the files; those that *)
(* failed are not in its list of uploads.                                  *)
(***************************************************************************)
Night(copies) ==
    /\ today < LastDay
    /\ ~Pushing("nightly")
    /\ pushes < MaxPushes
    /\ LoadConfig
    /\ today' = today + 1
    /\ local' = [local EXCEPT ![today + 1] = copies]
    /\ push' = StartedPush("nightly", today + 1, copies)
    /\ pushes' = pushes + 1
    /\ UNCHANGED <<config, recorded, objects, manifests, restore, disk, faults, sound>>

(***************************************************************************)
(* A day without a run, or with one that is not pushed.                    *)
(***************************************************************************)
QuietDay ==
    /\ today < LastDay
    /\ today' = today + 1
    /\ UNCHANGED <<config, local, recorded, objects, manifests, push, restore, disk,
                   pushes, faults, sound>>

(***************************************************************************)
(* ovhost offsite push [--run]: the files are those of the summary, also   *)
(* when the local retention has removed them.  It takes no lock.           *)
(***************************************************************************)
\* readRun: the summary of the run that is named, or of the newest one.
Latest == 0
ReadRun(run) == IF run = Latest THEN Newest(DOMAIN recorded, 1) ELSE DOMAIN recorded \cap {run}

PushAgain(r) ==
    /\ ~Pushing("byhand")
    /\ pushes < MaxPushes
    /\ LoadConfig
    /\ r \in ReadRun(r) \cup ReadRun(Latest)
    /\ push' = StartedPush("byhand", r, recorded[r])
    /\ pushes' = pushes + 1
    /\ sound' = [sound EXCEPT ![r] = Nobody]
    /\ UNCHANGED <<today, config, local, recorded, objects, manifests, restore, disk, faults>>

(***************************************************************************)
(* One request of a process: it works, it fails, or it works and the       *)
(* answer is lost, which the process takes for a failure.                  *)
(***************************************************************************)
Outcomes ==
    {"done"} \cup
    (IF faults < MaxFaults THEN Faults \cap {"refused", "answer lost"} ELSE {})

Spend(outcome) == faults' = faults + (IF outcome = "done" THEN 0 ELSE 1)

Rank(names, name) == CHOOSE i \in DOMAIN names : names[i] = name

\* push takes the files in the order the run lists them.
NextFile(files) == CHOOSE f \in files : \A g \in files : Rank(Files, f) <= Rank(Files, g)

ManifestEntry(p, f, object) ==
    [file |-> f, run |-> push[p].run, plain |-> Plain[push[p].run][f], cipher |-> object]

\* Mutant: a copy that is gone is passed over without a failure.
UploadFile_SkipsMissing(p) ==
    LET r == push[p].run
        f == NextFile(push[p].todo)
        object == Encrypt(push[p].master, FreshSalt, Plain[r][f])
        failed == push' = [push EXCEPT ![p].todo = @ \ {f}, ![p].failures = @ \cup {f}]
    IN  /\ push[p].pc = "files" /\ push[p].todo # {}
        /\ \/ /\ f \notin local[r]
              /\ push' = [push EXCEPT ![p].todo = @ \ {f}]
              /\ UNCHANGED <<objects, faults>>
           \/ /\ f \in local[r]
              /\ \E outcome \in Outcomes :
                    /\ Spend(outcome)
                    /\ objects' = IF outcome = "refused" THEN objects
                                  ELSE Put(objects, <<r, f>>, Uploaded(object))
                    /\ IF outcome = "done"
                       THEN push' = [push EXCEPT ![p].todo = @ \ {f},
                                         ![p].entries = @ \cup {ManifestEntry(p, f, object)}]
                       ELSE failed
        /\ UNCHANGED <<today, config, local, recorded, manifests, restore, disk, pushes, sound>>

(***************************************************************************)
(* push, a file: a copy that is gone or an upload that fails is a failure, *)
(* the next file is taken all the same.                                    *)
(***************************************************************************)
UploadFile(p) ==
    LET r == push[p].run
        f == NextFile(push[p].todo)
        object == Encrypt(push[p].master, FreshSalt, Plain[r][f])
        failed == push' = [push EXCEPT ![p].todo = @ \ {f}, ![p].failures = @ \cup {f}]
    IN  /\ push[p].pc = "files" /\ push[p].todo # {}
        /\ \/ /\ f \notin local[r]
              /\ failed
              /\ UNCHANGED <<objects, faults>>
           \/ /\ f \in local[r]
              /\ \E outcome \in Outcomes :
                    /\ Spend(outcome)
                    /\ objects' = IF outcome = "refused" THEN objects
                                  ELSE Put(objects, <<r, f>>, Uploaded(object))
                    /\ IF outcome = "done"
                       THEN push' = [push EXCEPT ![p].todo = @ \ {f},
                                         ![p].entries = @ \cup {ManifestEntry(p, f, object)}]
                       ELSE failed
        /\ UNCHANGED <<today, config, local, recorded, manifests, restore, disk, pushes, sound>>

(***************************************************************************)
(* hmacManifest: the manifest is authenticated with the master key.        *)
(***************************************************************************)
ManifestOf(p) == [hmac |-> push[p].master, run |-> push[p].run,
                  entries |-> push[p].entries, failures |-> push[p].failures]

(***************************************************************************)
(* pruneRemote: the newest MIN_KEEP_RUNS runs with a manifest and the run  *)
(* just pushed are never pruned, nor is one within the retention.          *)
(***************************************************************************)
\* Mutant: a run without a manifest takes the place of one with.
ProtectedRuns_AnyRun(r) == Newest(ListRuns, MinKeep) \cup {r}

ProtectedRuns(r) == Newest(ListRuns \cap DOMAIN manifests, MinKeep) \cup {r}

Expired == {r \in ListRuns : r < today - Retention}

KeysOf(r) == {<<r, f>> : f \in NamesIn(r)}
               \cup (IF r \in DOMAIN manifests THEN {<<r, "manifest.json">>} ELSE {})

Doomed(r) == UNION {KeysOf(q) : q \in Expired \ ProtectedRuns(r)}

(***************************************************************************)
(* push, the end: manifest.json, and the prune only when all went well.    *)
(***************************************************************************)
UploadManifest(p) ==
    /\ push[p].pc = "files" /\ push[p].todo = {}
    /\ \E outcome \in Outcomes :
          /\ Spend(outcome)
          /\ manifests' = IF outcome = "refused" THEN manifests
                          ELSE Put(manifests, push[p].run, ManifestOf(p))
          /\ push' = [push EXCEPT
                ![p].pc = IF push[p].failures = {} /\ outcome = "done" /\ push[p].prune
                          THEN "list" ELSE "write",
                ![p].failures = IF outcome = "done" THEN @ ELSE @ \cup {"manifest.json"}]
    /\ UNCHANGED <<today, config, local, recorded, objects, restore, disk, pushes, sound>>

PruneRemote(p) ==
    /\ push[p].pc = "list"
    /\ push' = [push EXCEPT ![p].pc = "prune", ![p].doomed = Doomed(push[p].run)]
    /\ UNCHANGED <<today, config, local, recorded, objects, manifests, restore, disk,
                   pushes, faults, sound>>

NextKey(keys) ==
    CHOOSE k \in keys : \A l \in keys :
        k[1] > l[1] \/ (k[1] = l[1] /\ Rank(Listing, k[2]) <= Rank(Listing, l[2]))

(***************************************************************************)
(* The deletions, one request after the other; one that fails ends the     *)
(* prune and makes the push a failure.                                     *)
(***************************************************************************)
DeleteObject(p) ==
    LET k == NextKey(push[p].doomed)
    IN  /\ push[p].pc = "prune" /\ push[p].doomed # {}
        /\ \E outcome \in Outcomes :
              /\ Spend(outcome)
              /\ objects' = IF outcome = "refused" THEN objects ELSE Without(objects, {k})
              /\ manifests' = IF outcome # "refused" /\ k[2] = "manifest.json"
                              THEN Without(manifests, {k[1]}) ELSE manifests
              /\ push' = IF outcome = "done" THEN [push EXCEPT ![p].doomed = @ \ {k}]
                         ELSE [push EXCEPT ![p].pc = "write", ![p].doomed = {},
                                           ![p].failures = @ \cup {"(prune)"}]
        /\ UNCHANGED <<today, config, local, recorded, restore, disk, pushes, sound>>

(***************************************************************************)
(* writeRun of the nightly run or of the push by hand.                     *)
(***************************************************************************)
WriteRun(p) ==
    LET r == push[p].run
    IN  /\ \/ push[p].pc = "write"
           \/ push[p].pc = "prune" /\ push[p].doomed = {}
        /\ recorded' = IF p = "nightly" THEN Put(recorded, r, local[r]) ELSE recorded
        /\ sound' = IF push[p].failures = {} /\ push[p].alone
                    THEN [sound EXCEPT ![r] = push[p].master] ELSE sound
        /\ push' = [push EXCEPT ![p] = IdlePush]
        /\ UNCHANGED <<today, config, local, objects, manifests, restore, disk, pushes, faults>>

(***************************************************************************)
(* The process of a push dies; parts of an unfinished multipart upload are *)
(* no object.                                                              *)
(***************************************************************************)
KillPush(p) ==
    /\ Pushing(p) /\ "killed" \in Faults /\ faults < MaxFaults
    /\ push' = [push EXCEPT ![p] = IdlePush]
    /\ faults' = faults + 1
    /\ UNCHANGED <<today, config, local, recorded, objects, manifests, restore, disk,
                   pushes, sound>>

(***************************************************************************)
(* prune of commands/backup.js removes local copies (see Backups).         *)
(***************************************************************************)
PruneLocal(r, f) ==
    /\ r < today - LocalDays /\ f \in local[r]
    /\ r \in DOMAIN recorded
    /\ local' = [local EXCEPT ![r] = @ \ {f}]
    /\ UNCHANGED <<today, config, recorded, objects, manifests, push, restore, disk,
                   pushes, faults, sound>>

(***************************************************************************)
(* An operator edits backup.env or the key file, or their mode.            *)
(***************************************************************************)
Configure(c) ==
    /\ "configured" \in Faults /\ faults < MaxFaults /\ pushes < MaxPushes
    /\ c # config
    /\ config' = c
    /\ faults' = faults + 1 /\ pushes' = pushes + 1
    /\ UNCHANGED <<today, local, recorded, objects, manifests, push, restore, disk, sound>>

(***************************************************************************)
(* What a bucket, or a person copying objects in it, may do to it: an      *)
(* object loses its end, at a chunk or within one, or is the object of     *)
(* another run; a manifest is altered or is that of another run.           *)
(***************************************************************************)
Cut(object) == [object EXCEPT !.blocks = Front(@)]

Torn(object) ==
    [object EXCEPT !.blocks = Append(Front(@), [Last(@) EXCEPT !.index = -1])]

Damaged(k) ==
    {Cut(objects[k]), Torn(objects[k])}
      \cup {objects[<<q, k[2]>>] : q \in {q \in Runs : <<q, k[2]>> \in DOMAIN objects}}

Disturbed(r) ==
    [p \in Pushers |-> IF push[p].run = r THEN [push[p] EXCEPT !.alone = FALSE] ELSE push[p]]

DamageObject(k) ==
    /\ "damaged" \in Faults /\ faults < MaxFaults /\ pushes < MaxPushes
    /\ k \in DOMAIN objects /\ objects[k].blocks # <<>>
    /\ \E object \in Damaged(k) : objects' = [objects EXCEPT ![k] = object]
    /\ sound' = [sound EXCEPT ![k[1]] = Nobody]
    /\ push' = Disturbed(k[1])
    /\ faults' = faults + 1 /\ pushes' = pushes + 1
    /\ UNCHANGED <<today, config, local, recorded, manifests, restore, disk>>

DamageManifest(r) ==
    /\ "damaged" \in Faults /\ faults < MaxFaults /\ pushes < MaxPushes
    /\ r \in DOMAIN manifests
    /\ \E m \in {[manifests[r] EXCEPT !.hmac = Nobody]}
                  \cup {manifests[q] : q \in DOMAIN manifests \ {r}} :
          manifests' = [manifests EXCEPT ![r] = m]
    /\ sound' = [sound EXCEPT ![r] = Nobody]
    /\ push' = Disturbed(r)
    /\ faults' = faults + 1 /\ pushes' = pushes + 1
    /\ UNCHANGED <<today, config, local, recorded, objects, restore, disk>>

(***************************************************************************)
(* unsafeOut: a directory that holds, is or sits inside one of the live    *)
(* ones.                                                                   *)
(***************************************************************************)
UnsafeOut(out) == \E d \in Live : IsPrefix(d, out) \/ IsPrefix(out, d)

(***************************************************************************)
(* readManifest: authentic, and of this run.                               *)
(***************************************************************************)
ReadManifest(master, r) ==
    /\ r \in DOMAIN manifests
    /\ manifests[r].hmac = master
    /\ manifests[r].run = r

NoEntry == [file |-> "none", run |-> 0, plain |-> <<>>, cipher |-> <<>>]

NoObject == [header |-> Header(Nobody, 0), blocks |-> <<>>]

Downloads(r, service) == {e \in manifests[r].entries : ServiceOf[e.file] = service}

NothingIn(out) == \A k \in DOMAIN disk : k[1] # out

(***************************************************************************)
(* restore-download: every refusal comes before anything is written.  The  *)
(* run is named, or latest stands for one of them.                         *)
(***************************************************************************)
RestoreDownload(service, r, out) ==
    /\ restore.pc \notin {"next", "check"}
    /\ LoadConfig
    /\ ReadManifest(LoadKey, r)
    /\ Downloads(r, service) # {}
    /\ ~UnsafeOut(out)
    /\ NothingIn(out)
    /\ restore' = [pc |-> "next", run |-> r, service |-> service, out |-> out,
                   master |-> LoadKey, todo |-> Downloads(r, service),
                   entry |-> NoEntry, got |-> NoObject, whole |-> manifests[r].failures = {}]
    /\ UNCHANGED <<today, config, local, recorded, objects, manifests, push, disk,
                   pushes, faults, sound>>

(***************************************************************************)
(* The blocks decrypted before one did not open: what is on disk by then.  *)
(***************************************************************************)
OpenedBlocks(master, object) ==
    Cardinality({i \in DOMAIN object.blocks :
                    object.header.keyId = master
                      /\ \A j \in 1..i : OpenChunk(master, object, j)})

DecryptedBytes(master, object) ==
    FlattenSeq([i \in 1..OpenedBlocks(master, object) |-> object.blocks[i].plain])

(***************************************************************************)
(* Both digests and the size agree with the manifest.                      *)
(***************************************************************************)
Matches(entry, object, data) == object = entry.cipher /\ data = entry.plain

RestoreEnds(outcome) ==
    restore' = [restore EXCEPT !.pc = outcome, !.todo = {}, !.entry = NoEntry, !.got = NoObject]

(***************************************************************************)
(* One file, in any order: it is streamed to disk as it is decrypted ...   *)
(***************************************************************************)
Download ==
    \E entry \in restore.todo :
        LET k == <<restore.run, entry.file>>
            dest == <<restore.out, entry.file>>
        IN  /\ restore.pc = "next"
            /\ IF k \in DOMAIN objects /\ entry.run = restore.run
               THEN /\ disk' = Put(disk, dest,
                                   [run |-> restore.run, open |-> TRUE,
                                    data |-> DecryptedBytes(restore.master, objects[k])])
                    /\ restore' = [restore EXCEPT !.pc = "check", !.todo = @ \ {entry},
                                                  !.entry = entry, !.got = objects[k]]
               ELSE disk' = disk /\ RestoreEnds("failed")
            /\ UNCHANGED <<today, config, local, recorded, objects, manifests, push,
                           pushes, faults, sound>>

(***************************************************************************)
(* ... and removed when the stream failed or a digest differs; a dump that *)
(* pg_restore cannot list stays, and ends the command.                     *)
(***************************************************************************)
Close(k) == [disk EXCEPT ![k].open = FALSE]

\* Mutant: a download that failed is left in the directory.
RemoveFile_Keeps(k) == disk' = Close(k)

RemoveFile(k) == disk' = Without(disk, {k})

CheckDownload ==
    LET entry == restore.entry
        dest == <<restore.out, entry.file>>
        intact == /\ Decrypts(restore.master, restore.got)
                  /\ Matches(entry, restore.got, disk[dest].data)
    IN  /\ restore.pc = "check"
        /\ \/ ~intact /\ RemoveFile(dest) /\ RestoreEnds("failed") /\ faults' = faults
           \/ /\ intact
              /\ disk' = Close(dest) /\ faults' = faults
              /\ restore' = [restore EXCEPT !.pc = "next", !.entry = NoEntry, !.got = NoObject]
           \/ /\ intact /\ entry.file \in IsDump
              /\ "unlisted" \in Faults /\ faults < MaxFaults
              /\ disk' = Close(dest) /\ faults' = faults + 1
              /\ RestoreEnds("failed")
        /\ UNCHANGED <<today, config, local, recorded, objects, manifests, push,
                       pushes, sound>>

RestoreDone ==
    /\ restore.pc = "next" /\ restore.todo = {}
    /\ RestoreEnds("done")
    /\ UNCHANGED <<today, config, local, recorded, objects, manifests, push, disk,
                   pushes, faults, sound>>

KillRestore ==
    /\ restore.pc \in {"next", "check"} /\ "killed" \in Faults /\ faults < MaxFaults
    /\ restore' = [restore EXCEPT !.pc = "killed", !.todo = {}, !.entry = NoEntry, !.got = NoObject]
    /\ faults' = faults + 1
    /\ UNCHANGED <<today, config, local, recorded, objects, manifests, push, disk,
                   pushes, sound>>

-----------------------------------------------------------------------------
(***************************************************************************)
(* A host that has made no run yet.                                        *)
(***************************************************************************)
Init ==
    /\ today = 0
    /\ config = [valid |-> TRUE, prune |-> TRUE, master |-> CHOOSE m \in Masters : TRUE]
    /\ local = [r \in Runs |-> {}]
    /\ recorded = <<>> /\ objects = <<>> /\ manifests = <<>> /\ disk = <<>>
    /\ push = [p \in Pushers |-> IdlePush]
    /\ restore = [pc |-> "idle", run |-> 0, service |-> "none", out |-> <<>>,
                  master |-> Nobody, todo |-> {}, entry |-> NoEntry, got |-> NoObject,
                  whole |-> FALSE]
    /\ pushes = 0 /\ faults = 0
    /\ sound = [r \in Runs |-> Nobody]

Next ==
    \/ \E copies \in Batches : Night(copies)
    \/ QuietDay
    \/ \E r \in Runs : PushAgain(r) \/ DamageManifest(r)
    \/ \E p \in Pushers :
          \/ UploadFile(p) \/ UploadManifest(p) \/ PruneRemote(p) \/ DeleteObject(p)
          \/ WriteRun(p) \/ KillPush(p)
    \/ \E r \in Runs, f \in FileSet : PruneLocal(r, f)
    \/ \E c \in [valid : BOOLEAN, prune : BOOLEAN, master : Masters] : Configure(c)
    \/ \E k \in Runs \X FileSet : DamageObject(k)
    \/ \E service \in Services, out \in Outs :
          \E r \in Runs : RestoreDownload(service, r, out)
    \/ Download \/ CheckDownload \/ RestoreDone \/ KillRestore

Spec == Init /\ [][Next]_vars

-----------------------------------------------------------------------------
(***************************************************************************)
(* What a download directory holds, except for a file whose transfer never *)
(* ended, is byte for byte the copy the run it is named for has made: the  *)
(* hash check and removeFile of restoreDownload.                           *)
(***************************************************************************)
RestoredIsPushed ==
    \A k \in DOMAIN disk : disk[k].open \/ disk[k].data = Plain[disk[k].run][k[2]]

(***************************************************************************)
(* A restore that ended well from a manifest without failures brought back *)
(* every copy of the service the run has recorded (push: a copy it cannot  *)
(* read is a failure; restoreDownload: no file is passed over).            *)
(***************************************************************************)
RestoreIsWhole ==
    restore.pc = "done" /\ restore.whole /\ restore.run \in DOMAIN recorded =>
        \A f \in recorded[restore.run] :
            ServiceOf[f] = restore.service => <<restore.out, f>> \in DOMAIN disk

(***************************************************************************)
(* A run can be restored with a key when its manifest is authentic and     *)
(* lists every copy, and each object is there, opens and matches.          *)
(***************************************************************************)
Restorable(r, master) ==
    /\ ReadManifest(master, r)
    /\ r \in DOMAIN recorded =>
          \A f \in recorded[r] : \E e \in manifests[r].entries : e.file = f
    /\ \A e \in manifests[r].entries :
          /\ <<r, e.file>> \in DOMAIN objects
          /\ Decrypts(master, objects[<<r, e.file>>])
          /\ Matches(e, objects[<<r, e.file>>], DecryptedBytes(master, objects[<<r, e.file>>]))

Kept(r) ==
    \/ r >= today - Retention
    \/ r \in Newest(ListRuns \cap DOMAIN manifests, MinKeep)

(***************************************************************************)
(* A push that reported ok can be restored with its key as long as the run *)
(* is within the retention or among the newest that are always kept        *)
(* (push, pruneRemote): no later push, prune or crash of another run takes *)
(* an object from it.  Excepted are a push that another one overlapped, a  *)
(* run pushed once more since, and one the bucket damaged.                 *)
(***************************************************************************)
OkRestores == \A r \in Runs : sound[r] # Nobody /\ Kept(r) => Restorable(r, sound[r])
=============================================================================
