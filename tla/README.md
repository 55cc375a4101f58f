# TLA+ models of OpenVibe.Host

OpenVibe.Host is two programs in one repository. `ovhost` (`bin/`, `lib/`) is the operator's command:
it deploys, rolls back, backs up and watches the OpenVibe services of one VPS. The Host service
(`server/`) is one of those services: a catalog of hosting offers and domains, a planner for renting
GPUs, and a visitor console.

This directory holds TLA+ modules that model the parts of both whose correctness is about order,
failure and concurrency, TLC configurations that model-check them on small instances, and proofs
checked by TLAPS of what matters most. Every definition that stands for code is listed in
`PROJECT.json` under `map` with the lines it translates; what is hard to test in this code is listed
there under `hazards` with the properties that look for it.

| module | what it models | checked | proved |
|---|---|---|---|
| `DeployLocks` | the pid lock of a service and the host-wide flock, system call by system call | `locks` | `DeployControl_proof`: types, both locks |
| `InPlaceDeploy` | a deploy or rollback of a git checkout: guards, installs, restarts, putting back | `inplace_files`, `inplace_guards` | `InPlaceDeploy_proof`: types, what the units serve, guards, files, exit codes, rollback |
| `ReleaseLayout` | release directories, the `current` link, socket units, pruning | `layout` | `ReleaseLayout_proof`: types, pruning, wholeness, what follows `current`, guards |
| `Reconcile` | the controller that deploys each green commit, freezes and maintenance windows | `reconcile` | `DeployControl_proof`: types, green commits, freezes |
| `Backups` | the nightly run: verification, dumps, retention, off-site copies, expiry | `backups` | `Backups_proof`: types, retention, prune, what ok means |
| `WalCheck` | the check every backup starts with: has the WAL archiver failed since the last look | `backups` | `Backups_proof`: a rise is recorded |
| `Sealed`, `Offsite` | the encrypted format chunk by chunk; push, prune and restore-download request by request | `offsite` | `Restore_proof`: the format, what a restore brings back, that ok copies stay restorable |
| `Drill` | a restore drill from its refusals to its cleanup, and the leftovers of a killed one | `drill` | `Restore_proof`: types, isolation, what is left, whose answers |
| `HealthChecks`, `Alerts` | the health timers and the browser watch; alert rules, relay, pages | `watch` | `ReleaseWatch_proof`: no false all clear |
| `Announce` | telling Events which release runs | `watch` | `ReleaseWatch_proof`: what the state file says was told |
| `Acceptance` | judging the gates of a release while people edit the repositories | `watch` | `ReleaseWatch_proof`: a pass is proven |
| `Vhosts` | nginx vhosts installed by a deploy and by a person | `watch` | `ReleaseWatch_proof`: files, links and what is served |
| `Probes` | the count of protected sessions a restart would cut | `watch`, `null_field` | `ReleaseWatch_proof`: the bounds of a count |
| `ReleaseWatch` | composition of the six modules above | `watch` | `ReleaseWatch_proof` |
| `Catalog`, `PriceTrend` | deliveries, staff saves, threads, sweeps of the index; charts rebuilt from changes | `catalog` | `Catalog_proof`: types, what staff hid, discussions, charts |
| `Benchmarks` | single-use links and posted results, beside `Catalog` | `catalog` | `Catalog_proof`: a link is spent once |
| `Planner` | one request to the inference planner, with its rounding | `planner` | `Planner_proof`: both searches, exactness, the budget |
| `BreakEven` | what a break-even search promises; `Planner` implements it | `planner` | `Planner_proof` |

An `MC*` module gives the constants of one model small values (`MCBackups` of two that share nothing,
`Backups` and `WalCheck`: a behaviour is about one of them); a `*_proof` module holds its theorems. To check:
`tlc -config DeployLocks_host.cfg MCDeployLocks`; to prove: `tlapm DeployControl_proof.tla`.
`DeployControl_proof` is about two modules, so `Reconcile` names its state and its specification apart from
those of `DeployLocks` (`stage`, `ControllerSpec`); `Restore_proof` is about `Offsite` and `Drill`, and
`Drill` keeps its names apart in the same way (`mishaps`, `DrillSpec`).

## 1. The system

### 1.1 Deploying (`lib/`)

All commands run on the one host, as processes of their own: a person's shell, the 5-minute
`openvibe-reconcile.timer`, the nightly backup timer. They meet in files and in systemd.

**Operation locks** (`lib/lock.js`, `lib/deploy-guard.js`, `lib/executor.js`).
*State*: one lock file per service, holding a JSON body with a pid; one kernel `flock` for the host,
held by a child process of the command; memory and disk floors. *Operations*: acquire with recovery
of a stale file, release; take the host lock with a timeout, give it up while waiting for sessions,
take it back. *Hard*: recovery is read, probe, unlink, create, and any other process runs between
those calls; a crash at any of them; the flock child outlives its parent for a moment. *Correct when*:
two operations on one service never overlap, no two deploys install or restart at once, and no
leftover of a crash blocks the next operation.

**In-place deploy and rollback** (`lib/release-ops.js`, `lib/deps.js`, `lib/git.js`,
`lib/preflight.js`, `lib/readiness.js`, `lib/releases.js`). *State*: the checkout, `node_modules` of
every package, the build output, installed unit files, the processes of the units and of an auxiliary
unit, the release log. *Operations*: plan; guard the sessions twice; move the checkout; install,
verify, repair; build; preflight; install unit files; back up; restart; wait until ready; restore
after a failure; roll back to a commit or to the one before. *Hard*: files change under a running
service; every step may fail, and so may the undoing; a kill leaves no record; systemd may restart a
unit at any moment. *Correct when*: what runs and what is on disk belong to the commit checked out,
except where the exit code or the kill told the operator otherwise.

**Release layout** (`lib/release-layout.js`, `lib/systemd.js`). *State*: release directories and what
is complete in each, the `current` link, unit files, the listening socket, worker instances still
running from old releases. *Operations*: prepare, guard, back up, switch, install units, rebind the
socket, restart, go back, prune, roll back. *Hard*: a unit that was not restarted runs from a release
several deploys old; a directory left by a killed preparation is found again; the socket has to follow
its unit file. *Correct when*: units, unit files and socket follow `current`, and nothing in use is
removed.

**Controller and freezes** (`lib/reconcile.js`, `lib/incidents.js`, `lib/cli.js`). *State*: remote
branches, CI verdicts, freeze files, checkouts. *Operations*: one pass over the inventory (plan, read
CI, deploy or say why not); freeze, unfreeze; schedule and complete maintenance windows, which write
the same freeze files. *Hard*: the world moves between the CI answer and the deploy; one service's
wait or error must not starve the rest; two owners of one file. *Correct when*: only green commits
run, every auto service catches up, and an operator's freeze stays.

**Session probes** (`lib/probes.js`). *State*: none of its own; the units of a service and the sessions
it holds. *Operations*: look whether a unit runs, then ask each part in turn (the list or the fields of
a JSON answer, a PostgreSQL query) and add up. *Hard*: visitors come and go between the parts, and every
answer may fail, be null or lack a field. *Correct when* no answer that means "somebody is there" or
"cannot tell" is read as nobody.

**nginx vhosts** (`lib/nginx.js`). *State*: the files of `sites-available`, what is in `sites-enabled`,
the configuration nginx has loaded. *Operations*: write each changed file and link it, `nginx -t`, put
everything back or reload. *Hard*: a deploy and `ovhost nginx render --install` take no common lock;
`nginx -t` judges all files and not only the new ones; a kill or an error anywhere. *Correct when* a
refused installation leaves every file as it was, and nginx serves what the files say.

**Backups, retention, off-site** (`lib/commands/backup.js`, `lib/retention.js`, `lib/offsite.js`,
`lib/backup-crypto.js`, `lib/dbengine.js`, `lib/archive.js`, `lib/tar.js`). *State*: dated backup
directories and a JSONL log per service, the archiver count last seen, run summaries, the bucket.
*Operations*: verify pgBackRest and the WAL archiver, dump when due, archive objects, move into place,
record, prune locally, upload, write the manifest, expire old runs; a backup of one service by hand or
by a deploy at any time; pushing a run again. *Hard*: every copy may fail by itself; two backups meet;
what a night prunes limits every later night; a dump is weekly but the run is nightly. *Correct when*
the documented backups exist on disk and off the host, and a run that says ok is.

**Restore drill** (`lib/commands/drill.js`). *State*: scratch databases and roles, a scratch directory,
a transient unit running a second instance, the drill lock, the record of the result. *Operations*:
refuse what the inventory or the host does not allow; sweep what earlier drills left; restore the
databases and the objects; start the instance with its own environment; compare and accept; stop, drop,
remove, record. *Hard*: a failure or kill at every step, cleanup steps that fail in turn, a deploy that
moves the checkout and a prune that removes the backup meanwhile, the instance of a killed drill still
on the port. *Correct when* the instance is never pointed at production, a drill leaves nothing it
could remove, and a pass was earned by its own instance.

**Service setup** (`lib/commands/service-add.js`, `lib/commands/data.js`, `lib/envfile.js`,
`roles/data/*.sh`). Creates user, database, role, environment file, certificate, vhost and units of a
new service; each step first looks whether it is done. *Correct when* it can be run again after a
failure at any step without changing a secret already in use.

**Self-update** (`lib/commands/self-update.js`). Moves ovhost's own checkout and reinstalls its units.

**Release announcements** (`lib/announce.js`). *State*: `<stateDir>/announced/<service>.json`.
*Operations*: describe the running release, compare with what was told, post (twice at most, with one
event id), remember. *Hard*: the answer of a post is lost; the state cannot be written; a deploy's call
and a person's overlap, and no lock is taken. *Correct when* what was told last is what the file says.

**Health timers, browser watch, alerts** (`deploy/scripts/ready-health.sh`, `auth-health.sh`,
`lib/browser-watch.js`, `lib/browser-check-hook.js`, `lib/alerts.js`). *State*: text files for
Prometheus, a record per site of the last browser check, alert states, the pages open in the Network.
*Operations*: probe site after site and replace the file; check each release in a browser once it has
settled, with one retry; relay the whole set of firing alerts. *Hard*: a site changes while a run goes
on; a run dies, an answer is lost or empty; a check outlives the release it began with. *Correct when*
pages open for what fails, and are resolved only by the site being well.

**Acceptance suite** (`lib/acceptance.js`, `scripts/release-acceptance.js`). *State*: the gate table, one
shared run per test file, the commits read before and after. *Hard*: people commit and edit while it
runs. *Correct when* what a report says holds of the commit it prints.

**Inventory, status, validation** (`lib/inventory.js`, `lib/commands/status.js` and others). Parse and
check the inventory; read the host and report. No state of their own.

### 1.2 The Host service (`server/`)

**Catalog store and ingest** (`server/catalog/store.js`, `domain-store.js`, `ingest.js`,
`keyed-feeds.js`, `offers.js`, `pricing.js`, `mapping.js`). *State*: provider, plan, domain-price and
offer rows, price changes. *Operations*: pull the change feed, take one item of a webhook, pull an
account's own feed, save and create by staff. *Hard*: no row is locked between reading and writing, so
each may write from a stale read; items arrive late, twice or out of order. *Correct when* rows follow
Sources, staff's word stands, and the charts tell the prices accepted.
**Search index, threads, benchmarks** (`search-index.js`, `community.js`, `benchmarks.js`, `trend.js`).
*Hard*: sweeps overlap; a thread's visibility is queued in memory after the commit; a link may be posted
to twice at once. *Correct when* index and threads come to follow the pages, and a link is spent once.
**Events outbox and worker** (`server/events/outbox.js`, `server/worker.js`). Events are inserted with
the change that caused them and relayed at least once.
**Visitor console** (`server/console/*`). Providers a visitor connects, with sealed tokens.
**Inference planner** (`server/inference-planner*.js`). A request reads a document and a demand feed and
computes, in exact integers, a forecast, three monthly costs, two break-evens and a recommendation.
*Hard*: rounding, costs that climb in steps, a budget that must hold between the two priced ends.
**HTTP and rendering** (`server/app.js`, `server/http/*`, `server/render/*`, `server/auth/*`). Request
handling, actor limits, pages.

### 1.3 How they interact

    person / timer ──> cli ──> lock.acquire(service) ──> deploy-guard (host flock)
                        │              │
    reconcile.timer ─> reconcile ──> release-ops.deploy ──> in-place | release-layout
                        │              │  probes (sessions), nginx, systemd, git, npm
                        │              └─> backup (before the restart, when declared)
                        ├── incidents: freeze files (also written by maintenance windows)
    backup.timer ────> backup --all --offsite ──> retention ──> offsite (bucket)
                                   │
                                   └─ records <── drill reads them, status reports them
    server: HTTP ──> catalog store ──> outbox ──> worker ──> search index, event bus

Locks tie deploys, rollbacks and some other commands together; backups take no lock at all. The freeze
file, the release log, the backup log and the run summaries are the shared state between commands that
run at different times.

## 2. Modules and code

The line numbers of each definition are in `PROJECT.json`. What follows says how to read the modules.

### DeployLocks

One operation is one `ovhost` process with its own pid. `Create`, `WriteBody`, `Read`, `ProbeHolder`,
`RemoveStale` and `Recreate` are the calls inside `lock.acquire`, each an atomic system call:
`createExclusive` opens with `O_EXCL` before it writes, so the file is there, empty, in between
(`OpenExclusive`, then `WriteBody`). A body that is gone or empty does not parse and counts as stale.
`unlink` acts on the path, so `RemoveStale` and `ReleaseService` remove whatever is there by then.
`AcquireHost`, `HostTimeout`, `IdleWait`, `EndIdleWait` and `ReleaseHost` are `deploy-guard.js`.
`Crash` may come at any step; the kernel lock is given up by a separate action, because it is the
`flock` child that holds it. `stolen` is a history variable: the services where a live operation's file
was removed as stale. `SerialSpec` is the system in which no two operations of a service are inside
`acquire` at once.

### InPlaceDeploy

`pc` is the stage of `apply`. `Begin` is a command: `Deploy`, `RollbackTo`, `RollbackDefault`,
refusals. `Fail` is the inner catch, which restores the checkout if it moved; `EndManual` is exit 4.
The steps that change files or processes one at a time (`Install(p)`, `Restart(u)`) are one action per
package or unit, so a failure or kill may fall between any two. `Repair` is `verifyAndRepair`, which
installs without recording it. `SelfRestart` is systemd starting a dead unit again from what is on disk
at that moment. `CutModules` and `CutBuild` are what a killed npm or build leaves. Commits are a line
`0..Last`; what a commit changes is given by four functions (`CodeOf`, `DepsOf`, `UnitFileOf`, `AuxOf`),
and `OutputOf` says whose build output a commit has in git (`generated` in the inventory, or a static
build). `Cleared` is what is served when such output is put back before the move, `CheckedOut` what git
makes of it when it takes the checkout to another commit, forward or back.

History: `restarted` and `probed` (since when was the last guard), `torn` (a process may run other code
than the checkout has) and `cut` (files a failed step left behind).

### ReleaseLayout

A release is a commit and the moment it was made; `Name` drops the moment for services whose
`idFormat` is `sha12`, whose deploys therefore find an old directory (`Existing`). `AddWorktree`,
`MakeLinks`, `CheckModules` are the preparation; `Switch` is the atomic rename; `InstallUnits`,
`RestartUnits` and their failures run forwards and, after `SwitchBack`, backwards. `InUse` is what
`prune` asks systemd about. The idle wait of a guard is staying at the guard.

### Reconcile

`MCReconcile` has two inventories, one of them in each behaviour: two auto services without faults, and one
service with every fault and operators (`Faulty`, an instance of the same module). A pass visits `Order` from
first to last: `PlanService`, `ReadCi`, `StartDeploy`, then the outline of an in-place deploy. `FinishService`
is the pass's try/catch, which goes on with the next service whatever happened. `files[t]` is who wrote the
freeze file of a service or of `all`; `Schedule` overwrites the files of the names it is given as the code
does, and `all` is a name like others. `TimedOut` is `TimeoutStartSec=30min` of the unit passing in a wait for
sessions, `Killed` the same or a kill while the pass is at work. History: `asked` (what operators froze and
nobody lifted or put under a window since) and `left` (services whose checkout was moved without a restart).

### Backups

Two actors share the actions of one backup (`Verify` ... `RecordBackup`): the nightly run and a backup
of one service by hand or by a deploy. The nightly run goes on with `Prune`, `Upload`, `Manifest`,
`Expire`, `Finish`. Time is counted in nights. `Keep` is `retention.js`; `Doomed` is what `prune`
removes; `DumpDue` is the interval of logical dumps, with the seconds left open where the timer's
random delay decides. Of the WAL check, which has a module of its own, this one keeps that a
verification may fail. A record is appended whole or not at all. A fault of a kind in `Faults` may strike at
any step, at most `MaxFaults` times.

### WalCheck

The count of archiver failures seen last is one file, read and written without a lock by every backup of
every service. `ReadArchiver`, `Truncate` and `WriteArchiver` are the calls: `executor.writeFile` empties
the file before it fills it, so another process may read it empty, and a full disk or a kill may leave it
so. `AppendRecord` is the record of the failed verification (or of the backup), made after the count was
remembered; `AppendFails` may leave half a line, behind which the next record of that service cannot be
read. History: `told`, the highest count a failed record names or a first look found, and `silenced`, that
a process that saw a rise cannot tell it any more, or that the file was found empty.

### Offsite, Sealed

A sealed block is the record of what went into it (key, nonce, header, plaintext); it opens with the same key,
nonce and header and with nothing else. That is what HKDF and AES-GCM promise and the only assumption about
them. `Encrypt` and `Decrypts` are `backup-crypto.js` chunk by chunk: index and final flag in the nonce, the
header as additional data. In `Offsite` two pushes may run side by side (the nightly one and `ovhost offsite
push`): `StartedPush`, `UploadFile`, `UploadManifest`, `DeleteObject`, `WriteRun` are the requests of `push`
and `pruneRemote` in their order; `RestoreDownload`, `Download`, `CheckDownload`, `RestoreDone` are
`restore-download`, with `RemoveFile` after a file that does not open or match. A request fails, fails after
its effect ("answer lost"), or the process dies; the bucket may cut, splice or exchange objects (`Damaged`), a
dump that came back whole may not list with `pg_restore --list` ("unlisted"), and the key file and the prune
switch may be configured anew. `sound` is history: the key of the last push of a run that reported ok and that
nothing excused has touched since.

### Drill

`pc` of a drill is the step of `runDrill`; `Precheck` is every refusal before the lock, over all combinations
of a drill block's parts. `Sweep`, `Copy`, `CreateRole`, `CreateDatabase`, `PgRestore`, `Objects`,
`StartInstance`, `Ready`, `Compare`, `Acceptance` are the body, `Stop`, `Drop`, `DropTheRole`,
`RemoveDirectory`, `Record` the `finally`, each of which goes on after its own failure. `Kill` leaves
everything in place, the running instance too. `env` of an instance is what it has of production's
environment. That an instance whose scratch database another drill swept answers nothing (`Answering`) is
assumed: of a service whose readiness does not ask its database it is not true.

### HealthChecks, Alerts, Announce, Acceptance, Vhosts, Probes, ReleaseWatch

`ReleaseWatch` composes the six others; a *scene* says which of them take part in a behaviour. Time is ages: a
release is settling or settled, the record of a browser check young (under 30 minutes), of today, or old.
`Ask`/`Lines`/`WriteLines` are the shell scripts, which replace their file by a rename;
`Look`/`Check`/`WriteMetrics` are one pass of `browser-watch`, which writes in place (`CutRecord`,
`CutMetrics`: a kill or a full disk leaves the file empty, a scrape may find it so), and `WatchTimesOut` its
30 minutes; `Evaluate` is Prometheus (external), which may start again with no alert; `Relay` is `alerts.js`
call by call, with any `MaxAlerts` of the firing alerts when there are more (Prometheus gives them in no fixed
order), `Deliver` the Network (external) replacing its set. A pass reads its records and writes the metrics in
one step, and one that dies between its last site and the metrics is `WatchDies`; that a pass meets a record
another pass is half way through writing is left out. `Describe`/`Compare`/`Post`/`WriteState` are
`announce.js`. In `Acceptance`, `OpenGate`/`RunFile`/`CloseGate` judge one gate, `RecordVersions` and
`RecordAgain` read the repositories before and after, `Work` is somebody editing one, in any way: a tree has a
commit, a number of uncommitted files and a text, and `Version` is the two of these the code compares.
`unseen` is history: the repositories that came to look as they did when recorded. git is taken to answer.

`Vhosts` is `nginx.install` call by call for two installers: `Begin`, per file `Read`, `Write`, `Stat`,
`Symlink`, then `Test`, and `Reload` or `UndoOne` back to the first change. `CutShort` is a kill or a call
that throws, a write perhaps with the file emptied. What `nginx -t` looks at are two texts: `zone`, which two
enabled files may not both declare, and `bad`. `loose` is history: since the last reload a call was cut short
or two overlapped. In `Probes`, `LookAtUnits` and `AskPart` are one turn each of `running` and of the loop
over the parts, `Visit` is a visitor, and `Number` and `Extra` are what the code makes of a value: null, an
empty text, `false` and an empty list are 0 in JavaScript, `true` is 1; a main field that is absent or a text
that is no number is not a count. `addFields` of a list or a query do not exist (`lib/inventory.js:355`). The
histories `stayed` and `came` bound the sessions there were while the probe ran; `blind` marks the answers
section 6 lists.

### Catalog, PriceTrend, Benchmarks

A delivery is `Fetch` or `FetchKeyed` (an item arrives), then `Hold`, `Unlist`, or `Read` (what the row says
now) and `Update` or `Insert`: awaited statements, with other actors between. `SaveRead` and
`SaveProvider`/`SavePlan` are a staff save: a price comes with a date, as the form posts it, or without, and
is then dated now; an input changes one field, the others are put back as they were read. `SyncRead`/`SyncPut`
the visibility queue it leaves behind, `SweepRead`/`SweepSend` a sweep of the index. `Restart` loses what is
in memory: deliveries and sweeps under way, and the queue. Sources' feed, the discussions and the search index
are external. `PriceTrend` is `trend.js` as pure functions of a row and its recorded changes. `PostLock` is
the `SELECT ... FOR UPDATE` of a benchmark link.

### Planner, BreakEven

A request runs alone, so its steps are `ReadDocument`, `Demand` or `Fallback`, the two searches
(`BothEnds`, `Halve`, `Found`) and `Recommend`. Costs are operators over integers with the ceilings of
the code. `cheaper[other][n]` says at which counts renting costs at most the other way; it is what the
code computes anew at each probe. `BreakEven` is the promise in the comment over `firstAtMost`, as far as
it holds for curves of any shape; `VsScaleToZero` and `VsWholesale` are the refinement mappings.

## 3. The runs

Every bound is a constant of a `.cfg` or a guard that names one. Deadlock is not checked: in every model
everything may be over (all operations ended, `MaxAttempts`, `LastNight` or what a scene allows reached).

| run | bounds | states | what it shows |
|---|---|---|---|
| `locks` | 3 deploys, 2 of one service | 268 k | the lock protocol, its safety and its two liveness properties |
| `inplace_files` | 3 commits, one of them with an old build output in git; 1 package, 2 units, a build, no sessions, 2 attempts | 1.88 M | files, processes and exit codes after failures and kills |
| `inplace_guards` | 2 commits, all flags, all probe answers, freezes, 2 quiet checks, 1 attempt | 247 k | guards, waits, termination |
| `layout` | 3 commits, 1 unit, 1 extra release kept, both name formats, 2 attempts | 1.16 M | units, unit files, socket, `current`, pruning |
| `reconcile` | 3 commits and 1 service with every fault and operators, or 2 auto services and 2 commits with timeouts and kills | 59 k | green commits, freezes; each service catches up |
| `backups` | 2 services, 5 nights, 1 fault, 1 action by hand; or 2 processes that back up 2 services, an archiver that fails twice and 2 mishaps | 2.26 M | retention, ok, prune; a rise that was remembered is recorded |
| `offsite` | 3 days, 3 pushes, 2 files, 2 keys, 1 fault of six kinds, retention 1 day, 2 runs always kept | 1.32 M | off-site copies come back, whole and unchanged |
| `drill` | 2 drills, 1 database, 2 failing calls, 1 kill, 1 deploy, 1 prune, every drill block | 2.16 M | isolation, cleanup, whose instance a pass is about |
| `planner` | 4 ms in an hour, 4 hours in a month, ranges of up to 8 requests; 2,400 documents, feeds and budgets | 12 k | the searches implement `BreakEven`; exactness; the budget |
| `catalog` | eleven scenes of 1-2 rows, 2 or 3 moments, up to 3 saves, 1 restart | 834 k | rows, staff's word, charts, threads, index, links |
| `watch` | fourteen scenes: 1-2 sites, 2 releases, a report of 1 alert, up to 3 announcements, up to 2 faults, 2 vhosts and up to 3 installations, 1-2 probed parts, tables of 1-2 gates and 3 trees of a repository | 257 k | pages follow and are not cleared falsely; announcements, vhosts, counts, acceptance reports |
| `null_field` | the scene of Media's probe, 2 faults | (violated) | section 6, item 1 |

**Why the bounds are enough.** `locks`: the recovery race needs two contenders and a leftover, the queue needs
a holder, a waiter of another service and one in line behind; three operations give both, and the crash that
makes the leftover is one of them dying earlier. `inplace_files`: an attempt that leaves something behind and
a second attempt that meets it; three commits let the second go forward, back, or be a commit that only
changes documentation, so that a restart is skipped; two units let a failure fall between them.
`inplace_guards`: two quiet checks distinguish a count that is compared before from one compared after it is
advanced. `layout`: three commits and `Keep = 1` make a prune that has something to remove while a worker and
an unrestarted unit still use older directories; two attempts let the second find what the first left.
`reconcile`: a pass, a push and one more verdict need two new commits; one service suffices for the faults,
because nothing but the order of visits and the freeze of `all` relates services; the order is what the
inventory of two looks at, and the freeze of `all` is beside that of a service in the inventory of one, and
proved for any (`FreezeTheorem`, section 5). `backups`: weeks, days and intervals are shrunk together (a week
of 2 nights, a dump every 2, 2 days off-site, 2 manifests kept), so five nights span two and a half weeks, two
expiries and two due dates. Its behaviours about the archiver: two processes that look at once are enough for
each of the three ways a rise is lost, and two rises tell a count that was remembered from the one after it.
`offsite`: three days with one run each and two always kept make one that expires; a dump of two chunks can be
cut between them, the archive beside it may be empty, and the keys sort before `manifest.json`, so a prune
that is cut short leaves a manifest without objects; three pushes are a night, its repetition and the next
night. Salts are the smallest unused number, because only their being different matters. `drill`: the second
drill meets what a killed first one left, and two failing calls make a cleanup step fail after the body did;
`SYMMETRY` is sound because drills differ in their stamp only and the properties quantify over all of them.
`planner`: units are shrunk so that every ceiling, tie and step is reached within ranges one can enumerate;
every cost is combined with one forecast and every forecast with one cost, since the two meet only in the
counts. `catalog`, `watch`: a property concerns the actors of one scene and the row or site they share, so
scenes are explored side by side, not multiplied; each holds the smallest number of rows, moments and saves
with which its race can happen (two deliverers and two prices, two sweeps and an edit, a check that outlives
its release, a retry after a lost answer), and its mutant shows that it does. The dates staff may give lie
before, at and after the moment of the save. A report of one alert is full as soon as two fire, which the
scenes with two sites reach, and never is in the scenes with one. A repository that is tested is edited and
has one uncommitted file, is edited again, or is committed: a tree that looks the same, and one that does not;
of two tests in a table each fails at one tree at most (`MCInit`), since a pass that was not earned needs no
more. The vhost scenes start from three hosts (nothing installed, both linked, an unlinked file beside a plain
copy) and allow two installations and a fault, or three and none: two overlap, and the third finds what they
left. The probe scenes are a sum of a list and a query over two units, and one answer with an added field. The
proofs of section 5 lift these bounds where they exist.

**What the properties say.** Each is stated in words in its module. The ones to look at first:
`ExclusiveUnlessStolen` (locks), `ServesCheckout` and `ExitCodeHonest` (in-place), `NeverPrunedInUse` and
`HostMatchesCurrent` (layout), `OnlyGreenUnlessPushed` and `EachAutoServiceFollows` (controller),
`RetentionKept`, `OkMeansBackedUp`, `PruneIsSafe` and `WalRiseRecorded` (backups), `OkRestores` (off-site),
`EndsClean` and `PassedIsOwn` (drill), `PagesFollow`, `NoFalseAllClear`, `PassIsProven` and `VhostsSettle`
(watch), `HiddenStays`, `SiteFollows` and `TrendsTell` (catalog), `BudgetCoversBand` (planner). Several have
an exception written as a history variable: `stolen`, `torn`, `cut`, `unbound`, `pushed`, `left`, `silenced`,
`sound`, `raced`, `astray`, `dropped`, `unseen`, `loose`, `blind`. Each stands for exactly the events after
which the code itself gives up (exit 4, a kill, a failed `systemctl restart`) or for one of the divergences of
section 6; it never covers a step that reports success.

The type invariants (`TypeOK`) are in no run: seven of them are theorems (section 5; the one of the catalog is
stated there), and those of `Planner` and `ReleaseWatch` document the shape of the state and hold on the
same instances.

Every property of a passing run has a mutant: a definition of the module with one plausible bug (listed
in `PROJECT.json`; the definitions marked `Mutant:`), under which the same run fails.

## 4. Fairness

- `locks`: `WF(Progress(o))`, a runnable process runs, and `WF(KernelReleasesHostLock)`, the kernel drops the
  lock of a dead process. `Progress` leaves out the end of an idle wait, crashes and timeouts: nobody promises
  that sessions end, and `QueueMoves` holds without.
- `inplace_guards`: `WF(Step)`, a live operation takes its next step, and `WF(GaveUp)`, which is
  `waitMaxSeconds`: the poll loop of `guardSessions` compares the clock on every turn
  (`release-ops.js:311-330`). No fairness on `SessionsChange`.
- `reconcile`: `WF(StartPass)` is the timer, `WF(Pass)` a live process, `WF(TimedOut)` systemd's timeout, at
  which a wait for sessions ends at the latest; all three for the inventory of two services only. No wait is
  assumed to end before that timeout (`drain.waitMaxSeconds` is 8 hours by default), and no pass to finish.
  What the property says of a service is therefore owed only when neither it nor a service before it has
  sessions a pass would wait for, and when passes are not killed at work for ever (`[]<><<Timed(Killed)>>`);
  section 6, item 18.
- `planner`: `WF(Search)`: a request is computed on one thread and ends. The read of the file comes back, and
  the call of the feed has a time limit.
- `catalog`: `WF` of the pull and sweep timers and of every statement under way (`Pulling`, `Sweeping`;
  `worker.js` starts both again and again). Webhooks, staff, viewers and restarts are owed nothing.
- `watch`: in the five scenes with pages `WF` of each timer's run step by step, of Prometheus' evaluation and
  of time. Nobody promises that sites change, that a person runs a check by hand, or that faults stop, but a
  scene has only so many of them. That a pass of the browser check ends before the 30 minutes of its unit is
  not among the assumptions: any pass may be killed (`WatchTimesOut`), and the pages of browser alerts are
  owed unless pass after pass is. Nor is a page owed while more alerts fire than a report holds.
- `inplace_files`, `layout`, `backups`, `offsite`, `drill`: no fairness, safety only.

## 5. The proofs

Each proof module extends the module it is about; the theorems hold for every value of the constants
that satisfies the module's `ASSUME`s. All follow one plan: an inductive invariant, the lemma that the
initial states satisfy it, one lemma per group of actions, and the theorem. The strengthened invariants
were first checked by TLC on the instances of section 3.

**`DeployControl_proof`, the locks.** `TypeCorrect`, `ExclusiveTheorem`, `HostLockTheorem`, `SerialTheorem`. A
holder's file exists, names it, and every other operation that has read that path knows either the holder or a
file that is gone. `ExclusiveUnlessStolen` is inductive only with this clause about what the readers remember,
because the unlink comes two steps after the read. `SerialTheorem` says that if no two operations of a service
are inside `acquire` at once, nothing is ever stolen and the lock is exclusive without the exception: the race
is the only flaw.

**`DeployControl_proof`, the controller.** `ControllerTypeCorrect`. `OnlyGreenTheorem`: from the plan on,
`origin` is the planned commit or somebody pushed; from the CI answer on, the planned commit is green, and
green is final. `FreezeTheorem`: what an operator froze, a service or `all`, has its file until somebody
unfreezes it or a window names it too; it is inductive because completing a window removes the files in its
own name only.

**`InPlaceDeploy_proof`.** `ServesCheckoutTheorem` rests on `ServeInv`: for every stage, which commit the
units run (`from` until the restart, `from` or `to` while units are left in `todo`) and which one is
checked out. `RestartNeeded` being false is what makes equality of `CodeOf` and not of commits the right
statement. `GuardedRestartTheorem` carries the probe from the second guard through `aux` to `restart`.
`TypeCorrect`: besides the types, the quiet count stays below `quietChecks`.

`FilesTheorem`: a failed operation reinstalls only the packages it recorded as installed, and that is enough
because (`FilesInv`) past the install stage a package is recorded or has the same dependencies at both
commits. What is served is followed through git's own writes: before the build it is what git left of the
commit's output (`LeftByGit`), after it the build of the checkout, and a restore rebuilds exactly when the
operation had built, so that between operations it is one of the two. `ExitCodeTheorem` rests on `HonestInv`:
where the checkout is and what was restarted at each stage, so that the code set when a step throws is true
when the restore ends. `RollbackTheorem` needs of it only that a deploy goes forward, and that every
`deployed` entry of the log therefore does (`LogForward`). These two assume `~ToBehind`, without which TLC
refutes `ExitCodeHonest`; `FilesTheorem` assumes only that no package directory is named as the build is
(`PkgsAssumption`).

**`ReleaseLayout_proof`.** `NeverPrunedTheorem` is proved under `~SystemdSilent`: `prune` asks systemd
which releases are in use, and a silent systemd means "none" to it (section 6, item 16). Its invariant
places `current`, every unit and every worker among the directories, and keeps the target of the
operation there through preparation. `HostMatchesTheorem` follows the operation forward and backward
(`HostInv`), `CurrentIsWholeTheorem` what is whole in each directory (`WholeInv`), except the
directories a killed or failed preparation or a failed repair left (`cut`), `FreshGuardTheorem`
the ghost `fresh` from the guard to the switch.

**`Backups_proof`.** `RetentionTheorem`: what `Keep` selects of all good backups is on disk, although every
prune applied it only to what earlier prunes had left. The key lemma is `KeepSubset`: adding backups that are
not kept does not change what is kept. `TypeCorrect`. `PruneTheorem` adds to the retention invariant that
stamps name nights in order and that a service with good backups has a newest one (which is kept true step by
step, without counting a set). The newest is one the policy keeps (`NewestKept`), so the newer good backup a
failed one gives way to stays. `OkTheorem` follows the run: as long as nothing failed, every service with
databases that it has passed has a dump within the interval (`Progress`); before the summary says ok its
copies are in the bucket and its manifest is written, and the expiry of the same run removes neither
(`Pushed`). Both need a policy that keeps at least one day (`PolicyAssumption`), which `count` in `lib/cli.js`
asks of `--keep-daily`: with none `Keep` could be empty. `WalTheorem` is about `WalCheck`: the count in the
file has been told, or a process that saw the rise is about to tell it, or it was silenced. Its invariant says
the same of the count each process is about to write, which is what a second look meanwhile compares with.

**`Restore_proof`, the copies.** `EncryptedOpens` and `OpenedIsWhole` are about the format: whatever blocks of
whatever files an object is made of, in any order, it opens only if it is one file whole. The second
needs that a salt is drawn for one file (`FileOf`), which is what a random 16-byte salt buys.
`RestoredIsPushedHolds` follows from an invariant that says of every manifest entry, and of every file a
push has still to write, that its hash is that of the copy the run made; a file in a restore directory
is open, or was compared with such an entry. It holds for overlapping pushes, lost answers, kills and
any damage of the bucket, because the entry and not the object decides.

`DecryptedIsPlain`: what opens is decrypted to the plaintext that was encrypted, whatever its length.
`RestoreIsWholeHolds`: a complete restore of a service holds every copy a run with a complete manifest had of
it, because such a manifest lists them all and each one listed is fetched or still to fetch (`ManifestOk`,
`RestoreOk`). `OkRestoresHolds`: copies said to be ok stay in the bucket (`RunOk`). While a push is alone,
what it listed is stored (`Faithful`); a run stops being sound only by being passed by the retention, and a
prune takes a manifest only while `MinKeep` newer ones are there (`Pruning`). The numbers of parts and of
blocks are arbitrary: where that needs induction it is one over a set (a set of naturals that holds 0
and with each number the next holds them all, by the pigeonhole principle on a finite interval).

**`Restore_proof`, the drill.** `Isolated`, `CleanEnd`, `OwnAnswers`, `DrillTypeCorrect`, for any drills side
by side over at least one database (`Dbs # {}`). The invariant `DrillsInv` has one named part per question:
who holds the lock, what the refusals made sure of, what the sweep has seen, who has answered, which scratch
names are in the drill's list, how far the cleanup has come, and whether an instance is still watched. A step
of one drill takes nothing of another one's but what a sweep removes, and nothing at all from one at work,
because it has the lock (`Framed`); with that frame each action needs its own drill's part only.

**`ReleaseWatch_proof`.** Five theorems about parts that take turns (`Turns`), each with an invariant of its
own. `NoFalseAllClearHolds`: a page that stands and may not be resolved is backed by the bad line in the
textfile, by a firing rule, by every probe of a timer that has passed the site, by the record of a failed
check and by the set a relay is sending (`Stood`, `Covered`); what breaks this while the site fails is one of
the four things of `Drops`. `NewsToldHolds`: a call under way has a number of its own (`Numbered`) and an
event of that number tells its release (`Means`); unless calls overlapped or the state could not be written,
the state file and the last event agree between calls, and during one either the event or the file is still to
come (`Newest`). `PassIsProvenHolds`: as long as a repository looks as it did when recorded, by commit and
number of uncommitted files, and nobody brought it back to looking so (`unseen`), it holds what it held then,
and what the cache and the rows say is true of that (`Proven`); a suite that has ended reports the tree it
found (`Stages`). It needs that a record gate reads one document (`GatesAssumption`, `lib/acceptance.js:713`).
`VhostsSettleHolds`: the undo list of a call leads back to what it found (`Undoable`), the files before its
place are as asked (`AloneAt`), and while nothing is `loose` a busy call is alone and found a clean state that
was served (`Tight`). The files of one call have different names (`VhostsAssumption`), as those of a directory
do. `ZeroIsNobodyHolds`: after each part the count lies between the sums of the sessions that stayed and of
those that came, over the fields asked so far (`Within`); only an answer in which something that is no number
is taken for one (a main field that is null, a field that is absent, blank or `true`) or a systemd that says
nothing breaks this, and sets `blind`. The sums are those of the community modules; `SumOneMore`, `SumGrows`
and `SumOfBoth` are proved for every finite set from their definition. No two fields of a probe hold the same
sessions (`ProbesAssumption`).

**`Planner_proof`.** `BreakEvenImplemented`: every step of `Planner` is a step or a stutter of `BreakEven`
under both mappings. The invariant is the narrowing of the search: `low` is a count at which renting is
dearer, `high` one at which it is not. `WholesaleExactHolds`: against a price that is a straight line the
first crossing is the only one (`LineCrosses`), because within one GPU's capacity the rented cost does not
climb (`OneGpu`); so the crossing found is the smallest. The assumption `CasesAssumption` says of the
documents what `ReadDocument` checks, and that throughputs are whole numbers of tokens a second, where the
code takes any decimal.

**`Catalog_proof`.** `CatalogTypeCorrect`: besides the types, what is under way is about rows that are there
(`PagesKnown`: nothing is ever deleted, a provider comes before its plans). `HiddenStaysHolds`: the two writes
of a delivery keep the status of a plan, and only a save under way gives a hidden page back.
`LinkSpentOnceHolds`: while a post has locked the row of a link, the link is unused and no other post has it
(`OneLock`), and a link has a result exactly when it is used (`LinksSpent`). `ThreadsFollowHolds`: a page
whose discussion does not show what the page is has a mark in the queue that says otherwise than what the page
is now, and what is being told is what the page is or such a mark still waits behind it (`Settling`); so a
mark taken from the queue either tells the truth or leaves one behind that will. `TrendsTellHolds` has two
layers. `ItemInv`: what any actor holds about a row is no newer than what the source says, and two statements
of one moment are the same, so a delivery that loses a race shows it in its dates. `Ledgers`: a row never
written from a stale read and never priced out of turn (`raced`) has changes that, read as the chart reads
them, are the same step function as the prices kept beside, from the moment it was first seen. In turn is any
price dated from the last one on and up to today, but for a second change at a moment that has one: so the
first repricing with the date the form showed is covered, and item 5 of section 6 is what is not. The chart of
an ending (`MarketTells`) is then the lowest of such functions: wherever the lowest price moves, some
registrar's price moves, and that is one of the events the chart is sampled at. `CatalogAssumption` and
`BenchAssumption` say that the kinds of rows are disjoint, that prices and times are natural numbers, and that
`None` is nothing else.

`BudgetCoversBandHolds`: a recommendation said to be within the budget is within it at every demand of the
band. Every cost climbs with the requests, through all its roundings (`CostClimbs`). That the forecast and its
band are numbers has to be shown: a valid series is one of consecutive days (`DaysInARow`), so the window
holds every weekday (`WindowHolds`) and each has a mean; and the search for the square root ends, because the
variance is at most the square of all requests of the window (`SpreadBounded`, `WideEnough`).
`UnitsAssumption` says that a window and the shortest series hold a week, as `validateForecast` does.

**Only model-checked**: the liveness properties (`QueueMoves`, `LeftoverNeverBlocks`, `EveryOperationEnds`,
`EachAutoServiceFollows`, `SiteFollows`, `PagesFollow`, that a search ends), which need `ENABLED`.
`FreshGuardTheorem` and `RollbackTheorem` (a rollback without a target never goes forward, `RollbackGoesBack`)
go the other way: they are proved and in no run.

## 6. Where code and documents disagree

The first is a run of its own, which TLC ends with the counterexample (`findings` in `PROJECT.json`). The
thirteen after it are stated in a module as the document has them, and TLC refutes them too: in the named
configuration, put the named definition in the place of the properties, under `PROPERTIES` where that is said
and else under `INVARIANTS`, with the constants changed as said. The runs check the part that does hold.

1. `null_field`, `lib/probes.js:73`: `Number(null)` is 0, so a service that answers null for the main field of
   its probe counts as one without sessions and the restart is let through; only `addFields` are tested for
   null (`:81`). `README.md:90` says a field the service reports but cannot answer (`null`) is unknown, so the
   restart is held. `NullIsUnknown`; `ZeroIsNobody` holds but for `blind`.
2. `lib/deploy-guard.js:23`: when the host lock does not come back after the second idle wait, the operation
   puts the checkout back, installs and builds without the lock, beside another deploy that has it;
   `docs/deploy-strategies.md:24` says the lock is held through automatic rollback. `OneDeployChanges`,
   `DeployLocks_host.cfg`; `OneDeployWorks` holds but for that deploy.
3. `lib/release-ops.js:430`: a failure between the move and the build resets the checkout, which rewrites
   build output git tracks, and rebuilds only what was built (`record.built`); `docs/deploy-strategies.md:46`
   says any failure rebuilds. `FailureRebuilds`, `InPlace_files.cfg` with `OutputOf <- OldOutput`;
   `FilesMatch` says what is there instead.
4. `lib/executor.js:175`: the archiver's count is emptied before it is written, so a second backup may read it
   empty, take its look for the first and remember a count that had risen and that no record names;
   `docs/backups.md:37` says a failed segment is caught. `RiseIsCaught`, `Backups_nights.cfg`, with
   `MishapLimit = 0` as well. A rise is lost in two more ways, when something goes wrong: the process that saw
   it dies or cannot append its record after the count was written (`lib/commands/backup.js:107`, `:149`), or
   the record goes behind half a line. `WalRiseRecorded` holds but for these (`silenced`).
5. `server/catalog/store.js:105`: the staff form always posts the `checked_at` it showed, a new price is dated
   by it, and a second change at one moment leaves no row of the history (`ON CONFLICT DO NOTHING`);
   `README.md:15` says price changes are kept. `PriceChangesKept`, `Catalog_site.cfg` (`PROPERTIES`);
   `TrendsTell` holds of rows priced in turn.
6. `lib/alerts.js:67`: a report holds the first 200 firing alerts, and the Network resolves the pages of the
   others; `:8` says the complete set is sent. `SetIsComplete`, `ReleaseWatch_around.cfg` (`PROPERTIES`);
   `NoFalseAllClear` excepts it (`dropped`).
7. `lib/acceptance.js:840`: an edit of a file that was uncommitted before the run changes neither the commit
   nor the number of uncommitted files, so the repository is not named; `:837` says one that moved is.
   `MovedIsNamed`, `ReleaseWatch_around.cfg`; `PassIsProven` holds but for `unseen`. The report does name the
   repository as uncommitted.
8. `lib/probes.js:82`: `Number("")`, `Number(false)` and `Number([])` are 0 and `Number(true)` is 1, so an
   added field that is no number may be counted as one, where `:7-8` say it is unknown. `OddIsUnknown`,
   `ReleaseWatch_around.cfg`.
9. `lib/lock.js:16`: recovery of a stale lock is read, unlink, create; two operations that find the same
   leftover unlink in turn and both go on, although lines 2 and `README.md:103` say one operation per service
   at a time. `OneOperationPerService`, `DeployLocks_host.cfg` with three operations of one service. It is the
   only way to lose exclusivity (`ExclusiveUnlessStolen`, `SerialTheorem`).
10. `lib/release-ops.js:606`: a failed `systemctl restart` throws outside the `try` that restores;
    `docs/deploy-strategies.md:48` says the release is rolled back. `RestartFailureRollsBack`,
    `InPlace_files.cfg`.
11. `lib/release-layout.js:375`: a reused `sha12` directory may have no links, although lines 10-11 say they
    are made in every release. `LinksInEveryRelease`, `Layout_safety.cfg` with only `sha12`.
12. `lib/reconcile.js:76`: the controller deploys the branch, not the commit it checked;
    `docs/deploy-strategies.md:182` says "for that exact commit". `OnlyGreenIsDeployed`,
    `Reconcile_passes.cfg`, with every commit changing the program in the faulty inventory as well
    (`RuntimeOf` of `Faulty`; `OnlyGreenUnlessPushed` holds).
13. `lib/offsite.js:276`: a weekly dump whose upload failed is not uploaded again, the nights between have
    nothing to upload and count as complete, and the last copy in the bucket expires; `docs/backups.md:93`
    says failing uploads never let it age out. `OffsiteKeepsLastCopy`, `Backups_nights.cfg` with one database,
    nine nights, two failed uploads and five days off-site.
14. `server/inference-planner.js:470`: "a binary search is exact" is true of the wholesale price
    (`WholesaleExact`, proved) and not of scale-to-zero, which climbs in steps. `ScaleToZeroExact`,
    `Planner_costs.cfg`.

The others follow from reading the code while modelling it; the models contain the behaviour, or except
it by the history variable named.

15. `lib/release-ops.js:335`: an install that fails is not recorded, so the restore does not reinstall that
    package; `docs/deploy-strategies.md:46` promises the old dependencies back. `cut` names such packages.
16. `lib/release-layout.js:113`: when `systemctl show` fails for a unit, `prune` takes it to run from no
    release; lines 25-27 say that the release it runs from is never pruned. The constant `SystemdSilent`.
17. `lib/release-ops.js:547`: a kill between the move and the restart leaves the checkout on the new commit,
    and the next plan finds nothing to do (`:455`); the controller then counts the service as current for good
    (`lib/reconcile.js:64`, against lines 4-5).
18. `deploy/systemd/openvibe-reconcile.service:17`: `TimeoutStartSec=30min` kills a pass that waits for
    sessions, before the services after it, while `drain.waitMaxSeconds` is 8 hours by default
    (`lib/inventory.js:271`); `docs/deploy-strategies.md:176-179` speaks of each service every five minutes.
19. `lib/reconcile.js:70`: only the tip's checks are read. `docs/deploy-strategies.md:176` names the last
    green commit as the desired state, but an earlier green commit under a pending tip is not deployed.
20. `lib/release-ops.js:577`: "nothing restarted" (and exit 2, `:34`) is also said when an auxiliary unit was
    restarted (`:566`) and a later one failed. `ExitCodeHonest` therefore speaks of `restarted = {}`.
21. `lib/release-ops.js:658`: a refusal because of a freeze is thrown before the log is written to;
    `README.md:104` says refusals go into the release log.
22. `ovhost deploy --to` a commit behind the checkout is a merge that is "Already up to date": exit 0, logged
    as deployed, nothing moved, and a default rollback may later go forward. `inplace_guards` allows it
    (`ToBehind`); `inplace_files` excludes it, because `ExitCodeHonest` fails when it is allowed.
23. `lib/release-layout.js:158`: a rollback whose log names no release that is still there takes the newest
    other one, which may be newer than `current` or half prepared.
24. `lib/cli.js:607`: scheduling a window overwrites an operator's freeze of the same service, and completing
    the window removes the file, while `:588` told the operator that deploys are refused until `ovhost
    unfreeze`; with `--services all` the same happens to a freeze of everything. `OperatorsFreezeHolds` is the
    part that does hold (`FreezeTheorem`).
25. Backups: `lib/release-ops.js:394` announces "backing up the declared databases first" but takes no dump
    when one is under a week old; the directory holding a service's last dump may be pruned before the next is
    due, when every backup also holds objects; a dump made by hand uses up the weekly slot and is never
    uploaded; a missing object directory is skipped and the run ends ok (`lib/commands/backup.js:214`);
    nightly and by-hand backups do not exclude each other; pushing a run again never turns its `ok` true.
26. Off-site: pushing a run again encrypts under fresh salts and replaces object after object before the
    manifest, so a repetition that fails or is killed half way leaves objects that the old manifest does not
    match (`lib/offsite.js:259`), and one after the local copies were pruned writes a manifest without them
    (`:252`, reported as failures in it). `ovhost offsite push` takes no lock (`lib/cli.js:532`): beside the
    nightly push of the same run objects and manifest may come from different ones. What is restored is never
    wrong (`RestoredIsPushedHolds`); it may be refused.
27. Drill: the required switches are looked for before the lock and before the restore
    (`lib/commands/drill.js:340`), so a deploy meanwhile may start an instance without them (`SwitchesOn` in
    `Drill` is refuted), although `lib/inventory.js:414` says the drill refuses.
28. Announcements: when a release was told and the state could not be written, a rollback to the one before is
    skipped as "already announced" (`lib/announce.js:278`) although the newer one was told last; overlapping
    calls may tell the older release last and remember the newer (`astray`).
29. `lib/browser-watch.js:142`: a result is kept under the release the check began with even when a deploy
    landed meanwhile; the next pass corrects it, which is why `PagesFollow` says "come to".
30. `deploy/scripts/auth-health.sh --sites` replaces the whole file, dropping the lines of the other sites, so
    that their pages resolve while they fail; a run that could probe nothing keeps the old file.
    `lib/browser-watch.js:117`, `:155`, `:158` write in place (`lib/executor.js:175`): a kill or a full disk
    there empties a record or the metrics, and the page of a failing check resolves. So does every page when
    Prometheus starts again and is asked before it has evaluated its rules, although `lib/alerts.js:18` sends
    nothing when it does not answer. These and a full report (item 6) are the four things of `Drops`. While
    the relay is down nothing pages; that it was is paged by `OpenVibeAlertRelayFailing` once a run gets
    through again.
31. Probes: an SQL `NULL` beside other columns reaches `Number` as an empty text and is 0 as well
    (`lib/probes.js:93`; alone in its row it is no row and unknown), an empty text, `false`, an empty list or
    `true` in the main field is a number too (`:73`), and a unit `systemctl show` says nothing of counts as
    one that does not run (`:30`, `lib/systemd.js`), so that a silent systemd is a count of 0, against
    `:18-19`. An added field that is absent counts as 0 as documented.
32. Vhosts: only a refusal of `nginx -t` is undone. A write, a link or a reload that throws leaves what was
    written, although `lib/nginx.js:6-8` says installing is always transactional, and after a kill the next
    identical installation finds the files as it wants them and never tests or reloads. `ovhost nginx render
    --install` takes no lock (`lib/cli.js`): beside a deploy's, one may undo or reload what the other is
    writing (`loose`). A plain file in `sites-enabled` is left in place and shadows the installed one. Vhosts
    a failed in-place deploy installed stay, while its checkout goes back (`lib/release-ops.js:565`, `:582`).
33. Archive (read, not modelled): `lib/archive.js:37` names an object by its path with `/` as `__`, so that
    `/opt/a__b` and `/opt/a/b` share one.

## 7. Not modelled

Modelled in part only: `executor.js` beyond locks (running commands, reading files: the machine the models
stand on); the vhost installation inside a deploy (there one way preflight fails; `Vhosts` has its steps), the
text of a rendered vhost and the `remove` argument, which no caller passes; the `where` filter of a probe (the
entries it leaves); incidents kept by the Wiki; pids that are reused by other programs (an operation's pid is
its identity); which differences of two answers a drill ignores; a record of a backup cut short, outside
`WalCheck`; a reader that meets the record of a browser check half written by another pass; a staff form that
posts every column it showed and so puts all of them back when another save came after it was opened (a save
of the model changes one field, and its date with a price, and takes the others from the row as it was read);
currency conversion and field checks of the catalog; the date of an Azure row, which is the day its price took
effect (`server/catalog/mapping.js`) where the model dates every item by when it was fetched; the availability
check of a domain; the daily table of `scripts/inference-cost-model.js`. Time is never measured: timeouts are
nondeterministic, nights, moments and ages are counted. Two of each kind of actor stand for any number where a
run says so and no proof lifts it.

Not modelled at all, and why. The encrypted archive of one-off moves (`lib/archive.js`): one
command, one file, nothing beside it. Service setup and self-update: sequences a person runs
alone, with nothing beside them. Events outbox: the table and its relay are a library outside this
repository. Visitor console, HTTP and rendering: their state lives in one request or one row. Status,
validation, inventory parsing, host scripts: no state whose order could go wrong.

## 8. Plan

1. **DeployContract**: what a deploy promises whatever its strategy (the service runs `from` or `to` as a
   whole, or the exit code says otherwise), with `InPlaceDeploy` and `ReleaseLayout` shown to implement it.
2. Composition: `DeployLocks` around `InPlaceDeploy`, so that "one operation at a time" is not assumed;
   `Backups` with `Offsite`, so that what a night uploads is what a push holds.
3. `lib/archive.js` beside `Sealed`: which objects an archive brings back, and what a failed decryption leaves.
4. Algorithms against a reference: `server/catalog/pricing.js`.
