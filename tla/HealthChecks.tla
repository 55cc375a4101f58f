---------------------------- MODULE HealthChecks ----------------------------
(* The checks that run on timers and leave what they saw for Prometheus:     *)
(* deploy/scripts/ready-health.sh, deploy/scripts/auth-health.sh and ovhost  *)
(* browser-watch (lib/browser-watch.js).  A run asks its sites one after     *)
(* another while they change, and replaces its whole file at the end: the    *)
(* scripts with a temp file and a rename, browser-watch in place.            *)
(*                                                                           *)
(* Time is kept as ages: a release that just started is settling, and the    *)
(* record of a browser check is young (under 30 minutes), of today, or old.  *)
(* "left" bounds what may happen in a behaviour: changes of the sites, faults*)
(* (a probe or a check that meets a blip, a killed run, an unanswered call), *)
(* runs with --sites, and announcements.                                     *)
EXTENDS Naturals, FiniteSets

CONSTANTS Sites, Releases, BadReleases,
          Scenes,       \* what a behaviour is about, see MCReleaseWatch
          None

VARIABLES scene,
          world,        \* what a site would answer: [ready, auth -> [Sites -> answer]]
          head,         \* the commit each site's checkout is at
          release,      \* the release each site runs
          settling,     \* it started less than SETTLE_MS ago
          file,         \* the textfiles: [Kinds -> [Sites -> line]]
          probe,        \* the runs of the two scripts
          record,       \* stateDir/browser-watch/<site>.json
          watch,        \* the runs of ovhost browser-watch
          left

hostVars == <<world, head, release, settling>>
checkVars == <<file, probe, record, watch>>

Budgets == {"changes", "faults", "narrow", "forced", "calls"}

ASSUME ScenesAssumption ==
    \A s \in Scenes :
       /\ s.ready \subseteq Sites /\ s.auth \subseteq Sites /\ s.narrow \subseteq Sites /\ s.browser \subseteq Sites
       /\ s.left \in [Budgets -> Nat]

Kinds == {"ready", "auth", "browser"}
Probers == {"ready", "auth", "narrow"}     \* narrow: auth-health.sh --sites
Watchers == {"timer", "forced"}            \* forced: browser-watch --force
Answers == {"good", "bad", "none"}
Ages == {"none", "young", "day", "old"}    \* none: no such file

Kind(p) == IF p = "ready" THEN "ready" ELSE "auth"
NoLines == [s \in Sites |-> "none"]
Rested == [at |-> "idle", left |-> {}, got |-> NoLines]
Resting == [at |-> "idle", left |-> {}, site |-> None, seen |-> None]
NoRecord == [release |-> None, ok |-> FALSE, age |-> "none"]

(* What is true of a site now, in the words a line of its file would use.    *)
Truth(k, s) == IF k = "browser" THEN (IF release[s] \in BadReleases THEN "bad" ELSE "good")
                                ELSE world[k][s]

ChecksTypeOK ==
    /\ scene \in Scenes
    /\ world \in [{"ready", "auth"} -> [Sites -> Answers]]
    /\ head \in [Sites -> Releases] /\ release \in [Sites -> Releases]
    /\ settling \in [Sites -> BOOLEAN]
    /\ file \in [Kinds -> [Sites -> Answers]]
    /\ probe \in [Probers -> [at : {"idle", "asking"}, left : SUBSET Sites, got : [Sites -> Answers]]]
    /\ record \in [Sites -> [release : Releases \cup {None}, ok : BOOLEAN, age : Ages]]
    /\ watch \in [Watchers -> [at : {"idle", "sites", "first", "second"}, left : SUBSET Sites,
                               site : Sites \cup {None}, seen : Releases \cup {None}]]
    /\ left \in [Budgets -> Nat]

ChecksInit ==
    /\ scene \in Scenes
    /\ world = [k \in {"ready", "auth"} |-> [s \in Sites |-> "good"]]
    /\ \E r \in Releases \ BadReleases : head = [s \in Sites |-> r] /\ release = [s \in Sites |-> r]
    /\ settling = [s \in Sites |-> FALSE]
    /\ file = [k \in Kinds |-> NoLines]
    /\ probe = [p \in Probers |-> Rested]
    /\ record = [s \in Sites |-> NoRecord]
    /\ watch = [w \in Watchers |-> Resting]
    /\ left = scene.left

Spend(what) == left[what] > 0 /\ left' = [left EXCEPT ![what] = @ - 1]

-----------------------------------------------------------------------------
(* The sites, as the checks meet them (external).                            *)

Turn(k, s, v) ==
    /\ s \in scene[k] /\ v # world[k][s] /\ Spend("changes")
    /\ world' = [world EXCEPT ![k][s] = v]
    /\ UNCHANGED <<scene, head, release, settling, checkVars>>

Pull(s, r) ==
    /\ s \in scene.deployed /\ r # head[s] /\ Spend("changes")
    /\ head' = [head EXCEPT ![s] = r]
    /\ UNCHANGED <<scene, world, release, settling, checkVars>>

Restart(s) ==
    /\ head[s] # release[s]
    /\ release' = [release EXCEPT ![s] = head[s]]
    /\ settling' = [settling EXCEPT ![s] = TRUE]
    /\ UNCHANGED <<scene, world, head, left, checkVars>>

Settle(s) ==
    /\ settling[s]
    /\ settling' = [settling EXCEPT ![s] = FALSE]
    /\ UNCHANGED <<scene, world, head, release, left, checkVars>>

-----------------------------------------------------------------------------
(* ready-health.sh and auth-health.sh.  A list that cannot be read ends the  *)
(* run before it asked anything, and the file is kept: no step at all.       *)

Listed(p) == IF p = "narrow" THEN scene.narrow ELSE scene[Kind(p)]

ReadList(p) ==
    /\ probe[p].at = "idle" /\ Listed(p) # {}
    /\ IF p = "narrow" THEN Spend("narrow") ELSE left' = left
    /\ probe' = [probe EXCEPT ![p] = [at |-> "asking", left |-> Listed(p), got |-> NoLines]]
    /\ UNCHANGED <<scene, hostVars, file, record, watch>>

(* 200 of /auth/health, 2xx of a ready URL; 401 and 404 are no answer of the *)
(* sign-in at all; anything else, or nothing in time, is bad.                *)
Answered(p, s, blip) == IF blip THEN "bad" ELSE Truth(Kind(p), s)

Ask(p, s) ==
    /\ probe[p].at = "asking" /\ s \in probe[p].left
    /\ \E blip \in BOOLEAN :
          /\ IF blip THEN Spend("faults") ELSE left' = left
          /\ probe' = [probe EXCEPT ![p].left = @ \ {s},
                                    ![p].got[s] = Answered(p, s, blip)]
    /\ UNCHANGED <<scene, hostVars, file, record, watch>>

(* auth-health.sh keeps its file when no site answered as one on the SDK's   *)
(* sign-in; otherwise the new lines are the whole file.                      *)
Lines(p) == IF p # "ready" /\ probe[p].got = NoLines THEN file["auth"] ELSE probe[p].got

WriteLines(p) ==
    /\ probe[p].at = "asking" /\ probe[p].left = {}
    /\ file' = [file EXCEPT ![Kind(p)] = Lines(p)]
    /\ probe' = [probe EXCEPT ![p] = Rested]
    /\ UNCHANGED <<scene, hostVars, record, watch, left>>

(* Killed, or the temp file could not be written or renamed.                 *)
ProbeDies(p) ==
    /\ probe[p].at # "idle" /\ Spend("faults")
    /\ probe' = [probe EXCEPT ![p] = Rested]
    /\ UNCHANGED <<scene, hostVars, file, record, watch>>

Probe(p) == ReadList(p) \/ (\E s \in Sites : Ask(p, s)) \/ WriteLines(p)

-----------------------------------------------------------------------------
(* ovhost browser-watch.  The release is read before the check, and the      *)
(* check judges whatever the site runs by then.                              *)

StartPass(w) ==
    /\ watch[w].at = "idle" /\ scene.browser # {}
    /\ IF w = "forced" THEN Spend("forced") ELSE left' = left
    /\ watch' = [watch EXCEPT ![w] = [Resting EXCEPT !.at = "sites", !.left = scene.browser]]
    /\ UNCHANGED <<scene, hostVars, file, probe, record>>

(* A pass holds for a day; a failure is looked at again after 30 minutes.    *)
Fresh_Lasting(s, seen) == record[s].age # "none" /\ record[s].release = seen
Fresh(s, seen) ==
    /\ record[s].age # "none" /\ record[s].release = seen
    /\ record[s].age = "young" \/ (record[s].ok /\ record[s].age = "day")

(* None: /release.json did not answer, or names no release.                  *)
CurrentRelease(s) == {release[s], None}

Skipped(w, s, seen) == w = "timer" /\ ((seen # None /\ settling[s]) \/ Fresh(s, seen))

Look(w, s) ==
    /\ watch[w].at = "sites" /\ s \in watch[w].left
    /\ \E seen \in CurrentRelease(s) :
          /\ IF seen = None THEN Spend("faults") ELSE left' = left
          /\ watch' = [watch EXCEPT ![w] =
                IF Skipped(w, s, seen) THEN [watch[w] EXCEPT !.left = @ \ {s}]
                ELSE [at |-> "first", left |-> watch[w].left \ {s}, site |-> s, seen |-> seen]]
    /\ UNCHANGED <<scene, hostVars, file, probe, record>>

Recorded(seen, result) == [release |-> seen, ok |-> result = "good", age |-> "young"]
NextSite(w) == [watch EXCEPT ![w] = [Resting EXCEPT !.at = "sites", !.left = watch[w].left]]

(* One run of scripts/browser-check.js, as of the moment it judged the site: *)
(* it passes, fails, or breaks (exit 2, a signal, the 15 minutes are over).  *)
(* A failure counts when a second run, a minute later, fails as well.        *)
Check(w, result) ==
    /\ watch[w].at \in {"first", "second"}
    /\ IF result = Truth("browser", watch[w].site) THEN left' = left ELSE result # "good" /\ Spend("faults")
    /\ CASE result = "bad" /\ watch[w].at = "first" -> watch' = [watch EXCEPT ![w].at = "second"]
         [] OTHER -> watch' = NextSite(w)
    /\ record' = IF result = "good" \/ (result = "bad" /\ watch[w].at = "second")
                 THEN [record EXCEPT ![watch[w].site] = Recorded(watch[w].seen, result)] ELSE record
    /\ UNCHANGED <<scene, hostVars, file, probe>>

(* At the end of a pass every site's record becomes a line.                  *)
Metric(s) == IF record[s].age = "none" THEN "none" ELSE IF record[s].ok THEN "good" ELSE "bad"

WriteMetrics(w) ==
    /\ watch[w].at = "sites" /\ watch[w].left = {}
    /\ file' = [file EXCEPT !["browser"] = [s \in Sites |-> Metric(s)]]
    /\ watch' = [watch EXCEPT ![w] = Resting]
    /\ UNCHANGED <<scene, hostVars, probe, record, left>>

WatchDies(w) ==
    /\ watch[w].at # "idle" /\ Spend("faults")
    /\ watch' = [watch EXCEPT ![w] = Resting]
    /\ UNCHANGED <<scene, hostVars, file, probe, record>>

(* TimeoutStartSec=30min of the timer's unit: 52 sites, two runs and a       *)
(* minute for each that fails.  No budget: every pass may end so, while it   *)
(* has sites to ask; between the last and the metrics, see WatchDies.        *)
WatchTimesOut ==
    /\ watch["timer"].at # "idle" /\ ~(watch["timer"].at = "sites" /\ watch["timer"].left = {})
    /\ watch' = [watch EXCEPT !["timer"] = Resting]
    /\ UNCHANGED <<scene, hostVars, file, probe, record, left>>

(* exec.writeFile truncates the file and then fills it.  A kill or a full    *)
(* disk in between leaves it empty and ends the pass; a scrape in between    *)
(* finds the metrics empty, and WriteMetrics still follows.                  *)
CutRecord(w) ==
    /\ watch[w].at = "second" \/ (watch[w].at = "first" /\ Truth("browser", watch[w].site) = "good")
    /\ Spend("faults")
    /\ record' = [record EXCEPT ![watch[w].site] = NoRecord]
    /\ watch' = [watch EXCEPT ![w] = Resting]
    /\ UNCHANGED <<scene, hostVars, file, probe>>

CutMetrics(w) ==
    /\ watch[w].at = "sites" /\ watch[w].left = {} /\ Spend("faults")
    /\ file' = [file EXCEPT !["browser"] = NoLines]
    /\ watch' \in {watch, [watch EXCEPT ![w] = Resting]}
    /\ UNCHANGED <<scene, hostVars, probe, record>>

CutWrite == \E w \in Watchers : CutRecord(w) \/ CutMetrics(w)

Age(s) ==
    /\ record[s].age \in {"young", "day"}
    /\ record' = [record EXCEPT ![s].age = IF @ = "young" THEN "day" ELSE "old"]
    /\ UNCHANGED <<scene, hostVars, file, probe, watch, left>>

Watching(w) ==
    \/ StartPass(w) \/ WriteMetrics(w)
    \/ \E s \in Sites : Look(w, s)
    \/ \E result \in Answers : Check(w, result)

-----------------------------------------------------------------------------
HostChanges ==
    \E s \in Sites :
       \/ \E k \in {"ready", "auth"}, v \in Answers : (k = "ready" => v # "none") /\ Turn(k, s, v)
       \/ \E r \in Releases : Pull(s, r)
       \/ Restart(s) \/ Settle(s) \/ Age(s)

ChecksNext ==
    \/ HostChanges
    \/ \E p \in Probers : Probe(p) \/ ProbeDies(p)
    \/ \E w \in Watchers : Watching(w) \/ WatchDies(w)
    \/ WatchTimesOut \/ CutWrite
=============================================================================
