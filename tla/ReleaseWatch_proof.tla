------------------------- MODULE ReleaseWatch_proof -------------------------
(***************************************************************************)
(* Proofs about what stands around a release (ReleaseWatch): a page is     *)
(* resolved only after its site was well, what the state file says was     *)
(* told, what an acceptance report says was so, what a vhost installation  *)
(* leaves behind, and the count of sessions.                               *)
(***************************************************************************)
EXTENDS ReleaseWatch, SequenceTheorems, FiniteSetTheorems, TLAPS

-----------------------------------------------------------------------------
(* The parts take turns.                                                   *)

LEMMA Turns ==
    [Next]_vars =>
       \/ ChecksNext /\ Remember /\ UNCHANGED <<alertVars, newsVars, acceptVars, vhostVars, probeVars>>
       \/ AlertsNext /\ Remember /\ UNCHANGED <<newsVars, acceptVars, vhostVars, probeVars>>
       \/ AnnounceNext /\ UNCHANGED <<alertVars, excused, dropped, acceptVars, vhostVars, probeVars>>
       \/ AcceptNext /\ UNCHANGED <<scene, hostVars, checkVars, left, alertVars, excused, dropped, newsVars,
                                    vhostVars, probeVars>>
       \/ VhostsNext /\ UNCHANGED <<scene, hostVars, checkVars, alertVars, excused, dropped, newsVars, acceptVars,
                                    probeVars>>
       \/ ProbesNext /\ UNCHANGED <<scene, hostVars, checkVars, alertVars, excused, dropped, newsVars, acceptVars,
                                    vhostVars>>
       \/ UNCHANGED vars
BY DEF Next, CheckStep, AlertStep, NewsStep, AcceptStep, VhostStep, CountStep

(***************************************************************************)
(* What a step may take from what is left.                                 *)
(***************************************************************************)
LeftInv == left \in [Budgets -> Nat]
LeftStep == LeftInv' /\ left'["calls"] <= left["calls"]

LEMMA SpendOne ==
    ASSUME LeftInv, NEW what \in Budgets, Spend(what)
    PROVE  LeftStep
BY DEF LeftInv, LeftStep, Spend, Budgets

LEMMA SameLeft ==
    ASSUME LeftInv, left' = left
    PROVE  LeftStep
BY DEF LeftInv, LeftStep, Budgets

LEMMA ChecksLeft ==
    ASSUME LeftInv, ChecksNext
    PROVE  LeftStep /\ scene' = scene
<1>1. ASSUME HostChanges
      PROVE  ((\E what \in Budgets : Spend(what)) \/ left' = left) /\ scene' = scene
  BY <1>1 DEF HostChanges, Turn, Pull, Restart, Settle, Age, Budgets
<1>2. ASSUME NEW p \in Probers, Probe(p) \/ ProbeDies(p)
      PROVE  ((\E what \in Budgets : Spend(what)) \/ left' = left) /\ scene' = scene
  BY <1>2 DEF Probe, ReadList, Ask, WriteLines, ProbeDies, Budgets
<1>3. ASSUME NEW w \in Watchers, Watching(w) \/ WatchDies(w)
      PROVE  ((\E what \in Budgets : Spend(what)) \/ left' = left) /\ scene' = scene
  BY <1>3 DEF Watching, StartPass, WriteMetrics, Look, Check, WatchDies, Budgets
<1>5. ASSUME WatchTimesOut \/ CutWrite
      PROVE  ((\E what \in Budgets : Spend(what)) \/ left' = left) /\ scene' = scene
  BY <1>5 DEF WatchTimesOut, CutWrite, CutRecord, CutMetrics, Budgets
<1>4. ((\E what \in Budgets : Spend(what)) \/ left' = left) /\ scene' = scene
  BY <1>1, <1>2, <1>3, <1>5 DEF ChecksNext
<1> QED BY <1>4, SpendOne, SameLeft

LEMMA AlertsLeft ==
    ASSUME LeftInv, AlertsNext
    PROVE  LeftStep /\ UNCHANGED <<scene, hostVars, checkVars>>
<1>1. ((\E what \in Budgets : Spend(what)) \/ left' = left) /\ UNCHANGED <<scene, hostVars, checkVars>>
  BY DEF AlertsNext, Relay, ReadAlerts, Deliver, Evaluate, PrometheusRestarts, Budgets
<1> QED BY <1>1, SpendOne, SameLeft

LEMMA NewsLeft ==
    ASSUME LeftInv, AnnounceNext
    PROVE  LeftStep /\ UNCHANGED <<scene, hostVars, checkVars>>
<1>1. ASSUME NEW c \in Callers, NEW force \in BOOLEAN, Describe(c, force)
      PROVE  LeftStep /\ UNCHANGED <<scene, hostVars, checkVars>>
  <2>1. /\ left["calls"] > 0 /\ UNCHANGED <<scene, hostVars, checkVars>>
        /\ \E answered \in BOOLEAN :
              /\ ~answered => left["faults"] > 0
              /\ left' = [left EXCEPT !.calls = @ - 1, !.faults = IF answered THEN @ ELSE @ - 1]
    BY <1>1 DEF Describe
  <2>2. PICK answered \in BOOLEAN : /\ ~answered => left["faults"] > 0
                                    /\ left' = [left EXCEPT !.calls = @ - 1, !.faults = IF answered THEN @ ELSE @ - 1]
    BY <2>1
  <2>3. left["calls"] \in Nat /\ left["faults"] \in Nat /\ left["calls"] - 1 \in Nat
        /\ (~answered => left["faults"] - 1 \in Nat)
    BY <2>1, <2>2 DEF LeftInv, Budgets
  <2>4. left' = [b \in Budgets |-> CASE b = "calls" -> left["calls"] - 1
                                    [] b = "faults" -> (IF answered THEN left["faults"] ELSE left["faults"] - 1)
                                    [] OTHER -> left[b]]
    BY <2>2 DEF LeftInv, Budgets
  <2>5. left'["calls"] = left["calls"] - 1 /\ left' \in [Budgets -> Nat]
    BY <2>3, <2>4 DEF LeftInv, Budgets
  <2> QED BY <2>1, <2>3, <2>5 DEF LeftInv, LeftStep
<1>2. ASSUME NEW c \in Callers,
             Compare(c) \/ Post(c) \/ PostFails(c) \/ PostRefused(c) \/ WriteState(c) \/ WriteStateFails(c)
      PROVE  ((\E what \in Budgets : Spend(what)) \/ left' = left) /\ UNCHANGED <<scene, hostVars, checkVars>>
  BY <1>2 DEF Compare, Post, PostFails, PostRefused, WriteState, WriteStateFails, Budgets
<1> QED BY <1>1, <1>2, SpendOne, SameLeft DEF AnnounceNext

LEMMA VhostsLeft ==
    ASSUME LeftInv, VhostsNext
    PROVE  LeftStep
<1>1. (\E what \in Budgets : Spend(what)) \/ left' = left
  BY DEF VhostsNext, Begin, Read, Write, Stat, Symlink, Test, UndoOne, Reload, CutShort, Budgets
<1> QED BY <1>1, SpendOne, SameLeft

LEMMA ProbesLeft ==
    ASSUME LeftInv, ProbesNext
    PROVE  LeftStep
<1>1. (\E what \in Budgets : Spend(what)) \/ left' = left
  BY DEF ProbesNext, Visit, StartCount, LookAtUnits, AskPart, PartFails, Budgets
<1> QED BY <1>1, SpendOne, SameLeft

LEMMA LeftTaken ==
    ASSUME LeftInv, [Next]_vars
    PROVE  LeftStep /\ scene' = scene
<1>1. CASE UNCHANGED vars
  BY <1>1, SameLeft DEF vars
<1>2. CASE AcceptNext /\ UNCHANGED <<scene, hostVars, checkVars, left, alertVars, excused, dropped, newsVars,
                                     vhostVars, probeVars>>
  BY <1>2, SameLeft
<1> QED BY <1>1, <1>2, Turns, ChecksLeft, AlertsLeft, NewsLeft, VhostsLeft, ProbesLeft

LEMMA LeftInit == Init => LeftInv /\ scene \in Scenes
BY ScenesAssumption DEF Init, ChecksInit, LeftInv

(***************************************************************************)
(* The checks and the alerts are well typed.                               *)
(***************************************************************************)
LEMMA ChecksInitTypes == Init => ChecksTypeOK /\ AlertsTypeOK
<1> SUFFICES ASSUME Init PROVE ChecksTypeOK /\ AlertsTypeOK
  OBVIOUS
<1> USE DEF Init
<1>1. scene \in Scenes /\ left \in [Budgets -> Nat]
  BY LeftInit DEF LeftInv
<1>2. /\ world \in [{"ready", "auth"} -> [Sites -> Answers]]
      /\ head \in [Sites -> Releases] /\ release \in [Sites -> Releases]
      /\ settling \in [Sites -> BOOLEAN]
      /\ file \in [Kinds -> [Sites -> Answers]]
  BY DEF ChecksInit, Answers, NoLines
<1>3. probe \in [Probers -> [at : {"idle", "asking"}, left : SUBSET Sites, got : [Sites -> Answers]]]
  BY DEF ChecksInit, Rested, NoLines, Answers
<1>4. record \in [Sites -> [release : Releases \cup {None}, ok : BOOLEAN, age : Ages]]
  BY DEF ChecksInit, NoRecord, Ages
<1>5. watch \in [Watchers -> [at : {"idle", "sites", "first", "second"}, left : SUBSET Sites,
                              site : Sites \cup {None}, seen : Releases \cup {None}]]
  BY DEF ChecksInit, Resting
<1>6. AlertsTypeOK
  BY DEF AlertsInit, AlertsTypeOK, Quiet
<1> QED BY <1>1, <1>2, <1>3, <1>4, <1>5, <1>6 DEF ChecksTypeOK

LEMMA HostTypes ==
    ASSUME ChecksTypeOK, LeftInv', scene' = scene, HostChanges
    PROVE  ChecksTypeOK'
<1> USE DEF ChecksTypeOK, hostVars, checkVars
<1>0. scene' \in Scenes /\ left' \in [Budgets -> Nat]
  BY DEF LeftInv
<1> PICK s \in Sites :
       \/ \E k \in {"ready", "auth"}, v \in Answers : (k = "ready" => v # "none") /\ Turn(k, s, v)
       \/ \E r \in Releases : Pull(s, r)
       \/ Restart(s) \/ Settle(s) \/ Age(s)
  BY DEF HostChanges
<1>1. ASSUME NEW k \in {"ready", "auth"}, NEW v \in Answers, Turn(k, s, v) PROVE ChecksTypeOK'
  <2>1. world' = [world EXCEPT ![k][s] = v]
    BY <1>1 DEF Turn
  <2>2. world' \in [{"ready", "auth"} -> [Sites -> Answers]]
    BY <2>1
  <2> QED BY <1>0, <1>1, <2>2 DEF Turn
<1>2. ASSUME NEW r \in Releases, Pull(s, r) PROVE ChecksTypeOK'
  BY <1>0, <1>2 DEF Pull
<1>3. CASE Restart(s)
  BY <1>0, <1>3 DEF Restart
<1>4. CASE Settle(s)
  BY <1>0, <1>4 DEF Settle
<1>5. CASE Age(s)
  <2>1. record' = [record EXCEPT ![s] = [record[s] EXCEPT !.age = IF record[s].age = "young" THEN "day" ELSE "old"]]
    BY <1>5 DEF Age
  <2>2. ASSUME NEW r \in [release : Releases \cup {None}, ok : BOOLEAN, age : Ages], NEW age \in Ages
        PROVE  [r EXCEPT !.age = age] \in [release : Releases \cup {None}, ok : BOOLEAN, age : Ages]
    OBVIOUS
  <2>4. (IF record[s].age = "young" THEN "day" ELSE "old") \in Ages
    BY DEF Ages
  <2>3. record' \in [Sites -> [release : Releases \cup {None}, ok : BOOLEAN, age : Ages]]
    BY <2>1, <2>2, <2>4
  <2> QED BY <1>0, <1>5, <2>3 DEF Age
<1> QED BY <1>1, <1>2, <1>3, <1>4, <1>5

LEMMA ListedSites ==
    ASSUME scene \in Scenes, NEW p \in Probers
    PROVE  Listed(p) \subseteq Sites /\ scene.browser \subseteq Sites
BY ScenesAssumption DEF Listed, Kind, Probers

ProbeRuns == [at : {"idle", "asking"}, left : SUBSET Sites, got : [Sites -> Answers]]
AskedRuns(runs, p, s, answer) == [runs EXCEPT ![p].left = @ \ {s}, ![p].got[s] = answer]

LEMMA AskShape ==
    ASSUME NEW runs \in [Probers -> ProbeRuns], NEW p \in Probers, NEW s \in Sites, NEW answer \in Answers
    PROVE  /\ AskedRuns(runs, p, s, answer) \in [Probers -> ProbeRuns]
           /\ AskedRuns(runs, p, s, answer)[p] =
                 [at |-> runs[p].at, left |-> runs[p].left \ {s}, got |-> [runs[p].got EXCEPT ![s] = answer]]
           /\ \A q \in Probers \ {p} : AskedRuns(runs, p, s, answer)[q] = runs[q]
<1> DEFINE new == AskedRuns(runs, p, s, answer)
           r == [at |-> runs[p].at, left |-> runs[p].left \ {s}, got |-> [runs[p].got EXCEPT ![s] = answer]]
<1>0. runs[p] \in ProbeRuns
  OBVIOUS
<1>1. r \in ProbeRuns
  BY <1>0 DEF ProbeRuns
<1>2. new[p] = r
  BY <1>0 DEF ProbeRuns, AskedRuns
<1>3. \A q \in Probers \ {p} : new[q] = runs[q]
  BY DEF AskedRuns
<1>4. DOMAIN new = Probers /\ new = [q \in Probers |-> new[q]]
  BY DEF AskedRuns
<1> HIDE DEF new, r
<1>5. new \in [Probers -> ProbeRuns]
  BY <1>1, <1>2, <1>3, <1>4
<1> QED BY <1>2, <1>3, <1>5 DEF new, r

LEMMA ProbeTypes ==
    ASSUME ChecksTypeOK, LeftInv', scene' = scene, NEW p \in Probers, Probe(p) \/ ProbeDies(p)
    PROVE  ChecksTypeOK'
<1> USE DEF ChecksTypeOK, hostVars, checkVars
<1> DEFINE Run == [at : {"idle", "asking"}, left : SUBSET Sites, got : [Sites -> Answers]]
<1>0. scene' \in Scenes /\ left' \in [Budgets -> Nat] /\ scene \in Scenes
  BY DEF LeftInv
<1>r. Rested \in Run
  BY DEF Rested, NoLines, Answers
<1>k. Kind(p) \in Kinds /\ Kind(p) \in {"ready", "auth"}
  BY DEF Kind, Kinds
<1>1. CASE ReadList(p)
  <2>1. probe' = [probe EXCEPT ![p] = [at |-> "asking", left |-> Listed(p), got |-> NoLines]]
    BY <1>1 DEF ReadList
  <2>2. [at |-> "asking", left |-> Listed(p), got |-> NoLines] \in Run
    BY <1>0, ListedSites DEF NoLines, Answers
  <2>3. probe' \in [Probers -> Run]
    BY <2>1, <2>2
  <2> QED BY <1>0, <1>1, <2>3 DEF ReadList
<1>2. ASSUME NEW s \in Sites, Ask(p, s) PROVE ChecksTypeOK'
  <2>1. PICK blip \in BOOLEAN : probe' = [probe EXCEPT ![p].left = @ \ {s}, ![p].got[s] = Answered(p, s, blip)]
    BY <1>2 DEF Ask
  <2>2. Answered(p, s, blip) \in Answers
    BY <1>k DEF Answered, Truth, Answers, Kind
  <2>3. probe \in [Probers -> ProbeRuns]
    BY DEF ProbeRuns
  <2>4. probe' = AskedRuns(probe, p, s, Answered(p, s, blip))
    BY <2>1 DEF AskedRuns
  <2>6. probe' \in [Probers -> Run]
    BY <2>2, <2>3, <2>4, AskShape DEF ProbeRuns
  <2> QED BY <1>0, <1>2, <2>6 DEF Ask
<1>3. CASE WriteLines(p)
  <2>1. /\ file' = [file EXCEPT ![Kind(p)] = Lines(p)]
        /\ probe' = [probe EXCEPT ![p] = Rested]
    BY <1>3 DEF WriteLines
  <2>2. Lines(p) \in [Sites -> Answers]
    BY DEF Lines, Kinds
  <2>3. file' \in [Kinds -> [Sites -> Answers]] /\ probe' \in [Probers -> Run]
    BY <2>1, <2>2, <1>r
  <2> QED BY <1>0, <1>3, <2>3 DEF WriteLines
<1>4. CASE ProbeDies(p)
  <2>1. probe' \in [Probers -> Run]
    BY <1>4, <1>r DEF ProbeDies
  <2> QED BY <1>0, <1>4, <2>1 DEF ProbeDies
<1> QED BY <1>1, <1>2, <1>3, <1>4 DEF Probe

LEMMA WatchTypes ==
    ASSUME ChecksTypeOK, LeftInv', scene' = scene, NEW w \in Watchers, Watching(w) \/ WatchDies(w)
    PROVE  ChecksTypeOK'
<1> USE DEF ChecksTypeOK, hostVars, checkVars
<1> DEFINE Pass == [at : {"idle", "sites", "first", "second"}, left : SUBSET Sites,
                    site : Sites \cup {None}, seen : Releases \cup {None}]
<1>0. scene' \in Scenes /\ left' \in [Budgets -> Nat] /\ scene \in Scenes
  BY DEF LeftInv
<1>r. Resting \in Pass /\ watch[w] \in Pass
  BY DEF Resting
<1>p. \A r \in Pass : [watch EXCEPT ![w] = r] \in [Watchers -> Pass]
  OBVIOUS
<1>1. CASE StartPass(w)
  <2>1. watch' = [watch EXCEPT ![w] = [Resting EXCEPT !.at = "sites", !.left = scene.browser]]
    BY <1>1 DEF StartPass
  <2>2. [Resting EXCEPT !.at = "sites", !.left = scene.browser] \in Pass
    BY <1>0, ScenesAssumption DEF Resting
  <2>3. watch' \in [Watchers -> Pass]
    BY <2>1, <2>2
  <2> QED BY <1>0, <1>1, <2>3 DEF StartPass
<1>2. CASE WriteMetrics(w)
  <2>1. /\ file' = [file EXCEPT !["browser"] = [s \in Sites |-> Metric(s)]]
        /\ watch' = [watch EXCEPT ![w] = Resting]
    BY <1>2 DEF WriteMetrics
  <2>2. [s \in Sites |-> Metric(s)] \in [Sites -> Answers]
    BY DEF Metric, Answers
  <2>3. file' \in [Kinds -> [Sites -> Answers]] /\ watch' \in [Watchers -> Pass]
    BY <2>1, <2>2, <1>r
  <2> QED BY <1>0, <1>2, <2>3 DEF WriteMetrics
<1>3. ASSUME NEW s \in Sites, Look(w, s) PROVE ChecksTypeOK'
  <2>1. PICK seen \in CurrentRelease(s) :
           watch' = [watch EXCEPT ![w] =
                        IF Skipped(w, s, seen) THEN [watch[w] EXCEPT !.left = @ \ {s}]
                        ELSE [at |-> "first", left |-> watch[w].left \ {s}, site |-> s, seen |-> seen]]
    BY <1>3 DEF Look
  <2>2. seen \in Releases \cup {None}
    BY <2>1 DEF CurrentRelease
  <2>3. /\ [watch[w] EXCEPT !.left = @ \ {s}] \in Pass
        /\ [at |-> "first", left |-> watch[w].left \ {s}, site |-> s, seen |-> seen] \in Pass
    BY <2>2, <1>r
  <2>4. CASE Skipped(w, s, seen)
    <3>1. watch' = [watch EXCEPT ![w] = [watch[w] EXCEPT !.left = @ \ {s}]]
      BY <2>1, <2>4
    <3> QED BY <1>0, <1>3, <1>p, <2>3, <3>1 DEF Look
  <2>6. CASE ~Skipped(w, s, seen)
    <3>1. watch' = [watch EXCEPT ![w] = [at |-> "first", left |-> watch[w].left \ {s}, site |-> s, seen |-> seen]]
      BY <2>1, <2>6
    <3> QED BY <1>0, <1>3, <1>p, <2>3, <3>1 DEF Look
  <2> QED BY <2>4, <2>6
<1>4. ASSUME NEW result \in Answers, Check(w, result) PROVE ChecksTypeOK'
  <2>1. /\ watch' = [watch EXCEPT ![w].at = "second"] \/ watch' = NextSite(w)
        /\ \/ record' = [record EXCEPT ![watch[w].site] = Recorded(watch[w].seen, result)]
           \/ record' = record
    BY <1>4 DEF Check
  <2>2. /\ [watch[w] EXCEPT !.at = "second"] \in Pass
        /\ [Resting EXCEPT !.at = "sites", !.left = watch[w].left] \in Pass
    BY <1>r DEF Resting
  <2>3. watch' \in [Watchers -> Pass]
    BY <2>1, <2>2 DEF NextSite
  <2>4. Recorded(watch[w].seen, result) \in [release : Releases \cup {None}, ok : BOOLEAN, age : Ages]
    BY <1>r DEF Recorded, Ages
  <2>5. record' \in [Sites -> [release : Releases \cup {None}, ok : BOOLEAN, age : Ages]]
    BY <2>1, <2>4
  <2> QED BY <1>0, <1>4, <2>3, <2>5 DEF Check
<1>5. CASE WatchDies(w)
  <2>1. watch' \in [Watchers -> Pass]
    BY <1>5, <1>r DEF WatchDies
  <2> QED BY <1>0, <1>5, <2>1 DEF WatchDies
<1> QED BY <1>1, <1>2, <1>3, <1>4, <1>5 DEF Watching

LEMMA CutTypes ==
    ASSUME ChecksTypeOK, LeftInv', scene' = scene, WatchTimesOut \/ CutWrite
    PROVE  ChecksTypeOK'
<1> USE DEF ChecksTypeOK, hostVars, checkVars
<1> DEFINE Pass == [at : {"idle", "sites", "first", "second"}, left : SUBSET Sites,
                    site : Sites \cup {None}, seen : Releases \cup {None}]
<1>0. scene' \in Scenes /\ left' \in [Budgets -> Nat]
  BY DEF LeftInv
<1>r. Resting \in Pass
  BY DEF Resting
<1>1. CASE WatchTimesOut
  <2>1. watch' \in [Watchers -> Pass]
    BY <1>1, <1>r DEF WatchTimesOut
  <2> QED BY <1>0, <1>1, <2>1 DEF WatchTimesOut
<1>2. ASSUME NEW w \in Watchers, CutRecord(w) PROVE ChecksTypeOK'
  <2>1. watch' \in [Watchers -> Pass]
    BY <1>2, <1>r DEF CutRecord
  <2>2. NoRecord \in [release : Releases \cup {None}, ok : BOOLEAN, age : Ages]
    BY DEF NoRecord, Ages
  <2>3. record' \in [Sites -> [release : Releases \cup {None}, ok : BOOLEAN, age : Ages]]
    BY <1>2, <2>2 DEF CutRecord
  <2> QED BY <1>0, <1>2, <2>1, <2>3 DEF CutRecord
<1>3. ASSUME NEW w \in Watchers, CutMetrics(w) PROVE ChecksTypeOK'
  <2>1. watch' \in [Watchers -> Pass]
    BY <1>3, <1>r DEF CutMetrics
  <2>2. NoLines \in [Sites -> Answers]
    BY DEF NoLines, Answers
  <2>3. file' \in [Kinds -> [Sites -> Answers]]
    BY <1>3, <2>2 DEF CutMetrics
  <2> QED BY <1>0, <1>3, <2>1, <2>3 DEF CutMetrics
<1> QED BY <1>1, <1>2, <1>3 DEF CutWrite

LEMMA AlertTypes ==
    ASSUME AlertsTypeOK, AlertsNext, Remember
    PROVE  AlertsTypeOK'
<1> USE DEF AlertsTypeOK
<1>1. excused' \subseteq AllAlerts /\ dropped' \subseteq AllAlerts
  BY DEF Remember
<1>2. ASSUME NEW a \in AllAlerts, Evaluate(a) PROVE AlertsTypeOK'
  BY <1>1, <1>2 DEF Evaluate
<1>3. CASE Relay
  <2>2. Reports \subseteq SUBSET AllAlerts
    BY DEF Reports, Firing
  <2>1. relay' \in [at : {"idle", "sending"}, firing : SUBSET AllAlerts] /\ open' \subseteq AllAlerts /\ rule' = rule
    BY <1>3, <2>2 DEF Relay, ReadAlerts, Deliver, Quiet
  <2> QED BY <1>1, <2>1
<1>4. CASE PrometheusRestarts
  BY <1>1, <1>4 DEF PrometheusRestarts
<1> QED BY <1>2, <1>3, <1>4 DEF AlertsNext

WatchInv == LeftInv /\ ChecksTypeOK /\ AlertsTypeOK

LEMMA WatchStep ==
    ASSUME WatchInv, [Next]_vars
    PROVE  WatchInv'
<1> USE DEF WatchInv
<1>1. LeftInv' /\ scene' = scene
  BY LeftTaken DEF LeftStep
<1>2. ASSUME ChecksNext, Remember, UNCHANGED <<alertVars, newsVars, acceptVars, vhostVars, probeVars>>
      PROVE  ChecksTypeOK' /\ AlertsTypeOK'
  <2>1. ChecksTypeOK'
    BY <1>1, <1>2, HostTypes, ProbeTypes, WatchTypes, CutTypes DEF ChecksNext
  <2>2. excused' \subseteq AllAlerts /\ dropped' \subseteq AllAlerts
    BY <1>2 DEF Remember, AlertsTypeOK
  <2> QED BY <1>2, <2>1, <2>2 DEF AlertsTypeOK, alertVars
<1>3. ASSUME UNCHANGED <<scene, hostVars, checkVars>>
      PROVE  ChecksTypeOK'
  BY <1>1, <1>3 DEF ChecksTypeOK, LeftInv, hostVars, checkVars
<1>4. ASSUME AlertsNext, Remember
      PROVE  ChecksTypeOK' /\ AlertsTypeOK'
  BY <1>3, <1>4, AlertsLeft, AlertTypes
<1>5. ASSUME UNCHANGED <<scene, hostVars, checkVars, alertVars, excused, dropped>>
      PROVE  ChecksTypeOK' /\ AlertsTypeOK'
  BY <1>3, <1>5 DEF AlertsTypeOK, alertVars
<1>6. AnnounceNext => UNCHANGED <<scene, hostVars, checkVars>>
  BY NewsLeft
<1>7. UNCHANGED vars => UNCHANGED <<scene, hostVars, checkVars, alertVars, excused, dropped>>
  BY DEF vars
<1> QED BY <1>1, <1>2, <1>4, <1>5, <1>6, <1>7, Turns

-----------------------------------------------------------------------------
(* The pages.  A page that stood keeps standing, in all that the timers and  *)
(* the relay have of it, while its site fails and nothing of Drops happens.  *)

Timers == {"ready", "auth"}

(* A sign-in or a readiness that changes is one the timer asks for.          *)
Listable == \A k \in Timers, s \in Sites : world[k][s] # "good" => s \in scene[k]

Stood(a) ==
    /\ Failing(a) /\ file[a[1]][a[2]] = "bad" /\ rule[a] = "firing" /\ a \in open
    /\ \A p \in Timers : Kind(p) = a[1] /\ probe[p].at = "asking" /\ a[2] \notin probe[p].left
                           => probe[p].got[a[2]] = "bad"
    /\ a[1] = "browser" => record[a[2]].age # "none" /\ ~record[a[2]].ok
    /\ relay.at = "sending" => a \in relay.firing

Covered == \A a \in AllAlerts : a \in excused \/ a \in dropped \/ Stood(a)

PagesInv == WatchInv /\ Listable /\ Covered

LEMMA PagesInit == Init => PagesInv
<1> SUFFICES ASSUME Init PROVE PagesInv
  OBVIOUS
<1>1. WatchInv
  BY LeftInit, ChecksInitTypes DEF WatchInv
<1>2. Listable
  BY DEF Init, ChecksInit, Listable, Timers
<1>3. Covered
  BY DEF Init, AlertsInit, Covered
<1> QED BY <1>1, <1>2, <1>3 DEF PagesInv

LEMMA ListableStep ==
    ASSUME WatchInv, Listable, [Next]_vars
    PROVE  Listable'
<1>1. scene' = scene
  BY LeftTaken DEF WatchInv
<1>2. CASE UNCHANGED world
  BY <1>1, <1>2 DEF Listable
<1>3. ASSUME NEW k \in {"ready", "auth"}, NEW s \in Sites, NEW v \in Answers, Turn(k, s, v)
      PROVE  Listable'
  <2>1. s \in scene[k] /\ world' = [world EXCEPT ![k][s] = v]
    BY <1>3 DEF Turn
  <2>2. world \in [{"ready", "auth"} -> [Sites -> Answers]]
    BY DEF WatchInv, ChecksTypeOK
  <2>3. \A j \in Timers, t \in Sites : ~(j = k /\ t = s) => world'[j][t] = world[j][t]
    BY <2>1, <2>2 DEF Timers
  <2> QED BY <1>1, <2>1, <2>3 DEF Listable
<1>4. ChecksNext => UNCHANGED world \/ \E k \in {"ready", "auth"}, s \in Sites, v \in Answers : Turn(k, s, v)
  BY DEF ChecksNext, HostChanges, Pull, Restart, Settle, Age, Probe, ReadList, Ask, WriteLines, ProbeDies,
         Watching, StartPass, WriteMetrics, Look, Check, WatchDies, WatchTimesOut, CutWrite, CutRecord, CutMetrics,
         hostVars
<1>5. AlertsNext \/ AnnounceNext => UNCHANGED world
  BY AlertsLeft, NewsLeft DEF WatchInv, hostVars
<1> QED BY <1>2, <1>3, <1>4, <1>5, Turns DEF vars, hostVars

(***************************************************************************)
(* A step of the checks under a page that stood: its site is well, or it   *)
(* stands, or the step dropped its line.                                   *)
(***************************************************************************)
LEMMA StoodCheck ==
    ASSUME WatchInv, Listable, ChecksNext, UNCHANGED alertVars, scene' = scene,
           NEW a \in AllAlerts, Stood(a), Failing(a)'
    PROVE  Stood(a)' \/ Drops(a)
<1> DEFINE k == a[1]
           s == a[2]
<1>t. /\ k \in Kinds /\ s \in Sites
      /\ file \in [Kinds -> [Sites -> Answers]]
      /\ probe \in [Probers -> ProbeRuns]
      /\ record \in [Sites -> [release : Releases \cup {None}, ok : BOOLEAN, age : Ages]]
  BY DEF AllAlerts, WatchInv, ChecksTypeOK, ProbeRuns
<1>0. rule' = rule /\ relay' = relay /\ open' = open
  BY DEF alertVars
<1>s. /\ Failing(a) /\ file[k][s] = "bad" /\ rule[a] = "firing" /\ a \in open
      /\ \A p \in Timers : Kind(p) = k /\ probe[p].at = "asking" /\ s \notin probe[p].left => probe[p].got[s] = "bad"
      /\ k = "browser" => record[s].age # "none" /\ ~record[s].ok
      /\ relay.at = "sending" => a \in relay.firing
  BY DEF Stood
<1> DEFINE Goal == Stood(a)' \/ Drops(a)
<1>g. ASSUME file'[k][s] = "bad", k = "browser" => record'[s].age # "none" /\ ~record'[s].ok,
             \A p \in Timers : Kind(p) = k /\ probe'[p].at = "asking" /\ s \notin probe'[p].left => probe'[p].got[s] = "bad"
      PROVE  Stood(a)'
  BY <1>0, <1>s, <1>g DEF Stood
<1>1. ASSUME UNCHANGED <<file, probe, record>> PROVE Goal
  BY <1>1, <1>g, <1>s
<1>2. ASSUME NEW t \in Sites, Age(t) PROVE Goal
  <2>1. /\ UNCHANGED <<file, probe>>
        /\ record' = [record EXCEPT ![t].age = IF @ = "young" THEN "day" ELSE "old"]
    BY <1>2 DEF Age
  <2>2. record'[s].ok = record[s].ok /\ (record[s].age # "none" => record'[s].age # "none")
    BY <2>1, <1>t
  <2> QED BY <2>1, <2>2, <1>g, <1>s
<1>3. ASSUME NEW p \in Probers, ReadList(p) PROVE Goal
  <2>1. /\ UNCHANGED <<file, record>>
        /\ probe' = [probe EXCEPT ![p] = [at |-> "asking", left |-> Listed(p), got |-> NoLines]]
    BY <1>3 DEF ReadList
  <2>2. UNCHANGED hostVars
    BY <1>3 DEF ReadList
  <2>3. ASSUME NEW q \in Timers, Kind(q) = k, probe'[q].at = "asking", s \notin probe'[q].left
        PROVE  probe'[q].got[s] = "bad"
    <3>1. CASE q = p
      <4>1. k \in Timers /\ Listed(p) = scene[k]
        BY <2>3, <3>1 DEF Timers, Listed, Kind
      <4>2. world[k][s] # "good"
        BY <1>s, <4>1 DEF Failing, Truth, Timers
      <4>3. s \in Listed(p)
        BY <4>1, <4>2, <1>t DEF Listable
      <4>4. probe'[q].left = Listed(p)
        BY <2>1, <1>t, <3>1
      <4> QED BY <4>3, <4>4, <2>3
    <3>2. CASE q # p
      <4>1. q \in Probers
        BY DEF Timers, Probers
      <4>2. probe'[q] = probe[q]
        BY <2>1, <1>t, <3>2, <4>1
      <4> QED BY <4>2, <2>3, <1>s
    <3> QED BY <3>1, <3>2
  <2> QED BY <2>1, <2>3, <1>g, <1>s
<1>4. ASSUME NEW p \in Probers, NEW t \in Sites, Ask(p, t) PROVE Goal
  <2>1. PICK blip \in BOOLEAN : probe' = AskedRuns(probe, p, t, Answered(p, t, blip))
    BY <1>4 DEF Ask, AskedRuns
  <2>2. UNCHANGED <<file, record>> /\ UNCHANGED hostVars
    BY <1>4 DEF Ask
  <2>3. Answered(p, t, blip) \in Answers
    BY DEF WatchInv, ChecksTypeOK, Answered, Truth, Answers, Kind
  <2>a. PICK answer \in Answers : answer = Answered(p, t, blip)
    BY <2>3
  <2>b. probe' = AskedRuns(probe, p, t, answer) /\ probe \in [Probers -> ProbeRuns]
    BY <2>1, <2>a, <1>t
  <2>4. /\ probe'[p] = [at |-> probe[p].at, left |-> probe[p].left \ {t},
                        got |-> [probe[p].got EXCEPT ![t] = answer]]
        /\ \A q \in Probers \ {p} : probe'[q] = probe[q]
    BY <2>b, AskShape
  <2>5. ASSUME NEW q \in Timers, Kind(q) = k, probe'[q].at = "asking", s \notin probe'[q].left
        PROVE  probe'[q].got[s] = "bad"
    <3>1. q \in Probers /\ probe[q].got \in [Sites -> Answers]
      BY <1>t DEF Timers, Probers, ProbeRuns
    <3>2. CASE q # p
      BY <2>4, <2>5, <3>1, <3>2, <1>s
    <3>3. CASE q = p /\ t # s
      <4>1. probe[q].at = "asking" /\ s \notin probe[q].left
        BY <2>4, <2>5, <3>3
      <4>2. probe'[q].got[s] = probe[q].got[s]
        BY <2>4, <3>1, <3>3, <1>t
      <4> QED BY <4>1, <4>2, <2>5, <1>s
    <3>4. CASE q = p /\ t = s
      <4>1. answer = "bad"
        BY <2>5, <2>a, <3>4, <1>s DEF Answered, Failing
      <4> QED BY <2>4, <3>1, <3>4, <4>1, <1>t
    <3> QED BY <3>2, <3>3, <3>4
  <2> QED BY <2>2, <2>5, <1>g, <1>s
<1>5. ASSUME NEW p \in Probers, WriteLines(p) PROVE Goal
  <2>1. /\ record' = record /\ file' = [file EXCEPT ![Kind(p)] = Lines(p)]
        /\ probe' = [probe EXCEPT ![p] = Rested] /\ probe[p].at = "asking" /\ probe[p].left = {}
    BY <1>5 DEF WriteLines
  <2>2. /\ probe'[p].at = "idle" /\ \A q \in Probers \ {p} : probe'[q] = probe[q]
    BY <2>1, <1>t DEF Rested
  <2>3. \A q \in Timers : Kind(q) = k /\ probe'[q].at = "asking" /\ s \notin probe'[q].left => probe'[q].got[s] = "bad"
    BY <2>2, <1>s DEF Timers, Probers
  <2>4. CASE Kind(p) # k
    <3>1. file'[k] = file[k]
      BY <2>1, <2>4, <1>t
    <3> QED BY <2>1, <2>3, <3>1, <1>g, <1>s
  <2>5. CASE Kind(p) = k /\ p # "narrow"
    <3>1. p \in Timers /\ probe[p].got[s] = "bad"
      BY <2>1, <2>5, <1>s DEF Timers, Probers
    <3>2. Lines(p) = probe[p].got
      BY <3>1, <1>t DEF Lines, NoLines
    <3>3. file'[k][s] = "bad"
      BY <2>1, <2>5, <3>1, <3>2, <1>t
    <3> QED BY <2>1, <2>3, <3>3, <1>g, <1>s
  <2>6. CASE Kind(p) = k /\ p = "narrow"
    <3>1. k = "auth" /\ probe["narrow"].at = "asking" /\ probe'["narrow"].at = "idle"
      BY <2>1, <2>2, <2>6 DEF Kind
    <3>2. CASE file' = file
      BY <2>1, <2>3, <3>2, <1>g, <1>s
    <3>3. CASE file' # file
      BY <3>1, <3>3 DEF Drops
    <3> QED BY <3>2, <3>3
  <2> QED BY <2>4, <2>5, <2>6
<1>6. ASSUME NEW p \in Probers, ProbeDies(p) PROVE Goal
  <2>1. UNCHANGED <<file, record>> /\ probe' = [probe EXCEPT ![p] = Rested]
    BY <1>6 DEF ProbeDies
  <2>2. /\ probe'[p].at = "idle" /\ \A q \in Probers \ {p} : probe'[q] = probe[q]
    BY <2>1, <1>t DEF Rested
  <2>3. \A q \in Timers : Kind(q) = k /\ probe'[q].at = "asking" /\ s \notin probe'[q].left => probe'[q].got[s] = "bad"
    BY <2>2, <1>s DEF Timers, Probers
  <2> QED BY <2>1, <2>3, <1>g, <1>s
<1>7. ASSUME NEW w \in Watchers, WriteMetrics(w) PROVE Goal
  <2>1. UNCHANGED <<probe, record>> /\ file' = [file EXCEPT !["browser"] = [t \in Sites |-> Metric(t)]]
    BY <1>7 DEF WriteMetrics
  <2>2. CASE k = "browser"
    <3>1. record[s].age # "none" /\ ~record[s].ok
      BY <2>2, <1>s
    <3>2. file'[k][s] = "bad"
      BY <2>1, <2>2, <3>1, <1>t DEF Metric
    <3> QED BY <2>1, <3>2, <1>g, <1>s
  <2>3. CASE k # "browser"
    <3>1. file'[k] = file[k]
      BY <2>1, <2>3, <1>t
    <3> QED BY <2>1, <3>1, <1>g, <1>s
  <2> QED BY <2>2, <2>3
<1>8. ASSUME NEW w \in Watchers, NEW result \in Answers, Check(w, result) PROVE Goal
  <2>1. UNCHANGED <<file, probe>> /\ UNCHANGED hostVars
    BY <1>8 DEF Check
  <2>2. \/ record' = record
        \/ /\ record' = [record EXCEPT ![watch[w].site] = Recorded(watch[w].seen, result)]
           /\ result = "good" => Truth("browser", watch[w].site) = "good"
    BY <1>8 DEF Check
  <2>3. k = "browser" => record'[s].age # "none" /\ ~record'[s].ok
    <3>1. CASE record' = record
      BY <3>1, <1>s
    <3>2. CASE /\ record' = [record EXCEPT ![watch[w].site] = Recorded(watch[w].seen, result)]
               /\ result = "good" => Truth("browser", watch[w].site) = "good"
      <4> SUFFICES ASSUME k = "browser" PROVE record'[s].age # "none" /\ ~record'[s].ok
        OBVIOUS
      <4>1. CASE watch[w].site # s
        BY <3>2, <4>1, <1>t, <1>s
      <4>2. CASE watch[w].site = s
        <5>1. result # "good"
          BY <3>2, <4>2, <1>s DEF Failing
        <5>2. record'[s] = Recorded(watch[w].seen, result)
          BY <3>2, <4>2, <1>t
        <5>3. record'[s].ok = (result = "good") /\ record'[s].age = "young"
          BY <5>2 DEF Recorded
        <5> QED BY <5>1, <5>3
      <4> QED BY <4>1, <4>2
    <3> QED BY <2>2, <3>1, <3>2
  <2> QED BY <2>1, <2>3, <1>g, <1>s
<1> HIDE DEF Goal
<1>9. ASSUME HostChanges PROVE Goal
  <2>1. UNCHANGED <<file, probe, record>> \/ \E t \in Sites : Age(t)
    BY <1>9 DEF HostChanges, Turn, Pull, Restart, Settle, checkVars
  <2> QED BY <2>1, <1>1, <1>2
<1>10. ASSUME NEW p \in Probers, Probe(p) \/ ProbeDies(p) PROVE Goal
  BY <1>10, <1>3, <1>4, <1>5, <1>6 DEF Probe
<1>11. ASSUME NEW w \in Watchers, Watching(w) \/ WatchDies(w) PROVE Goal
  <2>1. \/ UNCHANGED <<file, probe, record>> \/ WriteMetrics(w)
        \/ \E result \in Answers : Check(w, result)
    BY <1>11 DEF Watching, StartPass, Look, WatchDies
  <2> QED BY <2>1, <1>1, <1>7, <1>8
<1>13. ASSUME WatchTimesOut PROVE Goal
  BY <1>13, <1>1 DEF WatchTimesOut
<1>14. ASSUME CutWrite PROVE Goal
  <2>1. CASE k = "browser"
    BY <1>14, <2>1 DEF Drops, Goal
  <2>2. CASE k # "browser"
    <3>1. probe' = probe /\ (file' = file \/ file' = [file EXCEPT !["browser"] = NoLines])
      BY <1>14 DEF CutWrite, CutRecord, CutMetrics
    <3>2. file'[k] = file[k]
      BY <2>2, <3>1, <1>t
    <3> QED BY <2>2, <3>1, <3>2, <1>g, <1>s DEF Goal
  <2> QED BY <2>1, <2>2
<1>12. Goal
  BY <1>9, <1>10, <1>11, <1>13, <1>14 DEF ChecksNext
<1> QED BY <1>12 DEF Goal

LEMMA StoodAlert ==
    ASSUME WatchInv, AlertsNext, NEW a \in AllAlerts, Stood(a), Failing(a)'
    PROVE  Stood(a)' \/ Drops(a)
<1>0. UNCHANGED <<scene, hostVars, checkVars>>
  BY AlertsLeft DEF WatchInv
<1>t. rule \in [AllAlerts -> {"inactive", "pending", "firing"}]
  BY DEF WatchInv, AlertsTypeOK
<1>g. ASSUME rule'[a] = "firing", a \in open', relay'.at = "sending" => a \in relay'.firing
      PROVE  Stood(a)'
  BY <1>0, <1>g DEF Stood, checkVars
<1>1. ASSUME NEW b \in AllAlerts, Evaluate(b) PROVE Stood(a)'
  <2>1. /\ UNCHANGED <<relay, open>>
        /\ rule' = [rule EXCEPT ![b] = CASE file[b[1]][b[2]] # "bad" -> "inactive"
                                         [] @ = "inactive" -> "pending"
                                         [] OTHER -> "firing"]
    BY <1>1 DEF Evaluate
  <2>2. rule'[a] = "firing"
    BY <2>1, <1>t DEF Stood
  <2> QED BY <2>1, <2>2, <1>g DEF Stood
<1>2. CASE ReadAlerts
  <2>1. /\ UNCHANGED <<rule, open>> /\ relay.at = "idle"
        /\ \/ relay' = Quiet
           \/ \E f \in Reports : relay' = [at |-> "sending", firing |-> f]
    BY <1>2 DEF ReadAlerts
  <2>2. a \in Firing
    BY DEF Firing, Stood
  <2>3. CASE relay' = Quiet
    BY <2>1, <2>3, <1>g DEF Stood, Quiet
  <2>4. ASSUME NEW f \in Reports, relay' = [at |-> "sending", firing |-> f] PROVE Stood(a)' \/ Drops(a)
    <3>1. a \in f \/ Cardinality(f) = MaxAlerts
      BY <2>2 DEF Reports
    <3>2. CASE a \in f
      BY <2>1, <2>4, <3>2, <1>g DEF Stood
    <3>3. CASE a \notin f
      BY <2>1, <2>2, <2>4, <3>1, <3>3 DEF Drops
    <3> QED BY <3>2, <3>3
  <2> QED BY <2>1, <2>3, <2>4
<1>3. CASE Deliver
  <2>1. rule' = rule /\ relay' = Quiet /\ (open' = relay.firing \/ open' = open) /\ relay.at = "sending"
    BY <1>3 DEF Deliver
  <2>2. a \in open'
    BY <2>1 DEF Stood
  <2> QED BY <2>1, <2>2, <1>g DEF Stood, Quiet
<1>4. CASE PrometheusRestarts
  BY <1>4 DEF Drops
<1> QED BY <1>1, <1>2, <1>3, <1>4 DEF AlertsNext, Relay

LEMMA CoveredStep ==
    ASSUME PagesInv, [Next]_vars
    PROVE  Covered'
<1> USE DEF PagesInv
<1>0. scene' = scene
  BY LeftTaken DEF WatchInv
<1>s. ASSUME NEW a \in AllAlerts, Stands(a)' PROVE Stood(a)'
  BY <1>s DEF Stands, Stood, Timers, Probers
<1>1. ASSUME UNCHANGED <<hostVars, checkVars, alertVars, excused, dropped>> PROVE Covered'
  <2>1. \A a \in AllAlerts : Stood(a)' <=> Stood(a)
    BY <1>1 DEF Stood, Failing, Truth, hostVars, checkVars, alertVars
  <2> QED BY <2>1, <1>1 DEF Covered
<1>2. ASSUME Remember,
             \A a \in AllAlerts : Stood(a) /\ Failing(a)' => Stood(a)' \/ Drops(a)
      PROVE  Covered'
  <2> SUFFICES ASSUME NEW a \in AllAlerts
               PROVE  a \in excused' \/ a \in dropped' \/ Stood(a)'
    BY DEF Covered
  <2>1. /\ (a \in excused \/ ~Failing(a)') /\ ~Stands(a)' => a \in excused'
        /\ (a \in dropped \/ Drops(a)) /\ ~Stands(a)' => a \in dropped'
    BY <1>2 DEF Remember
  <2>2. CASE a \in excused
    BY <2>1, <2>2, <1>s
  <2>3. CASE a \in dropped
    BY <2>1, <2>3, <1>s
  <2>4. CASE Stood(a)
    BY <2>1, <2>4, <1>s, <1>2
  <2> QED BY <2>2, <2>3, <2>4 DEF Covered
<1>3. ASSUME ChecksNext, Remember, UNCHANGED alertVars PROVE Covered'
  BY <1>0, <1>2, <1>3, StoodCheck
<1>4. ASSUME AlertsNext, Remember PROVE Covered'
  BY <1>2, <1>4, StoodAlert
<1>5. AnnounceNext => UNCHANGED <<hostVars, checkVars>>
  BY NewsLeft DEF WatchInv
<1> QED BY <1>1, <1>3, <1>4, <1>5, Turns DEF vars

LEMMA PagesStep == PagesInv /\ [Next]_vars => PagesInv'
BY WatchStep, ListableStep, CoveredStep DEF PagesInv

(***************************************************************************)
(* Whatever the timers, forced runs, kills, unanswered calls and deploys   *)
(* do, a page that stood is resolved only after its site was well, unless  *)
(* since then auth-health.sh --sites dropped its line, browser-watch was   *)
(* cut short in a write, MAX left it out, or Prometheus started again      *)
(* (ovhost alerts relay).                                                  *)
(***************************************************************************)
THEOREM NoFalseAllClearHolds == Spec => NoFalseAllClear
<1> DEFINE Excepted == \A a \in open \ open' : a \in excused' \cup dropped'
<1>1. PagesInv /\ [Next]_vars => [Excepted]_vars
  <2> SUFFICES ASSUME PagesInv, [Next]_vars, NEW a \in open \ open'
               PROVE  a \in excused' \cup dropped'
    OBVIOUS
  <2>1. a \in AllAlerts
    BY DEF PagesInv, WatchInv, AlertsTypeOK
  <2>2. AlertsNext /\ Remember
    BY Turns DEF vars, alertVars
  <2>3. Deliver /\ open' = relay.firing /\ relay.at = "sending"
    BY <2>2 DEF AlertsNext, Relay, ReadAlerts, PrometheusRestarts, Evaluate, Deliver
  <2>4. ~Stood(a)
    BY <2>3 DEF Stood
  <2>5. ~Stands(a)'
    BY DEF Stands
  <2>6. (a \in excused => a \in excused') /\ (a \in dropped => a \in dropped')
    BY <2>1, <2>2, <2>5 DEF Remember
  <2> QED BY <2>1, <2>4, <2>6 DEF PagesInv, Covered
<1>2. Spec => []PagesInv
  BY PagesInit, PagesStep, PTL DEF Spec
<1>3. Spec => [][Excepted]_vars
  BY <1>1, <1>2, PTL DEF Spec
<1> QED BY <1>3 DEF NoFalseAllClear

-----------------------------------------------------------------------------
(* What was told.  A call that is away from rest has a number of its own,    *)
(* smaller than every number used before and greater than those left.        *)

LastTold == IF stored = <<>> THEN None ELSE Last(stored).release
Idle(c) == call[c].at = "idle"
Calls == [at : {"idle", "described", "posting", "recording"}, release : Releases \cup {None}, id : Nat, tries : 0..1,
          force : BOOLEAN]
Events == [release : Releases \cup {None}, id : Nat, again : BOOLEAN]

NewsTyped ==
    /\ call \in [Callers -> Calls] /\ stored \in Seq(Events)
    /\ announced \in [release : Releases \cup {None}, id : Nat] /\ astray \in BOOLEAN

Numbered ==
    /\ \A c \in Callers : ~Idle(c) => call[c].id > left["calls"]
    /\ \A i \in 1..Len(stored) : stored[i].id > left["calls"]
    /\ \A c, d \in Callers : c # d /\ ~Idle(c) /\ ~Idle(d) => call[c].id # call[d].id

Means ==
    \A c \in Callers :
       /\ ~Idle(c) => \A i \in 1..Len(stored) : stored[i].id = call[c].id => stored[i].release = call[c].release
       /\ call[c].at = "recording" => Told(call[c].id, stored)

Newest ==
    ~astray =>
       /\ \A c, d \in Callers : c # d => Idle(c) \/ Idle(d)
       /\ (\A c \in Callers : Idle(c)) => announced.release = LastTold
       /\ \A c \in Callers : ~Idle(c) =>
             IF Told(call[c].id, stored) THEN call[c].release = LastTold
             ELSE /\ announced.release = LastTold
                  /\ call[c].at = "posting" /\ ~call[c].force => call[c].release # announced.release

TellsOnce == \A i \in 2..Len(stored) : stored[i].again \/ stored[i].release # stored[i - 1].release
FileTrue ==
    announced # Nothing =>
       \E i \in 1..Len(stored) : stored[i].release = announced.release /\ stored[i].id = announced.id

NewsInv == NewsTyped /\ Numbered /\ Means /\ Newest /\ TellsOnce /\ FileTrue

(***************************************************************************)
(* A call and an event, and each of their fields, have their types.        *)
(***************************************************************************)
LEMMA NewsTypes ==
    ASSUME NewsTyped
    PROVE  /\ \A c \in Callers : /\ call[c] \in Calls /\ call[c].id \in Nat /\ call[c].force \in BOOLEAN
                                 /\ call[c].release \in Releases \cup {None}
                                 /\ call[c].at \in {"idle", "described", "posting", "recording"}
           /\ \A i \in 1..Len(stored) : stored[i] \in Events /\ stored[i].id \in Nat
           /\ Len(stored) \in Nat
<1>1. ASSUME NEW c \in Callers PROVE call[c] \in Calls
  BY DEF NewsTyped
<1>2. ASSUME NEW x \in Calls
      PROVE  /\ x.id \in Nat /\ x.force \in BOOLEAN /\ x.release \in Releases \cup {None}
             /\ x.at \in {"idle", "described", "posting", "recording"}
  BY DEF Calls
<1>3. stored \in Seq(Events) /\ Len(stored) \in Nat
  BY DEF NewsTyped
<1>4. ASSUME NEW i \in 1..Len(stored) PROVE stored[i] \in Events
  BY <1>3, ElementOfSeq
<1>5. ASSUME NEW e \in Events PROVE e.id \in Nat
  BY DEF Events
<1> QED BY <1>1, <1>2, <1>3, <1>4, <1>5

LEMMA NewsStart == Init => NewsInv
<1> SUFFICES ASSUME Init PROVE NewsInv
  OBVIOUS
<1>1. /\ call = [c \in Callers |-> Away]
      /\ stored = <<>> /\ announced = Nothing /\ astray = FALSE
  BY DEF Init, NewsInit
<1>2. \A c \in Callers : Idle(c)
  BY <1>1 DEF Idle, Away
<1>3. Len(stored) = 0 /\ stored \in Seq(Events)
  BY <1>1
<1>4. Away \in Calls /\ Nothing \in [release : Releases \cup {None}, id : Nat]
  BY DEF Calls, Away, Nothing
<1>5. call \in [Callers -> Calls]
  BY <1>1, <1>4
<1>6. NewsTyped
  BY <1>1, <1>3, <1>4, <1>5 DEF NewsTyped
<1> QED BY <1>1, <1>2, <1>3, <1>6 DEF NewsInv, Numbered, Means, Newest, TellsOnce, FileTrue, LastTold, Nothing, Away

(***************************************************************************)
(* Nothing of the calls moves, and as many numbers are left or fewer.      *)
(***************************************************************************)
LEMMA NewsStays ==
    ASSUME LeftInv, LeftStep, NewsInv, UNCHANGED newsVars
    PROVE  NewsInv'
<1>1. NewsTyped' /\ Means' /\ Newest' /\ TellsOnce' /\ FileTrue'
  BY DEF NewsInv, newsVars, NewsTyped, Means, Newest, TellsOnce, FileTrue, Idle, LastTold, Told
<1>2. Numbered'
  <2>1. left["calls"] \in Nat /\ left'["calls"] \in Nat /\ left'["calls"] <= left["calls"]
    BY DEF LeftInv, LeftStep, Budgets
  <2>2. /\ \A c \in Callers : call[c].id \in Nat
        /\ \A i \in 1..Len(stored) : stored[i].id \in Nat
    BY NewsTypes DEF NewsInv
  <2> QED BY <2>1, <2>2 DEF NewsInv, Numbered, Idle, newsVars
<1> QED BY <1>1, <1>2 DEF NewsInv

LEMMA DescribeNews ==
    ASSUME LeftInv, LeftStep, NewsInv, WatchInv, NEW c \in Callers, NEW force \in BOOLEAN, Describe(c, force)
    PROVE  NewsInv'
<1> DEFINE id == left["calls"]
<1>1. PICK release1 \in Releases :
         /\ Idle(c) /\ id > 0 /\ left'["calls"] = id - 1
         /\ call' = [call EXCEPT ![c] = [at |-> "described", release |-> release1, id |-> id, tries |-> 0,
                                         force |-> force]]
         /\ astray' = (astray \/ ~OthersAway(c)) /\ UNCHANGED <<stored, announced>>
  <2>1. PICK answered \in BOOLEAN :
           /\ left' = [left EXCEPT !.calls = @ - 1, !.faults = IF answered THEN @ ELSE @ - 1]
           /\ call' = [call EXCEPT ![c] = [at |-> "described", release |-> Described(answered), id |-> NewEventId,
                                           tries |-> 0, force |-> force]]
    BY DEF Describe
  <2>2. Described(answered) \in Releases
    BY ServiceAssumption DEF Described, WatchInv, ChecksTypeOK
  <2>3. left'["calls"] = id - 1
    BY <2>1 DEF LeftInv, Budgets
  <2> QED BY <2>1, <2>2, <2>3 DEF Describe, Idle, NewEventId
<1> DEFINE new == [at |-> "described", release |-> release1, id |-> id, tries |-> 0, force |-> force]
<1>t. /\ call \in [Callers -> Calls] /\ stored \in Seq(Events) /\ id \in Nat
      /\ \A d \in Callers : call[d].id \in Nat
      /\ \A i \in 1..Len(stored) : stored[i].id \in Nat
  BY NewsTypes DEF LeftInv, Budgets, NewsInv, NewsTyped
<1>2. /\ new \in Calls
      /\ call'[c] = new /\ \A d \in Callers \ {c} : call'[d] = call[d]
      /\ call' \in [Callers -> Calls]
  BY <1>1, <1>t DEF Calls
<1>3. call'[c].at = "described" /\ call'[c].id = id /\ call'[c].release = release1
  BY <1>2
<1>4. ~Idle(c)' /\ \A d \in Callers \ {c} : Idle(d)' = Idle(d)
  BY <1>2, <1>3 DEF Idle
<1>5. ~Told(id, stored) /\ \A i \in 1..Len(stored) : stored[i].id # id
  BY <1>t DEF NewsInv, Numbered, Told
<1>6. NewsTyped'
  BY <1>1, <1>2 DEF NewsInv, NewsTyped, OthersAway
<1>7. Numbered'
  <2>1. \A d \in Callers \ {c} : ~Idle(d)' => call'[d].id > id
    BY <1>2, <1>4 DEF NewsInv, Numbered
  <2>2. \A i \in 1..Len(stored) : stored[i].id > id
    BY DEF NewsInv, Numbered
  <2>3. \A d, e \in Callers \ {c} : d # e /\ ~Idle(d)' /\ ~Idle(e)' => call'[d].id # call'[e].id
    BY <1>2, <1>4 DEF NewsInv, Numbered
  <2>4. \A d \in Callers \ {c} : ~Idle(d)' => call'[d].id # id
    BY <2>1, <1>2, <1>t
  <2>5. \A d \in Callers : ~Idle(d)' => call'[d].id > left'["calls"]
    BY <2>1, <1>1, <1>2, <1>3, <1>t
  <2>6. \A i \in 1..Len(stored') : stored'[i].id > left'["calls"]
    BY <2>2, <1>1, <1>t
  <2>7. \A d, e \in Callers : d # e /\ ~Idle(d)' /\ ~Idle(e)' => call'[d].id # call'[e].id
    BY <2>3, <2>4, <1>3
  <2> QED BY <2>5, <2>6, <2>7 DEF Numbered
<1>8. Means'
  <2>1. ASSUME NEW d \in Callers
        PROVE  /\ ~Idle(d)' => \A i \in 1..Len(stored) : stored[i].id = call'[d].id => stored[i].release = call'[d].release
               /\ call'[d].at = "recording" => Told(call'[d].id, stored)
    <3>1. CASE d = c
      BY <3>1, <1>3, <1>5
    <3>2. CASE d # c
      BY <3>2, <1>2, <1>4 DEF NewsInv, Means
    <3> QED BY <3>1, <3>2
  <2> QED BY <2>1, <1>1 DEF Means, Told
<1>9. Newest'
  <2> SUFFICES ASSUME ~astray' PROVE Newest'
    BY DEF Newest
  <2>1. ~astray /\ \A d \in Callers \ {c} : Idle(d)
    BY <1>1 DEF OthersAway, Idle, NewsInv, NewsTyped
  <2>2. announced.release = LastTold
    BY <2>1, <1>1 DEF NewsInv, Newest
  <2>3. announced' = announced /\ LastTold' = LastTold /\ stored' = stored
    BY <1>1 DEF LastTold
  <2>4. \A d \in Callers : ~Idle(d)' => d = c
    BY <2>1, <1>4
  <2>5. ~Told(call'[c].id, stored') /\ call'[c].at # "posting"
    BY <2>3, <1>3, <1>5 DEF Told
  <2> QED BY <2>2, <2>3, <2>4, <2>5, <1>4 DEF Newest
<1>10. TellsOnce' /\ FileTrue'
  BY <1>1 DEF NewsInv, TellsOnce, FileTrue
<1> QED BY <1>6, <1>7, <1>8, <1>9, <1>10 DEF NewsInv

(***************************************************************************)
(* What Events has after it was sent the event of a posting call.          *)
(***************************************************************************)
LEMMA StoringNews ==
    ASSUME LeftInv, LeftStep, NewsInv, NEW c \in Callers, call[c].at = "posting", stored' = Storing(c),
           announced' = announced
    PROVE  /\ stored' \in Seq(Events) /\ TellsOnce' /\ FileTrue'
           /\ \A i \in 1..Len(stored') : stored'[i].id > left'["calls"]
           /\ Told(call[c].id, stored')
           /\ \A d \in Callers : Told(call[d].id, stored) => Told(call[d].id, stored')
           /\ \A d \in Callers, i \in 1..Len(stored') :
                 ~Idle(d) /\ stored'[i].id = call[d].id => stored'[i].release = call[d].release
           /\ ~astray => call[c].release = LastTold'
<1>t. /\ stored \in Seq(Events) /\ call[c] \in Calls /\ call[c].id \in Nat /\ Len(stored) \in Nat
      /\ left["calls"] \in Nat /\ left'["calls"] \in Nat /\ left'["calls"] <= left["calls"]
      /\ call[c].force \in BOOLEAN /\ astray \in BOOLEAN /\ call[c].release \in Releases \cup {None}
      /\ \A i \in 1..Len(stored) : stored[i].id \in Nat
  BY NewsTypes DEF LeftInv, LeftStep, Budgets, NewsInv, NewsTyped
<1>i. ~Idle(c)
  BY DEF Idle
<1>1. CASE Told(call[c].id, stored)
  <2>1. stored' = stored
    BY <1>1 DEF Storing, EventId
  <2>2. TellsOnce' /\ FileTrue' /\ LastTold' = LastTold
    BY <2>1 DEF NewsInv, TellsOnce, FileTrue, LastTold
  <2>3. \A i \in 1..Len(stored) : stored[i].id > left'["calls"]
    BY <1>t DEF NewsInv, Numbered
  <2>4. ~astray => call[c].release = LastTold
    BY <1>1, <1>i DEF NewsInv, Newest
  <2> QED BY <1>1, <1>t, <2>1, <2>2, <2>3, <2>4 DEF NewsInv, Means
<1>2. CASE ~Told(call[c].id, stored)
  <2> DEFINE n == Len(stored)
             event == [release |-> call[c].release, id |-> call[c].id, again |-> call[c].force \/ astray]
  <2>1. stored' = Append(stored, event)
    BY <1>2 DEF Storing, EventId
  <2>2. event \in Events /\ event.id = call[c].id /\ event.release = call[c].release
        /\ (event.again <=> call[c].force \/ astray)
    BY <1>t DEF Events
  <2> HIDE DEF event
  <2>3. /\ stored' \in Seq(Events) /\ Len(stored') = n + 1 /\ stored'[n + 1] = event
        /\ \A i \in 1..n : stored'[i] = stored[i]
    BY <2>1, <2>2, <1>t
  <2>4. \A i \in 1..Len(stored') : i = n + 1 \/ i \in 1..n
    BY <2>3, <1>t
  <2>5. LastTold' = call[c].release
    BY <2>2, <2>3, <1>t DEF LastTold, Last
  <2>6. \A i \in 1..Len(stored') : stored'[i].id > left'["calls"]
    <3>1. call[c].id > left["calls"] /\ \A i \in 1..n : stored[i].id > left["calls"]
      BY <1>i DEF NewsInv, Numbered
    <3> QED BY <3>1, <2>2, <2>3, <2>4, <1>t
  <2>7. Told(call[c].id, stored')
    <3>1. n + 1 \in 1..Len(stored') /\ stored'[n + 1].id = call[c].id
      BY <2>2, <2>3, <1>t
    <3> QED BY <3>1 DEF Told
  <2>8. ASSUME NEW d \in Callers, Told(call[d].id, stored) PROVE Told(call[d].id, stored')
    BY <2>3, <2>8, <1>t DEF Told
  <2>9. ASSUME NEW d \in Callers, NEW i \in 1..Len(stored'), ~Idle(d), stored'[i].id = call[d].id
        PROVE  stored'[i].release = call[d].release
    <3>1. CASE i \in 1..n
      BY <2>3, <2>9, <3>1 DEF NewsInv, Means
    <3>2. CASE i = n + 1
      <4>1. call[c].id = call[d].id
        BY <2>2, <2>3, <2>9, <3>2
      <4>2. d = c
        BY <4>1, <1>i, <2>9 DEF NewsInv, Numbered
      <4> QED BY <2>2, <2>3, <3>2, <4>2
    <3> QED BY <2>4, <3>1, <3>2
  <2>10. TellsOnce'
    <3> SUFFICES ASSUME NEW i \in 2..Len(stored') PROVE stored'[i].again \/ stored'[i].release # stored'[i - 1].release
      BY DEF TellsOnce
    <3>1. CASE i <= n
      <4>1. i \in 2..n /\ i \in 1..n /\ i - 1 \in 1..n
        BY <3>1, <1>t
      <4> QED BY <4>1, <2>3 DEF NewsInv, TellsOnce
    <3>2. CASE i > n
      <4>1. i = n + 1 /\ i - 1 = n /\ n \in 1..n /\ stored # <<>>
        BY <3>2, <2>3, <1>t
      <4>2. CASE event.again
        BY <4>1, <4>2, <2>3
      <4>3. CASE ~event.again
        <5>1. ~astray /\ ~call[c].force
          BY <4>3, <2>2
        <5>2. announced.release = LastTold /\ call[c].release # announced.release
          BY <5>1, <1>2, <1>i DEF NewsInv, Newest
        <5>3. LastTold = stored[n].release
          BY <4>1 DEF LastTold, Last
        <5> QED BY <5>2, <5>3, <4>1, <2>2, <2>3
      <4> QED BY <4>2, <4>3
    <3> QED BY <3>1, <3>2, <2>3, <1>t
  <2>11. FileTrue'
    <3> SUFFICES ASSUME announced # Nothing
                 PROVE  \E i \in 1..Len(stored') : stored'[i].release = announced.release
                                                   /\ stored'[i].id = announced.id
      BY DEF FileTrue
    <3>1. PICK i \in 1..n : stored[i].release = announced.release /\ stored[i].id = announced.id
      BY DEF NewsInv, FileTrue
    <3>2. i \in 1..Len(stored')
      BY <2>3, <1>t
    <3> QED BY <3>1, <3>2, <2>3
  <2> QED BY <2>3, <2>5, <2>6, <2>7, <2>8, <2>9, <2>10, <2>11
<1> QED BY <1>1, <1>2

(***************************************************************************)
(* A call goes on: it posts, tries again, or has its answer.               *)
(***************************************************************************)
LEMMA CallGoesOn ==
    ASSUME LeftInv, LeftStep, NewsInv, NEW c \in Callers, ~Idle(c),
           NEW x \in Calls, call' = [call EXCEPT ![c] = x], announced' = announced, astray' = astray,
           x.id = call[c].id, x.release = call[c].release, x.force = call[c].force,
           x.at \in {"posting", "recording"}, x.at = "recording" => Told(call[c].id, stored'),
           ~astray /\ x.at = "posting" /\ ~x.force => announced.release # x.release \/ Told(call[c].id, stored'),
           stored' = stored \/ (call[c].at = "posting" /\ stored' = Storing(c))
    PROVE  NewsInv'
<1>t. /\ call \in [Callers -> Calls] /\ announced \in [release : Releases \cup {None}, id : Nat]
      /\ astray \in BOOLEAN
      /\ left["calls"] \in Nat /\ left'["calls"] \in Nat /\ left'["calls"] <= left["calls"]
      /\ \A d \in Callers : call[d].id \in Nat
      /\ \A i \in 1..Len(stored) : stored[i].id \in Nat
  BY NewsTypes DEF NewsInv, NewsTyped, LeftInv, LeftStep, Budgets
<1>1. /\ call' \in [Callers -> Calls] /\ call'[c] = x
      /\ \A d \in Callers \ {c} : call'[d] = call[d]
  BY <1>t
<1>2. /\ \A d \in Callers : call'[d].id = call[d].id /\ call'[d].release = call[d].release
                             /\ call'[d].force = call[d].force
      /\ \A d \in Callers : Idle(d)' <=> Idle(d)
  BY <1>1 DEF Idle
<1>3. /\ stored' \in Seq(Events) /\ TellsOnce' /\ FileTrue'
      /\ \A i \in 1..Len(stored') : stored'[i].id > left'["calls"]
      /\ \A d \in Callers : Told(call[d].id, stored) => Told(call[d].id, stored')
      /\ \A d \in Callers, i \in 1..Len(stored') :
            ~Idle(d) /\ stored'[i].id = call[d].id => stored'[i].release = call[d].release
      /\ ~astray /\ Told(call[c].id, stored') => call[c].release = LastTold'
      /\ stored' = stored \/ Told(call[c].id, stored')
  <2>1. CASE stored' = stored
    <3>1. TellsOnce' /\ FileTrue' /\ LastTold' = LastTold /\ stored' \in Seq(Events)
      BY <2>1 DEF NewsInv, NewsTyped, TellsOnce, FileTrue, LastTold
    <3>2. \A i \in 1..Len(stored) : stored[i].id > left'["calls"]
      BY <1>t DEF NewsInv, Numbered
    <3> QED BY <2>1, <3>1, <3>2 DEF NewsInv, Means, Newest
  <2>2. CASE call[c].at = "posting" /\ stored' = Storing(c)
    BY <2>2, StoringNews
  <2> QED BY <2>1, <2>2
<1>4. NewsTyped'
  BY <1>1, <1>3, <1>t DEF NewsTyped
<1>5. Numbered'
  <2>1. \A d \in Callers : ~Idle(d) => call[d].id > left'["calls"]
    BY <1>t DEF NewsInv, Numbered
  <2> QED BY <2>1, <1>2, <1>3 DEF NewsInv, Numbered
<1>6. Means'
  <2>1. ASSUME NEW d \in Callers, call'[d].at = "recording" PROVE Told(call[d].id, stored')
    <3>1. CASE d = c
      BY <3>1, <2>1, <1>1
    <3>2. CASE d # c
      BY <3>2, <2>1, <1>1, <1>3 DEF NewsInv, Means
    <3> QED BY <3>1, <3>2
  <2> QED BY <2>1, <1>2, <1>3 DEF Means
<1>7. Newest'
  <2> SUFFICES ASSUME ~astray PROVE Newest'
    BY DEF Newest
  <2>1. \A d \in Callers \ {c} : Idle(d)
    BY DEF NewsInv, Newest
  <2>2. \A d \in Callers : ~Idle(d)' => d = c
    BY <2>1, <1>2
  <2>3. ~Idle(c)'
    BY <1>2
  <2>4. ASSUME ~Told(call[c].id, stored')
        PROVE  announced.release = LastTold' /\ (x.at = "posting" /\ ~x.force => x.release # announced.release)
    <3>1. stored' = stored
      BY <2>4, <1>3
    <3>2. LastTold' = LastTold /\ ~Told(call[c].id, stored)
      BY <3>1, <2>4 DEF LastTold
    <3> QED BY <3>2, <2>4 DEF NewsInv, Newest
  <2>5. IF Told(call'[c].id, stored') THEN call'[c].release = LastTold'
        ELSE /\ announced'.release = LastTold'
             /\ call'[c].at = "posting" /\ ~call'[c].force => call'[c].release # announced'.release
    BY <2>4, <1>1, <1>2, <1>3
  <2> QED BY <2>2, <2>3, <2>5 DEF Newest
<1> QED BY <1>3, <1>4, <1>5, <1>6, <1>7 DEF NewsInv

(***************************************************************************)
(* A call ends: it has written the file, had nothing to tell, or gave up.  *)
(***************************************************************************)
LEMMA CallEnds ==
    ASSUME LeftInv, LeftStep, NewsInv, NEW c \in Callers, ~Idle(c), call' = [call EXCEPT ![c] = Away],
           astray' \in BOOLEAN, astray => astray',
           stored' = stored \/ (call[c].at = "posting" /\ stored' = Storing(c) /\ announced' = announced),
           \/ announced' = announced
           \/ call[c].at = "recording" /\ announced' = [release |-> call[c].release, id |-> call[c].id],
           ~astray' => announced'.release = LastTold'
    PROVE  NewsInv'
<1>t. /\ call \in [Callers -> Calls] /\ announced \in [release : Releases \cup {None}, id : Nat]
      /\ left["calls"] \in Nat /\ left'["calls"] \in Nat /\ left'["calls"] <= left["calls"]
      /\ \A d \in Callers : call[d].id \in Nat /\ call[d].release \in Releases \cup {None}
      /\ \A i \in 1..Len(stored) : stored[i].id \in Nat
      /\ astray \in BOOLEAN
  BY NewsTypes DEF NewsInv, NewsTyped, LeftInv, LeftStep, Budgets
<1>0. Away \in Calls /\ Away.at = "idle"
  BY DEF Away, Calls
<1>1. /\ call' \in [Callers -> Calls] /\ Idle(c)'
      /\ \A d \in Callers \ {c} : call'[d] = call[d] /\ (Idle(d)' <=> Idle(d))
  BY <1>0, <1>t DEF Idle
<1>2. /\ stored' \in Seq(Events) /\ TellsOnce'
      /\ \A i \in 1..Len(stored') : stored'[i].id > left'["calls"]
      /\ \A d \in Callers : Told(call[d].id, stored) => Told(call[d].id, stored')
      /\ \A d \in Callers, i \in 1..Len(stored') :
            ~Idle(d) /\ stored'[i].id = call[d].id => stored'[i].release = call[d].release
  <2>1. CASE stored' = stored
    <3>1. TellsOnce' /\ stored' \in Seq(Events)
      BY <2>1 DEF NewsInv, NewsTyped, TellsOnce
    <3>2. \A i \in 1..Len(stored) : stored[i].id > left'["calls"]
      BY <1>t DEF NewsInv, Numbered
    <3> QED BY <2>1, <3>1, <3>2 DEF NewsInv, Means
  <2>2. CASE call[c].at = "posting" /\ stored' = Storing(c) /\ announced' = announced
    BY <2>2, StoringNews
  <2> QED BY <2>1, <2>2
<1>3. FileTrue'
  <2>1. CASE stored' = stored /\ announced' = announced
    BY <2>1 DEF NewsInv, FileTrue
  <2>2. CASE call[c].at = "posting" /\ stored' = Storing(c) /\ announced' = announced
    BY <2>2, StoringNews
  <2>3. CASE stored' = stored /\ call[c].at = "recording"
             /\ announced' = [release |-> call[c].release, id |-> call[c].id]
    <3>1. PICK i \in 1..Len(stored) : stored[i].id = call[c].id
      BY <2>3 DEF NewsInv, Means, Told
    <3>2. stored[i].release = call[c].release
      BY <3>1 DEF NewsInv, Means
    <3> QED BY <2>3, <3>1, <3>2 DEF FileTrue
  <2> QED BY <2>1, <2>2, <2>3
<1>4. announced' \in [release : Releases \cup {None}, id : Nat]
  BY <1>t
<1>5. NewsTyped'
  BY <1>1, <1>2, <1>4 DEF NewsTyped
<1>6. Numbered'
  <2>1. \A d \in Callers : ~Idle(d) => call[d].id > left'["calls"]
    BY <1>t DEF NewsInv, Numbered
  <2>2. \A d \in Callers : ~Idle(d)' => d # c /\ ~Idle(d) /\ call'[d] = call[d]
    BY <1>1
  <2> QED BY <2>1, <2>2, <1>2 DEF NewsInv, Numbered
<1>7. Means'
  <2>1. \A d \in Callers : ~Idle(d)' => d # c /\ ~Idle(d) /\ call'[d] = call[d]
    BY <1>1
  <2>2. \A d \in Callers : call'[d].at = "recording" => ~Idle(d)'
    BY DEF Idle
  <2> QED BY <2>1, <2>2, <1>2 DEF NewsInv, Means
<1>8. Newest'
  <2> SUFFICES ASSUME ~astray' PROVE Newest'
    BY DEF Newest
  <2>1. \A d \in Callers : Idle(d)'
    BY <1>1 DEF NewsInv, Newest
  <2> QED BY <2>1 DEF Newest
<1> QED BY <1>2, <1>3, <1>5, <1>6, <1>7, <1>8 DEF NewsInv

LEMMA AnnounceNews ==
    ASSUME LeftInv, LeftStep, NewsInv, WatchInv, AnnounceNext
    PROVE  NewsInv'
<1>1. PICK c \in Callers :
         \/ \E force \in BOOLEAN : Describe(c, force)
         \/ Compare(c) \/ Post(c) \/ PostFails(c) \/ PostRefused(c) \/ WriteState(c) \/ WriteStateFails(c)
  BY DEF AnnounceNext
<1>t. /\ call \in [Callers -> Calls] /\ call[c] \in Calls /\ call[c].id \in Nat /\ call[c].force \in BOOLEAN
      /\ call[c].release \in Releases \cup {None} /\ astray \in BOOLEAN /\ stored \in Seq(Events)
  BY NewsTypes DEF NewsInv, NewsTyped
<1>x. /\ \A at \in {"posting", "recording"} :
           LET x == [call[c] EXCEPT !.at = at] IN
           /\ x \in Calls /\ x.at = at /\ x.id = call[c].id /\ x.release = call[c].release
           /\ x.force = call[c].force
      /\ LET x == [call[c] EXCEPT !.tries = 1] IN
           /\ x \in Calls /\ x.at = call[c].at /\ x.id = call[c].id /\ x.release = call[c].release
           /\ x.force = call[c].force
  <2>1. ASSUME NEW z \in Calls
        PROVE  /\ \A at \in {"posting", "recording"} :
                     LET x == [z EXCEPT !.at = at] IN
                     x \in Calls /\ x.at = at /\ x.id = z.id /\ x.release = z.release /\ x.force = z.force
               /\ LET x == [z EXCEPT !.tries = 1] IN
                  x \in Calls /\ x.at = z.at /\ x.id = z.id /\ x.release = z.release /\ x.force = z.force
    BY DEF Calls
  <2> QED BY <2>1, <1>t
<1>g. ASSUME ~Idle(c), GiveUp(c), announced' = announced,
             stored' = stored \/ (call[c].at = "posting" /\ stored' = Storing(c))
      PROVE  NewsInv'
  <2>1. astray' \in BOOLEAN /\ (astray => astray') /\ call' = [call EXCEPT ![c] = Away]
    BY <1>g, <1>t DEF GiveUp, Told
  <2>2. ASSUME ~astray' PROVE announced.release = LastTold'
    <3>1. ~astray /\ ~Told(call[c].id, stored')
      BY <2>2, <1>g DEF GiveUp
    <3>2. stored' = stored
      BY <3>1, <1>g, StoringNews
    <3>3. LastTold' = LastTold
      BY <3>2 DEF LastTold
    <3> QED BY <3>1, <3>2, <3>3, <1>g DEF NewsInv, Newest
  <2> QED BY <2>1, <2>2, <1>g, CallEnds
<1>2. ASSUME NEW force \in BOOLEAN, Describe(c, force) PROVE NewsInv'
  BY <1>2, DescribeNews
<1>3. ASSUME Compare(c) PROVE NewsInv'
  <2>1. ~Idle(c) /\ UNCHANGED <<stored, announced, astray>> /\ LastTold' = LastTold
    BY <1>3 DEF Compare, Idle, LastTold
  <2>2. CASE AlreadyTold(c)
    <3>1. call' = [call EXCEPT ![c] = Away]
      BY <2>2, <1>3 DEF Compare
    <3>2. ~astray => announced.release = LastTold
      BY <2>1, <2>2 DEF NewsInv, Newest, AlreadyTold
    <3> QED BY <2>1, <3>1, <3>2, <1>t, CallEnds
  <2>3. CASE ~AlreadyTold(c)
    <3> DEFINE x == [call[c] EXCEPT !.at = "posting"]
    <3>1. call' = [call EXCEPT ![c] = x]
      BY <2>3, <1>3 DEF Compare
    <3>2. /\ x \in Calls /\ x.at = "posting" /\ x.id = call[c].id /\ x.release = call[c].release
          /\ x.force = call[c].force
      BY <1>x
    <3>3. ~call[c].force => announced.release # call[c].release
      BY <2>3 DEF AlreadyTold
    <3> HIDE DEF x
    <3> QED BY <2>1, <3>1, <3>2, <3>3, CallGoesOn
  <2> QED BY <2>2, <2>3
<1>4. ASSUME Post(c) PROVE NewsInv'
  <2> DEFINE x == [call[c] EXCEPT !.at = "recording"]
  <2>1. ~Idle(c) /\ call[c].at = "posting" /\ UNCHANGED <<announced, astray>> /\ stored' = Storing(c)
        /\ call' = [call EXCEPT ![c] = x]
    BY <1>4 DEF Post, Idle
  <2>2. /\ x \in Calls /\ x.at = "recording" /\ x.id = call[c].id /\ x.release = call[c].release
        /\ x.force = call[c].force
    BY <1>x
  <2>3. Told(call[c].id, stored')
    BY <2>1, StoringNews
  <2> HIDE DEF x
  <2> QED BY <2>1, <2>2, <2>3, CallGoesOn
<1>5. ASSUME PostFails(c) PROVE NewsInv'
  <2>1. ~Idle(c) /\ call[c].at = "posting" /\ announced' = announced /\ stored' \in {stored, Storing(c)}
    BY <1>5 DEF PostFails, Idle
  <2>2. CASE GiveUp(c)
    BY <2>1, <2>2, <1>g
  <2>3. CASE call' = [call EXCEPT ![c].tries = 1] /\ astray' = astray
    <3> DEFINE x == [call[c] EXCEPT !.tries = 1]
    <3>1. call' = [call EXCEPT ![c] = x]
      BY <2>3
    <3>2. /\ x \in Calls /\ x.at = "posting" /\ x.id = call[c].id /\ x.release = call[c].release
          /\ x.force = call[c].force
      BY <1>x, <2>1
    <3>3. ~astray /\ ~call[c].force => announced.release # call[c].release \/ Told(call[c].id, stored')
      <4>1. CASE stored' = Storing(c)
        BY <4>1, <2>1, StoringNews
      <4>2. CASE stored' = stored
        BY <4>2, <2>1 DEF NewsInv, Newest
      <4> QED BY <4>1, <4>2, <2>1
    <3> HIDE DEF x
    <3> QED BY <2>1, <2>3, <3>1, <3>2, <3>3, CallGoesOn
  <2> QED BY <2>2, <2>3, <1>5 DEF PostFails
<1>6. ASSUME PostRefused(c) PROVE NewsInv'
  <2>1. ~Idle(c) /\ GiveUp(c) /\ UNCHANGED <<stored, announced>>
    BY <1>6 DEF PostRefused, Idle
  <2> QED BY <2>1, <1>g
<1>7. ASSUME WriteState(c) PROVE NewsInv'
  <2>1. /\ ~Idle(c) /\ call[c].at = "recording" /\ UNCHANGED <<stored, astray>>
        /\ announced' = [release |-> call[c].release, id |-> call[c].id] /\ call' = [call EXCEPT ![c] = Away]
    BY <1>7 DEF WriteState, Idle
  <2>2. LastTold' = LastTold /\ announced'.release = call[c].release
    BY <2>1 DEF LastTold
  <2>3. ~astray => call[c].release = LastTold
    BY <2>1 DEF NewsInv, Newest, Means
  <2> QED BY <2>1, <2>2, <2>3, <1>t, CallEnds
<1>8. ASSUME WriteStateFails(c) PROVE NewsInv'
  <2>1. ~Idle(c) /\ GiveUp(c) /\ UNCHANGED <<stored, announced>>
    BY <1>8 DEF WriteStateFails, Idle
  <2> QED BY <2>1, <1>g
<1> QED BY <1>1, <1>2, <1>3, <1>4, <1>5, <1>6, <1>7, <1>8

TellingInv == LeftInv /\ WatchInv /\ NewsInv

LEMMA TellingStep == TellingInv /\ [Next]_vars => TellingInv'
<1> SUFFICES ASSUME TellingInv, [Next]_vars PROVE TellingInv'
  OBVIOUS
<1>1. LeftStep /\ LeftInv' /\ WatchInv'
  BY LeftTaken, WatchStep DEF TellingInv, LeftStep
<1>2. NewsInv'
  <2>1. CASE AnnounceNext
    BY <1>1, <2>1, AnnounceNews DEF TellingInv
  <2>2. CASE UNCHANGED newsVars
    BY <1>1, <2>2, NewsStays DEF TellingInv
  <2> QED BY <2>1, <2>2, Turns DEF vars
<1> QED BY <1>1, <1>2 DEF TellingInv

(***************************************************************************)
(* What the state file says was told was told, and, unless a call ended    *)
(* without its answer or overlapped another, it is the newest thing told   *)
(* and no release was told twice running (lib/announce.js).                *)
(***************************************************************************)
THEOREM NewsToldHolds == Spec => []NewsTold
<1>1. Init => TellingInv
  BY LeftInit, PagesInit, NewsStart DEF TellingInv, PagesInv
<1>2. TellingInv => NewsTold
  BY DEF TellingInv, NewsInv, Newest, TellsOnce, FileTrue, Idle, LastTold, NewsTold
<1> QED BY <1>1, <1>2, TellingStep, PTL DEF Spec

-----------------------------------------------------------------------------
(* The suite: what it has seen is what the tests do on what it recorded,     *)
(* where nobody has touched the repository since, and that is where it looks *)
(* as it was recorded and never came to look so again.                       *)

SuiteTypes == [at : {"start", "gate", "run", "done"}, before : [Repos -> Trees], after : [Repos -> Trees],
               rows : Seq(Results), cache : [Files -> Outcomes \cup {NotRun}], base : BOOLEAN]

SuiteTyped ==
    /\ gates \in Seq(GateTypes)
    /\ \A i \in 1..Len(gates) : gates[i].kind = "record" => \A f, g \in gates[i].files : f = g
    /\ tree \in [Repos -> Trees] /\ pins \subseteq Trees
    /\ truth \in [Files -> [Trees -> Outcomes]] /\ suite \in SuiteTypes

Stages ==
    /\ suite.at = "start" => suite.rows = <<>> /\ \A f \in Files : suite.cache[f] = NotRun
    /\ suite.at = "run" => Len(suite.rows) < Len(gates)
    /\ suite.at = "done" => suite.after = tree /\ Len(suite.rows) = Len(gates)
    /\ Len(suite.rows) <= Len(gates)

AtTree(g, result, t) ==
    /\ result = "pass" => (g.pinned => t \in pins) /\ \A f \in TestsOf(g) : truth[f][t] = "pass"
    /\ result = "open" => \A f \in TestsOf(g) : truth[f][t] # "fail"

(* Of a repository that did not move.                                        *)
SeenThere(r) == \A f \in Files : f[1] = r => suite.cache[f] \in {NotRun, truth[f][tree[r]]}
RowsThere(r) ==
    \A i \in 1..Len(suite.rows) : gates[i].repo = r /\ gates[i].kind # "open" => AtTree(gates[i], suite.rows[i], tree[r])
PinsThere(r) == suite.at = "run" /\ Gate.repo = r => (Gate.pinned => tree[r] \in pins)
Stayed(r) == suite.at # "start" /\ r \notin unseen /\ Version(tree[r]) = Version(suite.before[r])

Proven ==
    \A r \in Repos : Stayed(r) => tree[r] = suite.before[r] /\ SeenThere(r) /\ RowsThere(r) /\ PinsThere(r)

SuiteInv == SuiteTyped /\ Stages /\ Proven

LEMMA TestFiles ==
    ASSUME gates \in Seq(GateTypes), NEW i \in 1..Len(gates)
    PROVE  /\ gates[i] \in GateTypes /\ gates[i].repo \in Repos
           /\ TestsOf(gates[i]) \subseteq Files
           /\ \A f \in TestsOf(gates[i]) : f[1] = gates[i].repo
<1>1. gates[i] \in GateTypes /\ i \in DOMAIN gates
  BY ElementOfSeq
<1>2. gates[i].repo \in Repos
  BY <1>1 DEF GateTypes
<1>3. TestsOf(gates[i]) = {<<gates[i].repo, f>> : f \in gates[i].files}
  BY DEF TestsOf
<1>4. TestsOf(gates[i]) \subseteq Files
  BY <1>1, <1>3 DEF Files
<1> QED BY <1>1, <1>2, <1>3, <1>4

(***************************************************************************)
(* The parts of the run and their types.                                   *)
(***************************************************************************)
LEMMA SuiteParts ==
    ASSUME SuiteTyped
    PROVE  /\ suite.at \in {"start", "gate", "run", "done"} /\ suite.before \in [Repos -> Trees]
           /\ suite.after \in [Repos -> Trees] /\ suite.rows \in Seq(Results)
           /\ suite.cache \in [Files -> Outcomes \cup {NotRun}] /\ suite.base \in BOOLEAN
           /\ Len(suite.rows) \in Nat /\ Len(gates) \in Nat
<1>1. ASSUME NEW s \in SuiteTypes
      PROVE  /\ s.at \in {"start", "gate", "run", "done"} /\ s.before \in [Repos -> Trees]
             /\ s.after \in [Repos -> Trees] /\ s.rows \in Seq(Results)
             /\ s.cache \in [Files -> Outcomes \cup {NotRun}] /\ s.base \in BOOLEAN
  BY DEF SuiteTypes
<1>2. suite \in SuiteTypes /\ gates \in Seq(GateTypes)
  BY DEF SuiteTyped
<1>3. suite.rows \in Seq(Results)
  BY <1>1, <1>2
<1> QED BY <1>1, <1>2, <1>3

LEMMA SuiteStart == Init => SuiteInv
<1> SUFFICES ASSUME Init PROVE SuiteInv
  OBVIOUS
<1>1. /\ gates = scene.gates /\ scene \in Scenes
      /\ truth \in [Files -> [Trees -> Outcomes]]
      /\ pins \in IF \E i \in DOMAIN gates : gates[i].pinned THEN SUBSET Trees ELSE {Trees}
      /\ tree = [r \in Repos |-> FirstTree]
      /\ suite = [at |-> "start", before |-> tree, after |-> tree, rows |-> <<>>,
                  cache |-> [f \in Files |-> NotRun], base |-> FALSE]
  BY DEF Init, ChecksInit, AcceptInit
<1>2. gates \in Seq(GateTypes)
      /\ \A i \in 1..Len(gates) : gates[i].kind = "record" => \A f, g \in gates[i].files : f = g
  BY <1>1, GatesAssumption
<1>3. tree \in [Repos -> Trees] /\ pins \subseteq Trees
  BY <1>1, GatesAssumption
<1>4. [f \in Files |-> NotRun] \in [Files -> Outcomes \cup {NotRun}] /\ <<>> \in Seq(Results)
  OBVIOUS
<1>5. suite \in SuiteTypes
  BY <1>1, <1>3, <1>4 DEF SuiteTypes
<1>6. suite.at = "start" /\ suite.rows = <<>> /\ suite.cache = [f \in Files |-> NotRun]
  BY <1>1
<1>7. Stages
  BY <1>6, <1>2 DEF Stages
<1> QED BY <1>1, <1>2, <1>3, <1>5, <1>6, <1>7 DEF SuiteInv, SuiteTyped, Proven, Stayed

LEMMA SuiteStays ==
    ASSUME SuiteInv, UNCHANGED acceptVars
    PROVE  SuiteInv'
<1>1. Files' = Files /\ SuiteTypes' = SuiteTypes
  BY DEF acceptVars, Files, SuiteTypes
<1>2. SuiteTyped'
  BY <1>1 DEF acceptVars, SuiteInv, SuiteTyped
<1>3. Stages'
  BY <1>1 DEF acceptVars, SuiteInv, Stages
<1>4. ASSUME NEW r \in Repos
      PROVE  /\ Stayed(r)' => Stayed(r)
             /\ tree[r] = suite.before[r] => tree'[r] = suite'.before[r]
             /\ SeenThere(r) => SeenThere(r)'
             /\ RowsThere(r) => RowsThere(r)'
             /\ PinsThere(r) => PinsThere(r)'
  BY <1>1 DEF acceptVars, Stayed, SeenThere, RowsThere, PinsThere, AtTree, Gate
<1> QED BY <1>2, <1>3, <1>4 DEF SuiteInv, Proven

(***************************************************************************)
(* A gate is judged: its row is added.                                     *)
(***************************************************************************)
LEMMA GateJudged ==
    ASSUME SuiteInv, suite.at \in {"gate", "run"}, Len(suite.rows) < Len(gates), NEW result \in Results,
           suite' = Judged(result), UNCHANGED <<gates, tree, truth, pins, unseen>>,
           Gate.kind # "open" /\ Stayed(Gate.repo) => AtTree(Gate, result, tree[Gate.repo])
    PROVE  SuiteInv'
<1> DEFINE n == Len(suite.rows)
<1>1. Files' = Files /\ SuiteTypes' = SuiteTypes
  BY DEF Files, SuiteTypes
<1>p. /\ suite.rows \in Seq(Results) /\ suite.cache \in [Files -> Outcomes \cup {NotRun}]
      /\ n \in Nat /\ Len(gates) \in Nat /\ suite \in SuiteTypes /\ gates \in Seq(GateTypes)
  BY SuiteParts DEF SuiteInv, SuiteTyped
<1>2. PICK rows1 : rows1 = Append(suite.rows, result)
  OBVIOUS
<1>3. /\ rows1 \in Seq(Results) /\ Len(rows1) = n + 1 /\ rows1[n + 1] = result
      /\ \A i \in 1..n : rows1[i] = suite.rows[i]
  BY <1>2, <1>p
<1>4. suite' = [suite EXCEPT !.rows = rows1, !.at = "gate"]
  BY <1>2 DEF Judged
<1>5. /\ suite' \in SuiteTypes /\ suite'.at = "gate" /\ suite'.rows = rows1 /\ suite'.before = suite.before
      /\ suite'.cache = suite.cache /\ suite'.after = suite.after
  BY <1>3, <1>4, <1>p DEF SuiteTypes
<1>6. SuiteTyped'
  BY <1>1, <1>5 DEF SuiteInv, SuiteTyped
<1>7. Stages'
  BY <1>3, <1>5, <1>p DEF SuiteInv, Stages
<1>8. ASSUME NEW r \in Repos, Stayed(r)' PROVE (tree[r] = suite.before[r] /\ SeenThere(r) /\ RowsThere(r) /\ PinsThere(r))'
  <2>1. Stayed(r)
    BY <1>8, <1>5 DEF Stayed
  <2>2. SeenThere(r)'
    BY <2>1, <1>1, <1>5 DEF SuiteInv, Proven, SeenThere
  <2>3. PinsThere(r)'
    BY <1>5 DEF PinsThere
  <2>4. ASSUME NEW i \in 1..(n + 1), gates[i].repo = r, gates[i].kind # "open"
        PROVE  AtTree(gates[i], rows1[i], tree[r])
    <3>1. CASE i \in 1..n
      BY <3>1, <2>1, <2>4, <1>3 DEF SuiteInv, Proven, RowsThere
    <3>2. CASE i = n + 1
      BY <3>2, <2>1, <2>4, <1>3 DEF Gate
    <3> QED BY <3>1, <3>2, <1>p
  <2>5. \A g, x : AtTree(g, x, tree[r])' <=> AtTree(g, x, tree[r])
    BY DEF AtTree, TestsOf
  <2>6. RowsThere(r)'
    BY <2>4, <2>5, <1>3, <1>5 DEF RowsThere
  <2>7. (tree[r] = suite.before[r])'
    BY <2>1, <1>5 DEF SuiteInv, Proven
  <2> QED BY <2>2, <2>3, <2>6, <2>7
<1> QED BY <1>6, <1>7, <1>8 DEF SuiteInv, Proven

LEMMA OpenGateSuite ==
    ASSUME SuiteInv, OpenGate
    PROVE  SuiteInv'
<1>1. /\ suite.at = "gate" /\ Len(suite.rows) < Len(gates) /\ UNCHANGED <<gates, tree, truth, pins, unseen>>
      /\ suite' = IF Unjudged(Gate) THEN Judged(IF Gate.kind = "open" THEN "open" ELSE "skipped")
                  ELSE IF ~PinsHold(Gate) THEN Judged("fail")
                  ELSE [suite EXCEPT !.at = "run"]
  BY DEF OpenGate
<1>2. \A t : AtTree(Gate, "skipped", t) /\ AtTree(Gate, "fail", t)
  BY DEF AtTree
<1>3. "open" \in Results /\ "skipped" \in Results /\ "fail" \in Results
  BY DEF Results, Outcomes
<1>4. CASE suite' = Judged("open") /\ Gate.kind = "open"
  BY <1>1, <1>3, <1>4, GateJudged
<1>5. CASE suite' = Judged("skipped")
  BY <1>1, <1>2, <1>3, <1>5, GateJudged
<1>6. CASE suite' = Judged("fail")
  BY <1>1, <1>2, <1>3, <1>6, GateJudged
<1>7. CASE PinsHold(Gate) /\ suite' = [suite EXCEPT !.at = "run"]
  <2>1. Files' = Files /\ SuiteTypes' = SuiteTypes
    BY <1>1 DEF Files, SuiteTypes
  <2>2. /\ suite' \in SuiteTypes /\ suite'.at = "run" /\ suite'.rows = suite.rows /\ suite'.before = suite.before
        /\ suite'.cache = suite.cache
    BY <1>7 DEF SuiteInv, SuiteTyped, SuiteTypes
  <2>3. SuiteTyped' /\ Stages'
    BY <1>1, <2>1, <2>2 DEF SuiteInv, SuiteTyped, Stages
  <2>4. ASSUME NEW r \in Repos, Stayed(r)' PROVE (tree[r] = suite.before[r] /\ SeenThere(r) /\ RowsThere(r) /\ PinsThere(r))'
    <3>1. Stayed(r)
      BY <2>4, <2>2, <1>1 DEF Stayed
    <3>2. SeenThere(r)' /\ RowsThere(r)'
      BY <3>1, <1>1, <2>1, <2>2 DEF SuiteInv, Proven, SeenThere, RowsThere, AtTree
    <3>3. Gate' = Gate
      BY <2>2, <1>1 DEF Gate
    <3>4. (tree[r] = suite.before[r])'
      BY <3>1, <1>1, <2>2 DEF SuiteInv, Proven
    <3>5. PinsThere(r)'
      BY <3>3, <1>1, <1>7 DEF PinsThere, PinsHold
    <3> QED BY <3>2, <3>4, <3>5
  <2> QED BY <2>3, <2>4 DEF SuiteInv, Proven
<1> QED BY <1>1, <1>4, <1>5, <1>6, <1>7

LEMMA CloseGateSuite ==
    ASSUME SuiteInv, CloseGate
    PROVE  SuiteInv'
<1>1. PICK result \in Verdict(Gate) : suite' = Judged(result)
  BY DEF CloseGate
<1>2. /\ suite.at = "run" /\ Decided(Gate) /\ UNCHANGED <<gates, tree, truth, pins, unseen>>
      /\ Len(suite.rows) < Len(gates)
  BY DEF CloseGate, SuiteInv, Stages
<1>3. /\ Gate \in GateTypes /\ Gate.repo \in Repos /\ TestsOf(Gate) \subseteq Files
      /\ \A f \in TestsOf(Gate) : f[1] = Gate.repo
      /\ Gate.kind = "record" => \A f, g \in Gate.files : f = g
  <2>1. Len(suite.rows) + 1 \in 1..Len(gates)
    BY <1>2, SuiteParts DEF SuiteInv
  <2> QED BY <2>1, TestFiles DEF SuiteInv, SuiteTyped, Gate
<1>4. result \in {"pass", "open", "skipped", "fail"}
  BY <1>1 DEF Verdict
<1>5. ASSUME Stayed(Gate.repo) PROVE AtTree(Gate, result, tree[Gate.repo])
  <2> DEFINE t == tree[Gate.repo]
  <2>1. /\ \A f \in TestsOf(Gate) : suite.cache[f] \in {NotRun, truth[f][t]}
        /\ Gate.pinned => t \in pins
    BY <1>2, <1>3, <1>5 DEF SuiteInv, Proven, SeenThere, PinsThere
  <2>2. CASE result = "pass"
    <3>1. Seen(Gate) = {"pass"}
      BY <2>2, <1>1 DEF Verdict
    <3>2. \A f \in TestsOf(Gate) : truth[f][t] = "pass"
      BY <3>1, <2>1 DEF Seen, NotRun
    <3> QED BY <2>1, <2>2, <3>2 DEF AtTree
  <2>3. CASE result = "open"
    <3>1. Gate.kind = "record" /\ "skipped" \in Seen(Gate)
      BY <2>3, <1>1 DEF Verdict
    <3>2. PICK g \in TestsOf(Gate) : suite.cache[g] = "skipped"
      BY <3>1 DEF Seen
    <3>3. \A f \in TestsOf(Gate) : f = g
      BY <3>1, <1>3 DEF TestsOf
    <3>4. truth[g][t] = "skipped"
      BY <3>2, <2>1 DEF NotRun
    <3> QED BY <2>3, <3>3, <3>4 DEF AtTree
  <2>4. CASE result \in {"skipped", "fail"}
    BY <2>4 DEF AtTree
  <2> QED BY <1>4, <2>2, <2>3, <2>4
<1>6. result \in Results
  BY <1>4 DEF Results, Outcomes
<1> QED BY <1>1, <1>2, <1>5, <1>6, GateJudged

LEMMA RunFileSuite ==
    ASSUME SuiteInv, NEW f \in Files, RunFile(f)
    PROVE  SuiteInv'
<1>1. /\ suite.at = "run" /\ f \in TestsOf(Gate) /\ UNCHANGED <<gates, tree, truth, pins, unseen>>
      /\ Len(suite.rows) < Len(gates)
      /\ suite' = [suite EXCEPT !.cache[f] = Does(f)]
  BY DEF RunFile, SuiteInv, Stages
<1>2. f[1] \in Repos
  <2>1. Len(suite.rows) + 1 \in 1..Len(gates)
    BY <1>1, SuiteParts DEF SuiteInv
  <2> QED BY <1>1, <2>1, TestFiles DEF SuiteInv, SuiteTyped, Gate
<1>3. Does(f) = truth[f][tree[f[1]]] /\ Does(f) \in Outcomes
  BY <1>2 DEF Does, SuiteInv, SuiteTyped
<1>4. PICK cache1 : cache1 = [suite.cache EXCEPT ![f] = Does(f)]
  OBVIOUS
<1>5. /\ cache1 \in [Files -> Outcomes \cup {NotRun}] /\ cache1[f] = Does(f)
      /\ \A h \in Files : h # f => cache1[h] = suite.cache[h]
  BY <1>3, <1>4, SuiteParts DEF SuiteInv
<1>6. suite' = [suite EXCEPT !.cache = cache1]
  BY <1>1, <1>4
<1>7. /\ suite' \in SuiteTypes /\ suite'.at = "run" /\ suite'.rows = suite.rows /\ suite'.before = suite.before
      /\ suite'.cache = cache1
  BY <1>5, <1>6, <1>1 DEF SuiteInv, SuiteTyped, SuiteTypes
<1>8. Files' = Files /\ SuiteTypes' = SuiteTypes
  BY <1>1 DEF Files, SuiteTypes
<1>9. SuiteTyped' /\ Stages'
  BY <1>1, <1>7, <1>8 DEF SuiteInv, SuiteTyped, Stages
<1>10. ASSUME NEW r \in Repos, Stayed(r)' PROVE (tree[r] = suite.before[r] /\ SeenThere(r) /\ RowsThere(r) /\ PinsThere(r))'
  <2>1. Stayed(r)
    BY <1>10, <1>1, <1>7 DEF Stayed
  <2>2. SeenThere(r)'
    BY <2>1, <1>1, <1>3, <1>5, <1>7, <1>8 DEF SuiteInv, Proven, SeenThere
  <2>3. RowsThere(r)' /\ PinsThere(r)'
    BY <2>1, <1>1, <1>7, <1>8 DEF SuiteInv, Proven, RowsThere, PinsThere, AtTree, Gate
  <2>4. (tree[r] = suite.before[r])'
    BY <2>1, <1>1, <1>7 DEF SuiteInv, Proven
  <2> QED BY <2>2, <2>3, <2>4
<1> QED BY <1>9, <1>10 DEF SuiteInv, Proven

LEMMA WorkSuite ==
    ASSUME SuiteInv, NEW r \in Repos, Work(r)
    PROVE  SuiteInv'
<1>1. /\ suite.at \in {"gate", "run"} /\ UNCHANGED <<gates, truth, pins, suite>>
      /\ \E t \in Trees : /\ tree' = [tree EXCEPT ![r] = t]
                         /\ unseen' = IF Version(t) = Version(suite.before[r]) THEN unseen \cup {r} ELSE unseen
  BY SuiteParts DEF Work, SuiteInv
<1>2. PICK t \in Trees : /\ tree' = [tree EXCEPT ![r] = t]
                         /\ unseen' = IF Version(t) = Version(suite.before[r]) THEN unseen \cup {r} ELSE unseen
  BY <1>1
<1>3. /\ tree' \in [Repos -> Trees] /\ tree'[r] = t /\ \A s \in Repos : s # r => tree'[s] = tree[s]
      /\ Files' = Files /\ SuiteTypes' = SuiteTypes
  BY <1>1, <1>2 DEF SuiteInv, SuiteTyped, Files, SuiteTypes
<1>4. SuiteTyped' /\ Stages'
  <2>1. SuiteTyped'
    BY <1>1, <1>3 DEF SuiteInv, SuiteTyped
  <2>2. Stages'
    BY <1>1, <1>3 DEF SuiteInv, Stages
  <2> QED BY <2>1, <2>2
<1>5. ASSUME NEW s \in Repos, Stayed(s)' PROVE (tree[s] = suite.before[s] /\ SeenThere(s) /\ RowsThere(s) /\ PinsThere(s))'
  <2>1. s # r
    <3> SUFFICES ASSUME s = r PROVE FALSE
      OBVIOUS
    <3>1. Version(t) = Version(suite.before[r]) /\ r \notin unseen'
      BY <1>1, <1>3, <1>5 DEF Stayed, Version
    <3> QED BY <1>2, <3>1
  <2>2. Stayed(s) /\ tree'[s] = tree[s]
    <3>1. tree'[s] = tree[s] /\ unseen \subseteq unseen'
      BY <2>1, <1>2, <1>3
    <3> QED BY <3>1, <1>1, <1>5 DEF Stayed, Version
  <2> QED BY <2>2, <1>1, <1>3 DEF SuiteInv, Proven, SeenThere, RowsThere, PinsThere, AtTree, Gate
<1> QED BY <1>4, <1>5 DEF SuiteInv, Proven

LEMMA AcceptSuite ==
    ASSUME SuiteInv, AcceptNext
    PROVE  SuiteInv'
<1>0. suite \in SuiteTypes /\ tree \in [Repos -> Trees]
  BY DEF SuiteInv, SuiteTyped
<1>1. ASSUME RecordVersions PROVE SuiteInv'
  <2>1. PICK base \in BOOLEAN : suite' = [suite EXCEPT !.at = "gate", !.before = tree, !.base = base]
    BY <1>1 DEF RecordVersions
  <2>2. suite.at = "start" /\ UNCHANGED <<gates, tree, truth, pins, unseen>> /\ Files' = Files /\ SuiteTypes' = SuiteTypes
    BY <1>1 DEF RecordVersions, Files, SuiteTypes
  <2>3. /\ suite' \in SuiteTypes /\ suite'.at = "gate" /\ suite'.before = tree /\ suite'.rows = suite.rows
        /\ suite'.cache = suite.cache
    BY <2>1, <1>0 DEF SuiteTypes
  <2>4. suite.rows = <<>> /\ \A f \in Files : suite.cache[f] = NotRun
    BY <2>2 DEF SuiteInv, Stages
  <2>6. SuiteTyped' /\ Stages'
    BY <2>2, <2>3 DEF SuiteInv, SuiteTyped, Stages
  <2>7. \A r \in Repos : (tree[r] = suite.before[r] /\ SeenThere(r) /\ RowsThere(r) /\ PinsThere(r))'
    BY <2>2, <2>3, <2>4 DEF SeenThere, RowsThere, PinsThere
  <2> QED BY <2>6, <2>7 DEF SuiteInv, Proven
<1>2. ASSUME RecordAgain PROVE SuiteInv'
  <2>1. /\ suite.at = "gate" /\ Len(suite.rows) = Len(gates) /\ UNCHANGED <<gates, tree, truth, pins, unseen>>
        /\ suite' = [suite EXCEPT !.at = "done", !.after = tree]
        /\ Files' = Files /\ SuiteTypes' = SuiteTypes
    BY <1>2 DEF RecordAgain, Files, SuiteTypes
  <2>2. /\ suite' \in SuiteTypes /\ suite'.at = "done" /\ suite'.before = suite.before /\ suite'.rows = suite.rows
        /\ suite'.cache = suite.cache /\ suite'.after = tree
    BY <2>1, <1>0 DEF SuiteTypes
  <2>3. SuiteTyped' /\ Stages'
    BY <2>1, <2>2 DEF SuiteInv, SuiteTyped, Stages
  <2>4. ASSUME NEW r \in Repos, Stayed(r)' PROVE (tree[r] = suite.before[r] /\ SeenThere(r) /\ RowsThere(r) /\ PinsThere(r))'
    <3>1. Stayed(r)
      BY <2>1, <2>2, <2>4 DEF Stayed
    <3> QED BY <3>1, <2>1, <2>2 DEF SuiteInv, Proven, SeenThere, RowsThere, PinsThere, AtTree
  <2> QED BY <2>3, <2>4 DEF SuiteInv, Proven
<1> QED BY <1>1, <1>2, OpenGateSuite, CloseGateSuite, RunFileSuite, WorkSuite DEF AcceptNext

(***************************************************************************)
(* What a report says of a repository it does not name as changed is true  *)
(* of what the repository held when it was recorded, and a run that exits  *)
(* 0 hides no failing test of a gate it judged (lib/acceptance.js,         *)
(* scripts/release-acceptance.js), unless somebody brought the commit and  *)
(* the number of uncommitted files back to what was recorded.              *)
(***************************************************************************)
THEOREM PassIsProvenHolds == Spec => []PassIsProven
<1>1. SuiteInv /\ [Next]_vars => SuiteInv'
  <2> SUFFICES ASSUME SuiteInv, [Next]_vars PROVE SuiteInv'
    OBVIOUS
  <2>1. AcceptNext \/ UNCHANGED acceptVars
    BY DEF Next, vars, CheckStep, AlertStep, NewsStep, AcceptStep, VhostStep, CountStep
  <2> QED BY <2>1, AcceptSuite, SuiteStays
<1>2. SuiteInv => PassIsProven
  <2> SUFFICES ASSUME SuiteInv, suite.at = "done", NEW i \in DOMAIN gates, gates[i].kind # "open",
                      gates[i].repo \notin ChangedDuringRun \cup unseen
               PROVE  LET g == gates[i]
                          shown == suite.before[g.repo]
                      IN  /\ suite.rows[i] = "pass" => (g.pinned => shown \in pins)
                                                        /\ \A f \in TestsOf(g) : truth[f][shown] = "pass"
                          /\ ExitCode(FALSE) = 0 /\ suite.rows[i] # "skipped" =>
                                \A f \in TestsOf(g) : truth[f][shown] # "fail"
                          /\ ExitCode(TRUE) = 0 => \A f \in TestsOf(g) : truth[f][shown] = "pass"
    BY DEF PassIsProven
  <2> DEFINE g == gates[i]
             shown == suite.before[g.repo]
             results == {suite.rows[j] : j \in DOMAIN suite.rows}
  <2>1. /\ gates \in Seq(GateTypes) /\ suite.rows \in Seq(Results) /\ Len(suite.rows) = Len(gates)
        /\ i \in 1..Len(gates) /\ i \in 1..Len(suite.rows) /\ i \in DOMAIN suite.rows
    BY SuiteParts DEF SuiteInv, SuiteTyped, Stages
  <2>2. g.repo \in Repos /\ suite.rows[i] \in Results
    BY <2>1, TestFiles, ElementOfSeq
  <2>3. tree[g.repo] = shown /\ Stayed(g.repo)
    <3>1. Stayed(g.repo)
      BY <2>2 DEF SuiteInv, Stages, ChangedDuringRun, Stayed
    <3> QED BY <2>2, <3>1 DEF SuiteInv, Proven
  <2>4. AtTree(g, suite.rows[i], shown)
    BY <2>1, <2>2, <2>3 DEF SuiteInv, Proven, RowsThere
  <2>5. suite.rows[i] \in results
    BY <2>1
  <2>6. suite.rows[i] \in {"pass", "fail", "skipped", "open"}
    BY <2>2 DEF Results, Outcomes
  <2>7. ExitCode(FALSE) = 0 => suite.rows[i] # "fail"
    BY <2>5 DEF ExitCode
  <2>8. ExitCode(TRUE) = 0 => suite.rows[i] = "pass"
    BY <2>5 DEF ExitCode
  <2>9. /\ suite.rows[i] = "pass" => (g.pinned => shown \in pins) /\ \A f \in TestsOf(g) : truth[f][shown] = "pass"
        /\ suite.rows[i] = "open" => \A f \in TestsOf(g) : truth[f][shown] # "fail"
    BY <2>4 DEF AtTree
  <2> QED BY <2>6, <2>7, <2>8, <2>9
<1> QED BY SuiteStart, <1>1, <1>2, PTL DEF Spec

-----------------------------------------------------------------------------
(* nginx.install: a call that is alone can put back what it found, and has   *)
(* the files before its place as asked.                                      *)

Undos == [name : VhostNames, put : Texts \cup {NoFile, "unlink"}]
Forward == {"read", "write", "stat", "link", "test", "reload"}
InstallTypes == [at : Rests \cup Forward \cup {"undo"}, asked : Seq(VhostFiles), todo : Seq(VhostFiles),
                 prev : Texts \cup {NoFile}, undo : Seq(Undos), changed : BOOLEAN,
                 found : {<<>>} \cup (AvailTypes \X EnabledTypes), alone : BOOLEAN]

ServedBy(a, e) ==
    [n \in VhostNames |-> IF e[n] # "link" THEN e[n] ELSE IF a[n] = NoFile THEN "dangling" ELSE a[n]]
CleanOf(served) ==
    /\ \A n \in VhostNames : served[n] \notin {"bad", "dangling"}
    /\ \A m, n \in VhostNames : served[m] = "zone" /\ served[n] = "zone" => m = n

Pos(s) == Len(s.asked) - Len(s.todo)
Busy(s) == s.at \notin Rests
Puts(u, i, n) == u[i].name = n /\ u[i].put # "unlink"
Links(u, i, n) == u[i].name = n /\ u[i].put = "unlink"

(* Undoing u, last change first, leads from a and e to what was found.       *)
Undoable(u, found, a, e) ==
    \A n \in VhostNames :
       /\ (\A i \in 1..Len(u) : ~Puts(u, i, n)) => a[n] = found[1][n]
       /\ \A i \in 1..Len(u) : Puts(u, i, n) /\ (\A j \in 1..(i - 1) : ~Puts(u, j, n)) => u[i].put = found[1][n]
       /\ (\A i \in 1..Len(u) : ~Links(u, i, n)) => e[n] = found[2][n]
       /\ \A i \in 1..Len(u) : Links(u, i, n) => found[2][n] = NoFile

Queue(s) ==
    /\ \A i, j \in 1..Len(s.asked) : s.asked[i].name = s.asked[j].name => i = j
    /\ s.at \in {"write", "stat", "link"} => s.todo # <<>>
    /\ s.at \in {"test", "reload", "unchanged", "installed"} => s.todo = <<>>
    /\ Pos(s) \in Nat /\ \A j \in 1..Len(s.todo) : s.todo[j] = s.asked[Pos(s) + j]
    /\ s.at \in Forward \cup {"unchanged"} /\ ~s.changed => s.undo = <<>>
    /\ s.at \in {"refused", "unchanged"} => s.undo = <<>>
    /\ s.at # "idle" => s.found \in AvailTypes \X EnabledTypes

(* Of a call that no other one overlapped.                                   *)
AloneAt(s, a, e, l) ==
    /\ Busy(s) \/ s.at \in {"refused", "unchanged"} => Undoable(s.undo, s.found, a, e)
    /\ s.at \in Forward \cup {"unchanged", "installed"} =>
          \A i \in 1..Pos(s) : a[s.asked[i].name] = s.asked[i].text
    /\ s.at \in {"stat", "link"} => a[Head(s.todo).name] = Head(s.todo).text
    /\ s.at = "write" => s.prev = a[Head(s.todo).name]
    /\ s.at = "installed" => l = ServedBy(a, e)

VhostsTyped ==
    /\ scene \in Scenes /\ available \in AvailTypes /\ enabled \in EnabledTypes
    /\ install \in [Installers -> InstallTypes] /\ loose \in BOOLEAN

Tight ==
    ~loose =>
       /\ (\A w \in Installers : ~Busy(install[w])) =>
             CleanOf(ServedBy(available, enabled)) /\ loaded = ServedBy(available, enabled)
       /\ \A w \in Installers : Busy(install[w]) =>
             /\ install[w].alone
             /\ CleanOf(ServedBy(install[w].found[1], install[w].found[2]))
             /\ loaded = ServedBy(install[w].found[1], install[w].found[2])

VhostsInv ==
    /\ VhostsTyped /\ Tight
    /\ \A w \in Installers :
          /\ Queue(install[w])
          /\ install[w].alone => OthersRest(w) /\ AloneAt(install[w], available, enabled, loaded)

LEMMA InstallFields ==
    ASSUME NEW s \in InstallTypes
    PROVE  /\ s.at \in Rests \cup Forward \cup {"undo"} /\ s.asked \in Seq(VhostFiles) /\ s.todo \in Seq(VhostFiles)
           /\ s.prev \in Texts \cup {NoFile} /\ s.undo \in Seq(Undos) /\ s.changed \in BOOLEAN
           /\ s.found \in {<<>>} \cup (AvailTypes \X EnabledTypes) /\ s.alone \in BOOLEAN
           /\ Len(s.asked) \in Nat /\ Len(s.todo) \in Nat /\ Len(s.undo) \in Nat
<1>1. /\ s.at \in Rests \cup Forward \cup {"undo"} /\ s.asked \in Seq(VhostFiles) /\ s.todo \in Seq(VhostFiles)
      /\ s.prev \in Texts \cup {NoFile} /\ s.undo \in Seq(Undos) /\ s.changed \in BOOLEAN
      /\ s.found \in {<<>>} \cup (AvailTypes \X EnabledTypes) /\ s.alone \in BOOLEAN
  BY DEF InstallTypes
<1> QED BY <1>1, LenProperties

LEMMA ServedClean == Served = ServedBy(available, enabled) /\ (Clean <=> CleanOf(Served))
BY DEF Served, ServedBy, Clean, CleanOf

LEMMA NoCall ==
    /\ Uninstalled \in InstallTypes /\ Uninstalled.at = "idle" /\ Uninstalled.asked = <<>> /\ Uninstalled.todo = <<>>
    /\ Uninstalled.undo = <<>> /\ ~Uninstalled.changed
<1>1. /\ "idle" \in Rests \cup Forward \cup {"undo"} /\ NoFile \in Texts \cup {NoFile}
      /\ <<>> \in {<<>>} \cup (AvailTypes \X EnabledTypes) /\ <<>> \in Seq(VhostFiles) /\ <<>> \in Seq(Undos)
  BY DEF Rests
<1>2. Uninstalled \in InstallTypes
  BY <1>1 DEF Uninstalled, InstallTypes
<1> QED BY <1>2 DEF Uninstalled

LEMMA VhostsStart == Init => VhostsInv
<1> SUFFICES ASSUME Init PROVE VhostsInv
  OBVIOUS
<1>1. /\ scene \in Scenes /\ Clean /\ loaded = Served /\ loose = FALSE
      /\ \E host \in scene.hosts : available = host.available /\ enabled = host.enabled
      /\ install = [w \in Installers |-> Uninstalled]
  BY DEF Init, ChecksInit, VhostsInit
<1>2. available \in AvailTypes /\ enabled \in EnabledTypes
  BY <1>1, VhostsAssumption
<1>3. Uninstalled \in InstallTypes
  BY NoCall
<1>4. VhostsTyped
  BY <1>1, <1>2, <1>3 DEF VhostsTyped
<1>5. /\ Uninstalled.at = "idle" /\ Uninstalled.asked = <<>> /\ Uninstalled.todo = <<>> /\ Uninstalled.undo = <<>>
      /\ Len(Uninstalled.asked) = 0 /\ Len(Uninstalled.todo) = 0
  BY NoCall
<1>6. Queue(Uninstalled)
  BY <1>5 DEF Queue, Pos, Forward
<1>7. ~Busy(Uninstalled) /\ AloneAt(Uninstalled, available, enabled, loaded)
  BY <1>5 DEF AloneAt, Busy, Rests, Forward
<1>8. \A w \in Installers : install[w] = Uninstalled
  BY <1>1
<1>9. Tight
  BY <1>1, <1>7, <1>8, ServedClean DEF Tight
<1>10. \A w \in Installers : OthersRest(w)
  BY <1>5, <1>8 DEF OthersRest, Rests
<1> QED BY <1>4, <1>6, <1>7, <1>8, <1>9, <1>10 DEF VhostsInv

LEMMA VhostsStay ==
    ASSUME VhostsInv, UNCHANGED <<scene, vhostVars>>
    PROVE  VhostsInv'
<1>1. VhostsTyped' /\ Tight'
  BY DEF VhostsInv, vhostVars, VhostsTyped, Tight, Busy
<1>2. \A w \in Installers : OthersRest(w) => OthersRest(w)'
  BY DEF vhostVars, OthersRest
<1>3. install' = install /\ available' = available /\ enabled' = enabled /\ loaded' = loaded
  BY DEF vhostVars
<1>4. ASSUME NEW w \in Installers PROVE Queue(install[w])'
  BY <1>3 DEF VhostsInv, Queue, Pos
<1>5. ASSUME NEW w \in Installers, install[w].alone PROVE AloneAt(install[w], available, enabled, loaded)'
  <2>1. Undoable(install[w].undo, install[w].found, available, enabled) =>
           Undoable(install[w].undo, install[w].found, available, enabled)'
    BY <1>3 DEF Undoable, Puts, Links
  <2>2. AloneAt(install[w], available, enabled, loaded)
    BY <1>5 DEF VhostsInv
  <2> QED BY <2>1, <2>2, <1>3 DEF AloneAt, Pos, Busy, ServedBy
<1> QED BY <1>1, <1>2, <1>3, <1>4, <1>5 DEF VhostsInv

(***************************************************************************)
(* A call under way moves: it is t after the step.                         *)
(***************************************************************************)
LEMMA CallMoves ==
    ASSUME VhostsInv, scene' = scene, NEW w \in Installers, Busy(install[w]), NEW t \in InstallTypes,
           install' = [install EXCEPT ![w] = t], t.alone = install[w].alone, Queue(t),
           available' \in AvailTypes, enabled' \in EnabledTypes, loose' \in BOOLEAN,
           t.alone => AloneAt(t, available', enabled', loaded'),
           ~loose' /\ Busy(t) => ~loose /\ t.found = install[w].found /\ loaded' = loaded,
           ~loose' /\ ~Busy(t) => /\ OthersRest(w) /\ CleanOf(ServedBy(available', enabled'))
                                  /\ loaded' = ServedBy(available', enabled')
    PROVE  VhostsInv'
<1>1. /\ install' \in [Installers -> InstallTypes] /\ install'[w] = t
      /\ \A o \in Installers \ {w} : install'[o] = install[o]
  BY DEF VhostsInv, VhostsTyped
<1>2. \A o \in Installers \ {w} : ~install[o].alone
  BY DEF VhostsInv, OthersRest, Busy
<1>3. OthersRest(w) => OthersRest(w)'
  BY <1>1 DEF OthersRest
<1>4. VhostsTyped'
  BY <1>1 DEF VhostsInv, VhostsTyped
<1>5. ASSUME NEW o \in Installers
      PROVE  /\ Queue(install'[o])
             /\ install'[o].alone => OthersRest(o)' /\ AloneAt(install'[o], available', enabled', loaded')
  <2>1. CASE o = w
    BY <2>1, <1>1, <1>3 DEF VhostsInv
  <2>2. CASE o # w
    BY <2>2, <1>1, <1>2 DEF VhostsInv
  <2> QED BY <2>1, <2>2
<1>6. Tight'
  <2> SUFFICES ASSUME ~loose'
               PROVE  /\ (\A o \in Installers : ~Busy(install'[o])) =>
                            CleanOf(ServedBy(available', enabled')) /\ loaded' = ServedBy(available', enabled')
                      /\ \A o \in Installers : Busy(install'[o]) =>
                            /\ install'[o].alone
                            /\ CleanOf(ServedBy(install'[o].found[1], install'[o].found[2]))
                            /\ loaded' = ServedBy(install'[o].found[1], install'[o].found[2])
    BY DEF Tight, Busy, CleanOf, ServedBy
  <2>1. CASE Busy(t)
    <3>1. ~loose /\ t.found = install[w].found /\ loaded' = loaded
      BY <2>1
    <3>2. /\ install[w].alone /\ CleanOf(ServedBy(t.found[1], t.found[2])) /\ loaded = ServedBy(t.found[1], t.found[2])
      BY <3>1 DEF VhostsInv, Tight
    <3>3. \A o \in Installers \ {w} : ~Busy(install'[o])
      BY <3>2, <1>1 DEF VhostsInv, OthersRest, Busy
    <3> QED BY <2>1, <3>1, <3>2, <3>3, <1>1
  <2>2. CASE ~Busy(t)
    <3>1. \A o \in Installers : ~Busy(install'[o])
      BY <2>2, <1>1 DEF OthersRest, Busy
    <3> QED BY <2>2, <3>1
  <2> QED BY <2>1, <2>2
<1> QED BY <1>4, <1>5, <1>6 DEF VhostsInv, Queue, AloneAt, Undoable, Puts, Links, Pos, Busy

-----------------------------------------------------------------------------
(* What the steps of a call do, as facts about records, functions and        *)
(* sequences.                                                                *)

LEMMA Places ==
    ASSUME NEW p \in Nat, NEW asked \in Nat, NEW todo \in Nat, todo >= 1, p = asked - todo
    PROVE  p + 1 \in 1..asked /\ asked - (todo - 1) = p + 1
OBVIOUS

LEMMA OneMore ==
    ASSUME NEW p \in Nat
    PROVE  /\ p + 1 \in Nat /\ \A j \in Nat : p + (j + 1) = (p + 1) + j
           /\ \A i \in 1..(p + 1) : i \in 1..p \/ i = p + 1
OBVIOUS

LEMMA Whole ==
    ASSUME NEW k \in Nat
    PROVE  (IF 1 <= k THEN k - 1 + 1 ELSE 0) = k /\ k - 1 + 1 = k /\ \A i \in 1..k : 1 + i - 1 = i
OBVIOUS

LEMMA QueueSame ==
    ASSUME NEW s, NEW r, Queue(s), r.at = s.at, r.asked = s.asked, r.todo = s.todo, r.undo = s.undo,
           r.changed = s.changed, r.found = s.found
    PROVE  Queue(r)
BY DEF Queue, Pos

LEMMA FileHere ==
    ASSUME NEW s \in InstallTypes, Queue(s), s.todo # <<>>
    PROVE  /\ Head(s.todo) \in VhostFiles /\ Head(s.todo).name \in VhostNames /\ Head(s.todo).text \in Texts
           /\ Pos(s) \in Nat /\ Pos(s) + 1 \in 1..Len(s.asked) /\ Head(s.todo) = s.asked[Pos(s) + 1]
           /\ \A i \in 1..Pos(s) : i \in 1..Len(s.asked) /\ s.asked[i] \in VhostFiles
                                   /\ s.asked[i].name # Head(s.todo).name
<1>t. s.asked \in Seq(VhostFiles) /\ s.todo \in Seq(VhostFiles) /\ Len(s.asked) \in Nat /\ Len(s.todo) \in Nat
  BY InstallFields
<1>1. Len(s.todo) >= 1 /\ 1 \in 1..Len(s.todo) /\ Head(s.todo) = s.todo[1] /\ Head(s.todo) \in VhostFiles
  BY <1>t, EmptySeq
<1>2. Head(s.todo).name \in VhostNames /\ Head(s.todo).text \in Texts
  BY <1>1 DEF VhostFiles
<1>3. Pos(s) \in Nat /\ Pos(s) = Len(s.asked) - Len(s.todo)
  BY DEF Queue, Pos
<1>4. Pos(s) + 1 \in 1..Len(s.asked)
  BY <1>t, <1>1, <1>3, Places
<1>5. Head(s.todo) = s.asked[Pos(s) + 1]
  BY <1>1 DEF Queue
<1>6. ASSUME NEW i \in 1..Pos(s)
      PROVE  i \in 1..Len(s.asked) /\ s.asked[i] \in VhostFiles /\ s.asked[i].name # Head(s.todo).name
  <2>1. i \in 1..Len(s.asked) /\ i # Pos(s) + 1
    BY <1>3, <1>4, <1>t
  <2>2. s.asked[i] \in VhostFiles
    BY <2>1, <1>t, ElementOfSeq
  <2> QED BY <2>1, <2>2, <1>4, <1>5 DEF Queue
<1> QED BY <1>1, <1>2, <1>3, <1>4, <1>5, <1>6

(***************************************************************************)
(* The next file.                                                          *)
(***************************************************************************)
LEMMA NextFile ==
    ASSUME NEW s \in InstallTypes, Queue(s), s.todo # <<>>, NEW t \in InstallTypes,
           t.asked = s.asked, t.todo = Tail(s.todo)
    PROVE  /\ Pos(t) = Pos(s) + 1 /\ Pos(t) \in Nat
           /\ \A j \in 1..Len(t.todo) : t.todo[j] = t.asked[Pos(t) + j]
           /\ \A i \in 1..Pos(t) : i \in 1..Pos(s) \/ t.asked[i] = Head(s.todo)
<1>t. s.todo \in Seq(VhostFiles) /\ Len(s.todo) \in Nat /\ Len(s.asked) \in Nat
  BY InstallFields
<1>1. /\ Len(Tail(s.todo)) = Len(s.todo) - 1 /\ \A j \in 1..Len(Tail(s.todo)) : Tail(s.todo)[j] = s.todo[j + 1]
      /\ Len(s.todo) >= 1
  BY <1>t
<1>2. Pos(s) \in Nat /\ Pos(s) = Len(s.asked) - Len(s.todo) /\ Head(s.todo) = s.asked[Pos(s) + 1]
  BY FileHere DEF Pos
<1>3. Pos(t) = Pos(s) + 1
  <2>1. Pos(t) = Len(s.asked) - (Len(s.todo) - 1)
    BY <1>1 DEF Pos
  <2> QED BY <2>1, <1>1, <1>2, <1>t, Places
<1>4. ASSUME NEW j \in 1..Len(t.todo) PROVE t.todo[j] = t.asked[Pos(t) + j]
  <2>1. j + 1 \in 1..Len(s.todo) /\ t.todo[j] = s.todo[j + 1]
    BY <1>1, <1>t
  <2>2. s.todo[j + 1] = s.asked[Pos(s) + (j + 1)]
    BY <2>1 DEF Queue
  <2>3. Pos(s) + (j + 1) = Pos(t) + j
    <3>1. j \in Nat
      BY <1>1, <1>t
    <3> QED BY <3>1, <1>2, <1>3, OneMore
  <2> QED BY <2>1, <2>2, <2>3
<1>5. ASSUME NEW i \in 1..Pos(t) PROVE i \in 1..Pos(s) \/ t.asked[i] = Head(s.todo)
  <2>1. i \in 1..Pos(s) \/ i = Pos(s) + 1
    BY <1>2, <1>3, OneMore
  <2> QED BY <2>1, <1>2
<1>6. Pos(t) \in Nat
  BY <1>2, <1>3, OneMore
<1> QED BY <1>3, <1>4, <1>5, <1>6

LEMMA PutKept ==
    ASSUME NEW u \in Seq(Undos), NEW found, NEW a \in AvailTypes, NEW e, Undoable(u, found, a, e),
           NEW name \in VhostNames, NEW text \in Texts
    PROVE  Undoable(Append(u, [name |-> name, put |-> a[name]]), found, [a EXCEPT ![name] = text], e)
<1> DEFINE entry == [name |-> name, put |-> a[name]]
           m == Len(u)
           v == Append(u, entry)
           b == [a EXCEPT ![name] = text]
<1>1. entry \in Undos /\ entry.name = name /\ entry.put = a[name] /\ entry.put # "unlink"
  BY DEF Undos, AvailTypes, Texts, NoFile
<1>2. /\ m \in Nat /\ Len(v) = m + 1 /\ v[m + 1] = entry /\ \A i \in 1..m : v[i] = u[i]
      /\ \A i \in 1..Len(v) : i \in 1..m \/ i = m + 1
      /\ \A i \in 1..m : i \in 1..Len(v)
      /\ m + 1 \in 1..Len(v)
  BY <1>1
<1>3. \A n \in VhostNames : n # name => b[n] = a[n]
  BY DEF AvailTypes
<1> HIDE DEF entry, v, b, m
<1> SUFFICES ASSUME NEW n \in VhostNames
             PROVE  /\ (\A i \in 1..Len(v) : ~Puts(v, i, n)) => b[n] = found[1][n]
                    /\ \A i \in 1..Len(v) : Puts(v, i, n) /\ (\A j \in 1..(i - 1) : ~Puts(v, j, n)) =>
                          v[i].put = found[1][n]
                    /\ (\A i \in 1..Len(v) : ~Links(v, i, n)) => e[n] = found[2][n]
                    /\ \A i \in 1..Len(v) : Links(v, i, n) => found[2][n] = NoFile
  BY DEF Undoable, v, entry, b
<1>4. /\ \A i \in 1..m : (Puts(v, i, n) <=> Puts(u, i, n)) /\ (Links(v, i, n) <=> Links(u, i, n))
      /\ Puts(v, m + 1, n) <=> n = name
      /\ ~Links(v, m + 1, n)
  BY <1>1, <1>2 DEF Puts, Links
<1>u. /\ (\A i \in 1..m : ~Puts(u, i, n)) => a[n] = found[1][n]
      /\ \A i \in 1..m : Puts(u, i, n) /\ (\A j \in 1..(i - 1) : ~Puts(u, j, n)) => u[i].put = found[1][n]
      /\ (\A i \in 1..m : ~Links(u, i, n)) => e[n] = found[2][n]
      /\ \A i \in 1..m : Links(u, i, n) => found[2][n] = NoFile
  BY DEF Undoable, m
<1>5. (\A i \in 1..Len(v) : ~Puts(v, i, n)) => b[n] = found[1][n]
  BY <1>2, <1>3, <1>4, <1>u
<1>6. ASSUME NEW i \in 1..Len(v), Puts(v, i, n), \A j \in 1..(i - 1) : ~Puts(v, j, n)
      PROVE  v[i].put = found[1][n]
  <2>1. CASE i \in 1..m
    <3>1. \A j \in 1..(i - 1) : j \in 1..m /\ ~Puts(u, j, n)
      BY <1>2, <1>4, <1>6, <2>1
    <3> QED BY <2>1, <3>1, <1>2, <1>4, <1>6, <1>u
  <2>2. CASE i = m + 1
    <3>1. \A j \in 1..m : ~Puts(u, j, n)
      BY <1>2, <1>4, <1>6, <2>2
    <3> QED BY <2>2, <3>1, <1>1, <1>2, <1>4, <1>6, <1>u
  <2> QED BY <2>1, <2>2, <1>2
<1>7. (\A i \in 1..Len(v) : ~Links(v, i, n)) => e[n] = found[2][n]
  BY <1>2, <1>4, <1>u
<1>8. \A i \in 1..Len(v) : Links(v, i, n) => found[2][n] = NoFile
  BY <1>2, <1>4, <1>u
<1> QED BY <1>5, <1>6, <1>7, <1>8

LEMMA LinkKept ==
    ASSUME NEW u \in Seq(Undos), NEW found, NEW a, NEW e \in EnabledTypes, Undoable(u, found, a, e),
           NEW name \in VhostNames, e[name] = NoFile
    PROVE  Undoable(Append(u, [name |-> name, put |-> "unlink"]), found, a, [e EXCEPT ![name] = "link"])
<1> DEFINE entry == [name |-> name, put |-> "unlink"]
           m == Len(u)
           v == Append(u, entry)
           b == [e EXCEPT ![name] = "link"]
<1>1. entry \in Undos /\ entry.name = name /\ entry.put = "unlink"
  BY DEF Undos
<1>2. /\ m \in Nat /\ Len(v) = m + 1 /\ v[m + 1] = entry /\ \A i \in 1..m : v[i] = u[i]
      /\ \A i \in 1..Len(v) : i \in 1..m \/ i = m + 1
      /\ \A i \in 1..m : i \in 1..Len(v)
      /\ m + 1 \in 1..Len(v)
  BY <1>1
<1>3. \A n \in VhostNames : n # name => b[n] = e[n]
  BY DEF EnabledTypes
<1> HIDE DEF entry, v, b, m
<1> SUFFICES ASSUME NEW n \in VhostNames
             PROVE  /\ (\A i \in 1..Len(v) : ~Puts(v, i, n)) => a[n] = found[1][n]
                    /\ \A i \in 1..Len(v) : Puts(v, i, n) /\ (\A j \in 1..(i - 1) : ~Puts(v, j, n)) =>
                          v[i].put = found[1][n]
                    /\ (\A i \in 1..Len(v) : ~Links(v, i, n)) => b[n] = found[2][n]
                    /\ \A i \in 1..Len(v) : Links(v, i, n) => found[2][n] = NoFile
  BY DEF Undoable, v, entry, b
<1>4. /\ \A i \in 1..m : (Puts(v, i, n) <=> Puts(u, i, n)) /\ (Links(v, i, n) <=> Links(u, i, n))
      /\ Links(v, m + 1, n) <=> n = name
      /\ ~Puts(v, m + 1, n)
  BY <1>1, <1>2 DEF Puts, Links
<1>u. /\ (\A i \in 1..m : ~Puts(u, i, n)) => a[n] = found[1][n]
      /\ \A i \in 1..m : Puts(u, i, n) /\ (\A j \in 1..(i - 1) : ~Puts(u, j, n)) => u[i].put = found[1][n]
      /\ (\A i \in 1..m : ~Links(u, i, n)) => e[n] = found[2][n]
      /\ \A i \in 1..m : Links(u, i, n) => found[2][n] = NoFile
  BY DEF Undoable, m
<1>5. (\A i \in 1..Len(v) : ~Puts(v, i, n)) => a[n] = found[1][n]
  BY <1>2, <1>4, <1>u
<1>6. ASSUME NEW i \in 1..Len(v), Puts(v, i, n), \A j \in 1..(i - 1) : ~Puts(v, j, n)
      PROVE  v[i].put = found[1][n]
  <2>1. i \in 1..m
    BY <1>2, <1>4, <1>6
  <2>2. \A j \in 1..(i - 1) : j \in 1..m /\ ~Puts(u, j, n)
    BY <1>2, <1>4, <1>6, <2>1
  <2> QED BY <2>1, <2>2, <1>2, <1>4, <1>6, <1>u
<1>7. (\A i \in 1..Len(v) : ~Links(v, i, n)) => b[n] = found[2][n]
  BY <1>2, <1>3, <1>4, <1>u
<1>8. \A i \in 1..Len(v) : Links(v, i, n) => found[2][n] = NoFile
  <2>1. n = name => found[2][n] = NoFile
    BY <1>u
  <2> QED BY <2>1, <1>2, <1>4, <1>u
<1> QED BY <1>5, <1>6, <1>7, <1>8

(***************************************************************************)
(* The last change is taken back.                                          *)
(***************************************************************************)
LEMMA LastUndone ==
    ASSUME NEW u \in Seq(Undos), u # <<>>, NEW found, NEW a \in AvailTypes, NEW e \in EnabledTypes,
           Undoable(u, found, a, e), NEW last, last = u[Len(u)],
           NEW b, b = IF last.put = "unlink" THEN a ELSE [a EXCEPT ![last.name] = last.put],
           NEW d, d = IF last.put = "unlink" THEN [e EXCEPT ![last.name] = NoFile] ELSE e
    PROVE  /\ Undoable(SubSeq(u, 1, Len(u) - 1), found, b, d)
           /\ SubSeq(u, 1, Len(u) - 1) \in Seq(Undos) /\ b \in AvailTypes /\ d \in EnabledTypes
<1> DEFINE m == Len(u)
           v == SubSeq(u, 1, Len(u) - 1)
<1>1. m \in Nat /\ m >= 1 /\ m \in 1..m /\ last \in Undos
  <2>1. m \in Nat /\ m >= 1 /\ m \in 1..m
    BY EmptySeq
  <2> QED BY <2>1, ElementOfSeq
<1>2. last.name \in VhostNames /\ last.put \in Texts \cup {NoFile, "unlink"}
  BY <1>1 DEF Undos
<1>3. /\ v \in Seq(Undos) /\ Len(v) = m - 1 /\ \A i \in 1..(m - 1) : v[i] = u[i]
      /\ \A i \in 1..m : i = m \/ i \in 1..(m - 1)
      /\ \A i \in 1..(m - 1) : i \in 1..m
  <2>1. \A i \in 1..(m - 1) : u[i] \in Undos
    BY <1>1, ElementOfSeq
  <2>2. v \in Seq(Undos) /\ Len(v) = m - 1 /\ \A i \in 1..(m - 1) : v[i] = u[i]
    <3>1. m - 1 \in Nat /\ m - 1 \in Int /\ 1 \in Int
      BY <1>1
    <3> DEFINE k == m - 1
    <3>2. /\ v \in Seq(Undos) /\ Len(v) = IF 1 <= k THEN k - 1 + 1 ELSE 0
          /\ \A i \in 1..(k - 1 + 1) : v[i] = u[1 + i - 1]
      BY <2>1, <3>1, SubSeqProperties
    <3>3. (IF 1 <= k THEN k - 1 + 1 ELSE 0) = k /\ k - 1 + 1 = k /\ \A i \in 1..k : 1 + i - 1 = i
      BY <3>1, Whole
    <3> HIDE DEF v, k
    <3>4. v \in Seq(Undos) /\ Len(v) = k /\ \A i \in 1..k : v[i] = u[i]
      BY <3>2, <3>3
    <3> QED BY <3>4 DEF k
  <2> QED BY <1>1, <2>2
<1>4. b \in AvailTypes /\ d \in EnabledTypes
  BY <1>2 DEF AvailTypes, EnabledTypes
<1>5. /\ \A n \in VhostNames : b[n] = IF last.put # "unlink" /\ n = last.name THEN last.put ELSE a[n]
      /\ \A n \in VhostNames : d[n] = IF last.put = "unlink" /\ n = last.name THEN NoFile ELSE e[n]
  BY <1>2 DEF AvailTypes, EnabledTypes
<1> HIDE DEF v, m
<1> SUFFICES ASSUME NEW n \in VhostNames
             PROVE  /\ (\A i \in 1..Len(v) : ~Puts(v, i, n)) => b[n] = found[1][n]
                    /\ \A i \in 1..Len(v) : Puts(v, i, n) /\ (\A j \in 1..(i - 1) : ~Puts(v, j, n)) =>
                          v[i].put = found[1][n]
                    /\ (\A i \in 1..Len(v) : ~Links(v, i, n)) => d[n] = found[2][n]
                    /\ \A i \in 1..Len(v) : Links(v, i, n) => found[2][n] = NoFile
  BY <1>3, <1>4 DEF Undoable, v, m
<1>6. /\ \A i \in 1..(m - 1) : (Puts(v, i, n) <=> Puts(u, i, n)) /\ (Links(v, i, n) <=> Links(u, i, n))
      /\ Puts(u, m, n) <=> (n = last.name /\ last.put # "unlink")
      /\ Links(u, m, n) <=> (n = last.name /\ last.put = "unlink")
  BY <1>3 DEF Puts, Links, m
<1>u. /\ (\A i \in 1..m : ~Puts(u, i, n)) => a[n] = found[1][n]
      /\ \A i \in 1..m : Puts(u, i, n) /\ (\A j \in 1..(i - 1) : ~Puts(u, j, n)) => u[i].put = found[1][n]
      /\ (\A i \in 1..m : ~Links(u, i, n)) => e[n] = found[2][n]
      /\ \A i \in 1..m : Links(u, i, n) => found[2][n] = NoFile
  BY DEF Undoable, m
<1>l. u[m] = last
  BY DEF m
<1>7. ASSUME \A i \in 1..(m - 1) : ~Puts(v, i, n) PROVE b[n] = found[1][n]
  <2>1. \A i \in 1..(m - 1) : ~Puts(u, i, n)
    BY <1>6, <1>7
  <2>2. CASE Puts(u, m, n)
    BY <2>1, <2>2, <1>1, <1>5, <1>6, <1>u, <1>l
  <2>3. CASE ~Puts(u, m, n)
    BY <2>1, <2>3, <1>3, <1>5, <1>6, <1>u
  <2> QED BY <2>2, <2>3
<1>8. ASSUME NEW i \in 1..(m - 1), Puts(v, i, n), \A j \in 1..(i - 1) : ~Puts(v, j, n)
      PROVE  v[i].put = found[1][n]
  <2>1. \A j \in 1..(i - 1) : j \in 1..(m - 1) /\ ~Puts(u, j, n)
    BY <1>1, <1>6, <1>8
  <2> QED BY <2>1, <1>3, <1>6, <1>8, <1>u
<1>9. ASSUME \A i \in 1..(m - 1) : ~Links(v, i, n) PROVE d[n] = found[2][n]
  <2>1. \A i \in 1..(m - 1) : ~Links(u, i, n)
    BY <1>6, <1>9
  <2>2. CASE Links(u, m, n)
    BY <2>2, <1>1, <1>5, <1>6, <1>u
  <2>3. CASE ~Links(u, m, n)
    BY <2>1, <2>3, <1>3, <1>5, <1>6, <1>u
  <2> QED BY <2>2, <2>3
<1>10. \A i \in 1..(m - 1) : Links(v, i, n) => found[2][n] = NoFile
  BY <1>3, <1>6, <1>u
<1> QED BY <1>3, <1>7, <1>8, <1>9, <1>10

LEMMA UndoneTypes ==
    ASSUME NEW u \in Seq(Undos), u # <<>>, NEW a \in AvailTypes, NEW e \in EnabledTypes,
           NEW last, last = u[Len(u)],
           NEW b, b = IF last.put = "unlink" THEN a ELSE [a EXCEPT ![last.name] = last.put],
           NEW d, d = IF last.put = "unlink" THEN [e EXCEPT ![last.name] = NoFile] ELSE e
    PROVE  SubSeq(u, 1, Len(u) - 1) \in Seq(Undos) /\ b \in AvailTypes /\ d \in EnabledTypes
<1>1. Len(u) \in Nat /\ Len(u) >= 1 /\ Len(u) \in 1..Len(u)
  BY EmptySeq
<1>2. last \in Undos
  BY <1>1, ElementOfSeq
<1>3. last.name \in VhostNames /\ last.put \in Texts \cup {NoFile, "unlink"}
  BY <1>2 DEF Undos
<1>4. b \in AvailTypes /\ d \in EnabledTypes
  BY <1>3 DEF AvailTypes, EnabledTypes
<1>5. \A i \in 1..(Len(u) - 1) : u[i] \in Undos
  BY <1>1, ElementOfSeq
<1>6. SubSeq(u, 1, Len(u) - 1) \in Seq(Undos)
  <2>1. Len(u) - 1 \in Int /\ 1 \in Int
    BY <1>1
  <2> QED BY <2>1, <1>5, SubSeqProperties
<1> QED BY <1>4, <1>6

(***************************************************************************)
(* With nothing to undo, everything is as it was found.                    *)
(***************************************************************************)
LEMMA AsFound ==
    ASSUME NEW found \in AvailTypes \X EnabledTypes, NEW a \in AvailTypes, NEW e \in EnabledTypes,
           Undoable(<<>>, found, a, e)
    PROVE  found = <<a, e>> /\ found[1] = a /\ found[2] = e
<1>1. found[1] \in AvailTypes /\ found[2] \in EnabledTypes /\ found = <<found[1], found[2]>>
  OBVIOUS
<1>2. \A n \in VhostNames : a[n] = found[1][n] /\ e[n] = found[2][n]
  BY DEF Undoable
<1>3. a = found[1]
  BY <1>1, <1>2 DEF AvailTypes
<1>4. e = found[2]
  BY <1>1, <1>2 DEF EnabledTypes
<1> QED BY <1>1, <1>3, <1>4

-----------------------------------------------------------------------------
(* One lemma per action.                                                     *)

BeginsWith(u, files, found, alone) ==
    [u EXCEPT !.at = "read", !.asked = files, !.todo = files, !.found = found, !.alone = alone]

LEMMA Begun ==
    ASSUME NEW u \in InstallTypes, NEW files \in Seq(VhostFiles), NEW found \in AvailTypes \X EnabledTypes,
           NEW alone \in BOOLEAN
    PROVE  LET t == BeginsWith(u, files, found, alone) IN
           /\ t \in InstallTypes /\ t.at = "read" /\ t.asked = files /\ t.todo = files /\ t.undo = u.undo
           /\ (~u.changed => ~t.changed) /\ t.found = found /\ (t.alone <=> alone)
BY DEF InstallTypes, Forward, BeginsWith

LEMMA BeginVhosts ==
    ASSUME VhostsInv, scene' = scene, NEW w \in Installers, Begin(w)
    PROVE  VhostsInv'
<1>1. PICK files \in Asked(w) :
         install' = [o \in Installers |->
             IF o = w THEN [Uninstalled EXCEPT !.at = "read", !.asked = files, !.todo = files,
                                               !.found = <<available, enabled>>, !.alone = OthersRest(w)]
             ELSE [install[o] EXCEPT !.alone = FALSE]]
  BY DEF Begin
<1>2. /\ install[w].at \in Rests /\ loose' = (loose \/ ~OthersRest(w))
      /\ UNCHANGED <<available, enabled, loaded>>
      /\ available \in AvailTypes /\ enabled \in EnabledTypes /\ scene \in Scenes
      /\ install \in [Installers -> InstallTypes] /\ loose \in BOOLEAN
  BY DEF Begin, VhostsInv, VhostsTyped
<1>3. files \in Seq(VhostFiles) /\ \A i, j \in 1..Len(files) : files[i].name = files[j].name => i = j
  <2>1. PICK v \in scene.vhosts : files = v.files
    BY DEF Asked, RepoVhosts, Rendered
  <2> QED BY <2>1, <1>2, VhostsAssumption
<1>4. OthersRest(w) \in BOOLEAN
  BY DEF OthersRest
<1>5. PICK alone \in BOOLEAN : alone = OthersRest(w)
  BY <1>4
<1> DEFINE t == BeginsWith(Uninstalled, files, <<available, enabled>>, alone)
<1>6. /\ t \in InstallTypes /\ t.at = "read" /\ t.asked = files /\ t.todo = files /\ t.undo = <<>> /\ ~t.changed
      /\ t.found = <<available, enabled>> /\ (t.alone <=> alone)
  <2>1. <<available, enabled>> \in AvailTypes \X EnabledTypes
    BY <1>2
  <2> QED BY <2>1, <1>3, NoCall, Begun
<1>7. install'[w] = t /\ \A o \in Installers \ {w} : install'[o] = [install[o] EXCEPT !.alone = FALSE]
  BY <1>1, <1>5 DEF BeginsWith
<1>8. t.alone <=> OthersRest(w)
  BY <1>5, <1>6
<1>9. t \in InstallTypes
  BY <1>6
<1> HIDE DEF t
<1>10. ASSUME NEW s \in InstallTypes
       PROVE  LET r == [s EXCEPT !.alone = FALSE] IN
              /\ r \in InstallTypes /\ ~r.alone /\ r.at = s.at /\ r.asked = s.asked /\ r.todo = s.todo
              /\ r.undo = s.undo /\ r.changed = s.changed /\ r.found = s.found
  BY DEF InstallTypes
<1>11. ASSUME NEW o \in Installers \ {w}
       PROVE  /\ install'[o] \in InstallTypes /\ ~install'[o].alone /\ install'[o].at = install[o].at
              /\ install'[o].asked = install[o].asked /\ install'[o].todo = install[o].todo
              /\ install'[o].undo = install[o].undo /\ install'[o].changed = install[o].changed
              /\ install'[o].found = install[o].found
  <2>1. install[o] \in InstallTypes
    BY <1>2
  <2> QED BY <2>1, <1>7, <1>10
<1>12. install' \in [Installers -> InstallTypes]
  <2>1. \A o \in Installers : install'[o] \in InstallTypes
    BY <1>7, <1>9, <1>11
  <2> QED BY <2>1, <1>1
<1>13. VhostsTyped'
  BY <1>2, <1>4, <1>12 DEF VhostsTyped
<1>14. Queue(t)
  <2>1. Len(files) \in Nat
    BY <1>3
  <2>2. Pos(t) = 0
    BY <2>1, <1>6 DEF Pos
  <2>3. \A j \in 1..Len(files) : files[j] = files[0 + j]
    BY <2>1
  <2>4. <<available, enabled>> \in AvailTypes \X EnabledTypes
    BY <1>2
  <2> QED BY <1>3, <1>6, <2>2, <2>3, <2>4 DEF Queue, Forward
<1>15. ASSUME NEW o \in Installers \ {w} PROVE Queue(install'[o])
  BY <1>11, QueueSame DEF VhostsInv
<1>16. AloneAt(t, available, enabled, loaded)
  <2>1. Undoable(<<>>, <<available, enabled>>, available, enabled)
    BY DEF Undoable
  <2>2. Pos(t) = 0
    BY <1>3, <1>6 DEF Pos
  <2> QED BY <2>1, <2>2, <1>6 DEF AloneAt
<1>17. OthersRest(w) => OthersRest(w)'
  BY <1>11 DEF OthersRest
<1>18. Tight'
  <2> SUFFICES ASSUME ~loose' PROVE Tight'
    BY DEF Tight
  <2>1. ~loose /\ OthersRest(w)
    BY <1>2
  <2>2. \A o \in Installers : ~Busy(install[o])
    BY <2>1, <1>2 DEF OthersRest, Busy
  <2>3. CleanOf(ServedBy(available, enabled)) /\ loaded = ServedBy(available, enabled)
    BY <2>1, <2>2 DEF VhostsInv, Tight
  <2>4. Busy(install'[w]) /\ \A o \in Installers \ {w} : ~Busy(install'[o])
    BY <1>6, <1>7, <1>11, <2>2 DEF Busy, Rests
  <2>5. install'[w].alone /\ install'[w].found[1] = available /\ install'[w].found[2] = enabled
    <3>1. install'[w].alone
      BY <1>7, <1>8, <2>1
    <3>2. install'[w].found = <<available, enabled>>
      BY <1>6, <1>7
    <3> QED BY <3>1, <3>2
  <2>6. \A o \in Installers : Busy(install'[o]) => o = w
    BY <2>4
  <2> QED BY <2>3, <2>4, <2>5, <2>6, <1>2 DEF Tight, Busy
<1>19. ASSUME NEW o \in Installers
       PROVE  /\ Queue(install'[o])
              /\ install'[o].alone => OthersRest(o)' /\ AloneAt(install'[o], available', enabled', loaded')
  <2>1. CASE o = w
    BY <2>1, <1>2, <1>7, <1>8, <1>14, <1>16, <1>17
  <2>2. CASE o # w
    BY <2>2, <1>11, <1>15
  <2> QED BY <2>1, <2>2
<1> QED BY <1>13, <1>18, <1>19 DEF VhostsInv, Queue, AloneAt, Undoable, Puts, Links, Pos, Busy

GoesTo(s, at) == [s EXCEPT !.at = at]
ReadsTo(s, prev, at) == [s EXCEPT !.prev = prev, !.at = at]
Changes(s, entry, at) == [s EXCEPT !.undo = Append(@, entry), !.changed = TRUE, !.at = at]
Passes(s) == [s EXCEPT !.at = "read", !.todo = Tail(@)]
LinksFile(s, entry) == [s EXCEPT !.undo = Append(@, entry), !.changed = TRUE, !.at = "read", !.todo = Tail(@)]
Undoes(s, undo) == [s EXCEPT !.undo = undo]

LEMMA Moved ==
    ASSUME NEW s \in InstallTypes, NEW at \in Rests \cup Forward \cup {"undo"}
    PROVE  LET t == GoesTo(s, at) IN
           /\ t \in InstallTypes /\ t.at = at /\ t.asked = s.asked /\ t.todo = s.todo /\ t.undo = s.undo
           /\ t.changed = s.changed /\ t.found = s.found /\ t.alone = s.alone
BY DEF GoesTo, InstallTypes

LEMMA HasRead ==
    ASSUME NEW s \in InstallTypes, NEW at \in Rests \cup Forward \cup {"undo"}, NEW prev \in Texts \cup {NoFile}
    PROVE  LET t == ReadsTo(s, prev, at) IN
           /\ t \in InstallTypes /\ t.at = at /\ t.asked = s.asked /\ t.todo = s.todo /\ t.undo = s.undo
           /\ t.changed = s.changed /\ t.found = s.found /\ t.alone = s.alone /\ t.prev = prev
BY DEF ReadsTo, InstallTypes

LEMMA HasChanged ==
    ASSUME NEW s \in InstallTypes, NEW at \in Rests \cup Forward \cup {"undo"}, NEW entry \in Undos
    PROVE  LET t == Changes(s, entry, at) IN
           /\ t \in InstallTypes /\ t.at = at /\ t.asked = s.asked /\ t.todo = s.todo
           /\ t.undo = Append(s.undo, entry) /\ t.changed /\ t.found = s.found /\ t.alone = s.alone
           /\ t.prev = s.prev
<1>1. s.undo \in Seq(Undos)
  BY InstallFields
<1>2. Append(s.undo, entry) \in Seq(Undos)
  BY <1>1
<1> QED BY <1>2 DEF Changes, InstallTypes

LEMMA HasPassed ==
    ASSUME NEW s \in InstallTypes, s.todo # <<>>
    PROVE  LET t == Passes(s) IN
           /\ t \in InstallTypes /\ t.at = "read" /\ t.asked = s.asked /\ t.todo = Tail(s.todo)
           /\ t.undo = s.undo /\ t.changed = s.changed /\ t.found = s.found /\ t.alone = s.alone
<1>1. s.todo \in Seq(VhostFiles)
  BY InstallFields
<1>2. Tail(s.todo) \in Seq(VhostFiles) /\ "read" \in Rests \cup Forward \cup {"undo"}
  BY <1>1 DEF Forward
<1> QED BY <1>2 DEF Passes, InstallTypes

LEMMA HasLinked ==
    ASSUME NEW s \in InstallTypes, s.todo # <<>>, NEW entry \in Undos
    PROVE  LET t == LinksFile(s, entry) IN
           /\ t \in InstallTypes /\ t.at = "read" /\ t.asked = s.asked /\ t.todo = Tail(s.todo)
           /\ t.undo = Append(s.undo, entry) /\ t.changed /\ t.found = s.found /\ t.alone = s.alone
<1>1. s.undo \in Seq(Undos) /\ s.todo \in Seq(VhostFiles)
  BY InstallFields
<1>2. /\ Append(s.undo, entry) \in Seq(Undos) /\ Tail(s.todo) \in Seq(VhostFiles)
      /\ "read" \in Rests \cup Forward \cup {"undo"}
  BY <1>1 DEF Forward
<1> QED BY <1>2 DEF LinksFile, InstallTypes

LEMMA HasUndone ==
    ASSUME NEW s \in InstallTypes, NEW undo \in Seq(Undos)
    PROVE  LET t == Undoes(s, undo) IN
           /\ t \in InstallTypes /\ t.at = s.at /\ t.asked = s.asked /\ t.todo = s.todo /\ t.undo = undo
           /\ t.changed = s.changed /\ t.found = s.found /\ t.alone = s.alone
BY DEF Undoes, InstallTypes

(***************************************************************************)
(* What is known of a call under way.                                      *)
(***************************************************************************)
LEMMA UnderWay ==
    ASSUME VhostsInv, NEW w \in Installers
    PROVE  /\ install[w] \in InstallTypes /\ Queue(install[w])
           /\ install[w].alone => OthersRest(w) /\ AloneAt(install[w], available, enabled, loaded)
           /\ ~loose /\ Busy(install[w]) =>
                 /\ install[w].alone
                 /\ CleanOf(ServedBy(install[w].found[1], install[w].found[2]))
                 /\ loaded = ServedBy(install[w].found[1], install[w].found[2])
           /\ available \in AvailTypes /\ enabled \in EnabledTypes /\ loose \in BOOLEAN
           /\ install \in [Installers -> InstallTypes]
BY DEF VhostsInv, VhostsTyped, Tight

(***************************************************************************)
(* At rest again with everything as it was found.                          *)
(***************************************************************************)
LEMMA RestsAsFound ==
    ASSUME VhostsInv, NEW w \in Installers, Busy(install[w]), install[w].undo = <<>>, ~loose
    PROVE  /\ OthersRest(w) /\ CleanOf(ServedBy(available, enabled)) /\ loaded = ServedBy(available, enabled)
<1>1. install[w].alone /\ AloneAt(install[w], available, enabled, loaded) /\ OthersRest(w)
  BY UnderWay
<1>2. Undoable(<<>>, install[w].found, available, enabled)
  BY <1>1 DEF AloneAt
<1>3. install[w].found \in AvailTypes \X EnabledTypes
  BY UnderWay DEF Queue, Busy, Rests
<1>4. install[w].found[1] = available /\ install[w].found[2] = enabled
  BY <1>2, <1>3, UnderWay, AsFound
<1> QED BY <1>1, <1>4, UnderWay

LEMMA ReadVhosts ==
    ASSUME VhostsInv, scene' = scene, NEW w \in Installers, Read(w)
    PROVE  VhostsInv'
<1> DEFINE s == install[w]
<1>u. /\ s \in InstallTypes /\ Queue(s) /\ (s.alone => AloneAt(s, available, enabled, loaded))
      /\ available \in AvailTypes /\ enabled \in EnabledTypes /\ loose \in BOOLEAN
      /\ install \in [Installers -> InstallTypes]
  BY UnderWay
<1>f. s.todo \in Seq(VhostFiles) /\ s.changed \in BOOLEAN /\ Len(s.asked) \in Nat
  BY <1>u, InstallFields
<1>a. s.at = "read" /\ UNCHANGED <<available, enabled, loaded, loose>> /\ Busy(s)
  BY DEF Read, Busy, Rests
<1>1. CASE s.todo = <<>>
  <2> DEFINE at == IF s.changed THEN "test" ELSE "unchanged"
             t == GoesTo(s, at)
  <2>0. install' = [install EXCEPT ![w] = t]
    BY <1>1 DEF Read, GoesTo
  <2>1. at \in {"test", "unchanged"} /\ at \in Rests \cup Forward \cup {"undo"}
        /\ (at = "test" <=> s.changed)
    BY DEF Rests, Forward
  <2> HIDE DEF at
  <2>2. /\ t \in InstallTypes /\ t.at = at /\ t.asked = s.asked /\ t.todo = s.todo /\ t.undo = s.undo
        /\ t.changed = s.changed /\ t.found = s.found /\ t.alone = s.alone
    BY <1>u, <2>1, Moved
  <2> HIDE DEF t
  <2>3. Pos(t) = Pos(s)
    BY <2>2 DEF Pos
  <2>4. ~s.changed => s.undo = <<>>
    BY <1>u, <1>a DEF Queue, Forward
  <2>5. Queue(t)
    BY <1>u, <1>1, <1>a, <2>1, <2>2, <2>3, <2>4 DEF Queue, Forward
  <2>6. t.alone => AloneAt(t, available, enabled, loaded)
    BY <1>u, <1>a, <2>1, <2>2, <2>3 DEF AloneAt, Busy, Rests, Forward
  <2>7. Busy(t) <=> at = "test"
    BY <2>1, <2>2 DEF Busy, Rests
  <2>8. ~loose /\ ~Busy(t) => OthersRest(w) /\ CleanOf(ServedBy(available, enabled))
                             /\ loaded = ServedBy(available, enabled)
    BY <1>a, <2>1, <2>4, <2>7, RestsAsFound
  <2> QED BY <1>u, <1>a, <2>0, <2>2, <2>5, <2>6, <2>8, CallMoves
<1>2. CASE s.todo # <<>>
  <2>0. /\ File(w) = Head(s.todo) /\ Head(s.todo).name \in VhostNames
    BY <1>u, <1>2, FileHere DEF File
  <2> DEFINE prev == available[Head(s.todo).name]
             at == IF prev = Head(s.todo).text THEN "stat" ELSE "write"
             t == ReadsTo(s, prev, at)
  <2>1. install' = [install EXCEPT ![w] = t]
    BY <1>2, <2>0, <1>u DEF Read, ReadsTo
  <2>2. at \in {"stat", "write"} /\ at \in Rests \cup Forward \cup {"undo"} /\ prev \in Texts \cup {NoFile}
        /\ (at = "stat" => prev = Head(s.todo).text)
    BY <1>u, <2>0 DEF Forward, AvailTypes
  <2> HIDE DEF at
  <2>3. /\ t \in InstallTypes /\ t.at = at /\ t.asked = s.asked /\ t.todo = s.todo /\ t.undo = s.undo
        /\ t.changed = s.changed /\ t.found = s.found /\ t.alone = s.alone /\ t.prev = prev
    BY <1>u, <2>2, HasRead
  <2> HIDE DEF t
  <2>4. Pos(t) = Pos(s)
    BY <2>3 DEF Pos
  <2>5. Queue(t)
    BY <1>u, <1>2, <1>a, <2>2, <2>3, <2>4 DEF Queue, Forward
  <2>6. t.alone => AloneAt(t, available, enabled, loaded)
    BY <1>u, <1>a, <2>2, <2>3, <2>4 DEF AloneAt, Busy, Rests, Forward
  <2>7. Busy(t)
    BY <2>2, <2>3 DEF Busy, Rests
  <2> QED BY <1>u, <1>a, <2>1, <2>3, <2>5, <2>6, <2>7, CallMoves
<1> QED BY <1>1, <1>2

LEMMA WriteVhosts ==
    ASSUME VhostsInv, scene' = scene, NEW w \in Installers, Write(w)
    PROVE  VhostsInv'
<1> DEFINE s == install[w]
           f == Head(s.todo)
           entry == [name |-> f.name, put |-> s.prev]
           t == Changes(s, entry, "stat")
<1>u. /\ s \in InstallTypes /\ Queue(s) /\ (s.alone => AloneAt(s, available, enabled, loaded))
      /\ available \in AvailTypes /\ enabled \in EnabledTypes /\ loose \in BOOLEAN
      /\ install \in [Installers -> InstallTypes]
  BY UnderWay
<1>a. s.at = "write" /\ UNCHANGED <<enabled, loaded, loose>> /\ Busy(s)
  BY DEF Write, Busy, Rests
<1>f. s.todo # <<>> /\ s.prev \in Texts \cup {NoFile} /\ s.undo \in Seq(Undos)
  BY <1>u, <1>a, InstallFields DEF Queue
<1>h. /\ File(w) = f /\ f.name \in VhostNames /\ f.text \in Texts
      /\ \A i \in 1..Pos(s) : i \in 1..Len(s.asked) /\ s.asked[i] \in VhostFiles /\ s.asked[i].name # f.name
  BY <1>u, <1>f, FileHere DEF File
<1>1. entry \in Undos
  BY <1>f, <1>h DEF Undos
<1>2. /\ available' = [available EXCEPT ![f.name] = f.text]
      /\ install' = [install EXCEPT ![w] = t]
  BY <1>h DEF Write, Changes
<1>3. "stat" \in Rests \cup Forward \cup {"undo"}
  BY DEF Forward
<1>4. /\ t \in InstallTypes /\ t.at = "stat" /\ t.asked = s.asked /\ t.todo = s.todo
      /\ t.undo = Append(s.undo, entry) /\ t.changed /\ t.found = s.found /\ t.alone = s.alone
  BY <1>u, <1>1, <1>3, HasChanged
<1> HIDE DEF t
<1>5. Pos(t) = Pos(s)
  BY <1>4 DEF Pos
<1>6. Queue(t)
  BY <1>u, <1>a, <1>f, <1>4, <1>5 DEF Queue, Forward
<1>7. /\ available' \in AvailTypes /\ available'[f.name] = f.text
      /\ \A n \in VhostNames : n # f.name => available'[n] = available[n]
  BY <1>u, <1>h, <1>2 DEF AvailTypes
<1>8. ASSUME t.alone PROVE AloneAt(t, available', enabled, loaded)
  <2>1. /\ Undoable(s.undo, s.found, available, enabled) /\ s.prev = available[f.name]
        /\ \A i \in 1..Pos(s) : available[s.asked[i].name] = s.asked[i].text
    BY <1>u, <1>a, <1>4, <1>8 DEF AloneAt, Forward
  <2>2. Undoable(t.undo, t.found, available', enabled)
    <3>1. entry = [name |-> f.name, put |-> available[f.name]]
      BY <2>1
    <3>2. Undoable(Append(s.undo, entry), s.found, [available EXCEPT ![f.name] = f.text], enabled)
      BY <2>1, <3>1, <1>u, <1>f, <1>h, PutKept
    <3> QED BY <3>2, <1>2, <1>4
  <2>3. \A i \in 1..Pos(s) : available'[s.asked[i].name] = s.asked[i].text
    <3>1. \A i \in 1..Pos(s) : s.asked[i].name \in VhostNames
      BY <1>h DEF VhostFiles
    <3> QED BY <2>1, <3>1, <1>h, <1>7
  <2> QED BY <2>2, <2>3, <1>4, <1>5, <1>7 DEF AloneAt
<1>9. Busy(t)
  BY <1>4 DEF Busy, Rests
<1> QED BY <1>u, <1>a, <1>2, <1>4, <1>6, <1>7, <1>8, <1>9, CallMoves

LEMMA StatVhosts ==
    ASSUME VhostsInv, scene' = scene, NEW w \in Installers, Stat(w)
    PROVE  VhostsInv'
<1> DEFINE s == install[w]
           f == Head(s.todo)
<1>u. /\ s \in InstallTypes /\ Queue(s) /\ (s.alone => AloneAt(s, available, enabled, loaded))
      /\ available \in AvailTypes /\ enabled \in EnabledTypes /\ loose \in BOOLEAN
      /\ install \in [Installers -> InstallTypes]
  BY UnderWay
<1>a. s.at = "stat" /\ UNCHANGED <<available, enabled, loaded, loose>> /\ Busy(s) /\ s.todo # <<>>
  BY <1>u DEF Stat, Busy, Rests, Queue
<1>1. CASE install' = [install EXCEPT ![w].at = "read", ![w].todo = Tail(@)]
  <2> DEFINE t == Passes(s)
  <2>1. install' = [install EXCEPT ![w] = t]
    BY <1>1 DEF Passes
  <2>2. /\ t \in InstallTypes /\ t.at = "read" /\ t.asked = s.asked /\ t.todo = Tail(s.todo)
        /\ t.undo = s.undo /\ t.changed = s.changed /\ t.found = s.found /\ t.alone = s.alone
    BY <1>u, <1>a, HasPassed
  <2> HIDE DEF t
  <2>3. /\ Pos(t) \in Nat /\ \A j \in 1..Len(t.todo) : t.todo[j] = t.asked[Pos(t) + j]
        /\ \A i \in 1..Pos(t) : i \in 1..Pos(s) \/ t.asked[i] = Head(s.todo)
    BY <1>u, <1>a, <2>2, NextFile
  <2>4. Queue(t)
    BY <1>u, <1>a, <2>2, <2>3 DEF Queue, Forward
  <2>5. ASSUME t.alone PROVE AloneAt(t, available, enabled, loaded)
    <3>1. /\ Undoable(s.undo, s.found, available, enabled) /\ available[f.name] = f.text
          /\ \A i \in 1..Pos(s) : available[s.asked[i].name] = s.asked[i].text
      BY <1>u, <1>a, <2>2, <2>5 DEF AloneAt, Forward
    <3>2. \A i \in 1..Pos(t) : available[t.asked[i].name] = t.asked[i].text
      BY <3>1, <2>2, <2>3
    <3> QED BY <3>1, <3>2, <2>2 DEF AloneAt
  <2>6. Busy(t)
    BY <2>2 DEF Busy, Rests
  <2> QED BY <1>u, <1>a, <2>1, <2>2, <2>4, <2>5, <2>6, CallMoves
<1>2. CASE install' = [install EXCEPT ![w].at = "link"]
  <2> DEFINE t == GoesTo(s, "link")
  <2>1. install' = [install EXCEPT ![w] = t] /\ "link" \in Rests \cup Forward \cup {"undo"}
    BY <1>2 DEF GoesTo, Forward
  <2>2. /\ t \in InstallTypes /\ t.at = "link" /\ t.asked = s.asked /\ t.todo = s.todo /\ t.undo = s.undo
        /\ t.changed = s.changed /\ t.found = s.found /\ t.alone = s.alone
    BY <1>u, <2>1, Moved
  <2> HIDE DEF t
  <2>3. Pos(t) = Pos(s)
    BY <2>2 DEF Pos
  <2>4. Queue(t)
    BY <1>u, <1>a, <2>2, <2>3 DEF Queue, Forward
  <2>5. t.alone => AloneAt(t, available, enabled, loaded)
    BY <1>u, <1>a, <2>2, <2>3 DEF AloneAt, Busy, Rests, Forward
  <2>6. Busy(t)
    BY <2>2 DEF Busy, Rests
  <2> QED BY <1>u, <1>a, <2>1, <2>2, <2>4, <2>5, <2>6, CallMoves
<1> QED BY <1>1, <1>2 DEF Stat

(***************************************************************************)
(* A call that throws leaves nothing to hold but its place.                *)
(***************************************************************************)
LEMMA ThrowVhosts ==
    ASSUME VhostsInv, scene' = scene, NEW w \in Installers, Busy(install[w]), Throw(w),
           available' \in AvailTypes, enabled' \in EnabledTypes
    PROVE  VhostsInv'
<1> DEFINE s == install[w]
           t == GoesTo(s, "cut")
<1>u. s \in InstallTypes /\ Queue(s)
  BY UnderWay
<1>1. install' = [install EXCEPT ![w] = t] /\ loose' = TRUE /\ "cut" \in Rests \cup Forward \cup {"undo"}
  BY DEF Throw, GoesTo, Rests
<1>2. /\ t \in InstallTypes /\ t.at = "cut" /\ t.asked = s.asked /\ t.todo = s.todo /\ t.undo = s.undo
      /\ t.changed = s.changed /\ t.found = s.found /\ t.alone = s.alone
  BY <1>u, <1>1, Moved
<1> HIDE DEF t
<1>3. Pos(t) = Pos(s)
  BY <1>2 DEF Pos
<1>4. s.at # "idle"
  BY DEF Busy, Rests
<1>5. Queue(t)
  BY <1>u, <1>2, <1>3, <1>4 DEF Queue, Forward
<1>6. AloneAt(t, available', enabled', loaded')
  BY <1>2 DEF AloneAt, Busy, Rests, Forward
<1> QED BY <1>1, <1>2, <1>5, <1>6, CallMoves

LEMMA SymlinkVhosts ==
    ASSUME VhostsInv, scene' = scene, NEW w \in Installers, Symlink(w)
    PROVE  VhostsInv'
<1> DEFINE s == install[w]
           f == Head(s.todo)
           entry == [name |-> f.name, put |-> "unlink"]
           t == LinksFile(s, entry)
<1>u. /\ s \in InstallTypes /\ Queue(s) /\ (s.alone => AloneAt(s, available, enabled, loaded))
      /\ available \in AvailTypes /\ enabled \in EnabledTypes /\ loose \in BOOLEAN
      /\ install \in [Installers -> InstallTypes]
  BY UnderWay
<1>a. s.at = "link" /\ UNCHANGED <<available, loaded>> /\ Busy(s) /\ s.todo # <<>>
  BY <1>u DEF Symlink, Busy, Rests, Queue
<1>h. File(w) = f /\ f.name \in VhostNames /\ f.text \in Texts
  BY <1>u, <1>a, FileHere DEF File
<1>1. CASE enabled[f.name] # NoFile
  <2>1. Throw(w) /\ enabled' = enabled
    BY <1>1, <1>h DEF Symlink
  <2> QED BY <2>1, <1>u, <1>a, ThrowVhosts
<1>2. CASE enabled[f.name] = NoFile
  <2>1. /\ enabled' = [enabled EXCEPT ![f.name] = "link"] /\ loose' = loose
        /\ install' = [install EXCEPT ![w] = t]
    BY <1>2, <1>h, <1>u DEF Symlink, Linked, LinksFile
  <2>2. entry \in Undos /\ "read" \in Rests \cup Forward \cup {"undo"} /\ s.undo \in Seq(Undos)
    BY <1>h, <1>u, InstallFields DEF Undos, Forward
  <2>4. /\ t \in InstallTypes /\ t.at = "read" /\ t.asked = s.asked /\ t.todo = Tail(s.todo)
        /\ t.undo = Append(s.undo, entry) /\ t.changed /\ t.found = s.found /\ t.alone = s.alone
    BY <1>u, <1>a, <2>2, HasLinked
  <2> HIDE DEF t
  <2>5. /\ Pos(t) \in Nat /\ \A j \in 1..Len(t.todo) : t.todo[j] = t.asked[Pos(t) + j]
        /\ \A i \in 1..Pos(t) : i \in 1..Pos(s) \/ t.asked[i] = Head(s.todo)
    BY <1>u, <1>a, <2>4, NextFile
  <2>6. Queue(t)
    BY <1>u, <1>a, <2>4, <2>5 DEF Queue, Forward
  <2>7. enabled' \in EnabledTypes
    BY <1>u, <1>h, <2>1 DEF EnabledTypes
  <2>8. ASSUME t.alone PROVE AloneAt(t, available, enabled', loaded)
    <3>1. /\ Undoable(s.undo, s.found, available, enabled) /\ available[f.name] = f.text
          /\ \A i \in 1..Pos(s) : available[s.asked[i].name] = s.asked[i].text
      BY <1>u, <1>a, <2>4, <2>8 DEF AloneAt, Forward
    <3>2. Undoable(t.undo, t.found, available, enabled')
      <4>1. Undoable(Append(s.undo, entry), s.found, available, [enabled EXCEPT ![f.name] = "link"])
        BY <3>1, <1>u, <1>h, <1>2, <2>2, LinkKept
      <4> QED BY <4>1, <2>1, <2>4
    <3>3. \A i \in 1..Pos(t) : available[t.asked[i].name] = t.asked[i].text
      BY <3>1, <2>4, <2>5
    <3> QED BY <3>2, <3>3, <2>4 DEF AloneAt
  <2>9. Busy(t)
    BY <2>4 DEF Busy, Rests
  <2> QED BY <1>u, <1>a, <2>1, <2>4, <2>6, <2>7, <2>8, <2>9, CallMoves
<1> QED BY <1>1, <1>2

LEMMA TestVhosts ==
    ASSUME VhostsInv, scene' = scene, NEW w \in Installers, Test(w)
    PROVE  VhostsInv'
<1> DEFINE s == install[w]
           at == IF Clean THEN "reload" ELSE "undo"
           t == GoesTo(s, at)
<1>u. /\ s \in InstallTypes /\ Queue(s) /\ (s.alone => AloneAt(s, available, enabled, loaded))
      /\ available \in AvailTypes /\ enabled \in EnabledTypes /\ loose \in BOOLEAN
      /\ install \in [Installers -> InstallTypes]
  BY UnderWay
<1>a. s.at = "test" /\ UNCHANGED <<available, enabled, loaded, loose>> /\ Busy(s)
  BY DEF Test, Busy, Rests
<1>1. install' = [install EXCEPT ![w] = t]
  BY DEF Test, GoesTo
<1>2. at \in {"reload", "undo"} /\ at \in Rests \cup Forward \cup {"undo"}
  BY DEF Forward
<1> HIDE DEF at
<1>3. /\ t \in InstallTypes /\ t.at = at /\ t.asked = s.asked /\ t.todo = s.todo /\ t.undo = s.undo
      /\ t.changed = s.changed /\ t.found = s.found /\ t.alone = s.alone
  BY <1>u, <1>2, Moved
<1> HIDE DEF t
<1>4. Pos(t) = Pos(s)
  BY <1>3 DEF Pos
<1>5. Queue(t)
  BY <1>u, <1>a, <1>2, <1>3, <1>4 DEF Queue, Forward
<1>6. t.alone => AloneAt(t, available, enabled, loaded)
  BY <1>u, <1>a, <1>2, <1>3, <1>4 DEF AloneAt, Busy, Rests, Forward
<1>7. Busy(t)
  BY <1>2, <1>3 DEF Busy, Rests
<1> QED BY <1>u, <1>a, <1>1, <1>3, <1>5, <1>6, <1>7, CallMoves

LEMMA UndoVhosts ==
    ASSUME VhostsInv, scene' = scene, NEW w \in Installers, UndoOne(w)
    PROVE  VhostsInv'
<1> DEFINE s == install[w]
<1>u. /\ s \in InstallTypes /\ Queue(s) /\ (s.alone => AloneAt(s, available, enabled, loaded))
      /\ available \in AvailTypes /\ enabled \in EnabledTypes /\ loose \in BOOLEAN
      /\ install \in [Installers -> InstallTypes]
  BY UnderWay
<1>a. s.at = "undo" /\ UNCHANGED <<loaded, loose>> /\ Busy(s)
  BY DEF UndoOne, Busy, Rests
<1>f. s.undo \in Seq(Undos)
  BY <1>u, InstallFields
<1>1. CASE s.undo = <<>>
  <2> DEFINE t == GoesTo(s, "refused")
  <2>1. install' = [install EXCEPT ![w] = t] /\ UNCHANGED <<available, enabled>>
        /\ "refused" \in Rests \cup Forward \cup {"undo"}
    BY <1>1 DEF UndoOne, GoesTo, Rests
  <2>2. /\ t \in InstallTypes /\ t.at = "refused" /\ t.asked = s.asked /\ t.todo = s.todo /\ t.undo = s.undo
        /\ t.changed = s.changed /\ t.found = s.found /\ t.alone = s.alone
    BY <1>u, <2>1, Moved
  <2> HIDE DEF t
  <2>3. Pos(t) = Pos(s)
    BY <2>2 DEF Pos
  <2>4. Queue(t)
    BY <1>u, <1>a, <1>1, <2>2, <2>3 DEF Queue, Forward
  <2>5. t.alone => AloneAt(t, available, enabled, loaded)
    BY <1>u, <1>a, <2>2, <2>3 DEF AloneAt, Busy, Rests, Forward
  <2>6. ~Busy(t)
    BY <2>2 DEF Busy, Rests
  <2>7. ~loose => OthersRest(w) /\ CleanOf(ServedBy(available, enabled)) /\ loaded = ServedBy(available, enabled)
    BY <1>1, <1>a, RestsAsFound
  <2> QED BY <1>u, <1>a, <2>1, <2>2, <2>4, <2>5, <2>6, <2>7, CallMoves
<1>2. CASE s.undo # <<>>
  <2> DEFINE undo == SubSeq(s.undo, 1, Len(s.undo) - 1)
             last == s.undo[Len(s.undo)]
             t == Undoes(s, undo)
  <2>1. /\ install' = [install EXCEPT ![w] = t]
        /\ available' = IF last.put = "unlink" THEN available ELSE [available EXCEPT ![last.name] = last.put]
        /\ enabled' = IF last.put = "unlink" THEN [enabled EXCEPT ![last.name] = NoFile] ELSE enabled
    BY <1>2 DEF UndoOne, Undoes
  <2>2. undo \in Seq(Undos) /\ available' \in AvailTypes /\ enabled' \in EnabledTypes
    <3>1. PICK last1 : last1 = last
      OBVIOUS
    <3> HIDE DEF last
    <3>2. /\ available' = IF last1.put = "unlink" THEN available ELSE [available EXCEPT ![last1.name] = last1.put]
          /\ enabled' = IF last1.put = "unlink" THEN [enabled EXCEPT ![last1.name] = NoFile] ELSE enabled
      BY <2>1, <3>1
    <3>3. last1 = s.undo[Len(s.undo)]
      BY <3>1 DEF last
    <3> QED BY <1>2, <1>f, <1>u, <3>2, <3>3, UndoneTypes
  <2>3. /\ t \in InstallTypes /\ t.at = "undo" /\ t.asked = s.asked /\ t.todo = s.todo /\ t.undo = undo
        /\ t.changed = s.changed /\ t.found = s.found /\ t.alone = s.alone
    BY <1>u, <1>a, <2>2, HasUndone
  <2> HIDE DEF t
  <2>4. Pos(t) = Pos(s)
    BY <2>3 DEF Pos
  <2>5. Queue(t)
    BY <1>u, <1>a, <2>3, <2>4 DEF Queue, Forward
  <2>6. ASSUME t.alone PROVE AloneAt(t, available', enabled', loaded)
    <3>1. Undoable(s.undo, s.found, available, enabled)
      BY <1>u, <1>a, <2>3, <2>6 DEF AloneAt
    <3>2. Undoable(undo, s.found, available', enabled')
      BY <3>1, <1>2, <1>f, <1>u, <2>1, LastUndone
    <3> QED BY <3>2, <2>3 DEF AloneAt, Forward
  <2>7. Busy(t)
    BY <2>3 DEF Busy, Rests
  <2> QED BY <1>u, <1>a, <2>1, <2>2, <2>3, <2>5, <2>6, <2>7, CallMoves
<1> QED BY <1>1, <1>2

LEMMA ReloadVhosts ==
    ASSUME VhostsInv, scene' = scene, NEW w \in Installers, Reload(w)
    PROVE  VhostsInv'
<1> DEFINE s == install[w]
           t == GoesTo(s, "installed")
<1>u. /\ s \in InstallTypes /\ Queue(s) /\ (s.alone => AloneAt(s, available, enabled, loaded))
      /\ available \in AvailTypes /\ enabled \in EnabledTypes /\ loose \in BOOLEAN
      /\ install \in [Installers -> InstallTypes]
  BY UnderWay
<1>a. s.at = "reload" /\ UNCHANGED <<available, enabled>> /\ Busy(s)
  BY DEF Reload, Busy, Rests
<1>1. CASE ~Clean
  <2>1. Throw(w)
    BY <1>1 DEF Reload
  <2> QED BY <2>1, <1>u, <1>a, ThrowVhosts
<1>2. CASE Clean
  <2>1. /\ install' = [install EXCEPT ![w] = t] /\ loaded' = ServedBy(available, enabled)
        /\ loose' = (loose /\ ~OthersRest(w)) /\ CleanOf(ServedBy(available, enabled))
        /\ "installed" \in Rests \cup Forward \cup {"undo"}
    BY <1>2, ServedClean DEF Reload, GoesTo, Rests
  <2>2. /\ t \in InstallTypes /\ t.at = "installed" /\ t.asked = s.asked /\ t.todo = s.todo /\ t.undo = s.undo
        /\ t.changed = s.changed /\ t.found = s.found /\ t.alone = s.alone
    BY <1>u, <2>1, Moved
  <2> HIDE DEF t
  <2>3. Pos(t) = Pos(s)
    BY <2>2 DEF Pos
  <2>4. Queue(t)
    BY <1>u, <1>a, <2>2, <2>3 DEF Queue, Forward
  <2>5. t.alone => AloneAt(t, available, enabled, loaded')
    BY <1>u, <1>a, <2>1, <2>2, <2>3 DEF AloneAt, Busy, Rests, Forward
  <2>6. ~Busy(t)
    BY <2>2 DEF Busy, Rests
  <2>7. ~loose' => OthersRest(w)
    <3>1. ~loose => OthersRest(w)
      BY <1>a, UnderWay
    <3> QED BY <3>1, <2>1
  <2>8. loose' \in BOOLEAN
    BY <2>1, <1>u
  <2> QED BY <1>u, <1>a, <2>1, <2>2, <2>4, <2>5, <2>6, <2>7, <2>8, CallMoves
<1> QED BY <1>1, <1>2

LEMMA CutVhosts ==
    ASSUME VhostsInv, scene' = scene, NEW w \in Installers, CutShort(w)
    PROVE  VhostsInv'
<1> DEFINE s == install[w]
<1>u. s \in InstallTypes /\ Queue(s) /\ available \in AvailTypes /\ enabled \in EnabledTypes
  BY UnderWay
<1>1. /\ Busy(s) /\ Throw(w) /\ enabled' = enabled
      /\ \/ available' = available
         \/ s.at = "write" /\ available' = [available EXCEPT ![File(w).name] = "empty"]
  BY DEF CutShort, Busy
<1>2. available' \in AvailTypes
  <2>1. CASE s.at = "write" /\ available' = [available EXCEPT ![File(w).name] = "empty"]
    <3>1. s.todo # <<>>
      BY <1>u, <2>1 DEF Queue
    <3>2. File(w).name \in VhostNames
      BY <3>1, <1>u, FileHere DEF File
    <3> QED BY <2>1, <3>2, <1>u DEF AvailTypes, Texts
  <2> QED BY <2>1, <1>1, <1>u
<1> QED BY <1>1, <1>2, <1>u, ThrowVhosts

(***************************************************************************)
(* At rest what nginx serves is what the files say, unless a call was cut  *)
(* short or two overlapped; a refused call that was alone left everything  *)
(* as it found it, and one that went well has its vhosts served            *)
(* (lib/nginx.js:3-8, :104-160).                                           *)
(***************************************************************************)
THEOREM VhostsSettleHolds == Spec => []VhostsSettle
<1>1. VhostsInv /\ LeftInv /\ [Next]_vars => (VhostsInv /\ LeftInv)'
  <2> SUFFICES ASSUME VhostsInv, LeftInv, [Next]_vars PROVE VhostsInv' /\ LeftInv'
    OBVIOUS
  <2>1. scene' = scene
    BY LeftTaken
  <2>2. VhostsNext \/ UNCHANGED vhostVars
    BY DEF Next, vars, CheckStep, AlertStep, NewsStep, AcceptStep, VhostStep, CountStep
  <2>3. ASSUME VhostsNext PROVE VhostsInv'
    BY <2>1, <2>3, BeginVhosts, ReadVhosts, WriteVhosts, StatVhosts, SymlinkVhosts, TestVhosts, UndoVhosts,
       ReloadVhosts, CutVhosts DEF VhostsNext
  <2>4. LeftInv'
    BY LeftTaken DEF LeftStep
  <2> QED BY <2>1, <2>2, <2>3, <2>4, VhostsStay
<1>2. VhostsInv => VhostsSettle
  <2> SUFFICES ASSUME VhostsInv, \A w \in Installers : install[w].at \in Rests
               PROVE  /\ ~loose => Clean /\ loaded = Served
                      /\ \A w \in Installers : install[w].alone =>
                            /\ install[w].at = "refused" => install[w].found = <<available, enabled>>
                            /\ install[w].at = "installed" \/ (install[w].at = "unchanged" /\ ~loose) =>
                                  \A i \in DOMAIN install[w].asked :
                                     LET v == install[w].asked[i]
                                     IN  enabled[v.name] = "link" => loaded[v.name] = v.text
    BY DEF VhostsSettle
  <2>1. ~loose => Clean /\ loaded = Served
    BY ServedClean DEF VhostsInv, Tight, Busy
  <2>2. ASSUME NEW w \in Installers, install[w].alone, install[w].at = "refused"
        PROVE  install[w].found = <<available, enabled>>
    <3>1. install[w].undo = <<>> /\ install[w].found \in AvailTypes \X EnabledTypes
      BY <2>2, UnderWay DEF Queue
    <3>2. Undoable(<<>>, install[w].found, available, enabled)
      BY <2>2, <3>1, UnderWay DEF AloneAt
    <3> QED BY <3>1, <3>2, UnderWay, AsFound
  <2>3. ASSUME NEW w \in Installers, install[w].alone,
               install[w].at = "installed" \/ (install[w].at = "unchanged" /\ ~loose),
               NEW i \in DOMAIN install[w].asked, enabled[install[w].asked[i].name] = "link"
        PROVE  loaded[install[w].asked[i].name] = install[w].asked[i].text
    <3> DEFINE s == install[w]
               v == s.asked[i]
    <3>1. s \in InstallTypes /\ Queue(s) /\ AloneAt(s, available, enabled, loaded)
      BY <2>3, UnderWay
    <3>2. s.asked \in Seq(VhostFiles) /\ i \in 1..Len(s.asked) /\ Len(s.asked) \in Nat
      BY <3>1, InstallFields
    <3>3. v \in VhostFiles
      BY <3>2, ElementOfSeq
    <3>4. v.name \in VhostNames /\ v.text \in Texts
      BY <3>3 DEF VhostFiles
    <3>5. s.todo = <<>>
      BY <2>3, <3>1 DEF Queue
    <3>6. Pos(s) = Len(s.asked)
      BY <3>2, <3>5 DEF Pos
    <3>7. available[v.name] = v.text
      BY <2>3, <3>1, <3>2, <3>6 DEF AloneAt
    <3>8. loaded = ServedBy(available, enabled)
      BY <2>1, <2>3, <3>1, ServedClean DEF AloneAt
    <3>9. v.text # NoFile
      BY <3>4 DEF Texts, NoFile
    <3> QED BY <2>3, <3>4, <3>7, <3>8, <3>9 DEF ServedBy
  <2> QED BY <2>1, <2>2, <2>3
<1>3. Init => VhostsInv /\ LeftInv
  BY VhostsStart, LeftInit
<1> QED BY <1>1, <1>2, <1>3, PTL DEF Spec

-----------------------------------------------------------------------------
(* Sums over finite sets.                                                    *)

LEMMA SetInduction ==
    ASSUME NEW T, 0 \in T, \A n \in Nat : n \in T => n + 1 \in T
    PROVE  Nat \subseteq T
<1> SUFFICES ASSUME NEW n \in Nat, n \notin T PROVE FALSE
  OBVIOUS
<1> DEFINE S == {m \in 0..n : m \notin T}
           down == [m \in S |-> m - 1]
<1>1. IsFiniteSet(S)
  <2>1. IsFiniteSet(0..n)
    BY FS_Interval
  <2>2. S \in SUBSET (0..n)
    OBVIOUS
  <2> HIDE DEF S
  <2> QED BY <2>1, <2>2, FS_Subset
<1>2. \A m \in S : m # 0 /\ m - 1 \in S
  OBVIOUS
<1>3. down \in Injection(S, S)
  BY <1>2 DEF Injection, IsInjective
<1>4. down \in Surjection(S, S)
  BY <1>1, <1>3, FS_Injection
<1>5. n \in S
  OBVIOUS
<1>6. PICK m \in S : down[m] = n
  BY <1>4, <1>5 DEF Surjection
<1> QED BY <1>6

Pick(s) == CHOOSE x \in s : TRUE
SumsUp(g, m, S) ==
    /\ g \in [SUBSET S -> Nat]
    /\ \A s \in SUBSET S : g[s] = IF s = {} THEN 0 ELSE m[Pick(s)] + g[s \ {Pick(s)}]

LEMMA Smaller ==
    ASSUME NEW S, IsFiniteSet(S), NEW s \in SUBSET S
    PROVE  /\ IsFiniteSet(s) /\ Cardinality(s) \in Nat /\ (Cardinality(s) = 0 <=> s = {})
           /\ s # {} => Pick(s) \in s
           /\ \A x \in s : s \ {x} \in SUBSET S /\ Cardinality(s \ {x}) = Cardinality(s) - 1 /\ Cardinality(s) >= 1
                           /\ Cardinality(s \ {x}) \in Nat
<1>1. IsFiniteSet(s)
  BY FS_Subset
<1>2. Cardinality(s) \in Nat /\ (Cardinality(s) = 0 <=> s = {})
  BY <1>1, FS_CardinalityType, FS_EmptySet
<1>3. s # {} => Pick(s) \in s
  BY DEF Pick
<1>4. ASSUME NEW x \in s
      PROVE  s \ {x} \in SUBSET S /\ Cardinality(s \ {x}) = Cardinality(s) - 1 /\ Cardinality(s) >= 1
             /\ Cardinality(s \ {x}) \in Nat
  <2>1. IsFiniteSet(s \ {x}) /\ Cardinality(s \ {x}) = Cardinality(s) - 1
    BY <1>1, FS_RemoveElement
  <2>2. Cardinality(s) # 0
    BY <1>2
  <2>3. Cardinality(s) >= 1
    BY <1>2, <2>2
  <2>4. Cardinality(s \ {x}) \in Nat
    BY <2>1, FS_CardinalityType
  <2> QED BY <2>1, <2>3, <2>4
<1> QED BY <1>1, <1>2, <1>3, <1>4

LEMMA SomeSum ==
    ASSUME NEW S, IsFiniteSet(S), NEW m, \A x \in S : m[x] \in Nat
    PROVE  \E g : SumsUp(g, m, S)
<1> DEFINE UpTo(n, g) ==
             \A s \in SUBSET S : Cardinality(s) <= n =>
                g[s] = IF s = {} THEN 0 ELSE m[Pick(s)] + g[s \ {Pick(s)}]
           T == {n \in Nat : \E g \in [SUBSET S -> Nat] : UpTo(n, g)}
<1>1. 0 \in T
  <2> DEFINE g == [s \in SUBSET S |-> 0]
  <2>1. g \in [SUBSET S -> Nat]
    OBVIOUS
  <2>2. UpTo(0, g)
    <3> SUFFICES ASSUME NEW s \in SUBSET S, Cardinality(s) <= 0 PROVE s = {} /\ g[s] = 0
      OBVIOUS
    <3>1. Cardinality(s) \in Nat /\ (Cardinality(s) = 0 <=> s = {})
      BY Smaller
    <3> QED BY <3>1
  <2> QED BY <2>1, <2>2
<1>2. ASSUME NEW n \in Nat, n \in T PROVE n + 1 \in T
  <2>1. PICK g \in [SUBSET S -> Nat] : UpTo(n, g)
    BY <1>2
  <2> DEFINE h == [s \in SUBSET S |-> IF s = {} THEN 0 ELSE m[Pick(s)] + g[s \ {Pick(s)}]]
  <2>2. h \in [SUBSET S -> Nat]
    <3> SUFFICES ASSUME NEW s \in SUBSET S, s # {} PROVE m[Pick(s)] + g[s \ {Pick(s)}] \in Nat
      OBVIOUS
    <3>1. Pick(s) \in S /\ s \ {Pick(s)} \in SUBSET S
      BY Smaller
    <3>2. m[Pick(s)] \in Nat /\ g[s \ {Pick(s)}] \in Nat
      BY <3>1
    <3> QED BY <3>2
  <2>3. UpTo(n + 1, h)
    <3> SUFFICES ASSUME NEW s \in SUBSET S, Cardinality(s) <= n + 1, s # {}
                 PROVE  h[s] = m[Pick(s)] + h[s \ {Pick(s)}]
      OBVIOUS
    <3> DEFINE r == s \ {Pick(s)}
    <3>1. r \in SUBSET S /\ Cardinality(r) = Cardinality(s) - 1 /\ Cardinality(r) \in Nat /\ Cardinality(s) \in Nat
      BY Smaller
    <3>2. Cardinality(r) <= n
      BY <3>1
    <3>3. g[r] = IF r = {} THEN 0 ELSE m[Pick(r)] + g[r \ {Pick(r)}]
      BY <2>1, <3>1, <3>2
    <3>4. h[r] = g[r]
      BY <3>1, <3>3
    <3> QED BY <3>4
  <2> HIDE DEF h, UpTo
  <2>4. \E k \in [SUBSET S -> Nat] : UpTo(n + 1, k)
    BY <2>2, <2>3
  <2> QED BY <2>4
<1>3. Nat \subseteq T
  <2> HIDE DEF T
  <2> QED BY <1>1, <1>2, SetInduction
<1>4. Cardinality(S) \in T
  BY <1>3, FS_CardinalityType
<1>5. PICK g \in [SUBSET S -> Nat] : UpTo(Cardinality(S), g)
  BY <1>4
<1>6. \A s \in SUBSET S : Cardinality(s) <= Cardinality(S)
  BY FS_Subset
<1>7. SumsUp(g, m, S)
  BY <1>5, <1>6 DEF SumsUp
<1> QED BY <1>7

(***************************************************************************)
(* Whatever element is taken first.                                        *)
(***************************************************************************)
LEMMA SumTakes ==
    ASSUME NEW S, IsFiniteSet(S), NEW m, \A x \in S : m[x] \in Nat, NEW g, SumsUp(g, m, S)
    PROVE  \A s \in SUBSET S : \A x \in s : g[s] = m[x] + g[s \ {x}]
<1> DEFINE T == {n \in Nat : \A s \in SUBSET S : Cardinality(s) = n => \A x \in s : g[s] = m[x] + g[s \ {x}]}
<1>1. 0 \in T
  BY Smaller
<1>2. ASSUME NEW n \in Nat, n \in T PROVE n + 1 \in T
  <2>0. ASSUME NEW s \in SUBSET S, Cardinality(s) = n + 1, NEW x \in s PROVE g[s] = m[x] + g[s \ {x}]
    <3> DEFINE y == Pick(s)
    <3>1. y \in s /\ g[s] = m[y] + g[s \ {y}]
      BY Smaller DEF SumsUp
    <3> HIDE DEF y
    <3>2. CASE x = y
      BY <3>1, <3>2
    <3>3. CASE x # y
      <4>1. /\ s \ {y} \in SUBSET S /\ Cardinality(s \ {y}) = n /\ x \in s \ {y}
            /\ s \ {x} \in SUBSET S /\ Cardinality(s \ {x}) = n /\ y \in s \ {x}
        <5>1. Cardinality(s \ {x}) = Cardinality(s) - 1 /\ Cardinality(s \ {y}) = Cardinality(s) - 1
          BY <3>1, Smaller
        <5>2. Cardinality(s \ {x}) = n /\ Cardinality(s \ {y}) = n
          BY <2>0, <5>1
        <5> QED BY <3>1, <3>3, <5>2
      <4> DEFINE r == (s \ {y}) \ {x}
      <4>2. (s \ {x}) \ {y} = r /\ r \in SUBSET S
        OBVIOUS
      <4>3. g[s \ {y}] = m[x] + g[r]
        BY <1>2, <4>1
      <4>4. g[s \ {x}] = m[y] + g[(s \ {x}) \ {y}]
        BY <1>2, <4>1
      <4>5. m[x] \in Nat /\ m[y] \in Nat /\ g[r] \in Nat
        BY <3>1, <4>2 DEF SumsUp
      <4>6. g[s \ {x}] = m[y] + g[r]
        BY <4>2, <4>4
      <4> HIDE DEF r
      <4>7. g[s] = m[y] + (m[x] + g[r])
        BY <3>1, <4>3
      <4>8. m[y] + (m[x] + g[r]) = m[x] + (m[y] + g[r])
        BY <4>5
      <4> QED BY <4>6, <4>7, <4>8
    <3> QED BY <3>2, <3>3
  <2>1. n + 1 \in Nat
    OBVIOUS
  <2> QED BY <2>0, <2>1
<1>3. Nat \subseteq T
  <2> HIDE DEF T
  <2> QED BY <1>1, <1>2, SetInduction
<1>4. ASSUME NEW s \in SUBSET S PROVE \A x \in s : g[s] = m[x] + g[s \ {x}]
  <2>1. Cardinality(s) \in Nat
    BY Smaller
  <2>2. Cardinality(s) \in T
    BY <1>3, <2>1
  <2> QED BY <2>2
<1> QED BY <1>4

LEMMA SumIs ==
    ASSUME NEW S, IsFiniteSet(S), NEW m, \A x \in S : m[x] \in Nat
    PROVE  \E g : SumsUp(g, m, S) /\ SumFunctionOnSet(m, S) = g[S]
<1> DEFINE Fn(g) == g = [s \in SUBSET S |-> IF s = {} THEN 0 ELSE m[CHOOSE x \in s : TRUE]
                                                              + g[s \ {CHOOSE x \in s : TRUE}]]
           iter == CHOOSE g : Fn(g)
<1>1. PICK g : SumsUp(g, m, S)
  BY SomeSum
<1>2. Fn(g)
  BY <1>1 DEF SumsUp, Pick
<1>3. Fn(iter)
  BY <1>2
<1>4. \A s \in SUBSET S : iter[s] = IF s = {} THEN 0 ELSE m[Pick(s)] + iter[s \ {Pick(s)}]
  BY <1>3 DEF Pick
<1>5. SumFunctionOnSet(m, S) = iter[S]
  BY DEF SumFunctionOnSet, FoldFunctionOnSet, MapThenFoldSet, iter
<1> HIDE DEF iter, Fn
<1> DEFINE T == {n \in Nat : \A s \in SUBSET S : Cardinality(s) = n => iter[s] = g[s]}
<1>6. 0 \in T
  BY <1>1, <1>4, Smaller DEF SumsUp
<1>7. ASSUME NEW n \in Nat, n \in T PROVE n + 1 \in T
  <2> SUFFICES ASSUME NEW s \in SUBSET S, Cardinality(s) = n + 1 PROVE iter[s] = g[s]
    OBVIOUS
  <2>1. s # {} /\ Pick(s) \in s
    BY Smaller
  <2>2. s \ {Pick(s)} \in SUBSET S /\ Cardinality(s \ {Pick(s)}) = n
    BY <2>1, Smaller
  <2> QED BY <1>1, <1>4, <1>7, <2>1, <2>2 DEF SumsUp
<1>8. Nat \subseteq T
  <2> HIDE DEF T
  <2> QED BY <1>6, <1>7, SetInduction
<1>9. iter[S] = g[S]
  BY <1>8, FS_CardinalityType
<1> QED BY <1>1, <1>5, <1>9

LEMMA FamilyInduction ==
    ASSUME NEW S, IsFiniteSet(S), NEW F, {} \in F,
           \A s \in SUBSET S : \A x \in S \ s : s \in F => s \cup {x} \in F
    PROVE  SUBSET S \subseteq F
<1> DEFINE T == {n \in Nat : \A s \in SUBSET S : Cardinality(s) = n => s \in F}
<1>1. 0 \in T
  BY Smaller
<1>2. ASSUME NEW n \in Nat, n \in T PROVE n + 1 \in T
  <2>1. ASSUME NEW s \in SUBSET S, Cardinality(s) = n + 1 PROVE s \in F
    <3>1. s # {}
      BY <2>1, Smaller
    <3>2. PICK x \in s : TRUE
      BY <3>1
    <3>3. s \ {x} \in SUBSET S /\ Cardinality(s \ {x}) = n
      <4>1. Cardinality(s \ {x}) = Cardinality(s) - 1
        BY Smaller
      <4> QED BY <2>1, <4>1
    <3>4. s \ {x} \in F
      BY <1>2, <3>3
    <3>5. (s \ {x}) \cup {x} = s /\ x \in S \ (s \ {x})
      OBVIOUS
    <3> QED BY <3>3, <3>4, <3>5
  <2> QED BY <2>1
<1>3. Nat \subseteq T
  <2> HIDE DEF T
  <2> QED BY <1>1, <1>2, SetInduction
<1>4. ASSUME NEW s \in SUBSET S PROVE s \in F
  <2>1. Cardinality(s) \in T
    BY <1>3, Smaller
  <2> QED BY <2>1
<1> QED BY <1>4

\* The sum over a part of a set is the one its elements alone determine.
LEMMA SumAgrees ==
    ASSUME NEW S, IsFiniteSet(S), NEW m, \A x \in S : m[x] \in Nat, NEW g, SumsUp(g, m, S),
           NEW s \in SUBSET S, NEW k, \A x \in s : k[x] = m[x], NEW h, SumsUp(h, k, s)
    PROVE  g[s] = h[s]
<1>1. IsFiniteSet(s)
  BY FS_Subset
<1> DEFINE F == {t \in SUBSET s : g[t] = h[t]}
<1>2. {} \in F
  BY DEF SumsUp
<1>3. ASSUME NEW t \in SUBSET s, NEW x \in s \ t, t \in F PROVE t \cup {x} \in F
  <2>1. (t \cup {x}) \ {x} = t /\ t \cup {x} \in SUBSET s /\ t \cup {x} \in SUBSET S /\ x \in t \cup {x}
    OBVIOUS
  <2>2. g[t \cup {x}] = m[x] + g[(t \cup {x}) \ {x}]
    BY <2>1, SumTakes
  <2>3. \A y \in s : k[y] \in Nat
    OBVIOUS
  <2>4. h[t \cup {x}] = k[x] + h[(t \cup {x}) \ {x}]
    BY <1>1, <2>1, <2>3, SumTakes
  <2> QED BY <1>3, <2>1, <2>2, <2>4
<1>4. SUBSET s \subseteq F
  <2> HIDE DEF F
  <2> QED BY <1>1, <1>2, <1>3, FamilyInduction
<1> QED BY <1>4

\* SumFunctionOnSet as a sum: of nothing, and with one more.
LEMMA SumOfNone == ASSUME NEW m PROVE SumFunctionOnSet(m, {}) = 0
<1>1. IsFiniteSet({}) /\ \A x \in {} : m[x] \in Nat
  BY FS_EmptySet
<1>2. PICK g : SumsUp(g, m, {}) /\ SumFunctionOnSet(m, {}) = g[{}]
  BY <1>1, SumIs
<1> QED BY <1>2 DEF SumsUp

LEMMA SumIsNat ==
    ASSUME NEW S, IsFiniteSet(S), NEW m, \A x \in S : m[x] \in Nat
    PROVE  SumFunctionOnSet(m, S) \in Nat
<1>1. PICK g : SumsUp(g, m, S) /\ SumFunctionOnSet(m, S) = g[S]
  BY SumIs
<1> QED BY <1>1 DEF SumsUp

LEMMA SumSame ==
    ASSUME NEW S, IsFiniteSet(S), NEW m, \A x \in S : m[x] \in Nat, NEW k, \A x \in S : k[x] = m[x]
    PROVE  SumFunctionOnSet(k, S) = SumFunctionOnSet(m, S)
<1>1. PICK g : SumsUp(g, m, S) /\ SumFunctionOnSet(m, S) = g[S]
  BY SumIs
<1>2. \A x \in S : k[x] \in Nat
  OBVIOUS
<1>3. PICK h : SumsUp(h, k, S) /\ SumFunctionOnSet(k, S) = h[S]
  BY <1>2, SumIs
<1>4. g[S] = h[S]
  BY <1>1, <1>3, SumAgrees
<1> QED BY <1>1, <1>3, <1>4

LEMMA SumOneMore ==
    ASSUME NEW S, IsFiniteSet(S), NEW x, x \notin S, NEW m, \A y \in S \cup {x} : m[y] \in Nat
    PROVE  SumFunctionOnSet(m, S \cup {x}) = m[x] + SumFunctionOnSet(m, S)
<1> DEFINE A == S \cup {x}
<1>1. IsFiniteSet(A) /\ S \in SUBSET A /\ x \in A /\ A \ {x} = S
  BY FS_AddElement
<1> HIDE DEF A
<1>2. \A y \in A : m[y] \in Nat
  BY DEF A
<1>3. PICK g : SumsUp(g, m, A) /\ SumFunctionOnSet(m, A) = g[A]
  BY <1>1, <1>2, SumIs
<1>4. g[A] = m[x] + g[S]
  BY <1>1, <1>2, <1>3, SumTakes
<1>5. PICK h : SumsUp(h, m, S) /\ SumFunctionOnSet(m, S) = h[S]
  BY <1>2, SumIs DEF A
<1>6. g[S] = h[S]
  BY <1>1, <1>2, <1>3, <1>5, SumAgrees
<1> QED BY <1>3, <1>4, <1>5, <1>6 DEF A

LEMMA SumGrows ==
    ASSUME NEW S, IsFiniteSet(S), NEW m, NEW k, \A x \in S : m[x] \in Nat /\ k[x] \in Nat /\ m[x] <= k[x]
    PROVE  SumFunctionOnSet(m, S) <= SumFunctionOnSet(k, S)
<1> DEFINE F == {s \in SUBSET S : SumFunctionOnSet(m, s) <= SumFunctionOnSet(k, s)}
<1>1. {} \in F
  BY SumOfNone
<1>2. ASSUME NEW s \in SUBSET S, NEW x \in S \ s, s \in F PROVE s \cup {x} \in F
  <2>1. IsFiniteSet(s) /\ x \notin s /\ \A y \in s \cup {x} : m[y] \in Nat /\ k[y] \in Nat
    BY FS_Subset
  <2>2. SumFunctionOnSet(m, s \cup {x}) = m[x] + SumFunctionOnSet(m, s)
    BY <2>1, SumOneMore
  <2>3. SumFunctionOnSet(k, s \cup {x}) = k[x] + SumFunctionOnSet(k, s)
    BY <2>1, SumOneMore
  <2>4. SumFunctionOnSet(m, s) \in Nat
    BY <2>1, SumIsNat
  <2>5. SumFunctionOnSet(k, s) \in Nat
    BY <2>1, SumIsNat
  <2> QED BY <1>2, <2>2, <2>3, <2>4, <2>5
<1>3. SUBSET S \subseteq F
  <2> HIDE DEF F
  <2> QED BY <1>1, <1>2, FamilyInduction
<1> QED BY <1>3

LEMMA SumOfBoth ==
    ASSUME NEW A, NEW B, IsFiniteSet(A), IsFiniteSet(B), A \cap B = {},
           NEW m, \A x \in A \cup B : m[x] \in Nat
    PROVE  SumFunctionOnSet(m, A \cup B) = SumFunctionOnSet(m, A) + SumFunctionOnSet(m, B)
<1> DEFINE F == {s \in SUBSET B : SumFunctionOnSet(m, A \cup s) = SumFunctionOnSet(m, A) + SumFunctionOnSet(m, s)}
<1>0. SumFunctionOnSet(m, A) \in Nat
  BY SumIsNat
<1>1. {} \in F
  <2>1. A \cup {} = A
    OBVIOUS
  <2> QED BY <1>0, <2>1, SumOfNone
<1>2. ASSUME NEW s \in SUBSET B, NEW x \in B \ s, s \in F PROVE s \cup {x} \in F
  <2>1. IsFiniteSet(s) /\ x \notin s /\ \A y \in s \cup {x} : m[y] \in Nat
    BY FS_Subset
  <2>2. SumFunctionOnSet(m, s \cup {x}) = m[x] + SumFunctionOnSet(m, s)
    BY <2>1, SumOneMore
  <2>3. SumFunctionOnSet(m, s) \in Nat
    BY <2>1, SumIsNat
  <2> DEFINE C == A \cup s
  <2>4. IsFiniteSet(C)
    BY <2>1, FS_Union
  <2>5. x \notin C /\ \A y \in C \cup {x} : m[y] \in Nat
    OBVIOUS
  <2>6. C \cup {x} = A \cup (s \cup {x})
    OBVIOUS
  <2> HIDE DEF C
  <2>7. SumFunctionOnSet(m, C \cup {x}) = m[x] + SumFunctionOnSet(m, C)
    BY <2>4, <2>5, SumOneMore
  <2>8. SumFunctionOnSet(m, C) = SumFunctionOnSet(m, A) + SumFunctionOnSet(m, s)
    BY <1>2 DEF C
  <2>9. m[x] \in Nat
    OBVIOUS
  <2>10. SumFunctionOnSet(m, A \cup (s \cup {x})) = m[x] + (SumFunctionOnSet(m, A) + SumFunctionOnSet(m, s))
    BY <2>6, <2>7, <2>8
  <2>11. @ = SumFunctionOnSet(m, A) + (m[x] + SumFunctionOnSet(m, s))
    BY <1>0, <2>3, <2>9
  <2>12. @ = SumFunctionOnSet(m, A) + SumFunctionOnSet(m, s \cup {x})
    BY <2>2
  <2> QED BY <2>10, <2>11, <2>12
<1>3. SUBSET B \subseteq F
  <2>1. IsFiniteSet(B)
    OBVIOUS
  <2> HIDE DEF F
  <2> QED BY ONLY <1>1, <1>2, <2>1, FamilyInduction
<1> QED BY <1>3

-----------------------------------------------------------------------------
(***************************************************************************)
(* The count of sessions.  FirstFields(n): the fields of the first n parts.      *)
(***************************************************************************)
FirstFields(n) == UNION {FieldsOf(Parts[i]) : i \in 1..n}
Within(c, n) ==
    /\ SumFunctionOnSet(c.stayed, FirstFields(n)) <= c.count
    /\ c.count <= SumFunctionOnSet(c.came, FirstFields(n))

CensusTypes == [at : {"idle", "units", "parts", "done"}, next : Nat, count : Nat \cup {None},
                stayed : [Fields -> Nat], came : [Fields -> Nat], blind : BOOLEAN,
                odd : SUBSET (Fields \X OddKinds)]

\* What the count under way, or the last one, has to do with the sessions.
Counting(c, now) ==
    /\ c.at # "idle" => \A f \in Fields : c.stayed[f] <= now[f] /\ now[f] <= c.came[f]
    /\ c.at = "units" => c.next = 1
    /\ c.at = "parts" => /\ c.next \in 1..Len(Parts) /\ c.count \in Nat
                         /\ ~c.blind => Within(c, c.next - 1)
    /\ c.at = "done" /\ c.count # None /\ up # {} /\ ~c.blind => Within(c, Len(Parts))

ProbesInv ==
    /\ scene \in Scenes /\ sessions \in [Fields -> 0..MaxSessions]
    /\ census \in CensusTypes /\ Counting(census, sessions)

LEMMA PartShape ==
    ASSUME scene \in Scenes
    PROVE  /\ Len(Parts) \in Nat /\ DOMAIN Parts = 1..Len(Parts)
           /\ \A i \in 1..Len(Parts) :
                 /\ Parts[i].kind \in {"array", "field", "query"}
                 /\ FieldsOf(Parts[i]) \subseteq Fields /\ IsFiniteSet(FieldsOf(Parts[i]))
                 /\ IsFiniteSet(Parts[i].add) /\ Parts[i].field \notin Parts[i].add
                 /\ \A j \in 1..Len(Parts) : i # j => FieldsOf(Parts[i]) \cap FieldsOf(Parts[j]) = {}
<1>1. Parts \in Seq(PartTypes)
  BY ProbesAssumption DEF Parts
<1>2. Len(Parts) \in Nat /\ DOMAIN Parts = 1..Len(Parts)
  BY <1>1
<1>3. ASSUME NEW i \in 1..Len(Parts)
      PROVE  /\ IsFiniteSet(Parts[i].add) /\ Parts[i].field \notin Parts[i].add
             /\ \A j \in 1..Len(Parts) : i # j => FieldsOf(Parts[i]) \cap FieldsOf(Parts[j]) = {}
  BY <1>2, ProbesAssumption DEF Parts
<1>4. ASSUME NEW i \in 1..Len(Parts)
      PROVE  /\ FieldsOf(Parts[i]) \subseteq Fields /\ IsFiniteSet(FieldsOf(Parts[i]))
  <2>1. FieldsOf(Parts[i]) \subseteq Fields
    BY <1>2 DEF Fields
  <2>2. FieldsOf(Parts[i]) = Parts[i].add \cup {Parts[i].field}
    BY DEF FieldsOf
  <2>3. IsFiniteSet(Parts[i].add \cup {Parts[i].field})
    BY <1>3, FS_AddElement
  <2> QED BY <2>1, <2>2, <2>3
<1>5. ASSUME NEW i \in 1..Len(Parts) PROVE Parts[i].kind \in {"array", "field", "query"}
  <2>1. Parts[i] \in PartTypes
    BY <1>1, <1>2
  <2> QED BY <2>1 DEF PartTypes
<1> QED BY <1>2, <1>3, <1>4, <1>5

\* One part more.
LEMMA AskedNext ==
    ASSUME scene \in Scenes, NEW n \in 1..Len(Parts)
    PROVE  /\ FirstFields(n) = FirstFields(n - 1) \cup FieldsOf(Parts[n])
           /\ FirstFields(n - 1) \cap FieldsOf(Parts[n]) = {}
<1>1. n \in Nat /\ 1..n = (1..(n - 1)) \cup {n} /\ \A i \in 1..(n - 1) : i # n /\ i \in 1..Len(Parts)
  BY PartShape
<1>2. \A i \in 1..(n - 1) : FieldsOf(Parts[i]) \cap FieldsOf(Parts[n]) = {}
  BY <1>1, PartShape
<1>3. FirstFields(n) = FirstFields(n - 1) \cup FieldsOf(Parts[n])
  BY <1>1 DEF FirstFields
<1>4. FirstFields(n - 1) \cap FieldsOf(Parts[n]) = {}
  BY <1>2 DEF FirstFields
<1> QED BY <1>3, <1>4

LEMMA AskedFinite ==
    ASSUME scene \in Scenes
    PROVE  /\ \A n \in 0..Len(Parts) : IsFiniteSet(FirstFields(n)) /\ FirstFields(n) \subseteq Fields
           /\ FirstFields(0) = {} /\ Fields = FirstFields(Len(Parts))
<1>1. FirstFields(0) = {}
  BY DEF FirstFields
<1>2. Fields = FirstFields(Len(Parts))
  BY PartShape DEF FirstFields, Fields
<1> DEFINE T == {n \in Nat : n <= Len(Parts) => IsFiniteSet(FirstFields(n)) /\ FirstFields(n) \subseteq Fields}
<1>3. 0 \in T
  BY <1>1, FS_EmptySet
<1>4. ASSUME NEW n \in Nat, n \in T PROVE n + 1 \in T
  <2>1. ASSUME n + 1 <= Len(Parts) PROVE IsFiniteSet(FirstFields(n + 1)) /\ FirstFields(n + 1) \subseteq Fields
    <3>1. n + 1 \in 1..Len(Parts) /\ n <= Len(Parts) /\ (n + 1) - 1 = n
      BY <2>1, PartShape
    <3>2. FirstFields(n + 1) = FirstFields(n) \cup FieldsOf(Parts[n + 1])
      BY <3>1, AskedNext
    <3>3. IsFiniteSet(FirstFields(n)) /\ FirstFields(n) \subseteq Fields
      BY <1>4, <3>1
    <3>4. IsFiniteSet(FieldsOf(Parts[n + 1])) /\ FieldsOf(Parts[n + 1]) \subseteq Fields
      BY <3>1, PartShape
    <3>5. IsFiniteSet(FirstFields(n) \cup FieldsOf(Parts[n + 1]))
      BY <3>3, <3>4, FS_Union
    <3> QED BY <3>2, <3>3, <3>4, <3>5
  <2> QED BY <2>1
<1>5. Nat \subseteq T
  <2> HIDE DEF T
  <2> QED BY <1>3, <1>4, SetInduction
<1> QED BY <1>1, <1>2, <1>5, PartShape

(***************************************************************************)
(* What a part's answer comes to.                                          *)
(***************************************************************************)
LEMMA HonestCount ==
    ASSUME scene \in Scenes, sessions \in [Fields -> 0..MaxSessions], NEW i \in 1..Len(Parts)
    PROVE  /\ CountOne(Parts[i], Honest(Parts[i])) = SumFunctionOnSet(sessions, FieldsOf(Parts[i]))
           /\ CountOne(Parts[i], Honest(Parts[i])) \in Nat
<1> DEFINE p == Parts[i]
           a == Honest(p)
           one == [f \in p.add |-> Extra(a[f])]
<1>1. /\ FieldsOf(p) \subseteq Fields /\ IsFiniteSet(FieldsOf(p)) /\ IsFiniteSet(p.add) /\ p.field \notin p.add
      /\ FieldsOf(p) = p.add \cup {p.field}
  BY PartShape DEF FieldsOf
<1>2. \A f \in FieldsOf(p) : sessions[f] \in Nat /\ sessions[f] # None
  BY <1>1, ProbesAssumption
<1>3. \A f \in FieldsOf(p) : a[f].is = "number" /\ a[f].n = sessions[f]
  BY DEF Honest, Value
<1>4. \A f \in FieldsOf(p) : Extra(a[f]) = sessions[f] /\ Number(a[f]) = sessions[f] /\ List(a[f]) = sessions[f]
  BY <1>3 DEF Extra, Number, List
<1>5. SumFunctionOnSet(one, p.add) = SumFunctionOnSet(sessions, p.add)
  <2>1. \A f \in p.add : sessions[f] \in Nat /\ one[f] = sessions[f]
    BY <1>1, <1>2, <1>4
  <2> HIDE DEF one
  <2> QED BY <1>1, <2>1, SumSame
<1>6. SumFunction(one) = SumFunctionOnSet(one, p.add)
  BY DEF SumFunction, SumFunctionOnSet, FoldFunction
<1> DEFINE main == IF p.kind = "array" THEN List(a[p.field]) ELSE Number(a[p.field])
           extras == {Extra(a[f]) : f \in p.add}
<1>7. main = sessions[p.field] /\ None \notin {main} \cup extras
  BY <1>1, <1>2, <1>4
<1>8. CountOne(p, a) = main + SumFunction(one)
  <2>1. CountOne(p, a) = IF None \in {main} \cup extras THEN None ELSE main + SumFunction(one)
    BY DEF CountOne
  <2> HIDE DEF main, extras, one
  <2> QED BY <1>7, <2>1
<1>9. SumFunctionOnSet(sessions, FieldsOf(p)) = sessions[p.field] + SumFunctionOnSet(sessions, p.add)
  <2>1. \A y \in p.add \cup {p.field} : sessions[y] \in Nat
    BY <1>1, <1>2
  <2> QED BY <1>1, <2>1, SumOneMore
<1>10. SumFunctionOnSet(sessions, FieldsOf(p)) \in Nat
  BY <1>1, <1>2, SumIsNat
<1> HIDE DEF main, one, a
<1> QED BY <1>5, <1>6, <1>7, <1>8, <1>9, <1>10 DEF a

\* A field that is not as it is: the count is a number only if the main one is null or
\* the field is absent, blank or true.
TakenForCount(p, f, is) == (is = "null" /\ f = p.field) \/ is \in {"absent", "blank", "true"}
OddAnswer(p, f, is) == [Honest(p) EXCEPT ![f] = Value(is, 0)]
OddIsCounted(p, f, is) ==
    /\ CountOne(p, OddAnswer(p, f, is)) \in Nat \cup {None}
    /\ CountOne(p, OddAnswer(p, f, is)) = None \/ TakenForCount(p, f, is)
    /\ OddAnswer(p, f, is)[f].is = is

LEMMA OddCount ==
    ASSUME scene \in Scenes, sessions \in [Fields -> 0..MaxSessions], NEW i \in 1..Len(Parts),
           NEW f \in FieldsOf(Parts[i]), NEW is \in OddKinds
    PROVE  OddIsCounted(Parts[i], f, is)
<1> DEFINE p == Parts[i]
           a == OddAnswer(p, f, is)
           one == [g \in p.add |-> Extra(a[g])]
           main == IF p.kind = "array" THEN List(a[p.field]) ELSE Number(a[p.field])
           extras == {Extra(a[g]) : g \in p.add}
<1>1. /\ FieldsOf(p) \subseteq Fields /\ IsFiniteSet(p.add) /\ p.field \notin p.add
      /\ FieldsOf(p) = p.add \cup {p.field}
  BY PartShape DEF FieldsOf
<1>2. /\ a[f] = Value(is, 0)
      /\ \A g \in FieldsOf(p) : g # f => a[g].is = "number" /\ a[g].n = sessions[g]
  BY DEF OddAnswer, Honest, Value
<1> HIDE DEF a
<1>3. \A g \in FieldsOf(p) : sessions[g] \in Nat
  BY <1>1, ProbesAssumption
<1>4. \A g \in FieldsOf(p) : /\ Extra(a[g]) \in Nat \cup {None} /\ Number(a[g]) \in Nat \cup {None}
                             /\ List(a[g]) \in Nat \cup {None}
  <2>1. ASSUME NEW g \in FieldsOf(p), g # f
        PROVE  Extra(a[g]) = sessions[g] /\ Number(a[g]) = sessions[g] /\ List(a[g]) = sessions[g]
    <3>1. a[g].is = "number" /\ a[g].n = sessions[g]
      BY <1>2, <2>1
    <3> QED BY <3>1 DEF Extra, Number, List
  <2>2. Extra(a[f]) \in {0, 1, None} /\ Number(a[f]) \in {0, 1, None} /\ List(a[f]) \in {0, 1, None}
    BY <1>2 DEF Value, Extra, Number, List, OddKinds
  <2> QED BY <1>3, <2>1, <2>2
<1>5. a[f].is = is
  BY <1>2 DEF Value
<1>6. CountOne(p, a) = IF None \in {main} \cup extras THEN None ELSE main + SumFunction(one)
  BY DEF CountOne
<1>7. ASSUME None \notin {main} \cup extras
      PROVE  CountOne(p, a) \in Nat /\ TakenForCount(p, f, is)
  <2>1. main \in Nat
    BY <1>1, <1>4, <1>7
  <2>2. \A g \in p.add : one[g] \in Nat
    BY <1>1, <1>4, <1>7
  <2>3. SumFunctionOnSet(one, p.add) \in Nat
    <3> HIDE DEF one
    <3> QED BY <1>1, <2>2, SumIsNat
  <2>4. SumFunction(one) = SumFunctionOnSet(one, p.add)
    BY DEF SumFunction, SumFunctionOnSet, FoldFunction
  <2>5. CountOne(p, a) = main + SumFunction(one)
    <3> HIDE DEF main, extras, one
    <3> QED BY <1>6, <1>7
  <2>6. CountOne(p, a) \in Nat
    <3> HIDE DEF main, one
    <3> QED BY <2>1, <2>3, <2>4, <2>5
  <2>7. CASE f = p.field
    <3>1. main # None
      BY <1>7
    <3>2. is # "text"
      BY <1>2, <2>7, <3>1 DEF Value, List, Number
    <3> QED BY <2>6, <2>7, <3>2 DEF TakenForCount, OddKinds
  <2>8. CASE f \in p.add
    <3>1. Extra(a[f]) # None
      BY <1>7, <2>8
    <3>2. is \in {"absent", "blank", "true"}
      BY <1>2, <3>1 DEF Value, Extra, Number, OddKinds
    <3> QED BY <2>6, <3>2 DEF TakenForCount
  <2> QED BY <1>1, <2>7, <2>8
<1>8. None \in {main} \cup extras => CountOne(p, a) = None
  <2> HIDE DEF main, extras, one
  <2> QED BY <1>6
<1> QED BY <1>5, <1>7, <1>8 DEF a, OddIsCounted

(***************************************************************************)
(* The steps.                                                              *)
(***************************************************************************)
LEMMA ProbesStart == Init => ProbesInv
<1> SUFFICES ASSUME Init PROVE ProbesInv
  OBVIOUS
<1>1. /\ scene \in Scenes /\ sessions \in [Fields -> 0..MaxSessions]
      /\ census = [at |-> "idle", next |-> 1, count |-> None, stayed |-> NoSessions,
                   came |-> NoSessions, blind |-> FALSE, odd |-> {}]
  BY DEF Init, ChecksInit, ProbesInit
<1>2. NoSessions \in [Fields -> Nat]
  BY DEF NoSessions
<1>3. census \in CensusTypes
  BY <1>1, <1>2 DEF CensusTypes
<1>4. census.at = "idle"
  BY <1>1
<1>5. Counting(census, sessions)
  BY <1>4 DEF Counting
<1> QED BY <1>1, <1>3, <1>5 DEF ProbesInv

\* The fields asked stay those of the scene.
LEMMA SameParts ==
    ASSUME scene' = scene
    PROVE  /\ Parts' = Parts /\ Fields' = Fields /\ CensusTypes' = CensusTypes
           /\ \A n : FirstFields(n)' = FirstFields(n)
BY DEF Parts, Fields, CensusTypes, FirstFields, FieldsOf

\* A step from one census to another, among units that go on as they are.
LEMMA NewCensus ==
    ASSUME scene \in Scenes, scene' = scene, up' = up, sessions' \in [Fields -> 0..MaxSessions],
           census' \in CensusTypes,
           LET c == census'
               now == sessions'
           IN  Counting(c, now)
    PROVE  ProbesInv'
<1>1. Parts' = Parts /\ Fields' = Fields /\ CensusTypes' = CensusTypes /\ \A n : FirstFields(n)' = FirstFields(n)
  BY SameParts
<1>2. Counting(census, sessions)'
  BY <1>1 DEF Counting, Within
<1> QED BY <1>1, <1>2 DEF ProbesInv

LEMMA ProbesStay ==
    ASSUME ProbesInv, UNCHANGED <<scene, probeVars>>
    PROVE  ProbesInv'
<1>1. scene' = scene /\ up' = up /\ sessions' = sessions /\ census' = census
  BY DEF probeVars
<1>2. Fields' = Fields /\ CensusTypes' = CensusTypes
  BY <1>1, SameParts
<1> QED BY <1>1, <1>2, NewCensus DEF ProbesInv

\* Fewer stayed and more came.
LEMMA WiderWithin ==
    ASSUME scene \in Scenes, NEW n \in 0..Len(Parts), NEW c \in CensusTypes, NEW t \in CensusTypes, Within(c, n),
           c.count \in Nat, t.count = c.count,
           \A f \in Fields : t.stayed[f] <= c.stayed[f] /\ c.came[f] <= t.came[f]
    PROVE  Within(t, n)
<1> DEFINE S == FirstFields(n)
<1>1. IsFiniteSet(S) /\ S \subseteq Fields
  BY AskedFinite
<1>2. \A f \in S : /\ t.stayed[f] \in Nat /\ c.stayed[f] \in Nat /\ t.stayed[f] <= c.stayed[f]
                   /\ t.came[f] \in Nat /\ c.came[f] \in Nat /\ c.came[f] <= t.came[f]
  BY <1>1 DEF CensusTypes
<1> HIDE DEF S
<1>3. SumFunctionOnSet(t.stayed, S) <= SumFunctionOnSet(c.stayed, S)
  BY <1>1, <1>2, SumGrows
<1>4. SumFunctionOnSet(c.came, S) <= SumFunctionOnSet(t.came, S)
  BY <1>1, <1>2, SumGrows
<1>5. /\ SumFunctionOnSet(t.stayed, S) \in Nat /\ SumFunctionOnSet(c.stayed, S) \in Nat
      /\ SumFunctionOnSet(t.came, S) \in Nat /\ SumFunctionOnSet(c.came, S) \in Nat
  BY <1>1, <1>2, SumIsNat
<1>6. SumFunctionOnSet(c.stayed, S) <= c.count /\ c.count <= SumFunctionOnSet(c.came, S)
  BY DEF Within, S
<1>7. SumFunctionOnSet(t.stayed, S) <= t.count /\ t.count <= SumFunctionOnSet(t.came, S)
  BY <1>3, <1>4, <1>5, <1>6
<1> QED BY <1>7 DEF Within, S

\* One part more, counted as it is.
LEMMA OneMoreWithin ==
    ASSUME scene \in Scenes, sessions \in [Fields -> 0..MaxSessions],
           NEW c \in CensusTypes, NEW t \in CensusTypes, NEW n \in 1..Len(Parts), Within(c, n - 1), c.count \in Nat,
           \A f \in Fields : c.stayed[f] <= sessions[f] /\ sessions[f] <= c.came[f],
           t.stayed = c.stayed, t.came = c.came,
           t.count = c.count + SumFunctionOnSet(sessions, FieldsOf(Parts[n]))
    PROVE  Within(t, n)
<1> DEFINE A == FirstFields(n - 1)
           B == FieldsOf(Parts[n])
<1>1. IsFiniteSet(A) /\ A \subseteq Fields /\ IsFiniteSet(B) /\ B \subseteq Fields
  <2>1. n - 1 \in 0..Len(Parts)
    BY PartShape
  <2> QED BY <2>1, AskedFinite, PartShape
<1>2. FirstFields(n) = A \cup B /\ A \cap B = {}
  BY AskedNext
<1>3. \A f \in Fields : c.stayed[f] \in Nat /\ c.came[f] \in Nat /\ sessions[f] \in Nat
  BY ProbesAssumption DEF CensusTypes
<1>4. SumFunctionOnSet(c.stayed, A) <= c.count /\ c.count <= SumFunctionOnSet(c.came, A)
  BY DEF Within
<1> HIDE DEF A, B
<1>5. /\ SumFunctionOnSet(c.stayed, B) <= SumFunctionOnSet(sessions, B)
      /\ SumFunctionOnSet(sessions, B) <= SumFunctionOnSet(c.came, B)
  <2>1. \A f \in B : /\ c.stayed[f] \in Nat /\ sessions[f] \in Nat /\ c.came[f] \in Nat
                     /\ c.stayed[f] <= sessions[f] /\ sessions[f] <= c.came[f]
    BY <1>1, <1>3
  <2> QED BY <1>1, <2>1, SumGrows
<1>6. SumFunctionOnSet(c.stayed, A \cup B) = SumFunctionOnSet(c.stayed, A) + SumFunctionOnSet(c.stayed, B)
  BY <1>1, <1>2, <1>3, SumOfBoth
<1>7. SumFunctionOnSet(c.came, A \cup B) = SumFunctionOnSet(c.came, A) + SumFunctionOnSet(c.came, B)
  BY <1>1, <1>2, <1>3, SumOfBoth
<1>8. /\ SumFunctionOnSet(c.stayed, A) \in Nat /\ SumFunctionOnSet(c.stayed, B) \in Nat
      /\ SumFunctionOnSet(c.came, A) \in Nat /\ SumFunctionOnSet(c.came, B) \in Nat
      /\ SumFunctionOnSet(sessions, B) \in Nat
  <2>1. \A f \in A : c.stayed[f] \in Nat /\ c.came[f] \in Nat
    BY <1>1, <1>3
  <2>2. \A f \in B : c.stayed[f] \in Nat /\ c.came[f] \in Nat /\ sessions[f] \in Nat
    BY <1>1, <1>3
  <2> QED BY <1>1, <2>1, <2>2, SumIsNat
<1>9. /\ SumFunctionOnSet(t.stayed, FirstFields(n)) = SumFunctionOnSet(c.stayed, A) + SumFunctionOnSet(c.stayed, B)
      /\ SumFunctionOnSet(t.came, FirstFields(n)) = SumFunctionOnSet(c.came, A) + SumFunctionOnSet(c.came, B)
      /\ t.count = c.count + SumFunctionOnSet(sessions, B)
  BY <1>2, <1>6, <1>7 DEF B
<1> QED BY <1>4, <1>5, <1>8, <1>9 DEF Within

LEMMA VisitCounted ==
    ASSUME ProbesInv, scene' = scene, NEW f \in Fields, Visit(f)
    PROVE  ProbesInv'
<1>1. PICK n \in 0..MaxSessions :
         /\ sessions' = [sessions EXCEPT ![f] = n]
         /\ census' = [census EXCEPT !.stayed[f] = IF n < @ THEN n ELSE @,
                                     !.came[f] = IF n > @ THEN n ELSE @]
  BY DEF Visit
<1> DEFINE t == census'
           now == sessions'
<1>2. /\ census \in CensusTypes /\ Counting(census, sessions) /\ scene \in Scenes
      /\ sessions \in [Fields -> 0..MaxSessions] /\ up' = up /\ n \in Nat
  BY ProbesAssumption DEF ProbesInv, Visit
<1>3. now \in [Fields -> 0..MaxSessions] /\ now[f] = n /\ \A x \in Fields : x # f => now[x] = sessions[x]
  BY <1>1, <1>2
<1>4. /\ t.at = census.at /\ t.next = census.next /\ t.count = census.count /\ t.blind = census.blind
      /\ t.odd = census.odd
      /\ t.stayed = [census.stayed EXCEPT ![f] = IF n < @ THEN n ELSE @]
      /\ t.came = [census.came EXCEPT ![f] = IF n > @ THEN n ELSE @]
      /\ t = [at |-> census.at, next |-> census.next, count |-> census.count, stayed |-> t.stayed,
              came |-> t.came, blind |-> census.blind, odd |-> census.odd]
  BY <1>1, <1>2 DEF CensusTypes
<1>5. census.stayed \in [Fields -> Nat] /\ census.came \in [Fields -> Nat]
  BY <1>2 DEF CensusTypes
<1>6. t.stayed \in [Fields -> Nat] /\ t.came \in [Fields -> Nat]
  BY <1>2, <1>4, <1>5
<1>7. t \in CensusTypes
  BY <1>2, <1>4, <1>6 DEF CensusTypes
<1>8. /\ \A x \in Fields : t.stayed[x] <= census.stayed[x] /\ census.came[x] <= t.came[x]
      /\ t.stayed[f] <= n /\ n <= t.came[f]
      /\ \A x \in Fields : x # f => t.stayed[x] = census.stayed[x] /\ t.came[x] = census.came[x]
  BY <1>2, <1>4, <1>5
<1>9. t.at # "idle" => \A x \in Fields : t.stayed[x] <= now[x] /\ now[x] <= t.came[x]
  BY <1>2, <1>3, <1>4, <1>8 DEF Counting
<1> HIDE DEF t, now
<1>10. ASSUME t.at = "parts", ~t.blind PROVE Within(t, t.next - 1)
  <2>1. /\ census.next - 1 \in 0..Len(Parts) /\ census.count \in Nat /\ Within(census, census.next - 1)
    BY <1>2, <1>4, <1>10, PartShape DEF Counting
  <2> QED BY <1>2, <1>4, <1>7, <1>8, <2>1, WiderWithin
<1>11. ASSUME t.at = "done", t.count # None, up # {}, ~t.blind PROVE Within(t, Len(Parts))
  <2>1. /\ Len(Parts) \in 0..Len(Parts) /\ census.count \in Nat /\ Within(census, Len(Parts))
    BY <1>2, <1>4, <1>11, PartShape DEF Counting, CensusTypes
  <2> QED BY <1>2, <1>4, <1>7, <1>8, <2>1, WiderWithin
<1>12. Counting(t, now)
  BY <1>2, <1>4, <1>9, <1>10, <1>11 DEF Counting
<1> QED BY <1>2, <1>3, <1>7, <1>12, NewCensus DEF t, now

LEMMA StartCounted ==
    ASSUME ProbesInv, scene' = scene, StartCount
    PROVE  ProbesInv'
<1> DEFINE t == census'
<1>1. /\ t = [at |-> "units", next |-> 1, count |-> None, stayed |-> sessions,
              came |-> sessions, blind |-> FALSE, odd |-> {}]
      /\ up' = up /\ sessions' = sessions /\ sessions \in [Fields -> 0..MaxSessions] /\ scene \in Scenes
  BY DEF StartCount, ProbesInv
<1>2. sessions \in [Fields -> Nat]
  BY <1>1, ProbesAssumption
<1>3. t \in CensusTypes
  BY <1>1, <1>2 DEF CensusTypes
<1>4. Counting(t, sessions)
  BY <1>1, <1>2 DEF Counting
<1> QED BY <1>1, <1>3, <1>4, NewCensus

LEMMA LookCounted ==
    ASSUME ProbesInv, scene' = scene, Parts # <<>>, LookAtUnits
    PROVE  ProbesInv'
<1> DEFINE t == census'
<1>1. /\ census \in CensusTypes /\ Counting(census, sessions) /\ scene \in Scenes /\ census.at = "units"
      /\ sessions \in [Fields -> 0..MaxSessions] /\ up' = up /\ sessions' = sessions
  BY DEF ProbesInv, LookAtUnits
<1>2. 1 \in 1..Len(Parts) /\ 1 - 1 = 0
  <2>1. Parts \in Seq(PartTypes)
    BY <1>1, ProbesAssumption DEF Parts
  <2>2. Len(Parts) \in Nat /\ Len(Parts) # 0
    BY <2>1
  <2> QED BY <2>2
<1>3. census.next = 1 /\ \A f \in Fields : census.stayed[f] <= sessions[f] /\ sessions[f] <= census.came[f]
  BY <1>1 DEF Counting
<1>4. CASE t = [census EXCEPT !.at = "parts", !.count = 0]
  <2>1. /\ t.at = "parts" /\ t.count = 0 /\ t.next = census.next /\ t.stayed = census.stayed
        /\ t.came = census.came /\ t \in CensusTypes
    BY <1>1, <1>4 DEF CensusTypes
  <2>2. Within(t, 0)
    <3>1. FirstFields(0) = {}
      BY <1>1, AskedFinite
    <3>2. SumFunctionOnSet(t.stayed, {}) = 0 /\ SumFunctionOnSet(t.came, {}) = 0
      BY SumOfNone
    <3> QED BY <2>1, <3>1, <3>2 DEF Within
  <2> HIDE DEF t
  <2>3. Counting(t, sessions)
    BY <1>2, <1>3, <2>1, <2>2 DEF Counting
  <2> QED BY <1>1, <2>1, <2>3, NewCensus DEF t
<1>5. CASE t = [census EXCEPT !.at = "done", !.count = 0, !.blind = up # {}]
  <2>1. /\ t.at = "done" /\ t.stayed = census.stayed /\ t.came = census.came /\ t \in CensusTypes
        /\ (t.blind <=> up # {})
    BY <1>1, <1>5 DEF CensusTypes
  <2> HIDE DEF t
  <2>2. Counting(t, sessions)
    BY <1>3, <2>1 DEF Counting
  <2> QED BY <1>1, <2>1, <2>2, NewCensus DEF t
<1> QED BY <1>4, <1>5 DEF LookAtUnits

\* Counted keeps the history, and takes the count or gives up.
LEMMA CountedCensus ==
    ASSUME scene \in Scenes, census \in CensusTypes, census.next \in 1..Len(Parts), census.count \in Nat,
           NEW k \in Nat \cup {None}
    PROVE  LET t == Counted(k)
           IN  /\ t \in CensusTypes /\ t.stayed = census.stayed /\ t.came = census.came
               /\ (t.blind <=> census.blind) /\ t.odd = census.odd
               /\ k = None => t.at = "done" /\ t.count = None
               /\ k # None => /\ t.count = census.count + k /\ t.next = census.next + 1
                              /\ t.at = IF census.next = Len(Parts) THEN "done" ELSE "parts"
<1>1. census.next \in Nat /\ census.next + 1 \in Nat
  BY PartShape
<1>2. CASE k = None
  <2>1. Counted(k) = [census EXCEPT !.at = "done", !.count = None]
    BY <1>2 DEF Counted
  <2> QED BY <1>2, <2>1 DEF CensusTypes
<1>3. CASE k # None
  <2>1. Counted(k) = [census EXCEPT !.count = @ + k, !.next = @ + 1,
                                    !.at = IF census.next = Len(Parts) THEN "done" ELSE "parts"]
    BY <1>3 DEF Counted
  <2>2. census.count + k \in Nat
    BY <1>3
  <2> QED BY <1>1, <1>3, <2>1, <2>2 DEF CensusTypes
<1> QED BY <1>2, <1>3

\* A count that gave up, or that the census takes with its blindness.
LEMMA TakesCount ==
    ASSUME ProbesInv, census.at = "parts", scene' = scene, UNCHANGED <<up, sessions>>, NEW k \in Nat \cup {None},
           census' \in CensusTypes,
           LET t == census'
               u == Counted(k)
           IN  /\ t.at = u.at /\ t.count = u.count /\ t.next = u.next
               /\ t.stayed = u.stayed /\ t.came = u.came /\ (census.blind => t.blind),
           LET t == census'
           IN  k # None /\ ~t.blind => k = SumFunctionOnSet(sessions, FieldsOf(Parts[census.next]))
    PROVE  ProbesInv'
<1> DEFINE t == census'
<1>1. /\ census \in CensusTypes /\ Counting(census, sessions) /\ scene \in Scenes
      /\ sessions \in [Fields -> 0..MaxSessions] /\ up' = up /\ sessions' = sessions
  BY DEF ProbesInv
<1>2. /\ census.next \in 1..Len(Parts) /\ census.count \in Nat
      /\ ~census.blind => Within(census, census.next - 1)
      /\ \A f \in Fields : census.stayed[f] <= sessions[f] /\ sessions[f] <= census.came[f]
  BY <1>1 DEF Counting
<1>3. /\ t.stayed = census.stayed /\ t.came = census.came
      /\ k = None => t.at = "done" /\ t.count = None
      /\ k # None => /\ t.count = census.count + k /\ t.next = census.next + 1
                     /\ t.at = IF census.next = Len(Parts) THEN "done" ELSE "parts"
      /\ (census.blind => t.blind) /\ t \in CensusTypes
      /\ k # None /\ ~t.blind => k = SumFunctionOnSet(sessions, FieldsOf(Parts[census.next]))
  BY <1>1, <1>2, CountedCensus
<1> HIDE DEF t
<1>4. ASSUME k # None, ~t.blind PROVE Within(t, census.next)
  BY <1>1, <1>2, <1>3, <1>4, OneMoreWithin
<1>5. \A f \in Fields : t.stayed[f] <= sessions[f] /\ sessions[f] <= t.came[f]
  BY <1>2, <1>3
<1>6. ASSUME k = None PROVE Counting(t, sessions)
  <2>1. t.at = "done" /\ t.count = None
    BY <1>3, <1>6
  <2> QED BY ONLY <1>5, <2>1 DEF Counting
<1>7. ASSUME k # None PROVE Counting(t, sessions)
  <2>1. ASSUME census.next # Len(Parts)
        PROVE  t.at = "parts" /\ t.next \in 1..Len(Parts) /\ t.count \in Nat /\ t.next - 1 = census.next
    BY <1>1, <1>2, <1>3, <1>7, <2>1, PartShape
  <2>2. ASSUME census.next # Len(Parts) PROVE Counting(t, sessions)
    <3>1. ~t.blind => Within(t, t.next - 1)
      BY <1>4, <1>7, <2>1, <2>2
    <3> QED BY ONLY <1>5, <2>1, <2>2, <3>1 DEF Counting
  <2>3. ASSUME census.next = Len(Parts) PROVE Counting(t, sessions)
    <3>1. t.at = "done" /\ (~t.blind => Within(t, Len(Parts)))
      BY <1>3, <1>4, <1>7, <2>3
    <3> QED BY ONLY <1>5, <3>1 DEF Counting
  <2> QED BY <2>2, <2>3
<1>8. Counting(t, sessions)
  BY <1>6, <1>7
<1> QED BY <1>1, <1>3, <1>8, NewCensus, SameParts DEF t

LEMMA FailCounted ==
    ASSUME ProbesInv, scene' = scene, PartFails
    PROVE  ProbesInv'
<1>1. census.at = "parts" /\ census' = Counted(None) /\ UNCHANGED <<up, sessions>>
  BY DEF PartFails
<1>2. census \in CensusTypes /\ census.next \in 1..Len(Parts) /\ census.count \in Nat /\ scene \in Scenes
  BY <1>1 DEF ProbesInv, Counting
<1> DEFINE u == Counted(None)
<1>3. u \in CensusTypes /\ (u.blind <=> census.blind)
  BY <1>2, CountedCensus
<1> HIDE DEF u
<1>4. census' = u
  BY <1>1 DEF u
<1> QED BY <1>1, <1>3, <1>4, TakesCount DEF u

LEMMA AskCounted ==
    ASSUME ProbesInv, scene' = scene, AskPart
    PROVE  ProbesInv'
<1> DEFINE n == census.next
           p == Parts[n]
<1>1. /\ census \in CensusTypes /\ n \in 1..Len(Parts) /\ census.count \in Nat /\ scene \in Scenes
      /\ census.at = "parts" /\ sessions \in [Fields -> 0..MaxSessions] /\ UNCHANGED <<up, sessions>>
  BY DEF ProbesInv, Counting, AskPart
<1>2. CASE census' = Counted(CountOne(p, Honest(p)))
  <2> DEFINE k == CountOne(p, Honest(p))
             u == Counted(k)
  <2>1. k = SumFunctionOnSet(sessions, FieldsOf(p)) /\ k \in Nat \cup {None}
    BY <1>1, HonestCount
  <2> HIDE DEF k
  <2>2. u \in CensusTypes /\ (u.blind <=> census.blind)
    BY <1>1, <2>1, CountedCensus
  <2> HIDE DEF u
  <2>3. census' = u
    BY <1>2 DEF u, k
  <2> QED BY <1>1, <2>1, <2>2, <2>3, TakesCount DEF u
<1> DEFINE Takes(answer) == census' = [Counted(CountOne(p, answer)) EXCEPT
                                         !.odd = @ \cup OddFields(p, answer),
                                         !.blind = @ \/ Misread(p, answer)]
<1>3. ASSUME NEW f \in FieldsOf(p), NEW is \in OddKinds,
             NEW answer, answer = OddAnswer(p, f, is), Takes(answer)
      PROVE  ProbesInv'
  <2> DEFINE k == CountOne(p, answer)
             u == Counted(k)
             odd == OddFields(p, answer)
             t == census'
  <2>1. /\ k \in Nat \cup {None} /\ answer[f].is = is
        /\ k # None => TakenForCount(p, f, is)
    <3>1. scene \in Scenes /\ sessions \in [Fields -> 0..MaxSessions] /\ n \in 1..Len(Parts)
          /\ f \in FieldsOf(p) /\ is \in OddKinds /\ answer = OddAnswer(p, f, is)
      BY <1>1, <1>3
    <3>2. OddIsCounted(p, f, is)
      BY ONLY <3>1, OddCount
    <3> QED BY <3>1, <3>2 DEF OddIsCounted
  <2>2. k # None => Misread(p, answer)
    BY <2>1 DEF TakenForCount, Misread
  <2>3. odd \subseteq Fields \X OddKinds
    <3>1. FieldsOf(p) \subseteq Fields
      BY <1>1, PartShape
    <3> QED BY <3>1 DEF OddFields
  <2>4. t = [u EXCEPT !.odd = @ \cup odd, !.blind = @ \/ Misread(p, answer)]
    BY <1>3
  <2> HIDE DEF k, odd
  <2>5. u \in CensusTypes /\ (u.blind <=> census.blind)
    BY <1>1, <2>1, CountedCensus
  <2> HIDE DEF u, t
  <2>6. PICK b \in BOOLEAN : b <=> (u.blind \/ Misread(p, answer))
    OBVIOUS
  <2>7. PICK x : x = u.odd \cup odd
    OBVIOUS
  <2>8. t = [u EXCEPT !.odd = x, !.blind = u.blind \/ Misread(p, answer)]
    BY <2>4, <2>7
  <2>9. (u.blind \/ Misread(p, answer)) = b
    BY <2>6
  <2>10. t = [u EXCEPT !.odd = x, !.blind = b]
    BY <2>8, <2>9
  <2>11. /\ t \in CensusTypes /\ t.at = u.at /\ t.count = u.count /\ t.next = u.next
         /\ t.stayed = u.stayed /\ t.came = u.came /\ (t.blind <=> b)
    BY <2>3, <2>5, <2>7, <2>10 DEF CensusTypes
  <2>12. (census.blind => t.blind) /\ (k # None => t.blind)
    BY <2>2, <2>5, <2>6, <2>11
  <2> QED BY <1>1, <2>1, <2>11, <2>12, TakesCount DEF t, u
<1>4. ASSUME NEW answer \in Odd(p), Takes(answer) PROVE ProbesInv'
  <2>1. PICK f \in FieldsOf(p), is \in OddKinds : answer = OddAnswer(p, f, is)
    BY DEF Odd, OddOf, OddKinds, OddAnswer
  <2> HIDE DEF Takes
  <2> QED BY <1>3, <1>4, <2>1
<1> QED BY <1>2, <1>4 DEF AskPart

(***************************************************************************)
(* What a count that is a number says: while a unit runs, and unless a     *)
(* main field was null, a field absent, blank or true, or systemctl        *)
(* silent, it misses no session that lasted through the probe and counts   *)
(* none that was not there (lib/probes.js:18).                             *)
(***************************************************************************)
THEOREM ZeroIsNobodyHolds == Spec => []ZeroIsNobody
<1>1. ProbesInv /\ LeftInv /\ [Next]_vars => (ProbesInv /\ LeftInv)'
  <2> SUFFICES ASSUME ProbesInv, LeftInv, [Next]_vars PROVE ProbesInv' /\ LeftInv'
    OBVIOUS
  <2>1. scene' = scene
    BY LeftTaken
  <2>2. (Parts # <<>> /\ ProbesNext) \/ UNCHANGED probeVars
    BY DEF Next, vars, CheckStep, AlertStep, NewsStep, AcceptStep, VhostStep, CountStep
  <2>3. ASSUME Parts # <<>>, ProbesNext PROVE ProbesInv'
    BY <2>1, <2>3, VisitCounted, StartCounted, LookCounted, AskCounted, FailCounted DEF ProbesNext
  <2>4. LeftInv'
    BY LeftTaken DEF LeftStep
  <2> QED BY <2>1, <2>2, <2>3, <2>4, ProbesStay
<1>2. ProbesInv => ZeroIsNobody
  <2> SUFFICES ASSUME ProbesInv, census.at = "done", census.count # None, up # {}, ~census.blind
               PROVE  census.count \in Total(census.stayed)..Total(census.came)
    BY DEF ZeroIsNobody
  <2>1. /\ scene \in Scenes /\ census \in CensusTypes /\ Within(census, Len(Parts))
    BY DEF ProbesInv, Counting
  <2>2. Fields = FirstFields(Len(Parts)) /\ IsFiniteSet(Fields)
    BY <2>1, AskedFinite, PartShape
  <2>3. census.count \in Nat /\ \A f \in Fields : census.stayed[f] \in Nat /\ census.came[f] \in Nat
    BY <2>1 DEF CensusTypes
  <2>4. SumFunctionOnSet(census.stayed, Fields) \in Nat /\ SumFunctionOnSet(census.came, Fields) \in Nat
    BY <2>2, <2>3, SumIsNat
  <2> QED BY <2>1, <2>2, <2>3, <2>4 DEF Within, Total
<1>3. Init => ProbesInv /\ LeftInv
  BY ProbesStart, LeftInit
<1> QED BY <1>1, <1>2, <1>3, PTL DEF Spec
=============================================================================
