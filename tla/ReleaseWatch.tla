---------------------------- MODULE ReleaseWatch ----------------------------
(* What stands around a release: the acceptance suite before it, the         *)
(* announcement after it, and the checks and pages that watch it from then   *)
(* on.  A scene names the parts at work in a behaviour.                      *)
EXTENDS Alerts, Announce, Acceptance, Vhosts, Probes

(* The gates of a release: a record is one document (lib/acceptance.js).     *)
GateTypes == [kind : {"test", "record", "open"}, repo : Repos, files : SUBSET STRING, pinned : BOOLEAN, base : BOOLEAN]

ASSUME GatesAssumption ==
    /\ FirstTree \in Trees
    /\ \A s \in Scenes : /\ s.gates \in Seq(GateTypes)
                         /\ \A i \in DOMAIN s.gates : s.gates[i].kind = "record" =>
                               \A f, g \in s.gates[i].files : f = g

vars == <<scene, hostVars, checkVars, left, alertVars, excused, dropped, newsVars, acceptVars,
          vhostVars, probeVars>>

Init ==
    /\ ChecksInit /\ AlertsInit /\ NewsInit /\ VhostsInit /\ ProbesInit
    /\ gates = scene.gates /\ AcceptInit
    /\ truth \in [Files -> [Trees -> Outcomes]]
    /\ pins \in IF \E i \in DOMAIN gates : gates[i].pinned THEN SUBSET Trees ELSE {Trees}

TypeOK == ChecksTypeOK /\ AlertsTypeOK /\ NewsTypeOK /\ AcceptTypeOK /\ VhostsTypeOK
          /\ ProbesTypeOK

CheckStep(A) == A /\ UNCHANGED <<alertVars, newsVars, acceptVars, vhostVars, probeVars>> /\ Remember
AlertStep(A) == A /\ UNCHANGED <<newsVars, acceptVars, vhostVars, probeVars>> /\ Remember
NewsStep(A) == A /\ UNCHANGED <<alertVars, excused, dropped, acceptVars, vhostVars, probeVars>>
AcceptStep(A) == A /\ UNCHANGED <<scene, hostVars, checkVars, left, alertVars, excused, dropped, newsVars,
                                 vhostVars, probeVars>>
VhostStep(A) == A /\ UNCHANGED <<scene, hostVars, checkVars, alertVars, excused, dropped, newsVars, acceptVars,
                                 probeVars>>
CountStep(A) == A /\ UNCHANGED <<scene, hostVars, checkVars, alertVars, excused, dropped, newsVars, acceptVars,
                                 vhostVars>>

Next ==
    \/ CheckStep(ChecksNext)
    \/ scene.pages /\ AlertStep(AlertsNext)
    \/ NewsStep(AnnounceNext)
    \/ gates # <<>> /\ AcceptStep(AcceptNext)
    \/ scene.vhosts # {} /\ VhostStep(VhostsNext)
    \/ Parts # <<>> /\ CountStep(ProbesNext)

Spec == Init /\ [][Next]_vars

(* Every timer starts its service again when it has ended, and a started     *)
(* run goes on; so does Prometheus, and time.  The runs a person starts and  *)
(* the things that happen to the sites are owed nothing, and a scene needs   *)
(* only what its own pages hang on.                                          *)
TimerProbe(p) == scene.pages /\ scene[p] # {} /\ CheckStep(Probe(p))
TimerWatch == scene.pages /\ scene.browser # {} /\ CheckStep(Watching("timer"))
Ageing(s) == scene.pages /\ s \in scene.browser /\ CheckStep(Age(s))
Settles(s) == scene.pages /\ s \in scene.browser /\ CheckStep(Settle(s))
Rules(a) == scene.pages /\ a[2] \in scene[a[1]] /\ AlertStep(Evaluate(a))
RelayTimer == scene.pages /\ AlertStep(Relay)

\* The alerts of some scene, and the sites some scene looks at in a browser.
Watched == {a \in AllAlerts : \E s \in Scenes : s.pages /\ a[2] \in s[a[1]]}
Browsed == {s \in Sites : <<"browser", s>> \in Watched}

Fairness ==
    /\ WF_vars(TimerProbe("ready")) /\ WF_vars(TimerProbe("auth")) /\ WF_vars(TimerWatch)
    /\ \A s \in Browsed : WF_vars(Ageing(s)) /\ WF_vars(Settles(s))
    /\ \A a \in Watched : WF_vars(Rules(a))
    /\ WF_vars(RelayTimer)

FairSpec == Spec /\ Fairness

-----------------------------------------------------------------------------
(* The pages the Network has open come to be those of the sites that are not *)
(* well, and stay so, however the checks, the relay and the deploys          *)
(* overlapped before.  A page is not owed while more alerts fire than a      *)
(* report holds, and nothing of the browser check is while systemd kills     *)
(* pass after pass of the timer's after its 30 minutes.                      *)
TimedOut == CheckStep(WatchTimesOut)

PagesFollow ==
    \A a \in Watched : scene.pages /\ a[2] \in scene[a[1]] =>
        \/ a[1] = "browser" /\ []<><<TimedOut>>_vars
        \/ /\ <>[]Failing(a) /\ <>[](Cardinality(Firing) <= MaxAlerts) => <>[](a \in open)
           /\ <>[](Truth(a[1], a[2]) = "good") => <>[](a \notin open)

(* A page that stood is resolved only after its site was well, or after one  *)
(* of the four things of Drops: no probe or check that fails, no run that    *)
(* dies between its writes, no unanswered call gives the all clear by itself.*)
NoFalseAllClear == [][\A a \in open \ open' : a \in excused' \cup dropped']_vars

(* "sends the complete set" of the firing alerts (lib/alerts.js): what a run *)
(* of the relay sends is everything that fired when it asked.                *)
SetIsComplete == [][relay.at = "idle" /\ relay'.at = "sending" => relay'.firing = Firing]_vars
=============================================================================
