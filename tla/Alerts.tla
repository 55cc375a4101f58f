------------------------------- MODULE Alerts -------------------------------
(* From a line in a textfile to a page: Prometheus (external) evaluates the  *)
(* rules of deploy/prometheus/openvibe-rules.yml, ovhost alerts relay        *)
(* (lib/alerts.js) sends the complete set of firing alerts to the Network    *)
(* every two minutes, and the Network (external) opens a page for an alert   *)
(* it is sent and resolves the page of one that is no longer in the set.     *)
EXTENDS HealthChecks

CONSTANT MaxAlerts      \* MAX, how many alerts a report holds (200)

VARIABLES rule,         \* each alert in Prometheus: inactive, pending, firing
          relay,        \* the relay run
          open,         \* the pages the Network has open
          excused,      \* history: the site was well, at a moment since the page last stood
          dropped       \* history: its line or its alert was dropped on the way since then, see Drops

alertVars == <<rule, relay, open>>

AllAlerts == Kinds \X Sites
Quiet == [at |-> "idle", firing |-> {}]
Failing(a) == Truth(a[1], a[2]) = "bad"

AlertsTypeOK ==
    /\ rule \in [AllAlerts -> {"inactive", "pending", "firing"}]
    /\ relay \in [at : {"idle", "sending"}, firing : SUBSET AllAlerts]
    /\ open \subseteq AllAlerts /\ excused \subseteq AllAlerts /\ dropped \subseteq AllAlerts

AlertsInit ==
    /\ rule = [a \in AllAlerts |-> "inactive"]
    /\ relay = Quiet
    /\ open = {} /\ excused = AllAlerts /\ dropped = {}

(* "expr: ... == 0" with "for": the condition has to hold at two evaluations *)
(* at least, and one at which it does not clears the alert.                  *)
Evaluate(a) ==
    /\ rule' = [rule EXCEPT ![a] = CASE file[a[1]][a[2]] # "bad" -> "inactive"
                                     [] @ = "inactive" -> "pending"
                                     [] OTHER -> "firing"]
    /\ rule' # rule
    /\ UNCHANGED <<scene, hostVars, checkVars, left, relay, open>>

(* A Prometheus that starts again answers, and no alert is active until it   *)
(* has evaluated the rules.                                                  *)
PrometheusRestarts ==
    /\ Spend("faults")
    /\ rule' = [a \in AllAlerts |-> "inactive"]
    /\ UNCHANGED <<scene, hostVars, checkVars, relay, open>>

(* What is pending or resolved is left out, and so is what comes after the   *)
(* first MAX, in whatever order Prometheus has them.                         *)
Firing == {a \in AllAlerts : rule[a] = "firing"}
Reports == IF Cardinality(Firing) <= MaxAlerts THEN {Firing}
           ELSE {f \in SUBSET Firing : Cardinality(f) = MaxAlerts}

(* A Prometheus that does not answer sends nothing.                          *)
ReadAlerts_Empty ==
    /\ relay.at = "idle"
    /\ \/ left' = left /\ \E f \in Reports : relay' = [at |-> "sending", firing |-> f]
       \/ Spend("faults") /\ relay' = [at |-> "sending", firing |-> {}]
    /\ UNCHANGED <<scene, hostVars, checkVars, rule, open>>
ReadAlerts ==
    /\ relay.at = "idle"
    /\ \/ left' = left /\ \E f \in Reports : relay' = [at |-> "sending", firing |-> f]
       \/ Spend("faults") /\ relay' = Quiet
    /\ UNCHANGED <<scene, hostVars, checkVars, rule, open>>

(* The set arrives, whether or not the relay hears so; or the credentials,   *)
(* the token or the delivery fail, and it does not.                          *)
Deliver ==
    /\ relay.at = "sending"
    /\ \/ left' = left /\ open' = relay.firing
       \/ Spend("faults") /\ open' = open
    /\ relay' = Quiet
    /\ UNCHANGED <<scene, hostVars, checkVars, rule>>

Relay == ReadAlerts \/ Deliver
AlertsNext == Relay \/ PrometheusRestarts \/ \E a \in AllAlerts : Evaluate(a)

-----------------------------------------------------------------------------
(* The page of an alert stands when nothing on the way disagrees with it: a  *)
(* page resolved after that needs a site that was well in between.           *)
Stands(a) ==
    /\ Failing(a) /\ file[a[1]][a[2]] = "bad" /\ rule[a] = "firing" /\ a \in open
    /\ \A p \in Probers : Kind(p) = a[1] /\ probe[p].at = "asking" /\ a[2] \notin probe[p].left
                             => probe[p].got[a[2]] = "bad"
    /\ a[1] = "browser" => record[a[2]].age # "none" /\ ~record[a[2]].ok
    /\ relay.at = "sending" => a \in relay.firing

(* What takes an alert out although its site is not well: auth-health.sh     *)
(* --sites writes the file without the others, browser-watch is cut short    *)
(* while it writes, a full report leaves it out, Prometheus starts again.    *)
Drops(a) ==
    \/ a[1] = "auth" /\ probe["narrow"].at = "asking" /\ probe'["narrow"].at = "idle" /\ file' # file
    \/ a[1] = "browser" /\ CutWrite
    \/ /\ relay.at = "idle" /\ relay'.at = "sending" /\ Cardinality(relay'.firing) = MaxAlerts
       /\ a \in Firing \ relay'.firing
    \/ PrometheusRestarts

Remember ==
    /\ excused' = {a \in AllAlerts : ~Stands(a)' /\ (a \in excused \/ ~Failing(a)')}
    /\ dropped' = {a \in AllAlerts : ~Stands(a)' /\ (a \in dropped \/ Drops(a))}
=============================================================================
