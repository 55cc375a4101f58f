------------------------------ MODULE Announce ------------------------------
(* ovhost announce (lib/announce.js): after a deploy, or by hand, the        *)
(* release a service runs is told to OpenVibe.Events (external), which       *)
(* stores an event once per event id, and stateDir/announced/<service>.json  *)
(* remembers what was told.  No lock is taken: calls overlap.                *)
EXTENDS HealthChecks, Sequences

CONSTANT Service        \* the service announced, one of Sites

VARIABLES call,         \* the calls: what each is doing
          stored,       \* what Events has, in the order it came
          announced,    \* the state file
          astray        \* history: a call may have told what the file does not say

newsVars == <<call, stored, announced, astray>>

ASSUME ServiceAssumption == Service \in Sites

Callers == {"deploy", "operator"}
Away == [at |-> "idle", release |-> None, id |-> 0, tries |-> 0, force |-> FALSE]
Nothing == [release |-> None, id |-> 0]
Last(s) == s[Len(s)]
Told(id, s) == \E i \in 1..Len(s) : s[i].id = id
OthersAway(c) == \A d \in Callers \ {c} : call[d].at = "idle"

NewsTypeOK ==
    /\ call \in [Callers -> [at : {"idle", "described", "posting", "recording"}, release : Releases \cup {None},
                             id : Nat, tries : 0..1, force : BOOLEAN]]
    /\ \A i \in 1..Len(stored) : stored[i] \in [release : Releases, id : Nat, again : BOOLEAN]
    /\ announced \in [release : Releases \cup {None}, id : Nat] /\ astray \in BOOLEAN

NewsInit ==
    /\ call = [c \in Callers |-> Away]
    /\ stored = <<>> /\ announced = Nothing /\ astray = FALSE

(* With its credentials at hand; without them a host announces nothing.      *)
Configured(c) == c \in scene.callers

(* The release /release.json names or, when the site does not answer, the    *)
(* checkout's HEAD.                                                          *)
Described(answered) == IF answered THEN release[Service] ELSE head[Service]

(* Every call makes an event of its own.                                     *)
NewEventId == left.calls

Describe(c, force) ==
    /\ call[c].at = "idle" /\ Configured(c) /\ (force => scene.force)
    /\ left.calls > 0
    /\ \E answered \in BOOLEAN :
          /\ ~answered => left.faults > 0
          /\ left' = [left EXCEPT !.calls = @ - 1, !.faults = IF answered THEN @ ELSE @ - 1]
          /\ call' = [call EXCEPT ![c] = [at |-> "described", release |-> Described(answered), id |-> NewEventId,
                                          tries |-> 0, force |-> force]]
    /\ astray' = (astray \/ ~OthersAway(c))
    /\ UNCHANGED <<scene, hostVars, checkVars, stored, announced>>

AlreadyTold(c) == announced.release = call[c].release /\ ~call[c].force

Compare(c) ==
    /\ call[c].at = "described"
    /\ call' = [call EXCEPT ![c] = IF AlreadyTold(c) THEN Away ELSE [@ EXCEPT !.at = "posting"]]
    /\ UNCHANGED <<scene, hostVars, checkVars, left, stored, announced, astray>>

(* The event of a call: a retry sends the same one, and Events keeps one.    *)
EventId_EachTry(c) == 10 * call[c].id + call[c].tries
EventId(c) == call[c].id
Storing(c) == IF Told(EventId(c), stored) THEN stored
              ELSE Append(stored, [release |-> call[c].release, id |-> EventId(c), again |-> call[c].force \/ astray])

Post(c) ==
    /\ call[c].at = "posting"
    /\ stored' = Storing(c)
    /\ call' = [call EXCEPT ![c].at = "recording"]
    /\ UNCHANGED <<scene, hostVars, checkVars, left, announced, astray>>

GiveUp(c) ==
    /\ call' = [call EXCEPT ![c] = Away]
    /\ astray' = (astray \/ Told(call[c].id, stored'))

(* The answer is lost, or Events is not reached or answers 5xx or 429: one   *)
(* more try, while there is a second left.                                   *)
PostFails(c) ==
    /\ call[c].at = "posting" /\ Spend("faults")
    /\ stored' \in {stored, Storing(c)}
    /\ IF call[c].tries = 0
       THEN (call' = [call EXCEPT ![c].tries = 1] /\ astray' = astray) \/ GiveUp(c)
       ELSE GiveUp(c)
    /\ UNCHANGED <<scene, hostVars, checkVars, announced>>

(* No token, a 4xx, or the process is killed.                                *)
PostRefused(c) ==
    /\ call[c].at \in {"described", "posting"} /\ Spend("faults")
    /\ UNCHANGED <<scene, hostVars, checkVars, stored, announced>>
    /\ GiveUp(c)

WriteState(c) ==
    /\ call[c].at = "recording"
    /\ announced' = [release |-> call[c].release, id |-> call[c].id]
    /\ call' = [call EXCEPT ![c] = Away]
    /\ UNCHANGED <<scene, hostVars, checkVars, left, stored, astray>>

(* Killed before the file is written, or it cannot be.                       *)
WriteStateFails(c) ==
    /\ call[c].at = "recording" /\ Spend("faults")
    /\ UNCHANGED <<scene, hostVars, checkVars, stored, announced>>
    /\ GiveUp(c)

AnnounceNext ==
    \E c \in Callers :
       \/ \E force \in BOOLEAN : Describe(c, force)
       \/ Compare(c) \/ Post(c) \/ PostFails(c) \/ PostRefused(c) \/ WriteState(c) \/ WriteStateFails(c)

-----------------------------------------------------------------------------
(* What the file says was told was told, and, unless a call ended without    *)
(* its answer or overlapped another, it is the newest thing told and no      *)
(* release was told twice running.                                           *)
NewsTold ==
    /\ announced # Nothing =>
          \E i \in 1..Len(stored) : stored[i].release = announced.release /\ stored[i].id = announced.id
    /\ (\A c \in Callers : call[c].at = "idle") /\ ~astray =>
          announced.release = IF stored = <<>> THEN None ELSE Last(stored).release
    /\ \A i \in 2..Len(stored) : stored[i].again \/ stored[i].release # stored[i - 1].release
=============================================================================
