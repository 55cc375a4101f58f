------------------------------- MODULE Probes -------------------------------
(* The count of protected sessions a restart would cut (lib/probes.js): the  *)
(* units are looked at, then each part of the probe is asked, one after      *)
(* another, while visitors come and go.  A part is the list of a JSON        *)
(* answer, fields of one that are added up, or a PostgreSQL query.  Parts    *)
(* are named by where they keep their sessions.                              *)
EXTENDS HealthChecks, Sequences, Functions

CONSTANT MaxSessions    \* bound: sessions a field holds

VARIABLES up,           \* the units that run
          sessions,     \* the sessions there are, by field
          census        \* the probe under way, or the last one

probeVars == <<up, sessions, census>>

(* scene.protect: the units, and the parts [kind, field, add], add being the *)
(* addFields of the part; none when nothing is probed.                       *)
Parts == scene.protect.parts
FieldsOf(p) == {p.field} \cup p.add
Fields == UNION {FieldsOf(Parts[i]) : i \in DOMAIN Parts}

PartTypes == [kind : {"array", "field", "query"}, field : STRING, add : SUBSET STRING]

\* No two fields hold the same sessions; addFields go with a numeric field only.
ASSUME ProbesAssumption ==
    /\ MaxSessions \in Nat /\ None \notin Nat
    /\ \A s \in Scenes :
          /\ s.protect.parts \in Seq(PartTypes)
          /\ \A i \in DOMAIN s.protect.parts :
                LET p == s.protect.parts[i]
                IN  /\ IsFiniteSet(p.add) /\ p.field \notin p.add /\ (p.kind # "field" => p.add = {})
                    /\ \A j \in DOMAIN s.protect.parts :
                          i # j => FieldsOf(p) \cap FieldsOf(s.protect.parts[j]) = {}

(* A value of an answer, as JavaScript sees it.  A list is the number of its *)
(* entries that match "where"; None is NaN, and "unknown".  "blank" is an     *)
(* empty text, false or an empty list, "text" one that is no number.         *)
Value(is, n) == [is |-> is, n |-> n]
OddKinds == {"null", "absent", "text", "blank", "true"}
NoSessions == [f \in Fields |-> 0]

ProbesInit ==
    /\ up \in SUBSET scene.protect.units
    /\ sessions \in [Fields -> 0..MaxSessions]
    /\ census = [at |-> "idle", next |-> 1, count |-> None, stayed |-> NoSessions,
                 came |-> NoSessions, blind |-> FALSE, odd |-> {}]

ProbesTypeOK ==
    /\ up \subseteq scene.protect.units
    /\ sessions \in [Fields -> 0..MaxSessions]
    /\ census.at \in {"idle", "units", "parts", "done"}
    /\ census.next \in 1..(Len(Parts) + 1) /\ census.count \in Nat \cup {None}

(* Visitors: the history keeps the sessions that were there all along, and   *)
(* how many there ever were at once.                                         *)
Visit(f) ==
    /\ Spend("changes")
    /\ \E n \in 0..MaxSessions :
          /\ n # sessions[f]
          /\ sessions' = [sessions EXCEPT ![f] = n]
          /\ census' = [census EXCEPT !.stayed[f] = IF n < @ THEN n ELSE @,
                                      !.came[f] = IF n > @ THEN n ELSE @]
    /\ UNCHANGED up

StartCount ==
    /\ census.at \in {"idle", "done"} /\ Spend("calls")
    /\ census' = [at |-> "units", next |-> 1, count |-> None, stayed |-> sessions,
                  came |-> sessions, blind |-> FALSE, odd |-> {}]
    /\ UNCHANGED <<up, sessions>>

(* A unit systemctl says nothing of counts as one that does not run.         *)
Running(silent) == up \ silent # {}

LookAtUnits ==
    /\ census.at = "units"
    /\ \E silent \in SUBSET scene.protect.units :
          /\ IF silent = {} THEN left' = left ELSE Spend("faults")
          /\ census' = IF Running(silent) THEN [census EXCEPT !.at = "parts", !.count = 0]
                       ELSE [census EXCEPT !.at = "done", !.count = 0, !.blind = up # {}]
    /\ UNCHANGED <<up, sessions>>

(* Number() of a value.                                                      *)
Number(v) ==
    CASE v.is = "number" -> v.n
      [] v.is \in {"null", "blank"} -> 0
      [] v.is = "true" -> 1
      [] OTHER -> None

(* A value of addFields: an older service does not have it, and null says    *)
(* that the service cannot answer.                                           *)
Extra_NullIsNothing(v) == IF v.is = "absent" THEN 0 ELSE Number(v)
Extra(v) ==
    CASE v.is = "absent" -> 0
      [] v.is = "null" -> None
      [] OTHER -> Number(v)

List(v) == IF v.is = "number" THEN v.n ELSE None

CountOne(p, answer) ==
    LET main == IF p.kind = "array" THEN List(answer[p.field]) ELSE Number(answer[p.field])
        extras == {Extra(answer[f]) : f \in p.add}
    IN  IF None \in {main} \cup extras THEN None
        ELSE main + SumFunction([f \in p.add |-> Extra(answer[f])])

(* What a part may answer (external): each field as it is or, on a fault,    *)
(* something else for one of them.  A row whose only column is NULL is no    *)
(* row to psql's reader.                                                     *)
Honest(p) == [f \in FieldsOf(p) |-> Value("number", sessions[f])]
OddOf(p) == IF p.kind = "query" THEN {"absent", "text", "blank"} ELSE OddKinds
Odd(p) == {[Honest(p) EXCEPT ![f] = Value(is, 0)] : f \in FieldsOf(p), is \in OddOf(p)}

OddFields(p, answer) == {q \in FieldsOf(p) \X OddKinds : answer[q[1]].is = q[2]}

(* A value that is no number may be taken for one.                           *)
Misread(p, answer) ==
    \/ answer[p.field].is = "null"
    \/ \E f \in FieldsOf(p) : answer[f].is \in {"absent", "blank", "true"}

Counted(count) ==
    IF count = None THEN [census EXCEPT !.at = "done", !.count = None]
    ELSE [census EXCEPT !.count = @ + count, !.next = @ + 1,
                        !.at = IF census.next = Len(Parts) THEN "done" ELSE "parts"]

AskPart ==
    /\ census.at = "parts"
    /\ LET p == Parts[census.next]
       IN  \/ /\ census' = Counted(CountOne(p, Honest(p)))
              /\ left' = left
           \/ \E answer \in Odd(p) :
                 /\ Spend("faults")
                 /\ census' = [Counted(CountOne(p, answer)) EXCEPT
                                 !.odd = @ \cup OddFields(p, answer),
                                 !.blind = @ \/ Misread(p, answer)]
    /\ UNCHANGED <<up, sessions>>

(* No answer, a status other than 2xx, a body that is not JSON, an error of  *)
(* psql.                                                                     *)
PartFails ==
    /\ census.at = "parts" /\ Spend("faults")
    /\ census' = Counted(None)
    /\ UNCHANGED <<up, sessions>>

ProbesNext ==
    \/ \E f \in Fields : Visit(f)
    \/ StartCount \/ LookAtUnits \/ AskPart \/ PartFails

-----------------------------------------------------------------------------
Total(counts) == SumFunctionOnSet(counts, Fields)

(* "could not ask" is never "nobody is live" (lib/probes.js:18): while a     *)
(* unit runs, a count that is a number misses no session that lasted through *)
(* the probe and counts none that was not there.  Excepted are a main field  *)
(* that is null, a field that is absent, blank or true, and units systemctl  *)
(* said nothing of.                                                          *)
ZeroIsNobody ==
    census.at = "done" /\ census.count # None /\ up # {} /\ ~census.blind =>
        census.count \in Total(census.stayed)..Total(census.came)

(* "a field the service reports but cannot answer (`null`) is unknown, so    *)
(* the restart is held" (README.md:90).                                      *)
NullIsUnknown == census.at = "done" /\ (\E f \in Fields : <<f, "null">> \in census.odd) => census.count = None

(* "a present one that is not a number is unknown" (lib/probes.js:8), of the *)
(* addFields.  Not an empty text, false, an empty list or true.              *)
OddIsUnknown ==
    census.at = "done" =>
      \A i \in DOMAIN Parts : \A f \in Parts[i].add, is \in {"text", "blank", "true"} :
         <<f, is>> \in census.odd => census.count = None
=============================================================================
