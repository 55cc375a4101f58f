----------------------------- MODULE BreakEven -----------------------------
(***************************************************************************)
(* What a break-even search promises (the comment over firstAtMost in      *)
(* server/inference-planner.js), whatever way it looks for it: one answer, *)
(* given once, that is a request count at which the first cost begins to   *)
(* be at most the second, or none when the end of the range is dearer;     *)
(* unless the request is refused.  Planner's binary search is shown to     *)
(* implement this.                                                         *)
(***************************************************************************)
EXTENDS Integers

CONSTANTS Open, None, Refused   \* not answered yet; no break-even; not searched for

VARIABLES
    atMost,     \* for each request count of the range: the first cost is at most the second
    answer

\* The counts at which the comparison turns in the first cost's favour.
Crossings == {n \in DOMAIN atMost : atMost[n] /\ (n = 0 \/ ~atMost[n - 1])}

\* A range whose end is dearer has no answer, one that starts cheaper begins at 0.
Promised(n) ==
    IF atMost[0] THEN n = 0
    ELSE IF \E last \in DOMAIN atMost : (\A m \in DOMAIN atMost : m <= last) /\ ~atMost[last] THEN n = None
    ELSE n \in Crossings

Init == answer = Open

Answer ==
    /\ answer = Open
    /\ \E n \in DOMAIN atMost \cup {None} : Promised(n) /\ answer' = n
    /\ UNCHANGED atMost

Decline ==
    /\ answer = Open
    /\ answer' = Refused
    /\ UNCHANGED atMost

vars == <<atMost, answer>>
Next == Answer \/ Decline
Safety == Init /\ [][Next]_vars

\* The search ends: every request gets its answer or its refusal.
Spec == Safety /\ <>(answer # Open)
=============================================================================
