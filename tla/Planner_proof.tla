--------------------------- MODULE Planner_proof ---------------------------
(***************************************************************************)
(* Proofs about Planner, for any prices, any demand and any range: its two *)
(* searches implement the promise of BreakEven, the one against wholesale  *)
(* is exact, and a plan said to be within the budget is so over the band.  *)
(***************************************************************************)
EXTENDS Planner, FiniteSetTheorems, TLAPS

(***************************************************************************)
(* The comparison a search is about, as it was when the request came in.   *)
(***************************************************************************)
Table == [other \in Others |-> [n \in Span |-> WarmAtMost(other, n)]]

Stages == {"read", "demand", "fallback", "scale_to_zero", "wholesale", "recommend",
           "answered", "refused"}

(***************************************************************************)
(* While a search runs, renting is dearer at the low end of what is left   *)
(* of the range and at most as dear at its high end.                       *)
(***************************************************************************)
Narrowing(other) ==
    /\ low \in Nat /\ high \in Nat /\ low < high /\ high <= OneGpuCapacity
    /\ ~WarmAtMost(other, 0) /\ WarmAtMost(other, OneGpuCapacity)
    /\ ~WarmAtMost(other, low) /\ WarmAtMost(other, high)

Inv ==
    /\ \E c \in Cases : doc = c[1]
    /\ cheaper = Table
    /\ pc \in Stages
    /\ even \in [Others -> Nat \cup {Open, None}]
    /\ pc \in {"read", "demand", "fallback", "refused", "scale_to_zero"} =>
          even["scale_to_zero"] = Open /\ even["wholesale"] = Open
    /\ pc = "wholesale" => even["wholesale"] = Open
    /\ pc \notin Others => high = 0
    /\ pc \in Others /\ high # 0 => Narrowing(pc)

(***************************************************************************)
(* Rounding up (ceilDiv) gives a whole number.                             *)
(***************************************************************************)
LEMMA CeilDivInt ==
    ASSUME NEW a \in Int, NEW b \in Nat \ {0}
    PROVE  CeilDiv(a, b) \in Int
<1>1. a + b - 1 \in Int
  OBVIOUS
<1>2. ASSUME NEW x \in Int PROVE x \div b \in Int
  BY <1>2
<1> QED
  BY <1>1, <1>2 DEF CeilDiv

(***************************************************************************)
(* The range that is searched has at least one request (oneGpuCapacity).   *)
(***************************************************************************)
LEMMA CapacityPositive ==
    ASSUME \E c \in Cases : doc = c[1]
    PROVE  OneGpuCapacity \in Nat /\ OneGpuCapacity >= 1
<1>1. PICK c \in Cases : doc = c[1]
  OBVIOUS
<1>2. /\ doc.request["input"] \in Nat /\ doc.request["cached"] \in Nat
      /\ doc.request["written"] \in Nat /\ doc.request["output"] \in Nat
      /\ doc.model.prefillTps \in Nat \ {0} /\ doc.model.cachedTps \in Nat \ {0}
      /\ doc.model.decodeTps \in Nat \ {0}
  BY <1>1, CasesAssumption
<1>3. MsPerSecond \in Nat /\ HoursPerMonth \in Nat /\ MsPerHour \in Nat /\ Unlimited \in Nat \ {0}
  BY UnitsAssumption
<1>4. ASSUME NEW t \in Nat, NEW s \in Nat \ {0}
      PROVE  Millis(t, s) \in Int
  <2>1. t * MsPerSecond \in Int
    BY <1>3, <1>4
  <2> QED
    BY <1>4, <2>1, CeilDivInt DEF Millis
<1>5. Busy \in Int
  <2>1. doc.request["input"] + doc.request["written"] \in Nat
    BY <1>2
  <2>2. /\ Millis(doc.request["input"] + doc.request["written"], doc.model.prefillTps) \in Int
        /\ Millis(doc.request["cached"], doc.model.cachedTps) \in Int
        /\ Millis(doc.request["output"], doc.model.decodeTps) \in Int
    BY <1>2, <1>4, <2>1
  <2> QED
    BY <2>2 DEF Busy
<1>6. MonthMs \in Int
  BY <1>3 DEF MonthMs
<1>7. CASE Busy <= 0
  BY <1>3, <1>7 DEF OneGpuCapacity
<1>8. CASE ~(Busy <= 0)
  <2>1. ASSUME NEW m \in Int, NEW b \in Nat \ {0} PROVE m \div b \in Int
    BY <2>1
  <2>2. MonthMs \div Busy \in Int
    BY <1>5, <1>6, <1>8, <2>1
  <2> QED
    BY <1>8, <2>2 DEF OneGpuCapacity
<1> QED
  BY <1>7, <1>8

LEMMA InitInv == Init => Inv
<1> SUFFICES ASSUME Init PROVE Inv
  OBVIOUS
<1>1. \E c \in Cases : doc = c[1]
  BY DEF Init
<1>2. cheaper = Table /\ pc = "read" /\ high = 0
  BY DEF Init, Table
<1>3. even = [other \in Others |-> Open]
  BY DEF Init
<1> QED
  BY <1>1, <1>2, <1>3 DEF Inv, Stages, Others

(***************************************************************************)
(* Nothing a step does changes the comparison.                             *)
(***************************************************************************)
LEMMA InputsKept ==
    ASSUME UNCHANGED <<inputs, cheaper>>
    PROVE  /\ UNCHANGED doc /\ cheaper' = cheaper /\ Table' = Table
           /\ OneGpuCapacity' = OneGpuCapacity
           /\ \A other, n : WarmAtMost(other, n)' <=> WarmAtMost(other, n)
<1>1. UNCHANGED doc
  BY DEF inputs
<1>2. Busy' = Busy
  BY <1>1 DEF Busy, Millis, CeilDiv
<1>3. OneGpuCapacity' = OneGpuCapacity
  BY <1>2 DEF OneGpuCapacity, MonthMs
<1>4. \A other, n : WarmAtMost(other, n)' <=> WarmAtMost(other, n)
  BY <1>1, <1>2 DEF WarmAtMost, WarmCost, Rental, GpuCount, Storage, Egress, Cost, ScaleToZeroCost,
     WholesaleCost, ColdStarts, CeilDiv, MonthMs
<1> QED
  BY <1>1, <1>3, <1>4 DEF Table, Span

LEMMA Middle ==
    ASSUME NEW l \in Nat, NEW h \in Nat, l + 1 < h
    PROVE  (l + h) \div 2 \in Nat /\ l < (l + h) \div 2 /\ (l + h) \div 2 < h
<1>1. (l + h) \div 2 \in Int
  BY SMT
<1>2. l < (l + h) \div 2 /\ (l + h) \div 2 < h
  BY SMT
<1> QED
  BY <1>1, <1>2

(***************************************************************************)
(* Every action keeps the invariant.                                       *)
(***************************************************************************)
LEMMA StepInv == Inv /\ [Next]_vars => Inv'
<1> SUFFICES ASSUME Inv, [Next]_vars PROVE Inv'
  OBVIOUS
<1>0. /\ UNCHANGED doc /\ cheaper' = cheaper /\ Table' = Table
      /\ OneGpuCapacity' = OneGpuCapacity
      /\ \A other, n : WarmAtMost(other, n)' <=> WarmAtMost(other, n)
  BY InputsKept DEF Next, Search, ReadDocument, Demand, Fallback, BothEnds, Halve, Found,
     Recommend, vars, inputs
<1> DEFINE Kept == (\E c \in Cases : doc' = c[1]) /\ cheaper' = Table'
<1>k. Kept
  BY <1>0 DEF Inv
<1>n. OneGpuCapacity \in Nat /\ OneGpuCapacity >= 1
  BY CapacityPositive DEF Inv
<1>1. CASE UNCHANGED vars
  BY <1>0, <1>1 DEF Inv, Narrowing, vars
<1>2. ASSUME ReadDocument \/ Demand \/ Fallback
      PROVE  Inv'
  <2>1. pc \in {"read", "demand", "fallback"} /\ UNCHANGED <<low, high, even>>
    BY <1>2 DEF ReadDocument, Demand, Fallback
  <2>2. pc' \in {"demand", "fallback", "scale_to_zero", "refused"}
    BY <1>2 DEF ReadDocument, Demand, Fallback, Refuse, Plan
  <2>3. high' = 0
    BY <2>1 DEF Inv, Others
  <2> QED
    BY <1>k, <2>1, <2>2, <2>3 DEF Inv, Stages, Others
<1>3. ASSUME NEW other \in Others, BothEnds(other)
      PROVE  Inv'
  <2>1. pc = other /\ high = 0
    BY <1>3 DEF BothEnds
  <2>2. CASE WarmAtMost(other, 0) \/ ~WarmAtMost(other, OneGpuCapacity)
    <3>1. /\ even' = [even EXCEPT ![other] = IF WarmAtMost(other, 0) THEN 0 ELSE None]
          /\ pc' = NextSearch(other) /\ UNCHANGED <<low, high>>
      BY <1>3, <2>2 DEF BothEnds
    <3>2. even' \in [Others -> Nat \cup {Open, None}]
      BY <3>1 DEF Inv
    <3> QED
      BY <1>k, <2>1, <3>1, <3>2 DEF Inv, Stages, Others, NextSearch
  <2>3. CASE ~(WarmAtMost(other, 0) \/ ~WarmAtMost(other, OneGpuCapacity))
    <3>1. low' = 0 /\ high' = OneGpuCapacity /\ UNCHANGED <<pc, even>>
      BY <1>3, <2>3 DEF BothEnds
    <3>2. Narrowing(pc)'
      BY <1>0, <1>n, <2>1, <2>3, <3>1 DEF Narrowing
    <3> QED
      BY <1>k, <2>1, <3>1, <3>2 DEF Inv
  <2> QED
    BY <2>2, <2>3
<1>4. ASSUME NEW other \in Others, Halve(other)
      PROVE  Inv'
  <2> DEFINE mid == (low + high) \div 2
  <2>1. pc = other /\ high # 0 /\ low + 1 < high /\ UNCHANGED <<pc, even>>
    BY <1>4 DEF Halve
  <2>2. Narrowing(other)
    BY <2>1 DEF Inv
  <2>3. mid \in Nat /\ low < mid /\ mid < high
    BY <2>1, <2>2, Middle DEF Narrowing
  <2>4. IF WarmAtMost(other, mid) THEN high' = mid /\ low' = low ELSE low' = mid /\ high' = high
    BY <1>4 DEF Halve
  <2> HIDE DEF mid
  <2>5. Narrowing(other)'
    BY <1>0, <1>n, <2>2, <2>3, <2>4 DEF Narrowing
  <2> QED
    BY <1>k, <2>1, <2>5 DEF Inv
<1>5. ASSUME NEW other \in Others, Found(other)
      PROVE  Inv'
  <2>1. /\ pc = other /\ high # 0 /\ even' = [even EXCEPT ![other] = high]
        /\ pc' = NextSearch(other) /\ high' = 0
    BY <1>5 DEF Found
  <2>2. high \in Nat
    BY <2>1 DEF Inv, Narrowing
  <2>3. even' \in [Others -> Nat \cup {Open, None}]
    BY <2>1, <2>2 DEF Inv
  <2> QED
    BY <1>k, <2>1, <2>3 DEF Inv, Stages, Others, NextSearch
<1>6. ASSUME Recommend
      PROVE  Inv'
  <2>1. pc = "recommend" /\ pc' = "answered" /\ UNCHANGED <<low, high, even>>
    BY <1>6 DEF Recommend
  <2> QED
    BY <1>k, <2>1 DEF Inv, Stages, Others
<1> QED
  BY <1>1, <1>2, <1>3, <1>4, <1>5, <1>6 DEF Next, Search

-----------------------------------------------------------------------------
(***************************************************************************)
(* What BreakEven allows as an answer, with the comparison spelled out.    *)
(***************************************************************************)
Allowed(other, n) ==
    \/ n = 0 /\ WarmAtMost(other, 0)
    \/ n = None /\ ~WarmAtMost(other, 0) /\ ~WarmAtMost(other, OneGpuCapacity)
    \/ /\ n \in Span \ {0} /\ WarmAtMost(other, n) /\ ~WarmAtMost(other, n - 1)
       /\ ~WarmAtMost(other, 0) /\ WarmAtMost(other, OneGpuCapacity)

(***************************************************************************)
(* A step of the planner answers a search once, with an allowed answer, or *)
(* refuses a request that has no answer yet.                               *)
(***************************************************************************)
LEMMA StepAnswers ==
    ASSUME Inv, [Next]_vars, NEW other \in Others
    PROVE  /\ UNCHANGED cheaper
           /\ \/ AnswerTo(other)' = AnswerTo(other)
              \/ AnswerTo(other) = Open /\ AnswerTo(other)' = Refused
              \/ AnswerTo(other) = Open /\ Allowed(other, AnswerTo(other)')
<1>1. UNCHANGED cheaper
  BY DEF Next, Search, ReadDocument, Demand, Fallback, BothEnds, Halve, Found, Recommend, vars
<1>2. CASE UNCHANGED vars
  BY <1>1, <1>2 DEF vars, AnswerTo
<1>3. CASE ReadDocument \/ Demand \/ Fallback
  <2>1. pc \in {"read", "demand", "fallback"} /\ UNCHANGED even
    BY <1>3 DEF ReadDocument, Demand, Fallback
  <2>2. even[other] = Open
    BY <2>1 DEF Inv, Others
  <2> QED
    BY <1>1, <2>1, <2>2 DEF AnswerTo
<1>4. ASSUME NEW o \in Others, BothEnds(o) \/ Found(o)
      PROVE  \/ AnswerTo(other)' = AnswerTo(other)
             \/ AnswerTo(other) = Open /\ Allowed(other, AnswerTo(other)')
  <2>1. pc = o /\ pc' # "refused"
    BY <1>4 DEF BothEnds, Found, NextSearch, Others
  <2>2. AnswerTo(other) = even[other] /\ AnswerTo(other)' = even'[other]
    BY <2>1 DEF AnswerTo, Others
  <2>3. CASE o # other
    BY <1>4, <2>2, <2>3 DEF BothEnds, Found, Inv
  <2>4. CASE o = other
    <3>1. even[other] = Open
      BY <2>1, <2>4 DEF Inv, Others
    <3>2. CASE BothEnds(o)
      BY <2>2, <2>4, <3>1, <3>2 DEF BothEnds, Inv, Allowed
    <3>3. CASE Found(o)
      <4>1. high # 0 /\ low + 1 >= high /\ even'[other] = high
        BY <2>4, <3>3 DEF Found, Inv
      <4>2. Narrowing(other)
        BY <2>1, <2>4, <4>1 DEF Inv
      <4>3. OneGpuCapacity \in Nat
        BY CapacityPositive DEF Inv
      <4>4. low = high - 1 /\ high \in Span \ {0}
        BY <4>1, <4>2, <4>3 DEF Narrowing, Span
      <4> QED
        BY <2>2, <3>1, <4>1, <4>2, <4>4 DEF Narrowing, Allowed
    <3> QED
      BY <1>4, <2>4, <3>2, <3>3
  <2> QED
    BY <2>3, <2>4
<1>5. CASE \E o \in Others : Halve(o)
  BY <1>1, <1>5 DEF Halve, AnswerTo
<1>6. CASE Recommend
  BY <1>1, <1>6 DEF Recommend, AnswerTo
<1> QED
  BY <1>1, <1>2, <1>3, <1>4, <1>5, <1>6 DEF Next, Search

(***************************************************************************)
(* Each step of the planner is a step of BreakEven, for each search.       *)
(***************************************************************************)
LEMMA VsScaleToZeroStep ==
    ASSUME Inv, [Next]_vars
    PROVE  [VsScaleToZero!Next]_(VsScaleToZero!vars)
<1> DEFINE answer == AnswerTo("scale_to_zero")
           table == cheaper["scale_to_zero"]
<1>1. "scale_to_zero" \in Others
  BY DEF Others
<1>2. /\ table = [n \in Span |-> WarmAtMost("scale_to_zero", n)]
      /\ DOMAIN table = Span
      /\ \A n \in Span : table[n] <=> WarmAtMost("scale_to_zero", n)
  BY <1>1 DEF Inv, Table
<1>3. OneGpuCapacity \in Nat /\ OneGpuCapacity >= 1 /\ 0 \in Span /\ OneGpuCapacity \in Span
  BY CapacityPositive DEF Inv, Span
<1>4. ASSUME NEW n, Allowed("scale_to_zero", n)
      PROVE  n \in Span \cup {None} /\ VsScaleToZero!Promised(n)
  <2>1. CASE WarmAtMost("scale_to_zero", 0)
    BY <1>2, <1>3, <1>4, <2>1 DEF Allowed, VsScaleToZero!Promised
  <2>2. CASE n = None /\ ~WarmAtMost("scale_to_zero", 0) /\ ~WarmAtMost("scale_to_zero", OneGpuCapacity)
    <3>1. \A m \in DOMAIN table : m <= OneGpuCapacity
      BY <1>2, <1>3 DEF Span
    <3>2. \E last \in DOMAIN table : (\A m \in DOMAIN table : m <= last) /\ ~table[last]
      BY <1>2, <1>3, <2>2, <3>1
    <3>3. ~table[0]
      BY <1>2, <1>3, <2>2
    <3> HIDE DEF table
    <3> QED
      BY <2>2, <3>2, <3>3 DEF VsScaleToZero!Promised, table
  <2>3. CASE /\ n \in Span \ {0} /\ WarmAtMost("scale_to_zero", n) /\ ~WarmAtMost("scale_to_zero", n - 1)
             /\ ~WarmAtMost("scale_to_zero", 0) /\ WarmAtMost("scale_to_zero", OneGpuCapacity)
    <3>1. n - 1 \in Span
      BY <1>3, <2>3 DEF Span
    <3>2. ~\E last \in DOMAIN table : (\A m \in DOMAIN table : m <= last) /\ ~table[last]
      <4>1. SUFFICES ASSUME NEW last \in Span, \A m \in Span : m <= last
                     PROVE  table[last]
        BY <1>2
      <4>2. last = OneGpuCapacity
        BY <1>3, <4>1 DEF Span
      <4> QED
        BY <1>2, <1>3, <2>3, <4>2
    <3>3. ~table[0]
      BY <1>2, <1>3, <2>3
    <3>4. n \in VsScaleToZero!Crossings
      BY <1>2, <2>3, <3>1 DEF VsScaleToZero!Crossings
    <3> HIDE DEF table
    <3> QED
      BY <2>3, <3>2, <3>3, <3>4 DEF VsScaleToZero!Promised, table
  <2> QED
    BY <1>4, <2>1, <2>2, <2>3 DEF Allowed
<1>5. UNCHANGED table
  BY <1>1, StepAnswers
<1>6. CASE answer' = answer
  BY <1>5, <1>6 DEF VsScaleToZero!vars
<1>7. CASE answer = Open /\ answer' = Refused
  BY <1>5, <1>7 DEF VsScaleToZero!Next, VsScaleToZero!Decline
<1>8. CASE answer = Open /\ Allowed("scale_to_zero", answer')
  BY <1>2, <1>4, <1>5, <1>8 DEF VsScaleToZero!Next, VsScaleToZero!Answer
<1> QED
  BY <1>1, <1>6, <1>7, <1>8, StepAnswers

LEMMA VsWholesaleStep ==
    ASSUME Inv, [Next]_vars
    PROVE  [VsWholesale!Next]_(VsWholesale!vars)
<1> DEFINE answer == AnswerTo("wholesale")
           table == cheaper["wholesale"]
<1>1. "wholesale" \in Others
  BY DEF Others
<1>2. /\ table = [n \in Span |-> WarmAtMost("wholesale", n)]
      /\ DOMAIN table = Span
      /\ \A n \in Span : table[n] <=> WarmAtMost("wholesale", n)
  BY <1>1 DEF Inv, Table
<1>3. OneGpuCapacity \in Nat /\ OneGpuCapacity >= 1 /\ 0 \in Span /\ OneGpuCapacity \in Span
  BY CapacityPositive DEF Inv, Span
<1>4. ASSUME NEW n, Allowed("wholesale", n)
      PROVE  n \in Span \cup {None} /\ VsWholesale!Promised(n)
  <2>1. CASE WarmAtMost("wholesale", 0)
    BY <1>2, <1>3, <1>4, <2>1 DEF Allowed, VsWholesale!Promised
  <2>2. CASE n = None /\ ~WarmAtMost("wholesale", 0) /\ ~WarmAtMost("wholesale", OneGpuCapacity)
    <3>1. \A m \in DOMAIN table : m <= OneGpuCapacity
      BY <1>2, <1>3 DEF Span
    <3>2. \E last \in DOMAIN table : (\A m \in DOMAIN table : m <= last) /\ ~table[last]
      BY <1>2, <1>3, <2>2, <3>1
    <3>3. ~table[0]
      BY <1>2, <1>3, <2>2
    <3> HIDE DEF table
    <3> QED
      BY <2>2, <3>2, <3>3 DEF VsWholesale!Promised, table
  <2>3. CASE /\ n \in Span \ {0} /\ WarmAtMost("wholesale", n) /\ ~WarmAtMost("wholesale", n - 1)
             /\ ~WarmAtMost("wholesale", 0) /\ WarmAtMost("wholesale", OneGpuCapacity)
    <3>1. n - 1 \in Span
      BY <1>3, <2>3 DEF Span
    <3>2. ~\E last \in DOMAIN table : (\A m \in DOMAIN table : m <= last) /\ ~table[last]
      <4>1. SUFFICES ASSUME NEW last \in Span, \A m \in Span : m <= last
                     PROVE  table[last]
        BY <1>2
      <4>2. last = OneGpuCapacity
        BY <1>3, <4>1 DEF Span
      <4> QED
        BY <1>2, <1>3, <2>3, <4>2
    <3>3. ~table[0]
      BY <1>2, <1>3, <2>3
    <3>4. n \in VsWholesale!Crossings
      BY <1>2, <2>3, <3>1 DEF VsWholesale!Crossings
    <3> HIDE DEF table
    <3> QED
      BY <2>3, <3>2, <3>3, <3>4 DEF VsWholesale!Promised, table
  <2> QED
    BY <1>4, <2>1, <2>2, <2>3 DEF Allowed
<1>5. UNCHANGED table
  BY <1>1, StepAnswers
<1>6. CASE answer' = answer
  BY <1>5, <1>6 DEF VsWholesale!vars
<1>7. CASE answer = Open /\ answer' = Refused
  BY <1>5, <1>7 DEF VsWholesale!Next, VsWholesale!Decline
<1>8. CASE answer = Open /\ Allowed("wholesale", answer')
  BY <1>2, <1>4, <1>5, <1>8 DEF VsWholesale!Next, VsWholesale!Answer
<1> QED
  BY <1>1, <1>6, <1>7, <1>8, StepAnswers

(***************************************************************************)
(* Both searches implement the abstract one: an answer is given once, and  *)
(* it is a request count at which renting turns from dearer to at most as  *)
(* dear, or that there is none (firstAtMost), whatever the two curves are. *)
(***************************************************************************)
THEOREM BreakEvenImplemented == Spec => VsScaleToZero!Safety /\ VsWholesale!Safety
<1>1. Init => VsScaleToZero!Init /\ VsWholesale!Init
  BY DEF Init, VsScaleToZero!Init, VsWholesale!Init, AnswerTo, Others
<1> QED
  BY InitInv, StepInv, VsScaleToZeroStep, VsWholesaleStep, <1>1, PTL
     DEF Spec, VsScaleToZero!Safety, VsWholesale!Safety

-----------------------------------------------------------------------------
(***************************************************************************)
(* Against a price by the token the search is exact.  Renting costs a      *)
(* fixed amount and so much a request as long as one GPU carries the       *)
(* range, wholesale so much a request: once renting is at most as dear it  *)
(* stays so.                                                               *)
(***************************************************************************)
LEMMA CeilDivNat ==
    ASSUME NEW a \in Nat, NEW b \in Nat \ {0}
    PROVE  CeilDiv(a, b) \in Nat
<1>1. a + b - 1 \in Nat
  OBVIOUS
<1>2. ASSUME NEW x \in Nat PROVE x \div b \in Int
  BY <1>2
<1>3. ASSUME NEW x \in Nat PROVE x \div b >= 0
  BY <1>3
<1> QED
  BY <1>1, <1>2, <1>3 DEF CeilDiv

LEMMA CeilDivOne ==
    ASSUME NEW a \in Nat, NEW b \in Nat \ {0}, a <= b
    PROVE  CeilDiv(a, b) <= 1
<1>1. a + b - 1 \in Nat /\ a + b - 1 < 2 * b
  OBVIOUS
<1>2. ASSUME NEW x \in Nat, x < 2 * b PROVE x \div b <= 1
  BY <1>2, SMT
<1> QED
  BY <1>1, <1>2 DEF CeilDiv

LEMMA DivisionBelow ==
    ASSUME NEW x \in Nat, NEW b \in Nat \ {0}
    PROVE  x \div b \in Nat /\ b * (x \div b) <= x
<1>1. x \div b \in Int
  BY SMT
<1>2. x \div b >= 0
  BY SMT
<1>3. b * (x \div b) <= x
  BY SMT
<1> QED
  BY <1>1, <1>2, <1>3

LEMMA ProductMonotone ==
    ASSUME NEW b \in Nat, NEW m \in Nat, NEW k \in Nat, m <= k
    PROVE  m * b <= k * b
BY SMT

LEMMA LineCrosses ==
    ASSUME NEW a \in Nat, NEW d \in Int, NEW m \in Nat, NEW k \in Nat,
           1 <= m, m <= k, a <= m * d
    PROVE  a <= k * d
BY SMT

(***************************************************************************)
(* What validateModel and validateGpuClass have let through.               *)
(***************************************************************************)
Priced == ValidModel(doc.model) /\ ValidClass(doc.class)

LEMMA BusyNat ==
    ASSUME \E c \in Cases : doc = c[1]
    PROVE  Busy \in Nat
<1>1. PICK c \in Cases : doc = c[1]
  OBVIOUS
<1>2. /\ doc.request["input"] \in Nat /\ doc.request["cached"] \in Nat
      /\ doc.request["written"] \in Nat /\ doc.request["output"] \in Nat
      /\ doc.model.prefillTps \in Nat \ {0} /\ doc.model.cachedTps \in Nat \ {0}
      /\ doc.model.decodeTps \in Nat \ {0}
  BY <1>1, CasesAssumption
<1>3. ASSUME NEW t \in Nat, NEW s \in Nat \ {0}
      PROVE  Millis(t, s) \in Nat
  <2>1. t * MsPerSecond \in Nat
    BY <1>3, UnitsAssumption
  <2> QED
    BY <1>3, <2>1, CeilDivNat DEF Millis
<1>4. doc.request["input"] + doc.request["written"] \in Nat
  BY <1>2
<1>5. /\ Millis(doc.request["input"] + doc.request["written"], doc.model.prefillTps) \in Nat
      /\ Millis(doc.request["cached"], doc.model.cachedTps) \in Nat
      /\ Millis(doc.request["output"], doc.model.decodeTps) \in Nat
  BY <1>2, <1>3, <1>4
<1> QED
  BY <1>5 DEF Busy

(***************************************************************************)
(* One GPU serves every request count of the range, unless one request     *)
(* takes more than a month (gpuCount, oneGpuCapacity).                     *)
(***************************************************************************)
LEMMA OneGpu ==
    ASSUME \E c \in Cases : doc = c[1], NEW n \in Span, OneGpuCapacity # 1
    PROVE  GpuCount(n) = 1
<1>1. Busy \in Nat
  BY BusyNat
<1>2. MonthMs \in Nat \ {0}
  <2>1. HoursPerMonth \in Nat \ {0} /\ MsPerHour \in Nat \ {0}
    BY UnitsAssumption
  <2> QED
    BY <2>1, SMT DEF MonthMs
<1>3. OneGpuCapacity \in Nat /\ n \in Nat /\ n <= OneGpuCapacity
  BY CapacityPositive DEF Span
<1>4. n * Busy \in Nat /\ n * Busy <= MonthMs
  <2>1. CASE Busy <= 0
    <3>1. Busy = 0
      BY <1>1, <2>1
    <3>2. n * Busy = 0
      BY <1>3, <3>1
    <3> QED
      BY <1>2, <3>2
  <2>2. CASE Busy > 0
    <3>1. OneGpuCapacity = MonthMs \div Busy
      BY <1>1, <2>2 DEF OneGpuCapacity
    <3>2. Busy * OneGpuCapacity <= MonthMs
      BY <1>1, <1>2, <2>2, <3>1, DivisionBelow
    <3>3. n * Busy <= OneGpuCapacity * Busy
      BY <1>1, <1>3, ProductMonotone
    <3>4. n * Busy \in Nat /\ OneGpuCapacity * Busy = Busy * OneGpuCapacity
      BY <1>1, <1>3
    <3> QED
      BY <1>1, <1>2, <1>3, <3>2, <3>3, <3>4
  <2> QED
    BY <1>1, <2>1, <2>2
<1>5. CeilDiv(n * Busy, MonthMs) \in Nat /\ CeilDiv(n * Busy, MonthMs) <= 1
  BY <1>2, <1>4, CeilDivNat, CeilDivOne
<1>6. ASSUME NEW x \in Nat, x <= 1
      PROVE  Max({x, 1}) = 1
  BY <1>6 DEF Max
<1> QED
  BY <1>5, <1>6 DEF GpuCount

LEMMA WholesaleLine ==
    ASSUME \E c \in Cases : doc = c[1], Priced,
           NEW m \in Span, NEW k \in Span, 1 <= m, m <= k, WarmAtMost("wholesale", m)
    PROVE  WarmAtMost("wholesale", k)
<1>1. PICK c \in Cases : doc = c[1]
  OBVIOUS
<1>2. /\ \A kind \in Kinds : doc.request[kind] \in Nat /\ doc.model.rate[kind] \in Nat
      /\ doc.model.fee \in Nat
      /\ doc.class.warm.hourly \in Nat /\ doc.class.warm.storageGb \in Nat
      /\ doc.class.warm.perGb \in Nat /\ doc.class.warm.egressBytes \in Nat
      /\ doc.class.warm.egressRate \in Nat
  <2>1. \A kind \in Kinds : doc.request[kind] \in Nat
    BY <1>1, CasesAssumption DEF Kinds
  <2>2. /\ \A kind \in Kinds : Integer(doc.model.rate[kind], 0)
        /\ Integer(doc.model.fee, 0)
    BY DEF Priced, ValidModel
  <2>3. \A amount \in {doc.class.warm.hourly, doc.class.warm.storageGb, doc.class.warm.perGb,
                       doc.class.warm.egressBytes, doc.class.warm.egressRate} : Integer(amount, 0)
    BY DEF Priced, ValidClass, ValidSection
  <2> QED
    BY <2>1, <2>2, <2>3 DEF Integer
<1>3. OneGpuCapacity \in Nat /\ m \in Nat /\ k \in Nat /\ k <= OneGpuCapacity
  BY CapacityPositive DEF Span
<1>4. CASE OneGpuCapacity = 1
  BY <1>3, <1>4
<1>5. CASE OneGpuCapacity # 1
  <2> DEFINE price(kind) == CeilDiv(doc.request[kind] * doc.model.rate[kind], PerMillion)
             w == price("input") + price("cached") + price("written") + price("output") + doc.model.fee
             e == Egress(doc.class.warm)
             a == 1 * HoursPerMonth * doc.class.warm.hourly + Storage(doc.class.warm)
  <2>1. GpuCount(m) = 1 /\ GpuCount(k) = 1
    BY <1>5, OneGpu
  <2>2. w \in Nat
    <3>1. PerMillion \in Nat \ {0}
      BY UnitsAssumption
    <3>2. ASSUME NEW kind \in Kinds PROVE price(kind) \in Nat
      <4>1. doc.request[kind] * doc.model.rate[kind] \in Nat
        BY <1>2, <3>2
      <4> QED
        BY <3>1, <4>1, CeilDivNat
    <3>3. price("input") \in Nat /\ price("cached") \in Nat /\ price("written") \in Nat /\ price("output") \in Nat
      BY <3>2 DEF Kinds
    <3> QED
      BY <1>2, <3>3
  <2>3. e \in Nat
    <3>1. BytesPerGb \in Nat \ {0}
      BY UnitsAssumption
    <3>2. doc.class.warm.egressBytes * doc.class.warm.egressRate \in Nat
      BY <1>2
    <3> QED
      BY <3>1, <3>2, CeilDivNat DEF Egress
  <2>4. a \in Nat
    <3>1. HoursPerMonth \in Nat
      BY UnitsAssumption
    <3>2. HoursPerMonth * doc.class.warm.hourly \in Nat /\ Storage(doc.class.warm) \in Nat
      BY <1>2, <3>1 DEF Storage
    <3> QED
      BY <3>1, <3>2
  <2>5. ASSUME NEW n \in Nat, GpuCount(n) = 1
        PROVE  WarmAtMost("wholesale", n) <=> a + n * e <= n * w
    BY <2>5 DEF WarmAtMost, Cost, WarmCost, Rental, WholesaleCost
  <2> HIDE DEF a, e, w
  <2>6. a + m * e <= m * w
    BY <1>3, <2>1, <2>5
  <2>7. m * (w - e) = m * w - m * e /\ k * (w - e) = k * w - k * e
    BY <1>3, <2>2, <2>3, SMT
  <2>8. m * e \in Nat /\ m * w \in Nat /\ k * e \in Nat /\ k * w \in Nat /\ w - e \in Int
    BY <1>3, <2>2, <2>3
  <2>9. a <= m * (w - e)
    BY <2>4, <2>6, <2>7, <2>8
  <2>10. a <= k * (w - e)
    BY <1>3, <2>4, <2>8, <2>9, LineCrosses
  <2>11. a + k * e <= k * w
    BY <2>4, <2>7, <2>8, <2>10
  <2> QED
    BY <1>3, <2>1, <2>5, <2>11
<1> QED
  BY <1>4, <1>5

(***************************************************************************)
(* A search begins only with a document that is valid, and an answer is    *)
(* an allowed one.                                                         *)
(***************************************************************************)
ExactInv ==
    /\ pc \in Others => Priced
    /\ even["wholesale"] # Open => Priced /\ Allowed("wholesale", even["wholesale"])

LEMMA ExactStep == Inv /\ ExactInv /\ [Next]_vars => ExactInv'
<1> SUFFICES ASSUME Inv, ExactInv, [Next]_vars PROVE ExactInv'
  OBVIOUS
<1>0. /\ UNCHANGED doc
      /\ OneGpuCapacity' = OneGpuCapacity
      /\ \A other, n : WarmAtMost(other, n)' <=> WarmAtMost(other, n)
  BY InputsKept DEF Next, Search, ReadDocument, Demand, Fallback, BothEnds, Halve, Found,
     Recommend, vars, inputs
<1>1. Priced' <=> Priced
  BY <1>0 DEF Priced
<1>2. ASSUME NEW n PROVE Allowed("wholesale", n)' <=> Allowed("wholesale", n)
  BY <1>0 DEF Allowed, Span
<1>3. pc' \in Others => Priced
  <2>1. CASE ReadDocument \/ Demand \/ Fallback
    BY <1>0, <2>1 DEF ReadDocument, Demand, Fallback, Plan, Refuse, Valid, Priced, Others
  <2>2. CASE \E other \in Others : BothEnds(other) \/ Halve(other) \/ Found(other)
    BY <2>2 DEF BothEnds, Halve, Found, ExactInv
  <2>3. CASE Recommend
    BY <2>3 DEF Recommend, Others
  <2> QED
    BY <2>1, <2>2, <2>3 DEF Next, Search, vars, ExactInv
<1>4. even'["wholesale"] # Open => Priced /\ Allowed("wholesale", even'["wholesale"])
  <2>1. CASE UNCHANGED even
    BY <2>1 DEF ExactInv
  <2>2. ASSUME NEW other \in Others, BothEnds(other) \/ Found(other)
        PROVE  even'["wholesale"] # Open => Priced /\ Allowed("wholesale", even'["wholesale"])
    <3>1. pc = other /\ pc' # "refused" /\ Priced
      BY <2>2 DEF BothEnds, Found, NextSearch, Others, ExactInv
    <3>2. AnswerTo("wholesale") = even["wholesale"] /\ AnswerTo("wholesale")' = even'["wholesale"]
      BY <3>1 DEF AnswerTo, Others
    <3>3. CASE even'["wholesale"] = even["wholesale"]
      BY <3>1, <3>3 DEF ExactInv
    <3>4. CASE even'["wholesale"] # even["wholesale"]
      <4>1. other = "wholesale"
        <5>1. \E v : even' = [even EXCEPT ![other] = v]
          BY <2>2, <3>4 DEF BothEnds, Found
        <5>2. other # "wholesale" => even'["wholesale"] = even["wholesale"]
          BY <5>1 DEF Inv, Others
        <5> QED
          BY <3>4, <5>2
      <4>2. CASE BothEnds(other)
        BY <3>1, <3>4, <4>1, <4>2 DEF BothEnds, Inv, Allowed
      <4>3. CASE Found(other)
        <5>1. high # 0 /\ low + 1 >= high /\ even'["wholesale"] = high
          BY <4>1, <4>3 DEF Found, Inv
        <5>2. Narrowing("wholesale")
          BY <3>1, <4>1, <5>1 DEF Inv
        <5>3. OneGpuCapacity \in Nat
          BY CapacityPositive DEF Inv
        <5>4. low = high - 1 /\ high \in Span \ {0}
          BY <5>1, <5>2, <5>3 DEF Narrowing, Span
        <5> QED
          BY <3>1, <5>1, <5>2, <5>4 DEF Narrowing, Allowed
      <4> QED
        BY <2>2, <4>2, <4>3
    <3> QED
      BY <3>3, <3>4
  <2> QED
    BY <2>1, <2>2 DEF Next, Search, ReadDocument, Demand, Fallback, Halve, Recommend, vars
<1> QED
  BY <1>1, <1>2, <1>3, <1>4 DEF ExactInv

LEMMA ExactHolds ==
    ASSUME Inv, ExactInv
    PROVE  WholesaleExact
<1> DEFINE counts == {n \in Span : cheaper["wholesale"][n]}
           answer == even["wholesale"]
<1>1. SUFFICES ASSUME answer # Open
               PROVE  answer = IF counts = {} THEN None ELSE Min(counts)
  BY DEF WholesaleExact, Exact
<1>2. Priced /\ Allowed("wholesale", answer) /\ \E c \in Cases : doc = c[1]
  BY <1>1 DEF ExactInv, Inv
<1>3. \A n \in Span : n \in counts <=> WarmAtMost("wholesale", n)
  BY DEF Inv, Table, Others
<1>4. OneGpuCapacity \in Nat /\ 0 \in Span /\ OneGpuCapacity \in Span
  BY <1>2, CapacityPositive DEF Span
<1>5. \A m, k \in Span : 1 <= m /\ m <= k /\ WarmAtMost("wholesale", m) => WarmAtMost("wholesale", k)
  BY <1>2, WholesaleLine
<1>6. ASSUME NEW n \in counts, \A m \in counts : n <= m
      PROVE  Min(counts) = n
  <2>1. \A m \in counts : m \in Nat
    BY DEF Span
  <2> QED
    BY <1>6, <2>1 DEF Min
<1> HIDE DEF counts, answer
<1>7. CASE answer = 0 /\ WarmAtMost("wholesale", 0)
  <2>1. 0 \in counts
    BY <1>3, <1>4, <1>7
  <2>2. \A m \in counts : 0 <= m
    BY DEF counts, Span
  <2> QED
    BY <1>6, <1>7, <2>1, <2>2
<1>8. CASE answer = None /\ ~WarmAtMost("wholesale", 0) /\ ~WarmAtMost("wholesale", OneGpuCapacity)
  <2>1. ASSUME NEW m \in Span PROVE ~WarmAtMost("wholesale", m)
    <3>1. m = 0 \/ (1 <= m /\ m <= OneGpuCapacity)
      BY <1>4, <2>1 DEF Span
    <3> QED
      BY <1>4, <1>5, <1>8, <2>1, <3>1
  <2>2. counts = {}
    BY <1>3, <2>1 DEF counts
  <2> QED
    BY <1>8, <2>2
<1>9. CASE /\ answer \in Span \ {0} /\ WarmAtMost("wholesale", answer)
           /\ ~WarmAtMost("wholesale", answer - 1) /\ ~WarmAtMost("wholesale", 0)
  <2>1. answer \in counts
    BY <1>3, <1>9
  <2>2. ASSUME NEW m \in counts PROVE answer <= m
    <3>1. m \in Span /\ WarmAtMost("wholesale", m)
      BY <1>3, <2>2 DEF counts
    <3>2. SUFFICES ASSUME ~(answer <= m) PROVE FALSE
      OBVIOUS
    <3>3. m # 0 /\ m \in Nat /\ answer \in Nat
      BY <1>9, <3>1 DEF Span
    <3>4. 1 <= m /\ m <= answer - 1 /\ answer - 1 \in Span
      BY <1>4, <1>9, <3>2, <3>3 DEF Span
    <3> QED
      BY <1>5, <1>9, <3>1, <3>4
  <2> QED
    BY <1>6, <2>1, <2>2
<1> QED
  BY <1>2, <1>7, <1>8, <1>9 DEF Allowed

(***************************************************************************)
(* The break-even against wholesale is the smallest count of the whole     *)
(* range, and none means there is none (firstAtMost and its comment), for  *)
(* any prices and any model.                                               *)
(***************************************************************************)
THEOREM WholesaleExactHolds == Spec => []WholesaleExact
<1>1. Init => ExactInv
  BY DEF Init, ExactInv, Others
<1> QED
  BY InitInv, StepInv, ExactStep, ExactHolds, <1>1, PTL DEF Spec

-----------------------------------------------------------------------------
(***************************************************************************)
(* Sums over finite sets (what SumFunction of the community modules adds   *)
(* up, whatever element it takes first).                                   *)
(***************************************************************************)
LEMMA SetInduction ==
    ASSUME NEW T, 0 \in T, \A n \in Nat : n \in T => n + 1 \in T
    PROVE  Nat \subseteq T
<1> SUFFICES ASSUME NEW n \in Nat, n \notin T PROVE FALSE
  OBVIOUS
<1> DEFINE S == {m \in 0..n : m \notin T}
           down == [m \in S |-> m - 1]
<1>1. IsFiniteSet(S)
  <2>1. IsFiniteSet(0..n)
    BY FS_Interval
  <2>2. S \in SUBSET (0..n)
    OBVIOUS
  <2> HIDE DEF S
  <2> QED BY <2>1, <2>2, FS_Subset
<1>2. \A m \in S : m # 0 /\ m - 1 \in S
  OBVIOUS
<1>3. down \in Injection(S, S)
  BY <1>2 DEF Injection, IsInjective
<1>4. down \in Surjection(S, S)
  BY <1>1, <1>3, FS_Injection
<1>5. n \in S
  OBVIOUS
<1>6. PICK m \in S : down[m] = n
  BY <1>4, <1>5 DEF Surjection
<1> QED BY <1>6

Pick(s) == CHOOSE x \in s : TRUE
SumsUp(g, m, S) ==
    /\ g \in [SUBSET S -> Int]
    /\ \A s \in SUBSET S : g[s] = IF s = {} THEN 0 ELSE m[Pick(s)] + g[s \ {Pick(s)}]

LEMMA Smaller ==
    ASSUME NEW S, IsFiniteSet(S), NEW s \in SUBSET S
    PROVE  /\ IsFiniteSet(s) /\ Cardinality(s) \in Nat /\ (Cardinality(s) = 0 <=> s = {})
           /\ s # {} => Pick(s) \in s
           /\ \A x \in s : s \ {x} \in SUBSET S /\ Cardinality(s \ {x}) = Cardinality(s) - 1 /\ Cardinality(s) >= 1
                           /\ Cardinality(s \ {x}) \in Nat
<1>1. IsFiniteSet(s)
  BY FS_Subset
<1>2. Cardinality(s) \in Nat /\ (Cardinality(s) = 0 <=> s = {})
  BY <1>1, FS_CardinalityType, FS_EmptySet
<1>3. s # {} => Pick(s) \in s
  BY DEF Pick
<1>4. ASSUME NEW x \in s
      PROVE  s \ {x} \in SUBSET S /\ Cardinality(s \ {x}) = Cardinality(s) - 1 /\ Cardinality(s) >= 1
             /\ Cardinality(s \ {x}) \in Nat
  <2>1. IsFiniteSet(s \ {x}) /\ Cardinality(s \ {x}) = Cardinality(s) - 1
    BY <1>1, FS_RemoveElement
  <2>2. Cardinality(s) # 0
    BY <1>2
  <2>3. Cardinality(s) >= 1
    BY <1>2, <2>2
  <2>4. Cardinality(s \ {x}) \in Nat
    BY <2>1, FS_CardinalityType
  <2> QED BY <2>1, <2>3, <2>4
<1> QED BY <1>1, <1>2, <1>3, <1>4

LEMMA SomeSum ==
    ASSUME NEW S, IsFiniteSet(S), NEW m, \A x \in S : m[x] \in Int
    PROVE  \E g : SumsUp(g, m, S)
<1> DEFINE UpTo(n, g) ==
             \A s \in SUBSET S : Cardinality(s) <= n =>
                g[s] = IF s = {} THEN 0 ELSE m[Pick(s)] + g[s \ {Pick(s)}]
           T == {n \in Nat : \E g \in [SUBSET S -> Int] : UpTo(n, g)}
<1>1. 0 \in T
  <2> DEFINE g == [s \in SUBSET S |-> 0]
  <2>1. g \in [SUBSET S -> Int]
    OBVIOUS
  <2>2. UpTo(0, g)
    <3> SUFFICES ASSUME NEW s \in SUBSET S, Cardinality(s) <= 0 PROVE s = {} /\ g[s] = 0
      OBVIOUS
    <3>1. Cardinality(s) \in Nat /\ (Cardinality(s) = 0 <=> s = {})
      BY Smaller
    <3> QED BY <3>1
  <2> QED BY <2>1, <2>2
<1>2. ASSUME NEW n \in Nat, n \in T PROVE n + 1 \in T
  <2>1. PICK g \in [SUBSET S -> Int] : UpTo(n, g)
    BY <1>2
  <2> DEFINE h == [s \in SUBSET S |-> IF s = {} THEN 0 ELSE m[Pick(s)] + g[s \ {Pick(s)}]]
  <2>2. h \in [SUBSET S -> Int]
    <3> SUFFICES ASSUME NEW s \in SUBSET S, s # {} PROVE m[Pick(s)] + g[s \ {Pick(s)}] \in Int
      OBVIOUS
    <3>1. Pick(s) \in S /\ s \ {Pick(s)} \in SUBSET S
      BY Smaller
    <3>2. m[Pick(s)] \in Int /\ g[s \ {Pick(s)}] \in Int
      BY <3>1
    <3> QED BY <3>2
  <2>3. UpTo(n + 1, h)
    <3> SUFFICES ASSUME NEW s \in SUBSET S, Cardinality(s) <= n + 1, s # {}
                 PROVE  h[s] = m[Pick(s)] + h[s \ {Pick(s)}]
      OBVIOUS
    <3> DEFINE r == s \ {Pick(s)}
    <3>1. r \in SUBSET S /\ Cardinality(r) = Cardinality(s) - 1 /\ Cardinality(r) \in Nat /\ Cardinality(s) \in Nat
      BY Smaller
    <3>2. Cardinality(r) <= n
      BY <3>1
    <3>3. g[r] = IF r = {} THEN 0 ELSE m[Pick(r)] + g[r \ {Pick(r)}]
      BY <2>1, <3>1, <3>2
    <3>4. h[r] = g[r]
      BY <3>1, <3>3
    <3> QED BY <3>4
  <2> HIDE DEF h, UpTo
  <2>4. \E k \in [SUBSET S -> Int] : UpTo(n + 1, k)
    BY <2>2, <2>3
  <2> QED BY <2>4
<1>3. Nat \subseteq T
  <2> HIDE DEF T
  <2> QED BY <1>1, <1>2, SetInduction
<1>4. Cardinality(S) \in T
  BY <1>3, FS_CardinalityType
<1>5. PICK g \in [SUBSET S -> Int] : UpTo(Cardinality(S), g)
  BY <1>4
<1>6. \A s \in SUBSET S : Cardinality(s) <= Cardinality(S)
  BY FS_Subset
<1>7. SumsUp(g, m, S)
  BY <1>5, <1>6 DEF SumsUp
<1> QED BY <1>7

(***************************************************************************)
(* Whatever element is taken first.                                        *)
(***************************************************************************)
LEMMA SumTakes ==
    ASSUME NEW S, IsFiniteSet(S), NEW m, \A x \in S : m[x] \in Int, NEW g, SumsUp(g, m, S)
    PROVE  \A s \in SUBSET S : \A x \in s : g[s] = m[x] + g[s \ {x}]
<1> DEFINE T == {n \in Nat : \A s \in SUBSET S : Cardinality(s) = n => \A x \in s : g[s] = m[x] + g[s \ {x}]}
<1>1. 0 \in T
  BY Smaller
<1>2. ASSUME NEW n \in Nat, n \in T PROVE n + 1 \in T
  <2>0. ASSUME NEW s \in SUBSET S, Cardinality(s) = n + 1, NEW x \in s PROVE g[s] = m[x] + g[s \ {x}]
    <3> DEFINE y == Pick(s)
    <3>1. y \in s /\ g[s] = m[y] + g[s \ {y}]
      BY Smaller DEF SumsUp
    <3> HIDE DEF y
    <3>2. CASE x = y
      BY <3>1, <3>2
    <3>3. CASE x # y
      <4>1. /\ s \ {y} \in SUBSET S /\ Cardinality(s \ {y}) = n /\ x \in s \ {y}
            /\ s \ {x} \in SUBSET S /\ Cardinality(s \ {x}) = n /\ y \in s \ {x}
        <5>1. Cardinality(s \ {x}) = Cardinality(s) - 1 /\ Cardinality(s \ {y}) = Cardinality(s) - 1
          BY <3>1, Smaller
        <5>2. Cardinality(s \ {x}) = n /\ Cardinality(s \ {y}) = n
          BY <2>0, <5>1
        <5> QED BY <3>1, <3>3, <5>2
      <4> DEFINE r == (s \ {y}) \ {x}
      <4>2. (s \ {x}) \ {y} = r /\ r \in SUBSET S
        OBVIOUS
      <4>3. g[s \ {y}] = m[x] + g[r]
        BY <1>2, <4>1
      <4>4. g[s \ {x}] = m[y] + g[(s \ {x}) \ {y}]
        BY <1>2, <4>1
      <4>5. m[x] \in Int /\ m[y] \in Int /\ g[r] \in Int
        BY <3>1, <4>2 DEF SumsUp
      <4>6. g[s \ {x}] = m[y] + g[r]
        BY <4>2, <4>4
      <4> HIDE DEF r
      <4>7. g[s] = m[y] + (m[x] + g[r])
        BY <3>1, <4>3
      <4>8. m[y] + (m[x] + g[r]) = m[x] + (m[y] + g[r])
        BY <4>5
      <4> QED BY <4>6, <4>7, <4>8
    <3> QED BY <3>2, <3>3
  <2>1. n + 1 \in Nat
    OBVIOUS
  <2> QED BY <2>0, <2>1
<1>3. Nat \subseteq T
  <2> HIDE DEF T
  <2> QED BY <1>1, <1>2, SetInduction
<1>4. ASSUME NEW s \in SUBSET S PROVE \A x \in s : g[s] = m[x] + g[s \ {x}]
  <2>1. Cardinality(s) \in Nat
    BY Smaller
  <2>2. Cardinality(s) \in T
    BY <1>3, <2>1
  <2> QED BY <2>2
<1> QED BY <1>4

LEMMA SumIs ==
    ASSUME NEW S, IsFiniteSet(S), NEW m, \A x \in S : m[x] \in Int
    PROVE  \E g : SumsUp(g, m, S) /\ SumFunctionOnSet(m, S) = g[S]
<1> DEFINE Fn(g) == g = [s \in SUBSET S |-> IF s = {} THEN 0 ELSE m[CHOOSE x \in s : TRUE]
                                                              + g[s \ {CHOOSE x \in s : TRUE}]]
           iter == CHOOSE g : Fn(g)
<1>1. PICK g : SumsUp(g, m, S)
  BY SomeSum
<1>2. Fn(g)
  BY <1>1 DEF SumsUp, Pick
<1>3. Fn(iter)
  BY <1>2
<1>4. \A s \in SUBSET S : iter[s] = IF s = {} THEN 0 ELSE m[Pick(s)] + iter[s \ {Pick(s)}]
  BY <1>3 DEF Pick
<1>5. SumFunctionOnSet(m, S) = iter[S]
  BY DEF SumFunctionOnSet, FoldFunctionOnSet, MapThenFoldSet, iter
<1> HIDE DEF iter, Fn
<1> DEFINE T == {n \in Nat : \A s \in SUBSET S : Cardinality(s) = n => iter[s] = g[s]}
<1>6. 0 \in T
  BY <1>1, <1>4, Smaller DEF SumsUp
<1>7. ASSUME NEW n \in Nat, n \in T PROVE n + 1 \in T
  <2> SUFFICES ASSUME NEW s \in SUBSET S, Cardinality(s) = n + 1 PROVE iter[s] = g[s]
    OBVIOUS
  <2>1. s # {} /\ Pick(s) \in s
    BY Smaller
  <2>2. s \ {Pick(s)} \in SUBSET S /\ Cardinality(s \ {Pick(s)}) = n
    BY <2>1, Smaller
  <2> QED BY <1>1, <1>4, <1>7, <2>1, <2>2 DEF SumsUp
<1>8. Nat \subseteq T
  <2> HIDE DEF T
  <2> QED BY <1>6, <1>7, SetInduction
<1>9. iter[S] = g[S]
  BY <1>8, FS_CardinalityType
<1> QED BY <1>1, <1>5, <1>9

LEMMA FamilyInduction ==
    ASSUME NEW S, IsFiniteSet(S), NEW F, {} \in F,
           \A s \in SUBSET S : \A x \in S \ s : s \in F => s \cup {x} \in F
    PROVE  SUBSET S \subseteq F
<1> DEFINE T == {n \in Nat : \A s \in SUBSET S : Cardinality(s) = n => s \in F}
<1>1. 0 \in T
  BY Smaller
<1>2. ASSUME NEW n \in Nat, n \in T PROVE n + 1 \in T
  <2>1. ASSUME NEW s \in SUBSET S, Cardinality(s) = n + 1 PROVE s \in F
    <3>1. s # {}
      BY <2>1, Smaller
    <3>2. PICK x \in s : TRUE
      BY <3>1
    <3>3. s \ {x} \in SUBSET S /\ Cardinality(s \ {x}) = n
      <4>1. Cardinality(s \ {x}) = Cardinality(s) - 1
        BY Smaller
      <4> QED BY <2>1, <4>1
    <3>4. s \ {x} \in F
      BY <1>2, <3>3
    <3>5. (s \ {x}) \cup {x} = s /\ x \in S \ (s \ {x})
      OBVIOUS
    <3> QED BY <3>3, <3>4, <3>5
  <2> QED BY <2>1
<1>3. Nat \subseteq T
  <2> HIDE DEF T
  <2> QED BY <1>1, <1>2, SetInduction
<1>4. ASSUME NEW s \in SUBSET S PROVE s \in F
  <2>1. Cardinality(s) \in T
    BY <1>3, Smaller
  <2> QED BY <2>1
<1> QED BY <1>4

\* The sum over a part of a set is the one its elements alone determine.
LEMMA SumAgrees ==
    ASSUME NEW S, IsFiniteSet(S), NEW m, \A x \in S : m[x] \in Int, NEW g, SumsUp(g, m, S),
           NEW s \in SUBSET S, NEW k, \A x \in s : k[x] = m[x], NEW h, SumsUp(h, k, s)
    PROVE  g[s] = h[s]
<1>1. IsFiniteSet(s)
  BY FS_Subset
<1> DEFINE F == {t \in SUBSET s : g[t] = h[t]}
<1>2. {} \in F
  BY DEF SumsUp
<1>3. ASSUME NEW t \in SUBSET s, NEW x \in s \ t, t \in F PROVE t \cup {x} \in F
  <2>1. (t \cup {x}) \ {x} = t /\ t \cup {x} \in SUBSET s /\ t \cup {x} \in SUBSET S /\ x \in t \cup {x}
    OBVIOUS
  <2>2. g[t \cup {x}] = m[x] + g[(t \cup {x}) \ {x}]
    BY <2>1, SumTakes
  <2>3. \A y \in s : k[y] \in Int
    OBVIOUS
  <2>4. h[t \cup {x}] = k[x] + h[(t \cup {x}) \ {x}]
    BY <1>1, <2>1, <2>3, SumTakes
  <2> QED BY <1>3, <2>1, <2>2, <2>4
<1>4. SUBSET s \subseteq F
  <2> HIDE DEF F
  <2> QED BY <1>1, <1>2, <1>3, FamilyInduction
<1> QED BY <1>4

\* SumFunctionOnSet as a sum: of nothing, and with one more.
LEMMA SumOfNone == ASSUME NEW m PROVE SumFunctionOnSet(m, {}) = 0
<1>1. IsFiniteSet({}) /\ \A x \in {} : m[x] \in Int
  BY FS_EmptySet
<1>2. PICK g : SumsUp(g, m, {}) /\ SumFunctionOnSet(m, {}) = g[{}]
  BY <1>1, SumIs
<1> QED BY <1>2 DEF SumsUp

LEMMA SumIsInt ==
    ASSUME NEW S, IsFiniteSet(S), NEW m, \A x \in S : m[x] \in Int
    PROVE  SumFunctionOnSet(m, S) \in Int
<1>1. PICK g : SumsUp(g, m, S) /\ SumFunctionOnSet(m, S) = g[S]
  BY SumIs
<1> QED BY <1>1 DEF SumsUp

LEMMA SumOneMore ==
    ASSUME NEW S, IsFiniteSet(S), NEW x, x \notin S, NEW m, \A y \in S \cup {x} : m[y] \in Int
    PROVE  SumFunctionOnSet(m, S \cup {x}) = m[x] + SumFunctionOnSet(m, S)
<1> DEFINE A == S \cup {x}
<1>1. IsFiniteSet(A) /\ S \in SUBSET A /\ x \in A /\ A \ {x} = S
  BY FS_AddElement
<1> HIDE DEF A
<1>2. \A y \in A : m[y] \in Int
  BY DEF A
<1>3. PICK g : SumsUp(g, m, A) /\ SumFunctionOnSet(m, A) = g[A]
  BY <1>1, <1>2, SumIs
<1>4. g[A] = m[x] + g[S]
  BY <1>1, <1>2, <1>3, SumTakes
<1>5. PICK h : SumsUp(h, m, S) /\ SumFunctionOnSet(m, S) = h[S]
  BY <1>2, SumIs DEF A
<1>6. g[S] = h[S]
  BY <1>1, <1>2, <1>3, <1>5, SumAgrees
<1> QED BY <1>3, <1>4, <1>5, <1>6 DEF A

LEMMA SumAtMost ==
    ASSUME NEW S, IsFiniteSet(S), NEW m, \A x \in S : m[x] \in Int, NEW u \in Nat, \A x \in S : m[x] <= u
    PROVE  SumFunctionOnSet(m, S) <= Cardinality(S) * u
<1> DEFINE F == {s \in SUBSET S : SumFunctionOnSet(m, s) <= Cardinality(s) * u}
<1>1. {} \in F
  BY SumOfNone, FS_EmptySet
<1>2. ASSUME NEW s \in SUBSET S, NEW x \in S \ s, s \in F PROVE s \cup {x} \in F
  <2>1. IsFiniteSet(s) /\ x \notin s /\ \A y \in s \cup {x} : m[y] \in Int
    BY FS_Subset
  <2>2. SumFunctionOnSet(m, s \cup {x}) = m[x] + SumFunctionOnSet(m, s) /\ SumFunctionOnSet(m, s) \in Int
    BY <2>1, SumOneMore, SumIsInt
  <2>3. Cardinality(s \cup {x}) = Cardinality(s) + 1 /\ Cardinality(s) \in Nat
    BY <2>1, FS_AddElement, FS_CardinalityType
  <2>4. SumFunctionOnSet(m, s) <= Cardinality(s) * u
    BY <1>2
  <2> DEFINE sum == SumFunctionOnSet(m, s)
             n == Cardinality(s)
             e == m[x]
  <2>5. sum \in Int /\ n \in Nat /\ e \in Int /\ e <= u /\ sum <= n * u
    BY <2>2, <2>3, <2>4
  <2> HIDE DEF sum, n, e
  <2>6. e + sum <= (n + 1) * u
    <3>1. (n + 1) * u = n * u + u /\ n * u \in Int
      BY <2>5, SMT
    <3> QED BY <2>5, <3>1
  <2>7. SumFunctionOnSet(m, s \cup {x}) <= Cardinality(s \cup {x}) * u
    BY <2>2, <2>3, <2>6 DEF sum, n, e
  <2> QED BY <2>7
<1>3. SUBSET S \subseteq F
  <2> HIDE DEF F
  <2> QED BY <1>1, <1>2, FamilyInduction
<1> QED BY <1>3

LEMMA SumIsNat ==
    ASSUME NEW S, IsFiniteSet(S), NEW m, \A x \in S : m[x] \in Nat
    PROVE  SumFunctionOnSet(m, S) \in Nat
<1> DEFINE F == {s \in SUBSET S : SumFunctionOnSet(m, s) \in Nat}
<1>1. {} \in F
  BY SumOfNone
<1>2. ASSUME NEW s \in SUBSET S, NEW x \in S \ s, s \in F PROVE s \cup {x} \in F
  <2>1. IsFiniteSet(s) /\ x \notin s /\ \A y \in s \cup {x} : m[y] \in Int
    BY FS_Subset
  <2>2. SumFunctionOnSet(m, s \cup {x}) = m[x] + SumFunctionOnSet(m, s)
    BY <2>1, SumOneMore
  <2>3. m[x] \in Nat /\ SumFunctionOnSet(m, s) \in Nat
    BY <1>2
  <2>4. SumFunctionOnSet(m, s \cup {x}) \in Nat
    BY <2>2, <2>3
  <2> QED BY <2>4
<1>3. SUBSET S \subseteq F
  <2> HIDE DEF F
  <2> QED BY <1>1, <1>2, FamilyInduction
<1> QED BY <1>3

\* A part of the counts adds up to no more than all of them.
LEMMA PartBelow ==
    ASSUME NEW S, IsFiniteSet(S), NEW P \in SUBSET S, NEW m, \A x \in S : m[x] \in Nat
    PROVE  SumFunctionOnSet(m, P) <= SumFunctionOnSet(m, S)
<1> DEFINE R == S \ P
           F == {s \in SUBSET R : SumFunctionOnSet(m, P) <= SumFunctionOnSet(m, P \cup s)}
<1>0. IsFiniteSet(R) /\ IsFiniteSet(P)
  BY FS_Subset
<1>1. {} \in F
  <2>1. SumFunctionOnSet(m, P) \in Int /\ P \cup {} = P
    BY <1>0, SumIsNat
  <2> QED BY <2>1
<1>2. ASSUME NEW s \in SUBSET R, NEW x \in R \ s, s \in F PROVE s \cup {x} \in F
  <2> DEFINE A == P \cup s
  <2>1. A \in SUBSET S /\ x \notin A /\ x \in S /\ A \cup {x} = P \cup (s \cup {x})
    OBVIOUS
  <2>2. SumFunctionOnSet(m, P) <= SumFunctionOnSet(m, A)
    BY <1>2
  <2> HIDE DEF A
  <2>3. IsFiniteSet(A) /\ \A y \in A \cup {x} : m[y] \in Int
    BY <2>1, FS_Subset
  <2>4. SumFunctionOnSet(m, A \cup {x}) = m[x] + SumFunctionOnSet(m, A)
    BY <2>1, <2>3, SumOneMore
  <2>5. SumFunctionOnSet(m, A) \in Int /\ SumFunctionOnSet(m, P) \in Int /\ m[x] \in Nat
    BY <1>0, <2>1, <2>3, SumIsInt
  <2>6. SumFunctionOnSet(m, P) <= SumFunctionOnSet(m, A \cup {x})
    BY <2>2, <2>4, <2>5
  <2> QED BY <2>1, <2>6
<1>3. SUBSET R \subseteq F
  <2> HIDE DEF F, R
  <2> QED BY <1>0, <1>1, <1>2, FamilyInduction
<1>4. R \in F /\ P \cup R = S
  BY <1>3
<1> QED BY <1>4

\* The squares of counts add up to no more than the square of their sum.
LEMMA SquaresBelow ==
    ASSUME NEW S, IsFiniteSet(S), NEW m, \A x \in S : m[x] \in Nat,
           NEW q, \A x \in S : q[x] = m[x] * m[x]
    PROVE  SumFunctionOnSet(q, S) <= SumFunctionOnSet(m, S) * SumFunctionOnSet(m, S)
<1> DEFINE F == {s \in SUBSET S : SumFunctionOnSet(q, s) <= SumFunctionOnSet(m, s) * SumFunctionOnSet(m, s)}
<1>0. \A x \in S : q[x] \in Nat
  OBVIOUS
<1>1. {} \in F
  BY SumOfNone
<1>2. ASSUME NEW s \in SUBSET S, NEW x \in S \ s, s \in F PROVE s \cup {x} \in F
  <2>1. IsFiniteSet(s) /\ x \notin s /\ \A y \in s \cup {x} : m[y] \in Int /\ q[y] \in Int
    BY <1>0, FS_Subset
  <2>2. /\ SumFunctionOnSet(m, s \cup {x}) = m[x] + SumFunctionOnSet(m, s)
        /\ SumFunctionOnSet(q, s \cup {x}) = q[x] + SumFunctionOnSet(q, s)
    BY <2>1, SumOneMore
  <2>3. SumFunctionOnSet(m, s) \in Nat /\ SumFunctionOnSet(q, s) \in Nat
    BY <1>0, <2>1, SumIsNat
  <2> DEFINE a == SumFunctionOnSet(m, s)
             b == SumFunctionOnSet(q, s)
             e == m[x]
  <2>4. a \in Nat /\ b \in Nat /\ e \in Nat /\ q[x] = e * e /\ b <= a * a
    BY <1>2, <2>3
  <2> HIDE DEF a, b, e
  <2>5. e * e + b <= (e + a) * (e + a)
    <3>1. (e + a) * (e + a) = e * e + 2 * (e * a) + a * a /\ e * a \in Nat /\ a * a \in Nat /\ e * e \in Nat
      BY <2>4, SMT
    <3> QED BY <2>4, <3>1
  <2>6. SumFunctionOnSet(q, s \cup {x}) <= SumFunctionOnSet(m, s \cup {x}) * SumFunctionOnSet(m, s \cup {x})
    BY <2>2, <2>4, <2>5 DEF a, b, e
  <2> QED BY <2>6
<1>3. SUBSET S \subseteq F
  <2> HIDE DEF F
  <2> QED BY <1>1, <1>2, FamilyInduction
<1> QED BY <1>3

-----------------------------------------------------------------------------
(***************************************************************************)
(* The window of a valid series is one of consecutive days, a week of them *)
(* at least, so that each weekday has a mean (forecast).                   *)
(***************************************************************************)
LEMMA Extremes ==
    ASSUME NEW S, IsFiniteSet(S), S # {}, S \subseteq Int
    PROVE  /\ Max(S) \in S /\ \A x \in S : x <= Max(S)
           /\ Min(S) \in S /\ \A x \in S : Min(S) <= x
<1> DEFINE F == {s \in SUBSET S : s # {} => \E a, b \in s : \A x \in s : a <= x /\ x <= b}
<1>1. {} \in F
  OBVIOUS
<1>2. ASSUME NEW s \in SUBSET S, NEW y \in S \ s, s \in F PROVE s \cup {y} \in F
  <2>1. CASE s = {}
    BY <2>1
  <2>2. CASE s # {}
    <3>1. PICK a, b \in s : \A x \in s : a <= x /\ x <= b
      BY <1>2, <2>2
    <3>2. \E c, d \in s \cup {y} : \A x \in s \cup {y} : c <= x /\ x <= d
      <4>1. \E c \in s \cup {y} : \A x \in s \cup {y} : c <= x
        <5>1. CASE a <= y
          BY <3>1, <5>1
        <5>2. CASE ~(a <= y)
          BY <3>1, <5>2
        <5> QED BY <5>1, <5>2
      <4>2. \E d \in s \cup {y} : \A x \in s \cup {y} : x <= d
        <5>1. CASE y <= b
          BY <3>1, <5>1
        <5>2. CASE ~(y <= b)
          BY <3>1, <5>2
        <5> QED BY <5>1, <5>2
      <4> QED BY <4>1, <4>2
    <3> QED BY <3>2
  <2> QED BY <2>1, <2>2
<1>3. SUBSET S \subseteq F
  <2> HIDE DEF F
  <2> QED BY <1>1, <1>2, FamilyInduction
<1>4. PICK a, b \in S : \A x \in S : a <= x /\ x <= b
  BY <1>3
<1>5. Max(S) \in S /\ \A x \in S : Max(S) >= x
  BY <1>4 DEF Max
<1>6. Min(S) \in S /\ \A x \in S : Min(S) <= x
  BY <1>4 DEF Min
<1> QED BY <1>5, <1>6

\* A series: rows one after another, each of a day.
Dated(rows) == Len(rows) \in Nat /\ DOMAIN rows = 1..Len(rows) /\ \A i \in DOMAIN rows : rows[i].day \in Int
DaysOf(rows) == {rows[i].day : i \in DOMAIN rows}

LEMMA DaysInARow ==
    ASSUME NEW rows, Dated(rows), Consecutive(rows), Len(rows) >= 1
    PROVE  /\ Max(DaysOf(rows)) \in Int
           /\ DaysOf(rows) = (Max(DaysOf(rows)) - Len(rows) + 1)..Max(DaysOf(rows))
<1> DEFINE D == DaysOf(rows)
           dated == [i \in 1..Len(rows) |-> rows[i].day]
<1>1. IsFiniteSet(D) /\ D # {} /\ D \subseteq Int
  <2>1. dated \in Surjection(1..Len(rows), D)
    BY DEF Surjection, Dated, DaysOf
  <2>2. IsFiniteSet(1..Len(rows))
    BY FS_Interval DEF Dated
  <2> HIDE DEF dated
  <2>3. IsFiniteSet(D)
    BY <2>1, <2>2, FS_Surjection
  <2>4. 1 \in DOMAIN rows
    BY DEF Dated
  <2> QED BY <2>3, <2>4 DEF DaysOf, Dated
<1>2. Cardinality(D) = Len(rows) /\ Max(D) - Min(D) = Len(rows) - 1
  BY DEF Consecutive, DaysOf
<1>3. Len(rows) \in Nat
  BY DEF Dated
<1> HIDE DEF D, dated
<1>4. Max(D) \in D /\ Min(D) \in D /\ \A x \in D : Min(D) <= x /\ x <= Max(D)
  BY <1>1, Extremes
<1> DEFINE I == Min(D)..Max(D)
<1>5. D \subseteq I /\ Max(D) \in Int /\ Min(D) \in Int
  <2>1. Max(D) \in Int /\ Min(D) \in Int
    BY <1>1, <1>4
  <2>2. ASSUME NEW x \in D PROVE x \in I
    <3>1. x \in Int /\ Min(D) <= x /\ x <= Max(D)
      BY <1>1, <1>4
    <3> QED BY <2>1, <3>1
  <2> QED BY <2>1, <2>2
<1>6. IsFiniteSet(I) /\ Cardinality(I) = Len(rows)
  <2>1. IsFiniteSet(I) /\ Cardinality(I) = IF Min(D) > Max(D) THEN 0 ELSE Max(D) - Min(D) + 1
    BY <1>5, FS_Interval
  <2> QED BY <1>2, <1>3, <1>5, <2>1
<1>7. D = I
  <2> HIDE DEF I
  <2> QED BY <1>2, <1>5, <1>6, FS_Subset
<1>8. Min(D) = Max(D) - Len(rows) + 1
  BY <1>2, <1>3, <1>5
<1> QED BY <1>5, <1>7, <1>8 DEF D

\* The counts of a window: each weekday has some.
WindowOk(w) ==
    /\ IsFiniteSet(DOMAIN w) /\ DOMAIN w \subseteq Int /\ DOMAIN w # {}
    /\ \A day \in DOMAIN w : w[day] \in Nat
    /\ Cardinality(DOMAIN w) >= Week
    /\ \A d \in Weekdays : SameWeekday(w, d) # {}

LEMMA Remainder ==
    ASSUME NEW x \in Int, NEW d \in Nat, NEW n \in Nat, d < n
    PROVE  \E y \in (x - n + 1)..x : y % n = d
<1> DEFINE r == (x - d) % n
           k == (x - d) \div n
<1>1. r \in 0..(n - 1) /\ k \in Int /\ x - d = n * k + r
  BY SMT
<1> HIDE DEF r, k
<1>2. x - r \in (x - n + 1)..x
  BY <1>1
<1>3. x - r = n * k + d
  <2>1. n * k \in Int
    BY <1>1
  <2> HIDE DEF r, k
  <2> QED BY <1>1, <2>1
<1>4. (n * k + d) % n = d
  BY <1>1, SMT
<1> QED BY <1>2, <1>3, <1>4

LEMMA WindowHolds ==
    ASSUME NEW f, NEW rows, ValidForecast(f, rows), Dated(rows)
    PROVE  WindowOk(Window(f, rows)) /\ WindowDays(f) \in Nat /\ WindowDays(f) >= Week
<1> DEFINE D == DaysOf(rows)
           w == Window(f, rows)
           last == Max(D)
<1>1. Week \in Nat \ {0} /\ MinPoints \in Nat /\ MinPoints >= Week /\ DefaultWindow \in Nat /\ DefaultWindow >= Week
  BY UnitsAssumption
<1>2. Len(rows) \in Nat /\ Len(rows) >= Week /\ Len(rows) >= 1
  BY <1>1 DEF ValidForecast, Dated
<1>3. last \in Int /\ D = (last - Len(rows) + 1)..last
  BY <1>2, DaysInARow DEF ValidForecast
<1>4. WindowDays(f) \in Nat /\ WindowDays(f) >= Week
  <2>1. CASE f.window.named
    BY <1>1, <2>1 DEF ValidForecast, Count, Integer, WindowDays
  <2>2. CASE ~f.window.named
    BY <1>1, <2>2 DEF WindowDays
  <2> QED BY <2>1, <2>2
<1>5. DOMAIN w = {d \in D : d > last - WindowDays(f)}
  BY DEF Window, DaysOf
<1>6. \A day \in DOMAIN w : w[day] \in Nat
  <2> SUFFICES ASSUME NEW day \in DOMAIN w PROVE w[day] \in Nat
    OBVIOUS
  <2>1. w[day] = rows[CHOOSE i \in DOMAIN rows : rows[i].day = day].requests
    BY DEF Window
  <2>2. \E i \in DOMAIN rows : rows[i].day = day
    BY <1>5 DEF DaysOf
  <2>3. \A i \in DOMAIN rows : rows[i].requests \in Nat
    BY DEF ValidForecast, Integer
  <2> QED BY <2>1, <2>2, <2>3
<1> HIDE DEF D, w, last
<1>7. IsFiniteSet(DOMAIN w) /\ DOMAIN w \subseteq Int
  <2>1. IsFiniteSet(D) /\ D \subseteq Int
    <3>1. last - Len(rows) + 1 \in Int
      BY <1>2, <1>3
    <3> QED BY <1>3, <3>1, FS_Interval
  <2>2. DOMAIN w \in SUBSET D
    BY <1>5
  <2> QED BY <2>1, <2>2, FS_Subset
<1> DEFINE lately == (last - Week + 1)..last
<1>8. lately \subseteq DOMAIN w
  BY <1>1, <1>2, <1>3, <1>4, <1>5
<1>9. Cardinality(DOMAIN w) >= Week
  <2>1. last - Week + 1 \in Int
    BY <1>1, <1>3
  <2>2. Cardinality(lately) = Week
    <3>1. Cardinality(lately) = IF last - Week + 1 > last THEN 0 ELSE last - (last - Week + 1) + 1
      BY <1>3, <2>1, FS_Interval
    <3> QED BY <1>1, <1>3, <3>1
  <2>3. Cardinality(lately) <= Cardinality(DOMAIN w)
    <3> HIDE DEF lately
    <3> QED BY <1>7, <1>8, FS_Subset
  <2> QED BY <2>2, <2>3
<1>10. ASSUME NEW d \in Weekdays PROVE SameWeekday(w, d) # {}
  <2>1. d \in Nat /\ d < Week
    BY <1>1 DEF Weekdays
  <2>2. \E day \in lately : day % Week = d
    BY <1>1, <1>3, <2>1, Remainder
  <2> HIDE DEF lately
  <2> QED BY <1>8, <2>2 DEF SameWeekday
<1>11. DOMAIN w # {}
  <2>1. 0 \in Weekdays
    BY <1>1 DEF Weekdays
  <2> QED BY <1>10, <2>1 DEF SameWeekday
<1> QED BY <1>4, <1>6, <1>7, <1>9, <1>10, <1>11 DEF w, WindowOk

-----------------------------------------------------------------------------
(***************************************************************************)
(* So the forecast is a number of requests, and the band around it one     *)
(* too: the search for it ends at a count that is wide enough.             *)
(***************************************************************************)
LEMMA Quotient ==
    ASSUME NEW x \in Int, NEW b \in Nat \ {0}
    PROVE  x \div b \in Int /\ (x >= 0 => x \div b >= 0)
<1>1. x \div b \in Int
  BY SMT
<1>2. x >= 0 => x \div b >= 0
  BY SMT
<1> QED BY <1>1, <1>2

LEMMA WeekdayCounts ==
    ASSUME NEW w, WindowOk(w), NEW d \in Weekdays
    PROVE  /\ SameWeekday(w, d) \in SUBSET DOMAIN w /\ IsFiniteSet(SameWeekday(w, d))
           /\ Cardinality(SameWeekday(w, d)) \in Nat \ {0}
           /\ SumFunctionOnSet(w, SameWeekday(w, d)) \in Nat
<1> DEFINE S == SameWeekday(w, d)
<1>1. S \in SUBSET DOMAIN w /\ S # {}
  BY DEF WindowOk, SameWeekday
<1> HIDE DEF S
<1>2. IsFiniteSet(S) /\ \A x \in S : w[x] \in Nat
  BY <1>1, FS_Subset DEF WindowOk
<1>3. Cardinality(S) \in Nat /\ Cardinality(S) # 0
  BY <1>1, <1>2, FS_CardinalityType, FS_EmptySet
<1>4. SumFunctionOnSet(w, S) \in Nat
  BY <1>2, SumIsNat
<1> QED BY <1>1, <1>2, <1>3, <1>4 DEF S

LEMMA TotalInt ==
    ASSUME NEW f, Integer(f.horizon, 1), NEW w, WindowOk(w)
    PROVE  Total(f, w) \in Int
<1> DEFINE days == 1..f.horizon
           means == [i \in days |-> DayForecast(w, (Max(DOMAIN w) + i) % Week)]
<1>1. Week \in Nat \ {0} /\ f.horizon \in Int
  BY UnitsAssumption DEF Integer
<1>2. Max(DOMAIN w) \in Int
  BY Extremes DEF WindowOk
<1>3. ASSUME NEW d \in Weekdays PROVE DayForecast(w, d) \in Int
  <2> DEFINE n == Cardinality(SameWeekday(w, d))
             s == SumFunctionOnSet(w, SameWeekday(w, d))
  <2>1. n \in Nat \ {0} /\ s \in Nat
    BY WeekdayCounts
  <2>2. DayForecast(w, d) = (2 * s + n) \div (2 * n)
    BY DEF DayForecast
  <2> HIDE DEF n, s
  <2>3. 2 * s + n \in Int /\ 2 * n \in Nat \ {0}
    BY <2>1
  <2>4. (2 * s + n) \div (2 * n) \in Int
    BY <2>3, Quotient
  <2> QED BY <2>2, <2>4
<1>4. ASSUME NEW i \in days PROVE means[i] \in Int
  <2>1. i \in Int /\ Max(DOMAIN w) + i \in Int
    BY <1>1, <1>2
  <2>2. ASSUME NEW x \in Int PROVE x % Week \in Weekdays
    BY <1>1, SMT DEF Weekdays
  <2>3. (Max(DOMAIN w) + i) % Week \in Weekdays
    BY <2>1, <2>2
  <2>4. DayForecast(w, (Max(DOMAIN w) + i) % Week) \in Int
    BY <1>3, <2>3
  <2> QED BY <2>4
<1>5. IsFiniteSet(days)
  BY <1>1, FS_Interval
<1>6. Total(f, w) = SumFunctionOnSet(means, days)
  BY DEF Total, SumFunction
<1> HIDE DEF days, means
<1>7. SumFunctionOnSet(means, days) \in Int
  BY <1>4, <1>5, SumIsInt
<1> QED BY <1>6, <1>7

LEMMA SquaresAre ==
    ASSUME NEW w, WindowOk(w), NEW S \in SUBSET DOMAIN w
    PROVE  Squares(w, S) \in Nat /\ Squares(w, S) <= SumFunctionOnSet(w, S) * SumFunctionOnSet(w, S)
<1> DEFINE q == [day \in S |-> w[day] * w[day]]
<1>1. IsFiniteSet(S) /\ \A x \in S : w[x] \in Nat
  BY FS_Subset DEF WindowOk
<1>2. Squares(w, S) = SumFunctionOnSet(q, S)
  BY DEF Squares, SumFunction
<1>3. \A x \in S : q[x] = w[x] * w[x] /\ q[x] \in Nat
  <2> SUFFICES ASSUME NEW x \in S PROVE q[x] = w[x] * w[x] /\ w[x] * w[x] \in Nat
    OBVIOUS
  <2>1. w[x] \in Nat
    BY <1>1
  <2>2. ASSUME NEW n \in Nat PROVE n * n \in Nat
    BY <2>2, SMT
  <2> QED BY <2>1, <2>2
<1> HIDE DEF q
<1>4. SumFunctionOnSet(q, S) <= SumFunctionOnSet(w, S) * SumFunctionOnSet(w, S)
  BY <1>1, <1>3, SquaresBelow
<1>5. SumFunctionOnSet(q, S) \in Nat
  BY <1>1, <1>3, SumIsNat
<1> QED BY <1>2, <1>4, <1>5

LEMMA CommonPositive ==
    ASSUME NEW w, WindowOk(w)
    PROVE  Common(w) \in Nat \ {0}
<1> DEFINE n == Cardinality(DOMAIN w)
           k == n \div Week
<1>1. n \in Nat /\ n >= Week /\ Week \in Nat \ {0}
  BY UnitsAssumption, FS_CardinalityType DEF WindowOk
<1>2. Common(w) = k * (k + 1)
  BY DEF Common
<1> HIDE DEF n
<1>3. k \in Int /\ k >= 1
  <2>1. k \in Int
    BY <1>1, Quotient
  <2>2. n \div Week >= 1
    BY <1>1, SMT
  <2> QED BY <2>1, <2>2
<1> HIDE DEF k
<1>4. k * (k + 1) \in Nat \ {0}
  <2>1. k \in Nat \ {0} /\ k + 1 \in Nat \ {0}
    BY <1>3
  <2>2. ASSUME NEW a \in Nat \ {0}, NEW b \in Nat \ {0} PROVE a * b \in Nat \ {0}
    BY <2>2, SMT
  <2> QED BY <2>1, <2>2
<1> QED BY <1>2, <1>4

\* The variance, times what it is a fraction of, is bounded by the square of all requests.
LEMMA SpreadBounded ==
    ASSUME NEW f, NEW w, WindowOk(w), WindowDays(f) \in Nat, WindowDays(f) >= Week
    PROVE  LET s == Spread(f, w)
               all == SumFunction(w)
           IN /\ s[1] \in Int /\ s[2] \in Nat \ {0} /\ all \in Nat
              /\ \E c \in Nat \ {0} : s[1] <= Week * c * (all * all) /\ c <= s[2]
<1> DEFINE D == DOMAIN w
           all == SumFunction(w)
           size == Cardinality(D)
           com == Common(w)
           res == [d \in Weekdays |-> Residuals(w, d)]
<1>1. Week \in Nat \ {0} /\ WindowDays(f) \in Nat
  BY UnitsAssumption
<1>2. all \in Nat /\ all = SumFunctionOnSet(w, D)
  BY SumIsNat DEF WindowOk, SumFunction
<1>3. size \in Nat \ {0}
  BY FS_CardinalityType, FS_EmptySet DEF WindowOk
<1>4. com \in Nat \ {0}
  BY CommonPositive
<1>5. ASSUME NEW a \in Nat, NEW b \in Nat PROVE a * b \in Nat
  BY <1>5, SMT
<1>6. all * all \in Nat
  BY <1>2, <1>5
<1>7. ASSUME NEW d \in Weekdays PROVE Residuals(w, d) \in Int /\ Residuals(w, d) <= com * (all * all)
  <2> DEFINE S == SameWeekday(w, d)
             n == Cardinality(S)
             sum == SumFunctionOnSet(w, S)
             sq == Squares(w, S)
             q == com \div n
  <2>1. S \in SUBSET D /\ n \in Nat \ {0} /\ sum \in Nat
    BY WeekdayCounts
  <2>2. sq \in Nat /\ sq <= sum * sum
    BY <2>1, SquaresAre
  <2>3. sum <= all
    BY <1>2, <2>1, PartBelow DEF WindowOk
  <2>4. Residuals(w, d) = com * sq - q * sum * sum
    BY DEF Residuals
  <2>5. q \in Int /\ q >= 0
    BY <1>4, <2>1, Quotient
  <2> HIDE DEF S, n, sum, sq, q, com, all
  <2>6. q * sum * sum \in Nat /\ com * sq \in Nat
    <3>1. q \in Nat
      BY <2>5
    <3>2. q * sum \in Nat
      BY <1>5, <2>1, <3>1
    <3> QED BY <1>4, <1>5, <2>1, <2>2, <3>2
  <2>7. sq <= all * all
    <3>1. sum * sum <= all * sum
      BY <1>2, <2>1, <2>3, ProductMonotone
    <3>2. sum * all <= all * all
      BY <1>2, <2>1, <2>3, ProductMonotone
    <3>3. all * sum = sum * all /\ sum * sum \in Nat /\ all * sum \in Nat
      BY <1>2, <1>5, <2>1
    <3> QED BY <1>6, <2>2, <3>1, <3>2, <3>3
  <2>8. com * sq <= com * (all * all)
    <3>1. sq * com <= (all * all) * com
      BY <1>4, <1>6, <2>2, <2>7, ProductMonotone
    <3>2. sq * com = com * sq /\ (all * all) * com = com * (all * all)
      BY <1>4, <1>6, <2>2
    <3> QED BY <3>1, <3>2
  <2>9. com * (all * all) \in Nat
    BY <1>4, <1>5, <1>6
  <2> QED BY <2>4, <2>6, <2>8, <2>9
<1>8. CASE WindowDays(f) > Week
  <2>1. Spread(f, w) = <<SumFunction(res), com * (WindowDays(f) - Week)>>
    BY <1>8 DEF Spread
  <2>2. IsFiniteSet(Weekdays) /\ Cardinality(Weekdays) = Week
    <3>1. Week - 1 \in Int
      BY <1>1
    <3>2. IsFiniteSet(Weekdays) /\ Cardinality(Weekdays) = IF 0 > Week - 1 THEN 0 ELSE Week - 1 - 0 + 1
      BY <3>1, FS_Interval DEF Weekdays
    <3> QED BY <1>1, <3>2
  <2>3. SumFunction(res) = SumFunctionOnSet(res, Weekdays) /\ \A d \in Weekdays : res[d] = Residuals(w, d)
    BY DEF SumFunction
  <2> HIDE DEF res, com, all
  <2>4. \A d \in Weekdays : res[d] \in Int /\ res[d] <= com * (all * all)
    BY <1>7, <2>3
  <2>5. com * (all * all) \in Nat
    BY <1>4, <1>5, <1>6
  <2>6. SumFunctionOnSet(res, Weekdays) \in Int
    BY <2>2, <2>4, SumIsInt
  <2>7. SumFunctionOnSet(res, Weekdays) <= Week * (com * (all * all))
    BY <2>2, <2>4, <2>5, SumAtMost
  <2>8. Week * (com * (all * all)) = Week * com * (all * all)
    BY <1>1, <1>4, <1>6, SMT
  <2>9. com * (WindowDays(f) - Week) \in Nat \ {0} /\ com <= com * (WindowDays(f) - Week)
    <3>1. WindowDays(f) - Week \in Nat \ {0}
      BY <1>1, <1>8
    <3>2. ASSUME NEW a \in Nat \ {0}, NEW b \in Nat \ {0} PROVE a * b \in Nat \ {0} /\ a <= a * b
      BY <3>2, SMT
    <3> QED BY <1>4, <3>1, <3>2
  <2> DEFINE s1 == SumFunction(res)
             s2 == com * (WindowDays(f) - Week)
  <2>10. s1 \in Int /\ s1 <= Week * com * (all * all) /\ s2 \in Nat \ {0} /\ com <= s2
    BY <2>3, <2>6, <2>7, <2>8, <2>9
  <2>11. Spread(f, w)[1] = s1 /\ Spread(f, w)[2] = s2
    BY <2>1
  <2> HIDE DEF s1, s2
  <2> QED BY <1>2, <1>4, <2>10, <2>11 DEF all
<1>9. CASE ~(WindowDays(f) > Week)
  <2> DEFINE sq == Squares(w, D)
             m == Max({1, size - 1})
  <2>1. Spread(f, w) = <<size * sq - all * all, size * m>>
    BY <1>9 DEF Spread
  <2>2. sq \in Nat /\ sq <= all * all
    BY <1>2, SquaresAre
  <2>3. m \in Nat \ {0}
    <3>1. size - 1 \in Int
      BY <1>3
    <3>2. \A x \in Int : Max({1, x}) \in Nat \ {0}
      <4> SUFFICES ASSUME NEW x \in Int PROVE Max({1, x}) \in Nat \ {0}
        OBVIOUS
      <4>1. CASE x <= 1
        <5>1. Max({1, x}) = 1
          BY <4>1 DEF Max
        <5> QED BY <5>1
      <4>2. CASE ~(x <= 1)
        <5>1. Max({1, x}) = x
          BY <4>2 DEF Max
        <5> QED BY <4>2, <5>1
      <4> QED BY <4>1, <4>2
    <3> QED BY <3>1, <3>2
  <2> HIDE DEF sq, m, size, all
  <2>4. size * sq \in Nat /\ size * sq <= size * (all * all)
    <3>1. sq * size <= (all * all) * size
      BY <1>3, <1>6, <2>2, ProductMonotone
    <3>2. sq * size = size * sq /\ (all * all) * size = size * (all * all)
      BY <1>3, <1>6, <2>2
    <3> QED BY <1>3, <1>5, <2>2, <3>1, <3>2
  <2>5. size * m \in Nat \ {0} /\ size <= size * m
    <3>1. ASSUME NEW a \in Nat \ {0}, NEW b \in Nat \ {0} PROVE a * b \in Nat \ {0} /\ a <= a * b
      BY <3>1, SMT
    <3> QED BY <1>3, <2>3, <3>1
  <2>6. size * (all * all) <= Week * size * (all * all)
    <3>1. ASSUME NEW a \in Nat, NEW b \in Nat \ {0}, NEW c \in Nat PROVE a * c <= b * a * c
      <4>1. a * c \in Nat /\ b * a * c = b * (a * c)
        BY <3>1, SMT
      <4>2. ASSUME NEW e \in Nat PROVE e <= b * e
        BY <3>1, <4>2, SMT
      <4> QED BY <4>1, <4>2
    <3> QED BY <1>1, <1>3, <1>6, <3>1
  <2>7. /\ size * sq - all * all \in Int
        /\ size * sq - all * all <= Week * size * (all * all)
    <3>1. size * (all * all) \in Nat /\ Week * size * (all * all) \in Nat
      BY <1>1, <1>3, <1>5, <1>6
    <3> QED BY <1>6, <2>4, <2>6, <3>1
  <2> DEFINE s1 == size * sq - all * all
             s2 == size * m
  <2>8. s1 \in Int /\ s1 <= Week * size * (all * all) /\ s2 \in Nat \ {0} /\ size <= s2
    BY <2>5, <2>7
  <2>9. Spread(f, w)[1] = s1 /\ Spread(f, w)[2] = s2
    BY <2>1
  <2> HIDE DEF s1, s2
  <2> QED BY <1>2, <1>3, <2>8, <2>9 DEF all
<1> QED BY <1>8, <1>9

\* A count whose square is large enough.
LEMMA WideEnough ==
    ASSUME NEW k \in Nat \ {0}, NEW h \in Nat \ {0}, NEW all \in Nat, NEW c \in Nat \ {0},
           NEW s1 \in Int, NEW s2 \in Nat \ {0}, s1 <= k * c * (all * all), c <= s2,
           NEW e, e = 2 * k * (h + 1) * (all + 1)
    PROVE  e \in Nat /\ 625 * e * e * s2 >= 2401 * s1 * h
<1>1. ASSUME NEW x \in Nat, NEW y \in Nat PROVE x * y \in Nat
  BY <1>1, SMT
<1>2. ASSUME NEW x \in Nat, NEW y \in Nat, NEW u \in Nat, NEW v \in Nat, x <= u, y <= v PROVE x * y <= u * v
  <2>1. x * y <= u * y
    BY <1>2, ProductMonotone
  <2>2. y * u <= v * u
    BY <1>2, ProductMonotone
  <2>3. y * u = u * y /\ v * u = u * v /\ x * y \in Nat /\ u * y \in Nat /\ u * v \in Nat
    BY <1>1, <1>2
  <2> QED BY <2>1, <2>2, <2>3
<1> DEFINE a == k * (h + 1)
           b == all + 1
           sq == all * all
           p == (a * a) * (b * b)
<1>3. a \in Nat /\ a >= 1 /\ k * h \in Nat /\ k * h <= a
  BY SMT
<1>4. b \in Nat /\ sq \in Nat /\ all <= b
  BY <1>1
<1>5. e = 2 * (a * b)
  BY SMT
<1> HIDE DEF a, b, sq
<1>6. a * b \in Nat /\ a * a \in Nat /\ b * b \in Nat /\ p \in Nat
  BY <1>1, <1>3, <1>4
<1>7. e \in Nat
  BY <1>5, <1>6
<1>8. e * e = 4 * p
  BY <1>3, <1>4, <1>5, SMT
<1> HIDE DEF p
<1>9. (k * h) * sq <= p
  <2>1. a <= a * a
    <3>1. ASSUME NEW x \in Nat, x >= 1 PROVE x <= x * x
      BY <3>1, SMT
    <3> QED BY <1>3, <3>1
  <2>2. k * h <= a * a
    BY <1>3, <1>6, <2>1
  <2>3. sq <= b * b
    BY <1>2, <1>4 DEF sq
  <2> QED BY <1>2, <1>3, <1>4, <1>6, <2>2, <2>3 DEF p
<1> DEFINE g == (k * h) * sq
           t == c * g
<1>10. g \in Nat /\ t \in Nat
  BY <1>1, <1>3, <1>4
<1>11. s1 * h <= t
  <2>1. k * c * sq \in Int /\ (k * c * sq) * h = t
    BY <1>4, SMT
  <2>2. ASSUME NEW x \in Int, NEW y \in Int, x <= y PROVE x * h <= y * h
    BY <2>2, SMT
  <2>3. s1 * h <= (k * c * sq) * h
    BY <2>1, <2>2 DEF sq
  <2> QED BY <2>1, <2>3
<1> HIDE DEF g, t
<1>12. t <= s2 * p
  BY <1>2, <1>6, <1>9, <1>10 DEF g, t
<1>13. 625 * e * e * s2 = 2500 * (s2 * p)
  <2>1. 625 * e * e * s2 = 625 * ((e * e) * s2)
    BY <1>7, SMT
  <2>2. (4 * p) * s2 = 4 * (s2 * p)
    BY <1>6, SMT
  <2>3. s2 * p \in Nat
    BY <1>1, <1>6
  <2>4. (e * e) * s2 = 4 * (s2 * p)
    BY <1>8, <2>2
  <2>5. 625 * ((e * e) * s2) = 2500 * (s2 * p)
    BY <2>3, <2>4
  <2> QED BY <2>1, <2>5
<1>14. 2401 * s1 * h <= 2401 * t
  <2>1. s1 * h \in Int /\ 2401 * s1 * h = 2401 * (s1 * h)
    BY SMT
  <2> QED BY <1>10, <1>11, <2>1
<1>15. s2 * p \in Nat /\ 2401 * t <= 2500 * (s2 * p) /\ 2401 * s1 * h \in Int
  <2>1. s2 * p \in Nat
    BY <1>1, <1>6
  <2>2. 2401 * s1 * h \in Int
    BY SMT
  <2> QED BY <1>10, <1>12, <2>1, <2>2
<1> QED BY <1>7, <1>10, <1>13, <1>14, <1>15

LEMMA BandNat ==
    ASSUME NEW f, Integer(f.horizon, 1), NEW w, WindowOk(w), WindowDays(f) \in Nat, WindowDays(f) >= Week
    PROVE  Band(f, w) \in Nat
<1> DEFINE s == Spread(f, w)
           all == SumFunction(w)
           enough == 2 * Week * (f.horizon + 1) * (all + 1)
           B == {b \in 0..enough : 625 * b * b * s[2] >= 2401 * s[1] * f.horizon}
<1>1. Week \in Nat \ {0} /\ f.horizon \in Nat \ {0}
  BY UnitsAssumption DEF Integer
<1>2. s[1] \in Int /\ s[2] \in Nat \ {0} /\ all \in Nat
  BY SpreadBounded
<1>3. PICK c \in Nat \ {0} : s[1] <= Week * c * (all * all) /\ c <= s[2]
  BY SpreadBounded
<1>4. Band(f, w) = Min(B)
  BY DEF Band
<1> HIDE DEF s, all
<1>5. enough \in Nat /\ 625 * enough * enough * s[2] >= 2401 * s[1] * f.horizon
  <2> DEFINE k == Week
             h == f.horizon
             s1 == s[1]
             s2 == s[2]
             e == enough
  <2>1. /\ k \in Nat \ {0} /\ h \in Nat \ {0} /\ s1 \in Int /\ s2 \in Nat \ {0}
        /\ s1 <= k * c * (all * all) /\ c <= s2 /\ e = 2 * k * (h + 1) * (all + 1)
    BY <1>1, <1>2, <1>3
  <2> HIDE DEF k, h, s1, s2, e
  <2>2. e \in Nat /\ 625 * e * e * s2 >= 2401 * s1 * h
    BY <1>2, <2>1, WideEnough
  <2> QED BY <2>2 DEF k, h, s1, s2, e
<1> HIDE DEF enough
<1>6. enough \in B /\ B \in SUBSET (0..enough) /\ B \subseteq Nat
  BY <1>5
<1> HIDE DEF B
<1>7. IsFiniteSet(B) /\ B # {} /\ B \subseteq Int
  <2>1. IsFiniteSet(0..enough)
    BY <1>5, FS_Interval
  <2>2. IsFiniteSet(B)
    BY <1>6, <2>1, FS_Subset
  <2> QED BY <1>6, <2>2
<1>8. Min(B) \in B
  BY <1>7, Extremes
<1> QED BY <1>4, <1>6, <1>8

LEMMA ForecastHolds ==
    ASSUME NEW f, NEW rows, ValidForecast(f, rows), Dated(rows)
    PROVE  /\ Forecast(f, rows).low \in Nat /\ Forecast(f, rows).high \in Int
           /\ Forecast(f, rows).requests \in Int
<1> DEFINE w == Window(f, rows)
           total == Total(f, w)
           band == Band(f, w)
<1>1. WindowOk(w) /\ WindowDays(f) \in Nat /\ WindowDays(f) >= Week
  BY WindowHolds
<1>2. Integer(f.horizon, 1)
  BY DEF ValidForecast
<1> HIDE DEF w
<1>3. total \in Int /\ band \in Nat
  BY <1>1, <1>2, TotalInt, BandNat
<1>4. Forecast(f, rows) = [requests |-> total, low |-> Max({0, total - band}), high |-> total + band]
  BY DEF Forecast, w
<1> HIDE DEF total, band
<1>5. Max({0, total - band}) \in Nat
  <2>1. \A x \in Int : Max({0, x}) \in Nat
    <3> SUFFICES ASSUME NEW x \in Int PROVE Max({0, x}) \in Nat
      OBVIOUS
    <3>1. CASE x <= 0
      <4>1. Max({0, x}) = 0
        BY <3>1 DEF Max
      <4> QED BY <4>1
    <3>2. CASE ~(x <= 0)
      <4>1. Max({0, x}) = x
        BY <3>2 DEF Max
      <4> QED BY <3>2, <4>1
    <3> QED BY <3>1, <3>2
  <2>2. total - band \in Int
    BY <1>3
  <2> QED BY <2>1, <2>2
<1> QED BY <1>3, <1>4, <1>5

-----------------------------------------------------------------------------
(***************************************************************************)
(* No way of serving gets cheaper with more requests: every cost climbs,   *)
(* through all its roundings.                                              *)
(***************************************************************************)
LEMMA DivisionClimbs ==
    ASSUME NEW x \in Int, NEW y \in Int, x <= y, NEW b \in Nat \ {0}
    PROVE  x \div b <= y \div b
BY SMT

LEMMA CeilDivClimbs ==
    ASSUME NEW x \in Nat, NEW y \in Nat, x <= y, NEW b \in Nat \ {0}
    PROVE  CeilDiv(x, b) \in Nat /\ CeilDiv(y, b) \in Nat /\ CeilDiv(x, b) <= CeilDiv(y, b)
<1>1. x + b - 1 \in Int /\ y + b - 1 \in Int /\ x + b - 1 <= y + b - 1
  OBVIOUS
<1>2. (x + b - 1) \div b <= (y + b - 1) \div b
  BY <1>1, DivisionClimbs
<1> QED BY <1>2, CeilDivNat DEF CeilDiv

LEMMA ProductNat == ASSUME NEW x \in Nat, NEW y \in Nat PROVE x * y \in Nat
BY SMT

\* The amounts a valid document gives.
LEMMA AmountsNat ==
    ASSUME \E c \in Cases : doc = c[1], Priced
    PROVE  /\ \A kind \in Kinds : doc.request[kind] \in Nat /\ doc.model.rate[kind] \in Nat
           /\ doc.model.fee \in Nat /\ doc.class.startupMs \in Nat /\ doc.class.perColdStart \in Nat \ {0}
           /\ \A s \in {doc.class.warm, doc.class.scale} :
                 /\ s.hourly \in Nat /\ s.storageGb \in Nat /\ s.perGb \in Nat
                 /\ s.egressBytes \in Nat /\ s.egressRate \in Nat
<1>1. PICK c \in Cases : doc = c[1]
  OBVIOUS
<1>2. \A kind \in Kinds : doc.request[kind] \in Nat
  BY <1>1, CasesAssumption DEF Kinds
<1>3. \A kind \in Kinds : doc.model.rate[kind] \in Nat
  BY DEF Priced, ValidModel, Integer
<1>4. doc.model.fee \in Nat
  BY DEF Priced, ValidModel, Integer
<1>5. doc.class.startupMs \in Nat
  <2>1. doc.class.startupMs \in Int
    BY <1>1, CasesAssumption
  <2>2. doc.class.startupMs >= 0
    BY DEF Priced, ValidClass, NonNegative
  <2> QED BY <2>1, <2>2
<1>6. doc.class.perColdStart \in Nat \ {0}
  BY DEF Priced, ValidClass, Integer
<1>7. ASSUME NEW s \in {doc.class.warm, doc.class.scale}
      PROVE  /\ s.hourly \in Nat /\ s.storageGb \in Nat /\ s.perGb \in Nat
             /\ s.egressBytes \in Nat /\ s.egressRate \in Nat
  <2>1. ValidSection(s)
    BY DEF Priced, ValidClass
  <2> QED BY <2>1 DEF ValidSection, Integer
<1> QED BY <1>2, <1>3, <1>4, <1>5, <1>6, <1>7

LEMMA FixedNat ==
    ASSUME \E c \in Cases : doc = c[1], Priced, NEW s \in {doc.class.warm, doc.class.scale}
    PROVE  Storage(s) \in Nat /\ Egress(s) \in Nat
<1>1. s.storageGb \in Nat /\ s.perGb \in Nat /\ s.egressBytes \in Nat /\ s.egressRate \in Nat
  BY AmountsNat
<1>2. s.storageGb * s.perGb \in Nat /\ s.egressBytes * s.egressRate \in Nat
  BY <1>1, ProductNat
<1>3. BytesPerGb \in Nat \ {0}
  BY UnitsAssumption
<1>4. Egress(s) \in Nat
  BY <1>2, <1>3, CeilDivNat DEF Egress
<1> QED BY <1>2, <1>4 DEF Storage

LEMMA WarmClimbs ==
    ASSUME \E c \in Cases : doc = c[1], Priced, NEW n \in Nat, NEW m \in Nat, n <= m
    PROVE  WarmCost(n) \in Nat /\ WarmCost(m) \in Nat /\ WarmCost(n) <= WarmCost(m)
<1> DEFINE e == Egress(doc.class.warm)
           st == Storage(doc.class.warm)
           hourly == doc.class.warm.hourly
           gn == GpuCount(n)
           gm == GpuCount(m)
<1>1. Busy \in Nat /\ hourly \in Nat /\ e \in Nat /\ st \in Nat
  BY BusyNat, AmountsNat, FixedNat
<1>2. MonthMs \in Nat \ {0} /\ HoursPerMonth \in Nat
  <2>1. HoursPerMonth \in Nat \ {0} /\ MsPerHour \in Nat \ {0}
    BY UnitsAssumption
  <2> QED BY <2>1, SMT DEF MonthMs
<1>3. n * Busy \in Nat /\ m * Busy \in Nat /\ n * Busy <= m * Busy
  BY <1>1, ProductNat, ProductMonotone
<1>4. gn \in Nat /\ gm \in Nat /\ gn <= gm
  <2> DEFINE x == CeilDiv(n * Busy, MonthMs)
             y == CeilDiv(m * Busy, MonthMs)
  <2>1. x \in Nat /\ y \in Nat /\ x <= y
    BY <1>2, <1>3, CeilDivClimbs
  <2>2. gn = Max({x, 1}) /\ gm = Max({y, 1})
    BY DEF GpuCount
  <2> HIDE DEF x, y
  <2>3. \A z \in Nat : Max({z, 1}) = IF z <= 1 THEN 1 ELSE z
    <3> SUFFICES ASSUME NEW z \in Nat PROVE Max({z, 1}) = IF z <= 1 THEN 1 ELSE z
      OBVIOUS
    <3>1. CASE z <= 1
      BY <3>1 DEF Max
    <3>2. CASE ~(z <= 1)
      BY <3>2 DEF Max
    <3> QED BY <3>1, <3>2
  <2> QED BY <2>1, <2>2, <2>3
<1>5. WarmCost(n) = gn * HoursPerMonth * hourly + st + n * e /\ WarmCost(m) = gm * HoursPerMonth * hourly + st + m * e
  BY DEF WarmCost, Rental
<1> HIDE DEF e, st, hourly, gn, gm
<1>6. /\ gn * HoursPerMonth \in Nat /\ gm * HoursPerMonth \in Nat /\ gn * HoursPerMonth <= gm * HoursPerMonth
      /\ n * e \in Nat /\ m * e \in Nat /\ n * e <= m * e
  BY <1>1, <1>2, <1>4, ProductNat, ProductMonotone
<1>7. /\ gn * HoursPerMonth * hourly \in Nat /\ gm * HoursPerMonth * hourly \in Nat
      /\ gn * HoursPerMonth * hourly <= gm * HoursPerMonth * hourly
  BY <1>1, <1>6, ProductNat, ProductMonotone
<1> DEFINE rn == gn * HoursPerMonth * hourly
           rm == gm * HoursPerMonth * hourly
           en == n * e
           em == m * e
<1>8. /\ rn \in Nat /\ rm \in Nat /\ rn <= rm /\ en \in Nat /\ em \in Nat /\ en <= em
      /\ WarmCost(n) = rn + st + en /\ WarmCost(m) = rm + st + em
  BY <1>5, <1>6, <1>7
<1> HIDE DEF rn, rm, en, em
<1> QED BY <1>1, <1>8

LEMMA ScaleToZeroClimbs ==
    ASSUME \E c \in Cases : doc = c[1], Priced, NEW n \in Nat, NEW m \in Nat, n <= m
    PROVE  ScaleToZeroCost(n) \in Nat /\ ScaleToZeroCost(m) \in Nat /\ ScaleToZeroCost(n) <= ScaleToZeroCost(m)
<1> DEFINE e == Egress(doc.class.scale)
           st == Storage(doc.class.scale)
           hourly == doc.class.scale.hourly
           startup == doc.class.startupMs
           each == CeilDiv(Busy * hourly, MsPerHour)
           cn == CeilDiv(ColdStarts(n) * startup * hourly, MsPerHour)
           cm == CeilDiv(ColdStarts(m) * startup * hourly, MsPerHour)
<1>1. /\ Busy \in Nat /\ hourly \in Nat /\ e \in Nat /\ st \in Nat /\ startup \in Nat
      /\ MsPerHour \in Nat \ {0} /\ doc.class.perColdStart \in Nat \ {0}
  BY BusyNat, AmountsNat, FixedNat, UnitsAssumption
<1>2. each \in Nat
  <2>1. Busy * hourly \in Nat
    BY <1>1, ProductNat
  <2> QED BY <1>1, <2>1, CeilDivNat
<1>3. cn \in Nat /\ cm \in Nat /\ cn <= cm
  <2> DEFINE x == ColdStarts(n)
             y == ColdStarts(m)
  <2>1. x \in Nat /\ y \in Nat /\ x <= y
    BY <1>1, CeilDivClimbs DEF ColdStarts
  <2> HIDE DEF x, y, hourly, startup
  <2>2. x * startup \in Nat /\ y * startup \in Nat /\ x * startup <= y * startup
    BY <1>1, <2>1, ProductNat, ProductMonotone
  <2>3. x * startup * hourly \in Nat /\ y * startup * hourly \in Nat /\ x * startup * hourly <= y * startup * hourly
    BY <1>1, <2>2, ProductNat, ProductMonotone
  <2>4. /\ CeilDiv(x * startup * hourly, MsPerHour) \in Nat /\ CeilDiv(y * startup * hourly, MsPerHour) \in Nat
        /\ CeilDiv(x * startup * hourly, MsPerHour) <= CeilDiv(y * startup * hourly, MsPerHour)
    BY <1>1, <2>3, CeilDivClimbs
  <2> QED BY <2>4 DEF x, y
<1>4. ScaleToZeroCost(n) = n * each + cn + st + n * e /\ ScaleToZeroCost(m) = m * each + cm + st + m * e
  BY DEF ScaleToZeroCost
<1> HIDE DEF e, st, hourly, startup, each, cn, cm
<1>5. /\ n * each \in Nat /\ m * each \in Nat /\ n * each <= m * each
      /\ n * e \in Nat /\ m * e \in Nat /\ n * e <= m * e
  BY <1>1, <1>2, ProductNat, ProductMonotone
<1> QED BY <1>1, <1>3, <1>4, <1>5

LEMMA WholesaleClimbs ==
    ASSUME \E c \in Cases : doc = c[1], Priced, NEW n \in Nat, NEW m \in Nat, n <= m
    PROVE  WholesaleCost(n) \in Nat /\ WholesaleCost(m) \in Nat /\ WholesaleCost(n) <= WholesaleCost(m)
<1> DEFINE price(kind) == CeilDiv(doc.request[kind] * doc.model.rate[kind], PerMillion)
           w == price("input") + price("cached") + price("written") + price("output") + doc.model.fee
<1>1. ASSUME NEW kind \in Kinds PROVE price(kind) \in Nat
  <2>1. doc.request[kind] * doc.model.rate[kind] \in Nat /\ PerMillion \in Nat \ {0}
    BY AmountsNat, ProductNat, UnitsAssumption
  <2> QED BY <2>1, CeilDivNat
<1>2. price("input") \in Nat /\ price("cached") \in Nat /\ price("written") \in Nat /\ price("output") \in Nat
  BY <1>1 DEF Kinds
<1>3. doc.model.fee \in Nat
  BY AmountsNat
<1>4. WholesaleCost(n) = n * w /\ WholesaleCost(m) = m * w
  BY DEF WholesaleCost
<1> HIDE DEF price
<1>5. w \in Nat
  BY <1>2, <1>3
<1> HIDE DEF w
<1> QED BY <1>4, <1>5, ProductNat, ProductMonotone

LEMMA CostClimbs ==
    ASSUME \E c \in Cases : doc = c[1], Priced, NEW n \in Nat, NEW m \in Nat, n <= m, NEW mode
    PROVE  Cost(mode, n) \in Nat /\ Cost(mode, m) \in Nat /\ Cost(mode, n) <= Cost(mode, m)
BY WarmClimbs, ScaleToZeroClimbs, WholesaleClimbs DEF Cost

(***************************************************************************)
(* The series planned with is the document's or the feed's, and it was     *)
(* found valid, whichever of the two it is.                                *)
(***************************************************************************)
BudgetInv ==
    /\ \E c \in Cases : doc = c[1] /\ feed = c[2] /\ budget = c[5]
    /\ pc \in Others \cup {"recommend"} => Valid(doc, series) /\ Dated(series)
    /\ BudgetCoversBand

LEMMA FeedDated ==
    ASSUME NEW c \in Cases, feed = c[2], FeedUsable(feed)
    PROVE  Dated(FeedSeries(feed))
<1> DEFINE first == FeedFrom(feed)
           n == feed.to - first + 1
           rows == FeedSeries(feed)
<1>1. feed.from \in Int /\ feed.to \in Int /\ FeedDays \in Nat /\ MinPoints \in Nat
  BY CasesAssumption, UnitsAssumption
<1>2. first \in Int
  BY <1>1 DEF FeedFrom
<1>3. n \in Nat
  BY <1>1, <1>2 DEF FeedUsable
<1>4. DOMAIN rows = 1..n /\ \A i \in 1..n : rows[i].day = first + i - 1
  BY DEF FeedSeries
<1>5. Len(rows) = n
  BY <1>3 DEF FeedSeries
<1> HIDE DEF first, n, rows
<1>6. \A i \in 1..n : rows[i].day \in Int
  BY <1>2, <1>3, <1>4
<1> QED BY <1>3, <1>4, <1>5, <1>6 DEF rows, Dated

LEMMA DocumentDated ==
    ASSUME NEW c \in Cases, doc = c[1]
    PROVE  Dated(doc.forecast.series)
BY CasesAssumption DEF Dated

LEMMA RecommendCovers ==
    ASSUME BudgetInv, Recommend
    PROVE  BudgetCoversBand'
<1> DEFINE f == Forecast(doc.forecast, series)
           mode == ChooseMode(f.requests)
           limit == ParseBudget(budget)
<1>1. PICK c \in Cases : doc = c[1] /\ feed = c[2] /\ budget = c[5]
  BY DEF BudgetInv
<1>2. Valid(doc, series) /\ Dated(series)
  BY DEF BudgetInv, Recommend
<1>3. Priced
  BY <1>2 DEF Valid, Priced
<1>4. f.low \in Nat /\ f.high \in Int
  BY <1>2, ForecastHolds DEF Valid
<1>5. limit \in Int
  <2>1. budget.nano \in Int
    BY <1>1, CasesAssumption
  <2> QED BY <2>1 DEF ParseBudget
<1>6. UNCHANGED <<doc, budget>>
  BY DEF Recommend, inputs
<1>7. /\ result'.mode = mode /\ result'.forecast = f
      /\ result'.within => ~(Cost(mode, f.high) > limit)
  BY DEF Recommend
<1>8. \A k, n : Cost(k, n)' = Cost(k, n)
  <2>1. Busy' = Busy
    BY <1>6 DEF Busy, Millis, CeilDiv
  <2> QED
    BY <1>6, <2>1 DEF WarmCost, Rental, GpuCount, Storage, Egress, Cost, ScaleToZeroCost,
       WholesaleCost, ColdStarts, CeilDiv, MonthMs
<1>9. ParseBudget(budget)' = limit
  BY <1>6 DEF ParseBudget
<1> HIDE DEF f, mode, limit
<1>10. ASSUME result'.within, NEW n \in f.low..f.high
       PROVE  Cost(mode, n) <= limit
  <2>1. n \in Nat /\ f.high \in Nat /\ n <= f.high
    BY <1>4
  <2>2. Cost(mode, n) \in Nat /\ Cost(mode, f.high) \in Nat /\ Cost(mode, n) <= Cost(mode, f.high)
    BY <1>1, <1>3, <2>1, CostClimbs
  <2>3. ~(Cost(mode, f.high) > limit)
    BY <1>7, <1>10
  <2> QED BY <1>5, <2>2, <2>3
<1> QED BY <1>7, <1>8, <1>9, <1>10 DEF BudgetCoversBand

LEMMA BudgetStep == BudgetInv /\ [Next]_vars => BudgetInv'
<1> SUFFICES ASSUME BudgetInv, [Next]_vars PROVE BudgetInv'
  OBVIOUS
<1>1. UNCHANGED inputs
  BY DEF Next, Search, ReadDocument, Demand, Fallback, BothEnds, Halve, Found, Recommend, vars
<1>2. UNCHANGED <<doc, feed, budget>>
  BY <1>1 DEF inputs
<1>3. PICK c \in Cases : doc = c[1] /\ feed = c[2] /\ budget = c[5]
  BY DEF BudgetInv
<1>4. (\E k \in Cases : doc = k[1] /\ feed = k[2] /\ budget = k[5])'
  BY <1>2, <1>3
<1>5. pc' \in Others \cup {"recommend"} => Valid(doc, series') /\ Dated(series')
  <2>1. CASE ReadDocument
    BY <2>1 DEF ReadDocument, Refuse, Others
  <2>2. CASE Demand \/ Fallback
    <3>1. pc' \notin Others \cup {"recommend"} \/ (\E from : Plan(from, doc.forecast.series))
              \/ (FeedUsable(feed) /\ \E origin : Plan(origin, FeedSeries(feed)))
      BY <2>2 DEF Demand, Fallback, Refuse, Others
    <3>2. ASSUME NEW from, Plan(from, doc.forecast.series) PROVE Valid(doc, series') /\ Dated(series')
      BY <1>3, <3>2, DocumentDated DEF Plan
    <3>3. ASSUME FeedUsable(feed), NEW from, Plan(from, FeedSeries(feed)) PROVE Valid(doc, series') /\ Dated(series')
      BY <1>3, <3>3, FeedDated DEF Plan
    <3> QED BY <3>1, <3>2, <3>3
  <2>3. ASSUME NEW other \in Others, BothEnds(other) \/ Halve(other) \/ Found(other)
        PROVE  Valid(doc, series') /\ Dated(series')
    <3>1. pc \in Others /\ series' = series
      BY <2>3 DEF BothEnds, Halve, Found
    <3> QED BY <3>1 DEF BudgetInv
  <2>4. CASE Recommend
    BY <2>4 DEF Recommend, Others
  <2>5. CASE UNCHANGED vars
    BY <2>5 DEF vars, BudgetInv
  <2> QED BY <2>1, <2>2, <2>3, <2>4, <2>5 DEF Next, Search
<1>6. (pc \in Others \cup {"recommend"} => Valid(doc, series) /\ Dated(series))'
  <2>1. Valid(doc, series)' <=> Valid(doc, series')
    BY <1>2 DEF Valid, ValidForecast
  <2>2. Dated(series)' <=> Dated(series')
    BY DEF Dated
  <2>3. (pc \in Others \cup {"recommend"})' <=> pc' \in Others \cup {"recommend"}
    BY DEF Others
  <2> QED BY <1>5, <2>1, <2>2, <2>3
<1>7. BudgetCoversBand'
  <2>1. CASE Recommend
    BY <2>1, RecommendCovers
  <2>2. CASE UNCHANGED result
    <3>1. \A k, n : Cost(k, n)' = Cost(k, n)
      <4>1. Busy' = Busy
        BY <1>2 DEF Busy, Millis, CeilDiv
      <4> QED
        BY <1>2, <4>1 DEF WarmCost, Rental, GpuCount, Storage, Egress, Cost, ScaleToZeroCost,
           WholesaleCost, ColdStarts, CeilDiv, MonthMs
    <3>2. ParseBudget(budget)' = ParseBudget(budget)
      BY <1>2 DEF ParseBudget
    <3> QED BY <2>2, <3>1, <3>2 DEF BudgetInv, BudgetCoversBand
  <2> QED
    BY <2>1, <2>2 DEF Next, Search, ReadDocument, Demand, Fallback, BothEnds, Halve, Found, vars
<1> QED BY <1>4, <1>6, <1>7 DEF BudgetInv

(***************************************************************************)
(* A recommendation said to be within the budget is within it at every     *)
(* demand of the forecast's band (recommend), for any prices and any       *)
(* series, the document's or the feed's.                                   *)
(***************************************************************************)
THEOREM BudgetCoversBandHolds == Spec => []BudgetCoversBand
<1>1. Init => BudgetInv
  BY DEF Init, BudgetInv, BudgetCoversBand, Others
<1>2. BudgetInv => BudgetCoversBand
  BY DEF BudgetInv
<1> QED
  BY <1>1, <1>2, BudgetStep, PTL DEF Spec
=============================================================================
