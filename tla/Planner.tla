------------------------------ MODULE Planner ------------------------------
(***************************************************************************)
(* The inference placement planner: one request of the staff page          *)
(* (server/http/inference-planner.js) reads the planning document, asks    *)
(* the demand feed (server/inference-planner-feed.js), and plans           *)
(* (server/inference-planner.js): a forecast, the monthly cost of three    *)
(* ways to serve it, two break-even searches and a recommendation.         *)
(*                                                                         *)
(* Money and milliseconds are integers, as the code's BigInt are; the      *)
(* units (hours in a month, tokens in a million, ...) are constants so     *)
(* that small ones reach every rounding.  One candidate, a model on a GPU  *)
(* class, is planned: the code plans each pair alone, one after another.   *)
(***************************************************************************)
EXTENDS Integers, Sequences, FiniteSetsExt, Functions

CONSTANTS
    HoursPerMonth, MsPerHour, MsPerSecond, PerMillion, BytesPerGb, Bps,
    Unlimited,      \* the range searched when a request takes no time
    Week,           \* days in a week
    MinPoints,      \* the shortest series that is forecast (two weeks)
    DefaultWindow,  \* the window of a document that names none (28 days)
    MaxSpan,        \* the longest window taken from the feed
    FeedDays,       \* the window asked of the feed (HOST_INFERENCE_PLANNER_DAYS)
    Cases,          \* what requests find: <<planning document, answer of the usage endpoint,
                    \* setting of the source, is the document's series configured, budget>>
    Open, None, Refused     \* a break-even not answered yet; that does not exist; that nobody gets

ASSUME UnitsAssumption ==
    /\ {HoursPerMonth, MsPerHour, MsPerSecond, PerMillion, BytesPerGb, Bps, Unlimited, Week} \subseteq Nat \ {0}
    /\ {MinPoints, DefaultWindow, FeedDays} \subseteq Nat /\ MinPoints >= Week /\ DefaultWindow >= Week
    /\ Open \notin Nat /\ None \notin Nat /\ Open # None

\* The amounts of a document and of the budget are whole numbers (BigInt); tokens are
\* not negative and speeds are real ones; what the series are dated by is days.
ASSUME CasesAssumption ==
    \A c \in Cases :
        /\ \A kind \in {"input", "cached", "written", "output"} : c[1].request[kind] \in Nat
        /\ {c[1].model.prefillTps, c[1].model.cachedTps, c[1].model.decodeTps} \subseteq Nat \ {0}
        /\ \A kind \in {"input", "cached", "written", "output"} : c[1].model.rate[kind] \in Int
        /\ {c[1].model.fee, c[1].class.warm.hourly, c[1].class.warm.storageGb, c[1].class.warm.perGb,
            c[1].class.warm.egressBytes, c[1].class.warm.egressRate, c[1].class.startupMs} \subseteq Int
        /\ Len(c[1].forecast.series) \in Nat /\ DOMAIN c[1].forecast.series = 1..Len(c[1].forecast.series)
        /\ \A i \in DOMAIN c[1].forecast.series : c[1].forecast.series[i].day \in Int
        /\ {c[2].from, c[2].to, c[5].nano} \subseteq Int

VARIABLES
    doc, feed, source, configured, budget,  \* what the request finds
    pc,
    series,     \* the demand that is planned with, by day
    demand,     \* where it came from
    low, high,  \* the binary search's bounds
    even,       \* the break-evens of warm against the two other modes
    result,     \* the recommendation
    cheaper     \* history: where warm costs at most as much as each other mode

inputs == <<doc, feed, source, configured, budget>>
vars == <<inputs, pc, series, demand, low, high, even, result, cheaper>>

Others == {"scale_to_zero", "wholesale"}
Modes == Others \cup {"warm"}

CeilDiv(a, b) == (a + b - 1) \div b

-----------------------------------------------------------------------------
(* The document *)

\* integer and count: whole numbers within their bounds (a document is modelled after its
\* defaults are filled in).
Integer(v, min) == v \in Int /\ v >= min
Count(v, min, max) == Integer(v, min) /\ v <= max

\* positive and nonNegative: measured quantities.
Positive(v) == v > 0
NonNegative(v) == v >= 0

\* Each row is the day after an earlier one; the order of the file does not matter.
Consecutive(rows) ==
    LET days == {rows[i].day : i \in DOMAIN rows}
    IN Cardinality(days) = Len(rows) /\ Max(days) - Min(days) = Len(rows) - 1

\* A window that is named is held against the series; the default is not.
WindowDays(f) == IF f.window.named THEN f.window.days ELSE DefaultWindow

ValidForecast(f, rows) ==
    /\ Len(rows) >= MinPoints
    /\ \A i \in DOMAIN rows : Integer(rows[i].requests, 0)
    /\ Consecutive(rows)
    /\ Integer(f.horizon, 1)
    /\ f.window.named => Count(f.window.days, Week, Len(rows))

\* Tokens by kind; each kind has its speed on the GPU and its wholesale rate.
Kinds == {"input", "cached", "written", "output"}
ValidRequest(r) == \A kind \in Kinds : Integer(r[kind], 0)

ValidModel(m) ==
    /\ Positive(m.prefillTps) /\ Positive(m.decodeTps) /\ Positive(m.cachedTps)
    /\ Count(m.success, 1, Bps) /\ Count(m.apiSuccess, 1, Bps)
    /\ \A kind \in Kinds : Integer(m.rate[kind], 0)
    /\ Integer(m.fee, 0)

ValidSection(s) ==
    \A amount \in {s.hourly, s.storageGb, s.perGb, s.egressBytes, s.egressRate} : Integer(amount, 0)

ValidClass(g) ==
    /\ ValidSection(g.warm) /\ ValidSection(g.scale)
    /\ NonNegative(g.startupMs) /\ Integer(g.perColdStart, 1)

Valid(d, rows) ==
    /\ ValidForecast(d.forecast, rows)
    /\ ValidRequest(d.request)
    /\ ValidModel(d.model) /\ ValidClass(d.class)

-----------------------------------------------------------------------------
(* The demand feed *)

\* The window the feed answered for, cut to its last FeedDays days.
FeedFrom(f) == IF f.from > f.to - (FeedDays - 1) THEN f.from ELSE f.to - (FeedDays - 1)

FeedUsable(f) ==
    /\ f.status = "ok"
    /\ \A row \in f.rows : row.requests \in Nat
    /\ f.to - FeedFrom(f) + 1 \in MinPoints..MaxSpan

\* Rows of one day are summed over the models, a day without a row has no demand.
FeedSeries(f) ==
    LET requestsOn(day) == MapThenSumSet(LAMBDA row : row.requests, {row \in f.rows : row.day = day})
    IN [i \in 1..(f.to - FeedFrom(f) + 1) |->
          [day |-> FeedFrom(f) + i - 1, requests |-> requestsOn(FeedFrom(f) + i - 1)]]

-----------------------------------------------------------------------------
(* The forecast *)

\* The trailing window: its days, and the count of each.
Window(f, rows) ==
    LET days == {rows[i].day : i \in DOMAIN rows}
        of(day) == CHOOSE i \in DOMAIN rows : rows[i].day = day
    IN [day \in {d \in days : d > Max(days) - WindowDays(f)} |-> rows[of(day)].requests]

Weekdays == 0..(Week - 1)
SameWeekday(w, d) == {day \in DOMAIN w : day % Week = d}

\* A future day is its weekday's mean, rounded to a whole request.
DayForecast(w, d) ==
    LET n == Cardinality(SameWeekday(w, d)) IN (2 * SumFunctionOnSet(w, SameWeekday(w, d)) + n) \div (2 * n)

Total(f, w) ==
    SumFunction([i \in 1..f.horizon |-> DayForecast(w, (Max(DOMAIN w) + i) % Week)])

\* The residual variance as a fraction <<above, below>>: the residuals are taken
\* from the weekday's mean, and pooled over the window's days less a week.  A
\* window of one week has no residuals, and takes its spread around the level.
\* Consecutive days hold every weekday a number of times that divides Common.
Squares(w, days) == SumFunction([day \in days |-> w[day] * w[day]])
Common(w) == LET weeks == Cardinality(DOMAIN w) \div Week IN weeks * (weeks + 1)
Residuals(w, d) ==
    LET days == SameWeekday(w, d)
    IN Common(w) * Squares(w, days) - (Common(w) \div Cardinality(days)) * SumFunctionOnSet(w, days) * SumFunctionOnSet(w, days)

Spread(f, w) ==
    LET size == Cardinality(DOMAIN w)
    IN IF WindowDays(f) > Week
         THEN <<SumFunction([d \in Weekdays |-> Residuals(w, d)]), Common(w) * (WindowDays(f) - Week)>>
         ELSE <<size * Squares(w, DOMAIN w) - SumFunction(w) * SumFunction(w), size * Max({1, size - 1})>>

\* 1.96 standard deviations over the horizon, rounded up (1.96 = 49/25): the smallest
\* count whose square reaches the variance.
Band(f, w) ==
    LET s == Spread(f, w)
        enough == 2 * Week * (f.horizon + 1) * (SumFunction(w) + 1)
    IN Min({b \in 0..enough : 625 * b * b * s[2] >= 2401 * s[1] * f.horizon})

Forecast(f, rows) ==
    LET w == Window(f, rows)
        total == Total(f, w)
        band == Band(f, w)
    IN [requests |-> total, low |-> Max({0, total - band}), high |-> total + band]

-----------------------------------------------------------------------------
(* The costs of a month with n requests *)

Millis(tokens, tps) == CeilDiv(tokens * MsPerSecond, tps)
Busy ==
    LET r == doc.request IN
    Millis(r["input"] + r["written"], doc.model.prefillTps) + Millis(r["cached"], doc.model.cachedTps)
        + Millis(r["output"], doc.model.decodeTps)

MonthMs == HoursPerMonth * MsPerHour

Storage(s) == s.storageGb * s.perGb
Egress(s) == CeilDiv(s.egressBytes * s.egressRate, BytesPerGb)

GpuCount(n) == Max({CeilDiv(n * Busy, MonthMs), 1})
Rental(n) == GpuCount(n) * HoursPerMonth * doc.class.warm.hourly
BusyValue(n) == CeilDiv(n * Busy * doc.class.warm.hourly, MsPerHour)
IdleBurn(n) == Rental(n) - BusyValue(n)
WarmCost(n) == Rental(n) + Storage(doc.class.warm) + n * Egress(doc.class.warm)

ColdStarts(n) == CeilDiv(n, doc.class.perColdStart)
ScaleToZeroCost(n) ==
    n * CeilDiv(Busy * doc.class.scale.hourly, MsPerHour)
    + CeilDiv(ColdStarts(n) * doc.class.startupMs * doc.class.scale.hourly, MsPerHour)
    + Storage(doc.class.scale) + n * Egress(doc.class.scale)

WholesaleCost(n) ==
    LET price(kind) == CeilDiv(doc.request[kind] * doc.model.rate[kind], PerMillion)
    IN n * (price("input") + price("cached") + price("written") + price("output") + doc.model.fee)

Cost(mode, n) ==
    IF mode = "warm" THEN WarmCost(n)
    ELSE IF mode = "scale_to_zero" THEN ScaleToZeroCost(n)
    ELSE WholesaleCost(n)

SuccessRate(mode) == IF mode = "wholesale" THEN doc.model.apiSuccess ELSE doc.model.success

CostPerSuccess(mode, n) ==
    LET tasks == (n * SuccessRate(mode)) \div Bps
    IN IF tasks > 0 THEN CeilDiv(Cost(mode, n), tasks) ELSE None

\* The cheapest mode; a tie never rents.
ChooseMode(n) ==
    LET cheapest == Min({Cost(mode, n) : mode \in Modes})
    IN IF Cost("wholesale", n) = cheapest THEN "wholesale"
       ELSE IF Cost("scale_to_zero", n) = cheapest THEN "scale_to_zero" ELSE "warm"

\* Unset and malformed budgets approve nothing.
ParseBudget(b) == IF b.form = "number" THEN b.nano ELSE 0

-----------------------------------------------------------------------------
(* The break-even search *)

\* Mutant: the capacity is rounded up, to requests one GPU does not serve.
OneGpuCapacity_Ceil == IF Busy <= 0 THEN Unlimited ELSE CeilDiv(MonthMs, Busy)

OneGpuCapacity ==
    IF Busy <= 0 THEN Unlimited
    ELSE IF MonthMs \div Busy > 0 THEN MonthMs \div Busy ELSE 1

WarmAtMost(other, n) == WarmCost(n) <= Cost(other, n)
Span == 0..OneGpuCapacity

TypeOK ==
    /\ pc \in {"read", "demand", "fallback", "scale_to_zero", "wholesale", "recommend", "answered", "refused"}
    /\ demand \in {"-", "json", "ai", "fallback"}
    /\ even \in [Others -> Nat \cup {Open, None}]
    /\ (pc \in Others /\ high # 0) => 0 <= low /\ low < high /\ high <= OneGpuCapacity

Init ==
    /\ \E c \in Cases : doc = c[1] /\ feed = c[2] /\ source = c[3] /\ configured = c[4] /\ budget = c[5]
    /\ cheaper = [other \in Others |-> [n \in Span |-> WarmAtMost(other, n)]]
    /\ pc = "read" /\ series = <<>> /\ demand = "-"
    /\ low = 0 /\ high = 0
    /\ even = [other \in Others |-> Open]
    /\ result = None

-----------------------------------------------------------------------------
(* One request *)

Refuse == pc' = "refused" /\ UNCHANGED <<series, demand>>

Plan(from, rows) ==
    /\ Valid(doc, rows)
    /\ pc' = "scale_to_zero"
    /\ series' = rows
    /\ demand' = from

\* The document is read (or its copy, when the file has not changed) before the
\* source is looked at: the document holds the prices whatever the source.
ReadDocument ==
    /\ pc = "read"
    /\ IF ~doc.readable THEN Refuse
       ELSE pc' = "demand" /\ UNCHANGED <<series, demand>>
    /\ UNCHANGED <<inputs, cheaper, low, high, even, result>>

\* A feed that fails, or whose series does not plan, falls back to the
\* document's own series when one is configured.
Demand ==
    /\ pc = "demand"
    /\ IF source = "json"
         THEN Plan("json", doc.forecast.series) \/ (~Valid(doc, doc.forecast.series) /\ Refuse)
       ELSE IF FeedUsable(feed) /\ Valid(doc, FeedSeries(feed)) THEN Plan("ai", FeedSeries(feed))
       ELSE IF configured THEN pc' = "fallback" /\ UNCHANGED <<series, demand>>
       ELSE Refuse
    /\ UNCHANGED <<inputs, cheaper, low, high, even, result>>

Fallback ==
    /\ pc = "fallback"
    /\ Plan("fallback", doc.forecast.series) \/ (~Valid(doc, doc.forecast.series) /\ Refuse)
    /\ UNCHANGED <<inputs, cheaper, low, high, even, result>>

NextSearch(other) == IF other = "scale_to_zero" THEN "wholesale" ELSE "recommend"

\* Mutant: a range that ends dearer is searched like any other.
BothEnds_OneEnd(other) ==
    /\ pc = other /\ high = 0
    /\ IF WarmAtMost(other, 0)
         THEN even' = [even EXCEPT ![other] = 0] /\ pc' = NextSearch(other) /\ UNCHANGED <<low, high>>
         ELSE low' = 0 /\ high' = OneGpuCapacity /\ UNCHANGED <<pc, even>>
    /\ UNCHANGED <<inputs, cheaper, series, demand, result>>

\* The ends of the range answer by themselves: cheaper from the start, or dearer to the end.
BothEnds(other) ==
    /\ pc = other /\ high = 0
    /\ IF WarmAtMost(other, 0) \/ ~WarmAtMost(other, OneGpuCapacity)
         THEN /\ even' = [even EXCEPT ![other] = IF WarmAtMost(other, 0) THEN 0 ELSE None]
              /\ pc' = NextSearch(other)
              /\ UNCHANGED <<low, high>>
         ELSE low' = 0 /\ high' = OneGpuCapacity /\ UNCHANGED <<pc, even>>
    /\ UNCHANGED <<inputs, cheaper, series, demand, result>>

Halve(other) ==
    /\ pc = other /\ high # 0 /\ low + 1 < high
    /\ LET mid == (low + high) \div 2
       IN IF WarmAtMost(other, mid) THEN high' = mid /\ low' = low ELSE low' = mid /\ high' = high
    /\ UNCHANGED <<inputs, cheaper, pc, series, demand, even, result>>

Found(other) ==
    /\ pc = other /\ high # 0 /\ low + 1 >= high
    /\ even' = [even EXCEPT ![other] = high]
    /\ pc' = NextSearch(other)
    /\ low' = 0 /\ high' = 0
    /\ UNCHANGED <<inputs, cheaper, series, demand, result>>

\* Mutant: only the forecast itself is held against the budget.
Recommend_ForecastOnly ==
    /\ pc = "recommend"
    /\ LET f == Forecast(doc.forecast, series)
           mode == ChooseMode(f.requests)
       IN result' = [mode |-> mode,
                     stable |-> mode = ChooseMode(f.high),
                     forecast |-> f,
                     perTask |-> CostPerSuccess(mode, f.requests),
                     idle |-> IdleBurn(f.requests),
                     within |-> Cost(mode, f.requests) <= ParseBudget(budget)]
    /\ pc' = "answered"
    /\ UNCHANGED <<inputs, cheaper, series, demand, low, high, even>>

\* The mode that is cheapest at the forecast is recommended, and priced there
\* and at the high band against the budget.
Recommend ==
    /\ pc = "recommend"
    /\ LET f == Forecast(doc.forecast, series)
           mode == ChooseMode(f.requests)
           over(n) == Cost(mode, n) > ParseBudget(budget)
       IN result' = [mode |-> mode,
                     stable |-> mode = ChooseMode(f.high),
                     forecast |-> f,
                     perTask |-> CostPerSuccess(mode, f.requests),
                     idle |-> IdleBurn(f.requests),
                     within |-> ~over(f.requests) /\ ~over(f.high)]
    /\ pc' = "answered"
    /\ UNCHANGED <<inputs, cheaper, series, demand, low, high, even>>

Search ==
    \/ ReadDocument
    \/ Demand
    \/ Fallback
    \/ \E other \in Others : BothEnds(other) \/ Halve(other) \/ Found(other)

Next == Search \/ Recommend

Spec == Init /\ [][Next]_vars

\* The request is computed in one go on the server's thread; the read of the
\* file and the call of the feed (which has a time limit) come back.
FairSpec == Spec /\ WF_vars(Search)

-----------------------------------------------------------------------------
(* Properties *)

AnswerTo(other) == IF pc = "refused" THEN Refused ELSE even[other]

VsScaleToZero == INSTANCE BreakEven WITH atMost <- cheaper["scale_to_zero"], answer <- AnswerTo("scale_to_zero")
VsWholesale == INSTANCE BreakEven WITH atMost <- cheaper["wholesale"], answer <- AnswerTo("wholesale")

\* Both searches keep the promise of BreakEven: whatever the two curves look
\* like, the search ends, and what it answers is a count at which renting turns
\* from dearer to at most as dear (server/inference-planner.js:473, firstAtMost).
BreakEvenKept == VsScaleToZero!Spec /\ VsWholesale!Spec

\* The answer is the smallest count of the whole range, and no break-even means
\* that there is none.
Exact(other) ==
    LET counts == {n \in Span : cheaper[other][n]}
    IN even[other] # Open => even[other] = IF counts = {} THEN None ELSE Min(counts)

\* Against the wholesale price, which is a straight line, the search is exact:
\* one rented GPU carries the whole range (the capacity bounds it).
WholesaleExact == Exact("wholesale")

\* The same of the serverless price, which climbs in steps: the comment at
\* server/inference-planner.js:470 says so; the steps and a dearer egress of
\* the rented GPU refute it.
ScaleToZeroExact == Exact("scale_to_zero")

\* A plan that needs no owner's budget stays within it at every demand of the
\* band, not only at the two ends that were priced.
BudgetCoversBand ==
    (result # None /\ result.within) =>
        \A n \in result.forecast.low..result.forecast.high : Cost(result.mode, n) <= ParseBudget(budget)
=============================================================================
