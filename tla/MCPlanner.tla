----------------------------- MODULE MCPlanner -----------------------------
(* Small planning documents, feeds and budgets for Planner: every rounding, *)
(* step and tie is reached with amounts of a few units.                     *)
EXTENDS Planner

Rows(first, counts) == [i \in DOMAIN counts |-> [day |-> first + i - 1, requests |-> counts[i]]]

\* Two weeks; two weeks in another order, of which the window takes one week;
\* a window that only the feed's series is long enough for, and the default
\* window, which is longer than the series; a gap.
Days(n) == [named |-> TRUE, days |-> n]
Forecasts == {
    [series |-> Rows(1, <<1, 0, 2, 1>>), window |-> Days(4), horizon |-> 3],
    [series |-> <<Rows(1, <<0, 0>>)[1]>> \o Rows(3, <<1, 3>>) \o <<Rows(2, <<2>>)[1]>>, window |-> Days(2), horizon |-> 2],
    [series |-> Rows(1, <<1, 1, 0, 1>>), window |-> Days(5), horizon |-> 2],
    [series |-> Rows(1, <<1, 3, 0, 1>>), window |-> [named |-> FALSE], horizon |-> 1],
    [series |-> Rows(1, <<1, 1>>) \o Rows(4, <<1, 1>>), window |-> Days(2), horizon |-> 1]}

Tokens(i, c, w, o) == [input |-> i, cached |-> c, written |-> w, output |-> o]
Model(s, o, f) == [prefillTps |-> 1, cachedTps |-> 2, decodeTps |-> 1, success |-> s, apiSuccess |-> 4,
                   rate |-> Tokens(2, 1, 1, o), fee |-> f]
Models == {Model(3, 0, 0), Model(3, 0, 1), Model(3, 3, 1)}

Section(hourly, gb, bytes) ==
    [hourly |-> hourly, storageGb |-> gb, perGb |-> 1, egressBytes |-> bytes, egressRate |-> 2]

\* Every third request pays for a start, every one for the rented egress: renting
\* is cheaper for one request, dearer for two and three, and cheaper again for four.
StartsDear == [warm |-> Section(2, 0, 5), scale |-> Section(2, 0, 0), startupMs |-> 32, perColdStart |-> 3]

\* Rented: dear, free, with and without egress. Serverless: by the request and
\* by the cold start, every request or every third.
Classes == {[warm |-> w, scale |-> Section(hourly, 0, 0), startupMs |-> ms, perColdStart |-> k] :
              w \in {Section(1, 0, 0), Section(1, 0, 1), Section(2, 1, 1), Section(0, 0, 1)},
              hourly \in {1, 2}, ms \in {0, 5}, k \in {1, 3}}
           \cup {StartsDear}

Requests == {Tokens(0, 0, 0, 0), Tokens(1, 0, 0, 0), Tokens(1, 1, 0, 1), Tokens(0, 1, 1, 0)}

Document(f, r, m, g) == [readable |-> TRUE, forecast |-> f, request |-> r, model |-> m, class |-> g]
OneClass == [warm |-> Section(1, 0, 1), scale |-> Section(2, 0, 0), startupMs |-> 5, perColdStart |-> 3]
OneRequest == Tokens(1, 0, 0, 0)
TwoWeeks == CHOOSE f \in Forecasts : f.window = Days(4)

Usage(day, n) == [day |-> day, model |-> "m", requests |-> n]
SomeFeeds == {
    [status |-> "ok", from |-> 1, to |-> 6, rows |-> {Usage(2, 1), Usage(5, 2), [day |-> 5, model |-> "n", requests |-> 1]}],
    [status |-> "ok", from |-> 4, to |-> 6, rows |-> {}],
    [status |-> "down", from |-> 1, to |-> 6, rows |-> {}]}

SomeBudgets == {[form |-> "malformed", nano |-> 20], [form |-> "number", nano |-> 3], [form |-> "number", nano |-> 20]}
\* Every cost with one forecast and every budget; every forecast, feed and
\* setting with one cost; documents that do not plan.
OneFeed == CHOOSE f \in SomeFeeds : f.status = "down"
CostCases ==
    {Document(TwoWeeks, r, m, g) : r \in Requests, m \in Models, g \in Classes}
        \X {OneFeed} \X {"json"} \X {FALSE} \X SomeBudgets
DemandCases ==
    {Document(f, OneRequest, m, OneClass) : f \in Forecasts, m \in {Model(3, 0, 1), Model(0, 0, 1)}}
        \X SomeFeeds \X {"json", "ai"} \X BOOLEAN \X {[form |-> "number", nano |-> 20]}
Unreadable ==
    {<<[c[1] EXCEPT !.readable = FALSE], c[2], c[3], c[4], c[5]>> : c \in {d \in DemandCases : d[1].forecast = TwoWeeks}}
SmallCases == CostCases \cup DemandCases \cup Unreadable
=============================================================================
