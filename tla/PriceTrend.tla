----------------------------- MODULE PriceTrend -----------------------------
(***************************************************************************)
(* Prices over time (server/catalog/trend.js): the points a plan's chart   *)
(* and a domain ending's chart are drawn from, rebuilt from the change     *)
(* rows the catalog keeps.  A trend is a function from moments to prices:  *)
(* of several points at one moment the last written stands.                *)
(*                                                                         *)
(* A price row has its current price, the moment it was first seen and the *)
(* moment it was last checked; a change row its moment and the prices      *)
(* before and after.  Prices are in one currency (rows in another are      *)
(* left out before a trend is built).                                      *)
(***************************************************************************)
EXTENDS Integers, Sequences, FiniteSetsExt

At(key, value) == [k \in {key} |-> value]
Over(new, old) == [k \in DOMAIN new \cup DOMAIN old |-> IF k \in DOMAIN new THEN new[k] ELSE old[k]]

Earliest(changes) == CHOOSE c \in changes : \A other \in changes : c.at <= other.at
Times(changes) == {c.at : c \in changes}
After(changes) == [t \in Times(changes) |-> (CHOOSE c \in changes : c.at = t).after]

\* The price first seen, and every change.
Changing(row, changes) ==
    IF changes = {} THEN At(row.first, row.price)
    ELSE Over(After(changes), At(row.first, Earliest(changes).before))

\* The price first seen, every change, and the current price at the end; with
\* no change, one observation.
PlanTrend(row, changes, now) ==
    IF changes = {} THEN At(row.first, row.price)
    ELSE Over(At(Max({now, row.first} \cup Times(changes)), row.price), Changing(row, changes))

-----------------------------------------------------------------------------
(* The cheapest registrar of a domain ending *)

\* Mutant: the price first seen is taken for the current one.
RegistrarSteps_Now(row, changes) == Over(At(row.at, row.price), Over(After(changes), At(row.first, row.price)))

\* One registrar's steps: its first price, its changes, and the current price when checked last.
RegistrarSteps(row, changes) == Over(At(row.at, row.price), Changing(row, changes))

\* The value a step function holds at a moment; none before its first step.
StepAt(steps, t, none) ==
    LET past == {s \in DOMAIN steps : s <= t}
    IN IF past = {} THEN none ELSE steps[Max(past)]

\* The lowest step of any registrar at a moment.
Lowest(timelines, t, none) ==
    LET values == {StepAt(steps, t, none) : steps \in timelines} \ {none}
    IN IF values = {} THEN none ELSE Min(values)

\* A step is drawn as the value before it and the value from it on; the first
\* event as its value, and `now` as the current one.
MarketSteps(events, timelines, now, none) ==
    LET value(t) == Lowest(timelines, t, none)
        turns == {t \in events \ {Min(events)} : value(t) # value(t - 1)}
        shown == {Min(events), now} \cup turns \cup {t - 1 : t \in turns}
    IN [t \in {s \in shown : value(s) # none} |-> value(t)]

\* sold: the registrars that list the ending, each with its row and its change rows.
TldTrend(sold, row, changes, now, none) ==
    LET timelines == {RegistrarSteps(row[r], changes[r]) : r \in sold}
        events == {row[r].first : r \in sold} \cup {now} \cup UNION {Times(changes[r]) : r \in sold}
    IN MarketSteps(events, timelines, now, none)

-----------------------------------------------------------------------------
(* What a chart says *)

\* The change between the first and the last point, and the range.
Summary(trend) ==
    LET first == trend[Min(DOMAIN trend)]
        last == trend[Max(DOMAIN trend)]
        prices == {trend[t] : t \in DOMAIN trend}
    IN [now |-> last, low |-> Min(prices), high |-> Max(prices),
        change |-> IF Cardinality(DOMAIN trend) > 1 THEN last - first ELSE 0]
=============================================================================
