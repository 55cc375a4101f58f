----------------------------- MODULE MCCatalog -----------------------------
(* The catalog on small scenes: the rows in play, who acts beside whom, and *)
(* how many moments, staff saves and restarts there are.                    *)
EXTENDS Benchmarks

Quiet == [rows |-> {}, prices |-> {5, 7}, deliverers |-> {}, editors |-> {}, viewers |-> FALSE, sweepers |-> {},
          dates |-> {}, benchmarks |-> FALSE, time |-> 2, saves |-> 0, restarts |-> 0]

\* Staff give prices with dates of their own.
FormScenes == {[Quiet EXCEPT !.rows = {"staffed"}, !.editors = {"e1"}, !.dates = {1, 2, 3}, !.time = 3, !.saves = 3]}

MCScenes == FormScenes \cup {
    \* prices over time: one plan, and an ending two registrars sell
    [Quiet EXCEPT !.rows = {"plan"}, !.prices = {0, 5, 7}, !.deliverers = {"pull", "hook"}, !.time = 3],
    [Quiet EXCEPT !.rows = {"r1", "r2"}, !.deliverers = {"pull"}, !.time = 3],
    \* an ending and an offer that come and go, and a restart
    [Quiet EXCEPT !.rows = {"r1"}, !.deliverers = {"pull", "hook"}, !.time = 3],
    [Quiet EXCEPT !.rows = {"offer"}, !.deliverers = {"pull", "hook"}, !.time = 3, !.restarts = 1],
    \* an account's own feed, and a staff edit beside it
    [Quiet EXCEPT !.rows = {"keyed"}, !.deliverers = {"hook"}, !.editors = {"e1"}, !.time = 3, !.saves = 2],
    \* two members of staff, a viewer, a restart
    [Quiet EXCEPT !.rows = {"staffed"}, !.editors = {"e1", "e2"}, !.viewers = TRUE, !.saves = 3, !.restarts = 1],
    \* a pull, a member of staff and a sweep
    [Quiet EXCEPT !.rows = {"plan"}, !.deliverers = {"pull"}, !.editors = {"e1"}, !.sweepers = {"s1"}, !.saves = 1],
    [Quiet EXCEPT !.rows = {"r1"}, !.deliverers = {"pull"}, !.editors = {"e1"}, !.sweepers = {"s1"}, !.saves = 1],
    \* overlapping sweeps, an edit, a price that goes stale
    [Quiet EXCEPT !.rows = {"staffed"}, !.editors = {"e1"}, !.sweepers = {"s1", "s2"}, !.saves = 2],
    \* benchmarks of a plan, and a restart
    [Quiet EXCEPT !.rows = {"staffed"}, !.editors = {"e1"}, !.benchmarks = TRUE, !.time = 3, !.saves = 1, !.restarts = 1]}
=============================================================================
