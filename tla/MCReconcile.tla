---------------------------- MODULE MCReconcile ----------------------------
(* Two inventories for Reconcile, one of them in each behaviour: two auto   *)
(* services and a controller that meets no fault, given by the              *)
(* configuration; and one service with every fault and operators.           *)
EXTENDS Reconcile

CONSTANTS a, b

VARIABLE services      \* how many services the inventory has

TwoServices == <<a, b>>

\* Every commit changes what the service runs.
EachRuns == [c \in Commits |-> c]

\* Commit 1 changes documentation only.
DocsFirst == [c \in 0..2 |-> IF c = 1 THEN 0 ELSE c]

Faulty == INSTANCE Reconcile WITH
    Order <- <<a>>, AutoServices <- {a}, Last <- 2, RuntimeOf <- DocsFirst,
    Faults <- AllFaults, Operators <- TRUE

MCInit == (services = 2 /\ ControllerInit) \/ (services = 1 /\ Faulty!ControllerInit)

Smooth == services = 2 /\ ControllerNext /\ UNCHANGED services
Rough == services = 1 /\ Faulty!ControllerNext /\ UNCHANGED services

\* The timer fires, a pass that can go on does, and a wait for sessions ends, by systemd's
\* timeout at the latest.  Nothing is promised of developers, CI, visitors or operators,
\* nor that a pass is let finish.
Timed(A) == services = 2 /\ A /\ UNCHANGED services
MCSpec ==
    /\ MCInit /\ [][Smooth \/ Rough]_<<controllerVars, services>>
    /\ WF_<<controllerVars, services>>(Timed(StartPass))
    /\ WF_<<controllerVars, services>>(Timed(Pass))
    /\ WF_<<controllerVars, services>>(Timed(TimedOut))

\* "this makes each `auto` service run it, without a person" (lib/reconcile.js:4-5): when the
\* pushes have ended and neither its own sessions nor those of the services before it hold a
\* pass, whatever those after it do, a service comes to run its branch, unless passes are killed
\* at work again and again, or one was between the move of its checkout and its restart.
EachAutoServiceFollows ==
    \/ []<><<Timed(Killed)>>_<<controllerVars, services>>
    \/ \A s \in AutoServices :
           []<>(services = 2 => ~Calm(s)) \/ []<>(services = 2 => Current(s) \/ s \in left)
=============================================================================
