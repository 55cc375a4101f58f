-------------------------- MODULE MCReleaseLayout --------------------------
(* Small branches for ReleaseLayout: what each commit changes. *)
EXTENDS ReleaseLayout

CONSTANTS u1, u2

\* Commit 1 changes only static files; commit 2 code, a unit, the socket and the schema.
Code == [c \in Commits |-> IF c < 2 THEN "a" ELSE "b"]
UnitText == [c \in Commits |-> IF c < 2 THEN "u0" ELSE "u1"]
Socket == [c \in Commits |-> IF c < 2 THEN "s0" ELSE "s1"]
Schema == [c \in Commits |-> IF c < 2 THEN "t0" ELSE "t1"]

\* No commit needs a restart.
Same == [c \in Commits |-> "same"]

NoFlags == {{}}
SomeFlags == {{}, {"force", "restart"}, {"prepareOnly"}}
AllFlags == {{}, {"force"}, {"restart"}, {"prepareOnly"}}
=============================================================================
