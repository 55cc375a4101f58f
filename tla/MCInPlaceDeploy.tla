-------------------------- MODULE MCInPlaceDeploy --------------------------
(* Small branches for InPlaceDeploy: what each commit changes. *)
EXTENDS InPlaceDeploy

CONSTANTS p1, p2, u1, u2

\* Commit 1 changes code and the dependencies of p1, commit 2 reverts the
\* dependencies and changes only files outside the code and the auxiliary unit.
Code == [c \in Commits |-> IF c = 0 THEN "a" ELSE "b"]
Deps == [c \in Commits |-> [p \in Pkgs |-> IF c = 1 /\ p = p1 THEN "d1" ELSE "d0"]]
UnitText == [c \in Commits |-> IF c = 0 THEN "u0" ELSE "u1"]
AuxText == [c \in Commits |-> IF c < 2 THEN "x0" ELSE "x1"]

\* Commit 1 has the build output of commit 0 in git; the others leave it out.
Output == [c \in Commits |-> IF c = 1 THEN 0 ELSE Untracked]
NoOutput == [c \in Commits |-> Untracked]

\* Every commit has the build output somebody committed with commit 0.
OldOutput == [c \in Commits |-> 0]

NoFlags == {{}}
AllFlags == {{}, {"wait", "units"}, {"force"}, {"restart", "units"}, {"units"}}
=============================================================================
