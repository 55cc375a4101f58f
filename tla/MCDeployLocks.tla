--------------------------- MODULE MCDeployLocks ---------------------------
(* Small instances of DeployLocks for TLC. *)
EXTENDS DeployLocks

CONSTANTS o1, o2, o3, a, b

\* Three operations on one service: a crashed holder and two that find its file.
OneService == [o \in Ops |-> a]

\* Two deploys of one service and one of another, sharing the host lock.
TwoServices == [o \in Ops |-> IF o = o3 THEN b ELSE a]
=============================================================================
