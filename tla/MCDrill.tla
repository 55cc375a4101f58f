------------------------------ MODULE MCDrill ------------------------------
(* A small host for Drill: the drills differ in nothing but their stamp. *)
EXTENDS Drill, TLC

AnyDrill == Permutations(Drills)
=============================================================================
