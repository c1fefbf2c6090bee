-------------------------- MODULE MCFunctionGraph --------------------------
(* FunctionGraph for TLC: tasks, processors and functions are all alike.   *)
EXTENDS FunctionGraph, TLC

Symmetry == Permutations(Tasks) \cup Permutations(Cpus) \cup Permutations(Names)
=============================================================================
