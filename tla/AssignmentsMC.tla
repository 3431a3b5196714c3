---------------------------- MODULE AssignmentsMC -----------------------------
(* Assignments for TLC: handlers and pairs are interchangeable.            *)
EXTENDS Assignments, TLC

Symmetry == Permutations(Handlers) \cup Permutations(Pairs)
=============================================================================
