-------------------------------- MODULE AuthMC --------------------------------
(* Auth for TLC: handlers and e-mail addresses are interchangeable.        *)
EXTENDS Auth, TLC

Symmetry == Permutations(Handlers) \cup Permutations(Emails)
=============================================================================
