------------------------------ MODULE OutboxMC ------------------------------
(* Model values and symmetry for the runs of Outbox.                       *)
EXTENDS Outbox, TLC

\* Relays are interchangeable; used by the runs that check safety only.
Symmetry == Permutations(Relays)
=============================================================================
