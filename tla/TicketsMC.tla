----------------------------- MODULE TicketsMC ------------------------------
(* Symmetry for the runs of Tickets.                                       *)
EXTENDS Tickets, TLC

\* Handlers are interchangeable, and so are the contents of the columns.
Symmetry == Permutations(Handlers) \cup Permutations(Texts) \cup Permutations(Plans)
=============================================================================
