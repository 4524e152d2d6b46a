--------------------------- MODULE MCTicketService ---------------------------
(* Instances of TicketService and its claims for TLC. *)
EXTENDS TicketServiceClaims, TLC

\* Requests and workers play no role by name, nor do the texts.
Symmetry == Permutations(Requests) \cup Permutations(Workers) \cup Permutations(Texts)

=============================================================================
