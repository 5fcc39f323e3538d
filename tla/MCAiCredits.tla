----------------------------- MODULE MCAiCredits -----------------------------
(* AiCredits on a small wallet: one purchase of three credits. *)
EXTENDS AiCredits, TLC

MCPackCredits == [p \in Purchases |-> 3]

Symmetry == Permutations(Reservations) \cup Permutations(Requests) \cup Permutations(Sweepers)
=============================================================================
