----------------------------- MODULE MCAiMetering -----------------------------
(* Metered turns on a wallet filled by one purchase. *)
EXTENDS AiMetering, TLC

MCPackCredits == [p \in Purchases |-> 5]

TurnSymmetry == Permutations(Reservations) \cup Permutations(Turns)
=============================================================================
