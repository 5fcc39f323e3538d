--------------------------- MODULE MCCommerceOrders ---------------------------
(* One order of one product that may need a minimum quantity of two. *)
EXTENDS CommerceOrders, TLC

MCMinQuantity == [p \in Products |-> 2]

Symmetry == Permutations(Handlers) \cup Permutations(References)
=============================================================================
