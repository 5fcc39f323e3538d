--------------------------- MODULE MCBillingWebhook ---------------------------
(* Payments through Stripe, which reports a plan's payment in two events. *)
EXTENDS BillingWebhook, TLC

MCPackCredits == [p \in Purchases |-> 1]

MCSuccessEvents ==
  [p \in Payments |->
    IF p \in PlanPayments
    THEN {"invoice.payment_succeeded", "payment_intent.succeeded"}
    ELSE {"payment_intent.succeeded"}]

WebhookSymmetry == Permutations(Webhooks)
=============================================================================
