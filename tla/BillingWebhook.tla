---------------------------- MODULE BillingWebhook ----------------------------
(***************************************************************************)
(* Payments at Stripe and Paystack, from the checkout to the credits or    *)
(* the subscription bought: BillingService opens a payment, the gateway    *)
(* reports what becomes of it in webhook events, BillingWebhookController  *)
(* handles them.  Several handlers run at once, an event may be delivered  *)
(* any number of times and in any order, and no handler holds a lock or a  *)
(* transaction; only the grant of credits, which is AiCredits', has one.   *)
(*                                                                         *)
(* A gateway delivers an event again until it was answered with 200.       *)
(***************************************************************************)
EXTENDS AiCredits

CONSTANTS
  PlanPayments,   \* payments of a plan's invoice; those of a credit pack are the Purchases
  SuccessEvents,  \* the events a gateway sends when a payment succeeds
  Webhooks,       \* concurrent webhook handlers
  MaxErrors,      \* bound: handlers that fail and answer all the same
  MaxCrashes      \* bound: handlers that end without an answer

Payments == Purchases \cup PlanPayments

EventTypes == {"charge.success", "invoice.payment_succeeded", "payment_intent.succeeded"}

ASSUME BillingAssumption ==
  /\ Purchases \cap PlanPayments = {}
  /\ SuccessEvents \in [Payments -> (SUBSET EventTypes) \ {{}}]
  /\ Webhooks \subseteq Requests
  /\ MaxErrors \in Nat
  /\ MaxCrashes \in Nat

\* The payment an event is about, and what it says; charge.failed and
\* payment_intent.payment_failed are not told apart.  Deduplication goes by both.
Events == Payments \X (EventTypes \cup {"failed"})

PaymentStatuses == {"none", "PENDING", "SUCCEEDED", "FAILED"}

NoHandler == [step |-> "idle"]

\* A handler between two awaits: its event, and the payment status it has read.
Webhook ==
  {NoHandler}
  \cup [step: {"received", "succeed", "fail", "fulfil", "grant", "granting",
               "activate", "mark", "finish"},
        event: Events, status: PaymentStatuses]

VARIABLES
  charge,     \* the charge at the gateway
  sent,       \* the events that have happened
  due,        \* the events the gateway has no answer to
  payment,    \* Payment.status
  fulfilled,  \* the payments whose CreditPurchase is SUCCEEDED or whose Invoice is PAID
  activated,  \* the plan payments activateFromPayment ran for
  processed,  \* the events with a processed BillingEvent row
  webhook,    \* the local state of the handlers
  dropped,    \* history: events answered with 200 although the handler failed
  crashes     \* handlers that ended without an answer so far

gateway == <<charge, sent>>
billing == <<payment, fulfilled, activated, processed>>
counters == <<dropped, crashes>>
billingVars == <<gateway, due, billing, webhook, counters>>
systemVars == <<vars, billingVars>>

BillingInit ==
  /\ Init
  /\ charge = [p \in Payments |-> "none"]
  /\ sent = {}
  /\ due = {}
  /\ payment = [p \in Payments |-> "none"]
  /\ fulfilled = {}
  /\ activated = {}
  /\ processed = {}
  /\ webhook = [h \in Webhooks |-> NoHandler]
  /\ dropped = {}
  /\ crashes = 0

-----------------------------------------------------------------------------
(* Checkout, and the gateway. *)

\* The gateway opens the charge, then Payment and CreditPurchase are created in one
\* transaction (the Invoice of a plan before it); the customer gets the link last.
Checkout(p) ==
  /\ charge[p] = "none"
  /\ charge' = [charge EXCEPT ![p] = "open"]
  /\ payment' = [payment EXCEPT ![p] = "PENDING"]
  /\ UNCHANGED <<vars, sent, due, fulfilled, activated, processed, webhook, counters>>

Report(events) ==
  /\ sent' = sent \cup events
  /\ due' = due \cup events

\* The customer's attempt fails; another may follow.
AttemptFails(p) ==
  /\ charge[p] = "open"
  /\ <<p, "failed">> \notin sent
  /\ Report({<<p, "failed">>})
  /\ UNCHANGED <<vars, charge, billing, webhook, counters>>

AttemptSucceeds(p) ==
  /\ charge[p] = "open"
  /\ charge' = [charge EXCEPT ![p] = "paid"]
  /\ Report({p} \X SuccessEvents[p])
  /\ UNCHANGED <<vars, billing, webhook, counters>>

-----------------------------------------------------------------------------
(* The webhook handler. *)

At(h, step) == webhook[h].step = step
Goto(h, step) == webhook' = [webhook EXCEPT ![h].step = step]
PaymentOf(h) == webhook[h].event[1]

\* The handler ends with 200.
Answer(h) ==
  /\ webhook' = [webhook EXCEPT ![h] = NoHandler]
  /\ due' = due \ {webhook[h].event}

\* Mutant: answered on receipt, handled afterwards.
AnswerOnReceipt(h, event) ==
  /\ At(h, "idle")
  /\ event \in sent
  /\ due' = due \ {event}
  /\ webhook' = IF event \in processed THEN webhook ELSE [webhook EXCEPT ![h] =
       [step |-> "received", event |-> event, status |-> "none"]]
  /\ UNCHANGED <<vars, gateway, billing, counters>>

\* Signature and payload are good; an event with a processed row is skipped.
Deliver(h, event) ==
  /\ At(h, "idle")
  /\ event \in sent
  /\ IF event \in processed
     THEN /\ due' = due \ {event}
          /\ UNCHANGED webhook
     ELSE /\ webhook' = [webhook EXCEPT ![h] =
               [step |-> "received", event |-> event, status |-> "none"]]
          /\ UNCHANGED due
  /\ UNCHANGED <<vars, gateway, billing, counters>>

\* Mutant: any event that names a payment is taken for a success.
NamesPayment(event) == TRUE

\* parsed.status = 'success'.
Succeeds(event) == event[2] # "failed"

\* findPayment.  Only a failure of a PENDING payment goes on; a success creates its
\* BillingEvent row, which counts for nothing until it is processed.
FindPayment(h) ==
  LET status == payment[PaymentOf(h)]
      goesOn == Succeeds(webhook[h].event) \/ status = "PENDING"
      next == IF Succeeds(webhook[h].event) THEN "succeed" ELSE "fail"
  IN  /\ At(h, "received")
      /\ IF goesOn
         THEN /\ webhook' = [webhook EXCEPT ![h] =
                   [step |-> next, event |-> webhook[h].event, status |-> status]]
              /\ UNCHANGED due
         ELSE Answer(h)
      /\ UNCHANGED <<vars, gateway, billing, counters>>

\* handlePaymentFailed writes on the strength of the status it has read.
MarkFailed(h) ==
  /\ At(h, "fail")
  /\ payment' = [payment EXCEPT ![PaymentOf(h)] = "FAILED"]
  /\ Answer(h)
  /\ UNCHANGED <<vars, gateway, fulfilled, activated, processed, counters>>

\* Mutant: the gateway's word is stored.
StoreGatewayStatus(h) ==
  /\ At(h, "succeed")
  /\ payment' = [payment EXCEPT ![PaymentOf(h)] = "success"]
  /\ Goto(h, "fulfil")
  /\ UNCHANGED <<vars, gateway, due, fulfilled, activated, processed, counters>>

\* Mutant: the BillingEvent row is created as processed.
ProcessedFromTheStart(h) ==
  /\ At(h, "succeed")
  /\ payment' = [payment EXCEPT ![PaymentOf(h)] = "SUCCEEDED"]
  /\ processed' = processed \cup {webhook[h].event}
  /\ Goto(h, "fulfil")
  /\ UNCHANGED <<vars, gateway, due, fulfilled, activated, counters>>

MarkSucceeded(h) ==
  /\ At(h, "succeed")
  /\ payment' = IF webhook[h].status = "SUCCEEDED" THEN payment
                ELSE [payment EXCEPT ![PaymentOf(h)] = "SUCCEEDED"]
  /\ Goto(h, "fulfil")
  /\ UNCHANGED <<vars, gateway, due, fulfilled, activated, processed, counters>>

\* Mutant: marked first, as the code once did.
MarkBeforeFulfilling(h) ==
  /\ At(h, "fulfil")
  /\ fulfilled' = fulfilled \cup {PaymentOf(h)}
  /\ Goto(h, IF PaymentOf(h) \in fulfilled THEN "finish"
             ELSE IF PaymentOf(h) \in Purchases THEN "grant" ELSE "activate")
  /\ UNCHANGED <<vars, gateway, due, payment, activated, processed, counters>>

\* The purchase or the invoice is read; one that is done already is left alone.
ReadFulfilment(h) ==
  /\ At(h, "fulfil")
  /\ Goto(h, IF PaymentOf(h) \in fulfilled THEN "finish"
             ELSE IF PaymentOf(h) \in Purchases THEN "grant" ELSE "activate")
  /\ UNCHANGED <<vars, gateway, due, billing, counters>>

\* grant looks for the purchase's row ...
LookupGrant(h) ==
  /\ At(h, "grant")
  /\ \/ ReadForGrant(h, PaymentOf(h)) /\ Goto(h, "granting")
     \/ RowsOf(PaymentOf(h)) # {} /\ UNCHANGED vars /\ Goto(h, "mark")
  /\ UNCHANGED <<gateway, due, billing, counters>>

\* Mutant: the grant trusts its lookup.
GrantUnchecked(h) ==
  /\ At(h, "granting")
  /\ request' = [request EXCEPT ![h] = Idle]
  /\ Post("PURCHASE", request[h].credits, request[h].key)
  /\ Goto(h, "mark")
  /\ UNCHANGED <<reservation, listed, faults, gateway, due, billing, counters>>

\* ... and posts it in a transaction.
CommitGrant(h) ==
  /\ At(h, "granting")
  /\ GrantPurchase(h)
  /\ Goto(h, "mark")
  /\ UNCHANGED <<gateway, due, billing, counters>>

\* The plan payments whose invoice names a plan in its metadata: createInvoice
\* writes no metadata, and nothing else does.
InvoicesNamingPlan == {}

\* activateFromPayment, for an invoice that names its plan.
Activate(h) ==
  /\ At(h, "activate")
  /\ activated' = activated \cup ({PaymentOf(h)} \cap InvoicesNamingPlan)
  /\ Goto(h, "mark")
  /\ UNCHANGED <<vars, gateway, due, payment, fulfilled, processed, counters>>

\* The purchase becomes SUCCEEDED, or the invoice PAID.
MarkFulfilled(h) ==
  /\ At(h, "mark")
  /\ fulfilled' = fulfilled \cup {PaymentOf(h)}
  /\ Goto(h, "finish")
  /\ UNCHANGED <<vars, gateway, due, payment, activated, processed, counters>>

\* The event's rows become processed.
Finish(h) ==
  /\ At(h, "finish")
  /\ processed' = processed \cup {webhook[h].event}
  /\ Answer(h)
  /\ UNCHANGED <<vars, gateway, payment, fulfilled, activated, counters>>

-----------------------------------------------------------------------------
(* Failures. *)

\* What was under way in the wallet is rolled back.
RollBack(h) == IF request[h] = Idle THEN UNCHANGED vars ELSE AbandonRequest(h)

\* A step throws: the error is caught and logged, and the answer is 200.
CatchError(h) ==
  /\ ~At(h, "idle")
  /\ Cardinality(dropped) < MaxErrors
  /\ dropped' = dropped \cup {webhook[h].event}
  /\ RollBack(h)
  /\ Answer(h)
  /\ UNCHANGED <<gateway, billing, crashes>>

\* The process dies: no answer, the gateway delivers again.
Crash(h) ==
  /\ ~At(h, "idle")
  /\ crashes < MaxCrashes
  /\ crashes' = crashes + 1
  /\ RollBack(h)
  /\ webhook' = [webhook EXCEPT ![h] = NoHandler]
  /\ UNCHANGED <<gateway, due, billing, dropped>>

-----------------------------------------------------------------------------

GatewayStep(p) == Checkout(p) \/ AttemptFails(p) \/ AttemptSucceeds(p)

Continue(h) ==
  \/ FindPayment(h)
  \/ MarkFailed(h)
  \/ MarkSucceeded(h)
  \/ ReadFulfilment(h)
  \/ LookupGrant(h) \/ CommitGrant(h)
  \/ Activate(h)
  \/ MarkFulfilled(h)
  \/ Finish(h)

WebhookStep(h) ==
  \/ \E event \in Events : Deliver(h, event)
  \/ Continue(h)
  \/ CatchError(h)
  \/ Crash(h)

\* The wallet's other users; nothing else grants a purchase.
OtherWalletStep ==
  /\ \/ \E r \in Reservations : ReservationStep(r)
     \/ \E q \in Requests \ Webhooks : RequestStep(q) /\ request'[q].op # "grant"
     \/ \E s \in Sweepers : SweepStep(s)
     \/ AdminStep
  /\ UNCHANGED billingVars

BillingNext ==
  \/ \E p \in Payments : GatewayStep(p)
  \/ \E h \in Webhooks : WebhookStep(h)
  \/ OtherWalletStep

BillingSpec == BillingInit /\ [][BillingNext]_systemVars

\* The gateway delivers an event again while it has no answer.
Redeliver(event) == event \in due /\ \E h \in Webhooks : Deliver(h, event)

BillingFairSpec ==
  /\ BillingSpec
  /\ \A h \in Webhooks : WF_systemVars(Continue(h))
  /\ \A event \in Events : SF_systemVars(Redeliver(event))

-----------------------------------------------------------------------------
(* Properties. *)

\* Every variable of the billing side has its type.
BillingTypeOK ==
  /\ charge \in [Payments -> {"none", "open", "paid"}]
  /\ sent \subseteq Events
  /\ due \subseteq sent
  /\ payment \in [Payments -> PaymentStatuses]
  /\ fulfilled \subseteq Payments
  /\ activated \subseteq PlanPayments
  /\ processed \subseteq sent
  /\ webhook \in [Webhooks -> Webhook]
  /\ dropped \subseteq Events
  /\ crashes \in Nat

\* Credits are granted, and purchases and invoices closed, only for money that was
\* received, in whatever order failures and successes are delivered.
OnlyPaidIsFulfilled ==
  \A p \in Payments :
    p \in fulfilled \/ (p \in Purchases /\ RowsOf(p) # {}) => charge[p] = "paid"

\* "Grant FIRST, then mark the purchase done": a purchase that is SUCCEEDED, which
\* every later delivery skips, has its row in the wallet's ledger.
FulfilledIsGranted == \A p \in Purchases \cap fulfilled : RowsOf(p) # {}

\* What deduplication skips is done: a success event with a processed row has left
\* its purchase SUCCEEDED or its invoice PAID, also when the handler that failed and
\* the one that redid its work overlapped.
ProcessedIsFulfilled == \A event \in processed : event[1] \in fulfilled

\* No payment is forgotten: until a payment received is fulfilled, the gateway still has
\* an event of its success to deliver, or such an event was answered with 200 after an
\* error.  No repetition, no crash and no failure event takes the last one away.
NoPaymentIsForgotten ==
  \A p \in Payments :
    charge[p] = "paid" /\ p \notin fulfilled =>
      \E event \in due \cup dropped : event[1] = p /\ Succeeds(event)

\* What the webhooks show of the payments: an error answered with 200 is their one excuse.
PaidSet == {p \in Payments : charge[p] = "paid"}
Reported(events) == {p \in Payments : \E event \in events : event[1] = p /\ Succeeds(event)}

Desk == INSTANCE PaymentDesk WITH
  Deeds   <- Payments \X {"fulfilment"},
  paid    <- PaidSet,
  done    <- fulfilled \X {"fulfilment"},
  pending <- Reported(due),
  excused <- Reported(dropped)

\* Payments are handled as promised: fulfilled once, for good, only when they were made,
\* and reported again and again until then.
ImplementsDesk == Desk!Spec

\* Webhooks use the wallet as AiCredits specifies it; with it, "a duplicate webhook
\* delivery for the same purchase can never grant twice".
WebhooksUseTheWallet == Spec

\* A payment received is fulfilled in the end, whatever handlers crash, unless one
\* of its events was answered with 200 after an error.
PaidIsFulfilled ==
  \A p \in Payments :
    charge[p] = "paid" ~> p \in fulfilled \/ \E event \in dropped : event[1] = p
=============================================================================
