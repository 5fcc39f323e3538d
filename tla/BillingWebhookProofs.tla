------------------------- MODULE BillingWebhookProofs -------------------------
(***************************************************************************)
(* Proofs about payments and their webhooks for every number of payments,  *)
(* handlers, errors and crashes, on a wallet that others use meanwhile.    *)
(***************************************************************************)
EXTENDS BillingWebhook, AiCreditsProofs

-----------------------------------------------------------------------------
(* The invariant: what a handler knows at each of its steps. *)

Succeeding == {"succeed", "fulfil", "grant", "granting", "activate", "mark", "finish"}

HandlerKnows(h) ==
  /\ ~At(h, "idle") => webhook[h].event \in sent
  /\ webhook[h].step \in Succeeding => Succeeds(webhook[h].event)
  /\ webhook[h].step \in {"grant", "granting"} => PaymentOf(h) \in Purchases
  /\ At(h, "activate") => PaymentOf(h) \in PlanPayments
  /\ ~At(h, "granting") => request[h] = Idle
  /\ At(h, "granting") => request[h].op = "grant" /\ request[h].key = PaymentOf(h)
  /\ At(h, "mark") /\ PaymentOf(h) \in Purchases => RowsOf(PaymentOf(h)) # {}
  /\ At(h, "finish") => PaymentOf(h) \in fulfilled

\* No one else is about to grant a purchase.
NoOtherGrants == \A q \in Requests \ Webhooks : request[q].op # "grant"

\* A success is reported only for a charge that is paid.
ReportsAreTrue == \A event \in sent : Succeeds(event) => charge[event[1]] = "paid"

BillingInvariant ==
  /\ TypeOK
  /\ BillingTypeOK
  /\ \A h \in Webhooks : HandlerKnows(h)
  /\ NoOtherGrants
  /\ ReportsAreTrue
  /\ OnlyPaidIsFulfilled
  /\ FulfilledIsGranted
  /\ ProcessedIsFulfilled

-----------------------------------------------------------------------------
(* Every step of a webhook is a step of the wallet, or leaves it alone. *)

LEMMA WebhookWalletStep ==
  ASSUME NEW h \in Webhooks, HandlerKnows(h), WebhookStep(h)
  PROVE  [Next]_vars
<1>1. h \in Requests
  BY BillingAssumption
<1>2. CASE \E event \in Events : Deliver(h, event)
  BY <1>2 DEF Deliver, vars
<1>3. CASE LookupGrant(h)
  <2>1. CASE UNCHANGED vars
    BY <2>1
  <2>2. CASE ReadForGrant(h, PaymentOf(h))
    <3>1. PaymentOf(h) \in Purchases
      BY <1>3 DEF LookupGrant, HandlerKnows, At
    <3> QED BY <1>1, <2>2, <3>1 DEF Next, RequestStep
  <2> QED BY <1>3, <2>1, <2>2 DEF LookupGrant
<1>4. CASE CommitGrant(h)
  BY <1>1, <1>4 DEF CommitGrant, Next, RequestStep
<1>5. CASE CatchError(h) \/ Crash(h)
  BY <1>1, <1>5 DEF CatchError, Crash, RollBack, Next, RequestStep
<1>6. CASE UNCHANGED vars
  BY <1>6
<1> QED
  BY <1>2, <1>3, <1>4, <1>5, <1>6
  DEF WebhookStep, Continue, FindPayment, MarkFailed, MarkSucceeded, ReadFulfilment,
    Activate, MarkFulfilled, Finish

LEMMA BillingWalletStep ==
  ASSUME BillingInvariant, [BillingNext]_systemVars
  PROVE  [Next]_vars
<1>1. ASSUME NEW p \in Payments, GatewayStep(p) PROVE [Next]_vars
  BY <1>1 DEF GatewayStep, Checkout, AttemptFails, AttemptSucceeds
<1>2. ASSUME NEW h \in Webhooks, WebhookStep(h) PROVE [Next]_vars
  BY <1>2, WebhookWalletStep DEF BillingInvariant
<1>3. CASE OtherWalletStep
  BY <1>3 DEF OtherWalletStep, Next
<1>4. CASE UNCHANGED systemVars
  BY <1>4 DEF systemVars
<1> QED BY <1>1, <1>2, <1>3, <1>4 DEF BillingNext

-----------------------------------------------------------------------------
(* What a step does to the ledger's rows of purchases. *)

RowsKept == \A p \in Purchases : RowsOf(p)' = RowsOf(p)

LEMMA SameLedger == ASSUME UNCHANGED ledger PROVE RowsKept
  BY DEF RowsKept, RowsOf

LEMMA OtherKey ==
  ASSUME TypeOK, NEW type, NEW credits \in Int, NEW key, key \notin Purchases,
         Post(type, credits, key)
  PROVE  RowsKept
  BY PostRows DEF RowsKept

\* Reservations, sweeps, adjustments and the requests of others post no row of a
\* purchase and leave the webhooks' requests alone.
LEMMA OthersKeepRows ==
  ASSUME TypeOK, NoOtherGrants, OtherWalletStep
  PROVE  RowsKept /\ NoOtherGrants' /\ \A h \in Webhooks : request'[h] = request[h]
<1> USE DEF NoOtherGrants
<1>0. /\ NoKey \notin Purchases
      /\ \A r \in Reservations : r \notin Purchases
      /\ \A e \in Executions : e \notin Purchases
      /\ Webhooks \subseteq Requests
      /\ AdminCredits \subseteq Int
  BY CreditAssumption, BillingAssumption DEF Keys
<1>1. ASSUME NEW r \in Reservations, NEW c \in Int, SettleReservation(r, c)
      PROVE  RowsKept /\ UNCHANGED request
  <2>1. -c \in Int /\ Post("AI_USAGE", -c, r) /\ UNCHANGED request
    BY <1>1 DEF SettleReservation
  <2> QED BY <1>0, <2>1, OtherKey
<1>2. ASSUME NEW r \in Reservations, ReservationStep(r)
      PROVE  RowsKept /\ UNCHANGED request
  <2>1. CASE \E perAttempt \in 0..MaxReservation, attempts \in 1..MaxAttempts :
               ReserveForProviderCall(r, perAttempt, attempts)
    BY <2>1, SameLedger DEF ReserveForProviderCall, Reserve
  <2>2. CASE ReserveFixedCredits(r)
    BY <2>2, SameLedger DEF ReserveFixedCredits, Reserve
  <2>3. ASSUME NEW a \in 1..MaxAttempts, NEW u \in UsageCredits,
               SettleReservationForUsage(r, a, u)
        PROVE  RowsKept /\ UNCHANGED request
    <3>1. UsageCharge(r, a, u) \in Int
      BY UsageChargeType
    <3> QED BY <1>1, <2>3, <3>1 DEF SettleReservationForUsage
  <2>4. CASE SettleFixedCredits(r)
    <3>1. reservation[r].reservedCredits \in Int
      BY DEF TypeOK, Reservation
    <3> QED BY <1>1, <2>4, <3>1 DEF SettleFixedCredits
  <2>5. CASE PassExpiry(r)
    BY <2>5, SameLedger DEF PassExpiry
  <2> QED BY <1>2, <2>1, <2>2, <2>3, <2>4, <2>5 DEF ReservationStep
<1>3. ASSUME NEW q \in Requests \ Webhooks, RequestStep(q), request'[q].op # "grant"
      PROVE  RowsKept /\ NoOtherGrants' /\ \A h \in Webhooks : request'[h] = request[h]
  <2>1. \E local : request' = [request EXCEPT ![q] = local]
    BY <1>3 DEF RequestStep, ReadForRelease, ReleaseReservation, ReadForSettlement,
      ReadForGrant, ReadBeforePosting, SettleForExecution, GrantPurchase, AbandonRequest
  <2>2. \A x \in Requests : x # q => request'[x] = request[x]
    BY <2>1 DEF TypeOK
  <2>3. CASE SettleForExecution(q)
    <3> DEFINE k == request[q].key
               n == -request[q].credits
    <3>1. k \notin Purchases /\ n \in Int
      BY <1>0, <2>3 DEF SettleForExecution, TypeOK, Request, Idle
    <3>2. UNCHANGED ledger \/ Post("AI_USAGE", n, k)
      BY <2>3 DEF SettleForExecution
    <3> HIDE DEF k, n
    <3>3. RowsKept
      BY <3>1, <3>2, SameLedger, OtherKey
    <3> QED BY <1>0, <1>3, <2>2, <3>3
  <2>4. CASE GrantPurchase(q)
    BY <2>4 DEF GrantPurchase
  <2>5. CASE UNCHANGED ledger
    BY <1>0, <1>3, <2>2, <2>5, SameLedger
  <2> QED
    BY <1>3, <2>3, <2>4, <2>5
    DEF RequestStep, ReadForRelease, ReleaseReservation, ReadForSettlement,
      ReadForGrant, ReadBeforePosting, AbandonRequest
<1>4. ASSUME NEW s \in Sweepers, SweepStep(s) PROVE RowsKept /\ UNCHANGED request
  <2>1. CASE ListExpired(s)
    BY <2>1, SameLedger DEF ListExpired
  <2>2. ASSUME NEW r \in listed[s], ExpireReservation(s, r)
        PROVE  RowsKept /\ UNCHANGED request
    <3> DEFINE n == -reservation[r].reservedCredits
    <3>1. r \in Reservations /\ n \in Int
      BY DEF TypeOK, Reservation
    <3>2. UNCHANGED ledger \/ Post("AI_USAGE", n, r)
      BY <2>2 DEF ExpireReservation, wallet
    <3>3. UNCHANGED request
      BY <2>2 DEF ExpireReservation
    <3> HIDE DEF n
    <3> QED BY <1>0, <3>1, <3>2, <3>3, SameLedger, OtherKey
  <2>3. CASE AbortSweep(s)
    BY <2>3, SameLedger DEF AbortSweep
  <2> QED BY <1>4, <2>1, <2>2, <2>3 DEF SweepStep, ExpireListed
<1>5. CASE AdminStep
  <2>1. ASSUME NEW c \in Int, AdjustCredits(c) PROVE RowsKept /\ UNCHANGED request
    BY <1>0, <2>1, OtherKey DEF AdjustCredits
  <2>2. ASSUME NEW c \in Int, ChargeFlat(c) PROVE RowsKept /\ UNCHANGED request
    <3>1. -c \in Int
      OBVIOUS
    <3> QED BY <1>0, <2>2, <3>1, OtherKey DEF ChargeFlat
  <2>3. RowsKept /\ UNCHANGED request
    BY <1>0, <1>5, <2>1, <2>2 DEF AdminStep
  <2> QED BY <2>3
<1> QED BY <1>2, <1>3, <1>4, <1>5 DEF OtherWalletStep

-----------------------------------------------------------------------------
(* The invariant is inductive. *)

LEMMA BillingInitially == BillingInit => BillingInvariant
<1> SUFFICES ASSUME BillingInit PROVE BillingInvariant
  OBVIOUS
<1>1. TypeOK
  BY WalletInitially DEF BillingInit, WalletInvariant
<1>2. \A k : RowsOf(k) = {}
  BY DEF BillingInit, Init, RowsOf
<1>3. \A q \in Requests : request[q] = Idle
  BY DEF BillingInit, Init
<1>4. BillingTypeOK
  BY DEF BillingInit, BillingTypeOK, PaymentStatuses, Webhook
<1>5. \A h \in Webhooks : HandlerKnows(h)
  BY <1>3, BillingAssumption DEF BillingInit, HandlerKnows, At, NoHandler, Succeeding
<1>6. NoOtherGrants
  BY <1>3 DEF NoOtherGrants, Idle
<1>7. ReportsAreTrue /\ OnlyPaidIsFulfilled /\ FulfilledIsGranted /\ ProcessedIsFulfilled
  BY <1>2 DEF BillingInit, ReportsAreTrue, OnlyPaidIsFulfilled, FulfilledIsGranted,
    ProcessedIsFulfilled
<1> QED BY <1>1, <1>4, <1>5, <1>6, <1>7 DEF BillingInvariant

\* A handler that does not move keeps its knowledge.
LEMMA KeepsKnowing ==
  ASSUME NEW h \in Webhooks, HandlerKnows(h), webhook'[h] = webhook[h],
         request'[h] = request[h], sent \subseteq sent', fulfilled \subseteq fulfilled',
         \A p \in Purchases : RowsOf(p) # {} => RowsOf(p)' # {}
  PROVE  HandlerKnows(h)'
  BY DEF HandlerKnows, At, PaymentOf

\* The event of a handler, and its payment.
LEMMA HandlerType ==
  ASSUME BillingInvariant, NEW h \in Webhooks, ~At(h, "idle")
  PROVE  /\ webhook[h].event \in Events
         /\ PaymentOf(h) \in Payments
         /\ webhook[h].event \in sent
         /\ webhook[h] = [step |-> webhook[h].step, event |-> webhook[h].event,
                          status |-> webhook[h].status]
         /\ webhook[h].status \in PaymentStatuses
  BY DEF BillingInvariant, BillingTypeOK, Webhook, NoHandler, At, HandlerKnows, PaymentOf, Events

\* What every step of a handler other than the commit of a grant has in common.
Quiet(h) ==
  /\ UNCHANGED ledger
  /\ UNCHANGED gateway
  /\ \A g \in Webhooks : g # h => webhook'[g] = webhook[g] /\ request'[g] = request[g]
  /\ \A q \in Requests \ Webhooks : request'[q] = request[q]
  /\ fulfilled' \in {fulfilled, fulfilled \cup {PaymentOf(h)}}
  /\ processed' \in {processed, processed \cup {webhook[h].event}}

\* Its own new knowledge is then all there is to show.
LEMMA QuietStep ==
  ASSUME BillingInvariant, TypeOK', BillingTypeOK', NEW h \in Webhooks, Quiet(h),
         HandlerKnows(h)',
         fulfilled' # fulfilled =>
           At(h, "mark") /\ webhook[h].event \in sent,
         processed' # processed => At(h, "finish")
  PROVE  BillingInvariant'
<1> USE DEF BillingInvariant
<1>1. \A p : RowsOf(p)' = RowsOf(p)
  BY DEF Quiet, RowsOf
<1>2. \A g \in Webhooks : HandlerKnows(g)'
  BY <1>1, KeepsKnowing DEF Quiet, gateway
<1>3. NoOtherGrants' /\ ReportsAreTrue'
  BY DEF Quiet, gateway, NoOtherGrants, ReportsAreTrue
<1>4. fulfilled' # fulfilled =>
        /\ charge[PaymentOf(h)] = "paid"
        /\ PaymentOf(h) \in Purchases => RowsOf(PaymentOf(h)) # {}
  BY DEF HandlerKnows, At, Succeeding, ReportsAreTrue, PaymentOf
<1>5. OnlyPaidIsFulfilled'
  BY <1>1, <1>4 DEF OnlyPaidIsFulfilled, Quiet, gateway
<1>6. FulfilledIsGranted'
  BY <1>1, <1>4 DEF FulfilledIsGranted, Quiet
<1>7. processed' # processed => PaymentOf(h) \in fulfilled
  BY DEF HandlerKnows
<1>8. ProcessedIsFulfilled'
  BY <1>7 DEF ProcessedIsFulfilled, Quiet, PaymentOf
<1> QED BY <1>2, <1>3, <1>5, <1>6, <1>8

ActiveSteps == {"received", "succeed", "fail", "fulfil", "grant", "granting",
                "activate", "mark", "finish"}

\* The handler's local state after it moves on, with its event.
Moved(h, step) ==
  /\ webhook' \in [Webhooks -> Webhook]
  /\ webhook'[h].step = step
  /\ webhook'[h].event = webhook[h].event
  /\ \A g \in Webhooks : g # h => webhook'[g] = webhook[g]

LEMMA NewStep ==
  ASSUME NEW w, NEW step, NEW a, NEW b, NEW c,
         w = [step |-> a, event |-> b, status |-> c]
  PROVE  [w EXCEPT !.step = step] = [step |-> step, event |-> b, status |-> c]
  OBVIOUS

LEMMA GotoMoves ==
  ASSUME BillingInvariant, NEW h \in Webhooks, ~At(h, "idle"),
         NEW step \in ActiveSteps, Goto(h, step)
  PROVE  Moved(h, step)
<1> DEFINE w == webhook[h]
<1>1. webhook \in [Webhooks -> Webhook]
  BY DEF BillingInvariant, BillingTypeOK
<1>2. w = [step |-> w.step, event |-> w.event, status |-> w.status]
      /\ w.event \in Events /\ w.status \in PaymentStatuses
  BY HandlerType
<1>3. webhook' = [webhook EXCEPT ![h] = [step |-> step, event |-> w.event, status |-> w.status]]
  <2>1. webhook' = [webhook EXCEPT ![h] = [w EXCEPT !.step = step]]
    BY DEF Goto
  <2>2. [w EXCEPT !.step = step] = [step |-> step, event |-> w.event, status |-> w.status]
    BY <1>2, NewStep
  <2> QED BY <2>1, <2>2
<1>4. [step |-> step, event |-> w.event, status |-> w.status] \in Webhook
  BY <1>2 DEF Webhook, ActiveSteps
<1> HIDE DEF w
<1>5. webhook'[h] = [step |-> step, event |-> w.event, status |-> w.status]
  BY <1>1, <1>3
<1> QED BY <1>1, <1>3, <1>4, <1>5 DEF Moved, w

LEMMA AnswerMoves ==
  ASSUME BillingInvariant, NEW h \in Webhooks, Answer(h)
  PROVE  /\ webhook' \in [Webhooks -> Webhook]
         /\ webhook'[h] = NoHandler
         /\ \A g \in Webhooks : g # h => webhook'[g] = webhook[g]
         /\ due' \subseteq due
  BY DEF Answer, BillingInvariant, BillingTypeOK, Webhook

\* An idle handler has nothing to know but that the wallet is not waiting for it.
LEMMA IdleKnows ==
  ASSUME NEW h \in Webhooks, webhook'[h] = NoHandler, request'[h] = Idle
  PROVE  HandlerKnows(h)'
  BY DEF HandlerKnows, At, NoHandler, Succeeding

LEMMA DeliverStep ==
  ASSUME BillingInvariant, NEW h \in Webhooks, NEW event \in Events, Deliver(h, event)
  PROVE  BillingInvariant'
<1> USE DEF BillingInvariant
<1>1. TypeOK' /\ UNCHANGED vars
  BY TypeStep DEF Deliver
<1>2. request[h] = Idle
  BY DEF Deliver, HandlerKnows, At
<1>3. Quiet(h) /\ UNCHANGED <<fulfilled, processed>>
  BY <1>1, BillingAssumption DEF Deliver, Quiet, vars, gateway, billing, BillingTypeOK
<1>4. CASE event \in processed
  <2>1. BillingTypeOK'
    BY <1>4 DEF Deliver, gateway, billing, counters, BillingTypeOK
  <2>2. HandlerKnows(h)'
    BY <1>1, <1>2, <1>4 DEF Deliver, HandlerKnows, At, Succeeding, vars
  <2> QED BY <1>1, <1>3, <2>1, <2>2, QuietStep
<1>5. CASE event \notin processed
  <2> DEFINE w == [step |-> "received", event |-> event, status |-> "none"]
  <2>1. webhook' = [webhook EXCEPT ![h] = w] /\ UNCHANGED due /\ event \in sent
    BY <1>5 DEF Deliver
  <2>2. w \in Webhook
    BY DEF Webhook, PaymentStatuses
  <2>3. webhook'[h] = w /\ webhook' \in [Webhooks -> Webhook]
    BY <2>1, <2>2 DEF BillingTypeOK
  <2>4. BillingTypeOK'
    BY <2>1, <2>3 DEF Deliver, gateway, billing, counters, BillingTypeOK
  <2>5. HandlerKnows(h)'
    BY <1>1, <1>2, <2>1, <2>3 DEF Deliver, gateway, HandlerKnows, At, Succeeding, vars
  <2> QED BY <1>1, <1>3, <2>4, <2>5, QuietStep
<1> QED BY <1>4, <1>5

LEMMA FindPaymentStep ==
  ASSUME BillingInvariant, NEW h \in Webhooks, FindPayment(h)
  PROVE  BillingInvariant'
<1> USE DEF BillingInvariant
<1> DEFINE w == webhook[h]
<1>1. TypeOK' /\ UNCHANGED vars
  BY TypeStep DEF FindPayment
<1>2. request[h] = Idle /\ w.event \in sent /\ ~At(h, "idle")
  BY DEF FindPayment, HandlerKnows, At
<1>3. CASE Answer(h)
  <2>1. Quiet(h) /\ UNCHANGED <<fulfilled, processed>>
    BY <1>1, <1>3, AnswerMoves, BillingAssumption DEF FindPayment, Quiet, vars, gateway, billing
  <2>2. BillingTypeOK'
    BY <1>3, AnswerMoves DEF FindPayment, gateway, billing, counters, BillingTypeOK
  <2>3. HandlerKnows(h)'
    BY <1>1, <1>2, <1>3, AnswerMoves, IdleKnows DEF vars
  <2> QED BY <1>1, <2>1, <2>2, <2>3, QuietStep
<1>4. CASE ~Answer(h)
  <2> DEFINE moved(next) == [step |-> next, event |-> w.event, status |-> payment[PaymentOf(h)]]
  <2>1. PICK next \in {"succeed", "fail"} :
          /\ webhook' = [webhook EXCEPT ![h] = moved(next)]
          /\ UNCHANGED due
          /\ next = "succeed" => Succeeds(w.event)
    BY <1>4 DEF FindPayment
  <2>2. payment[PaymentOf(h)] \in PaymentStatuses /\ w.event \in Events
    BY <1>2, HandlerType DEF BillingTypeOK
  <2>4. moved(next) \in Webhook
    BY <2>2 DEF Webhook
  <2>5. webhook' \in [Webhooks -> Webhook] /\ webhook'[h] = moved(next)
        /\ \A g \in Webhooks : g # h => webhook'[g] = webhook[g]
    BY <2>1, <2>4 DEF BillingTypeOK
  <2>6. Quiet(h) /\ UNCHANGED <<fulfilled, processed>>
    BY <1>1, <2>5, BillingAssumption DEF FindPayment, Quiet, vars, gateway, billing
  <2>7. BillingTypeOK'
    BY <2>1, <2>5 DEF FindPayment, gateway, billing, counters, BillingTypeOK
  <2>8. HandlerKnows(h)'
    BY <1>1, <1>2, <2>1, <2>5
    DEF FindPayment, gateway, billing, HandlerKnows, At, Succeeding, vars
  <2> QED BY <1>1, <2>6, <2>7, <2>8, QuietStep
<1> QED BY <1>3, <1>4

LEMMA MarkFailedStep ==
  ASSUME BillingInvariant, NEW h \in Webhooks, MarkFailed(h)
  PROVE  BillingInvariant'
<1> USE DEF BillingInvariant
<1>1. TypeOK' /\ UNCHANGED vars
  BY TypeStep DEF MarkFailed
<1>2. request[h] = Idle /\ Answer(h)
  BY DEF MarkFailed, HandlerKnows, At
<1>3. Quiet(h) /\ UNCHANGED <<fulfilled, processed>>
  BY <1>1, <1>2, AnswerMoves, BillingAssumption DEF MarkFailed, Quiet, vars, gateway
<1>4. BillingTypeOK'
  BY <1>2, AnswerMoves DEF MarkFailed, gateway, counters, BillingTypeOK, PaymentStatuses
<1>5. HandlerKnows(h)'
  BY <1>1, <1>2, AnswerMoves, IdleKnows DEF vars
<1> QED BY <1>1, <1>3, <1>4, <1>5, QuietStep

\* The steps of a success that leave the wallet alone.
LEMMA SuccessSteps ==
  ASSUME BillingInvariant, NEW h \in Webhooks,
         MarkSucceeded(h) \/ ReadFulfilment(h) \/ Activate(h) \/ MarkFulfilled(h)
  PROVE  BillingInvariant'
<1> USE DEF BillingInvariant
<1>1. TypeOK' /\ UNCHANGED vars
  BY TypeStep DEF MarkSucceeded, ReadFulfilment, Activate, MarkFulfilled
<1>2. /\ ~At(h, "idle") /\ request[h] = Idle
      /\ webhook[h].step \in Succeeding
  BY DEF MarkSucceeded, ReadFulfilment, Activate, MarkFulfilled, HandlerKnows, At, Succeeding
<1>3. PaymentOf(h) \in Payments /\ webhook[h].event \in sent /\ Succeeds(webhook[h].event)
  BY <1>2, HandlerType DEF HandlerKnows
<1>4. UNCHANGED <<gateway, due, counters, processed>>
  BY DEF MarkSucceeded, ReadFulfilment, Activate, MarkFulfilled, billing
<1>5. CASE MarkSucceeded(h)
  <2>1. Moved(h, "fulfil")
    BY <1>2, <1>5, GotoMoves DEF MarkSucceeded, ActiveSteps
  <2>2. Quiet(h) /\ UNCHANGED fulfilled
    BY <1>1, <1>4, <1>5, <2>1, BillingAssumption DEF MarkSucceeded, Moved, Quiet, vars
  <2>3. payment' \in [Payments -> PaymentStatuses]
    BY <1>5 DEF MarkSucceeded, BillingTypeOK, PaymentStatuses
  <2>4. BillingTypeOK'
    BY <1>4, <1>5, <2>1, <2>3 DEF MarkSucceeded, Moved, gateway, counters, BillingTypeOK
  <2>5. HandlerKnows(h)'
    BY <1>1, <1>2, <1>3, <1>4, <2>1 DEF Moved, gateway, HandlerKnows, At, vars
  <2> QED BY <1>1, <1>4, <2>2, <2>4, <2>5, QuietStep
<1>6. CASE ReadFulfilment(h)
  <2>1. PICK step \in {"finish", "grant", "activate"} :
          /\ Goto(h, step)
          /\ step = "finish" => PaymentOf(h) \in fulfilled
          /\ step = "grant" => PaymentOf(h) \in Purchases
          /\ step = "activate" => PaymentOf(h) \in PlanPayments
    BY <1>3, <1>6 DEF ReadFulfilment, Payments
  <2>2. Moved(h, step)
    BY <1>2, <2>1, GotoMoves DEF ActiveSteps
  <2>3. Quiet(h) /\ UNCHANGED fulfilled
    BY <1>1, <1>4, <1>6, <2>2, BillingAssumption DEF ReadFulfilment, Moved, Quiet, vars, billing
  <2>4. BillingTypeOK'
    BY <1>4, <1>6, <2>2 DEF ReadFulfilment, Moved, gateway, billing, counters, BillingTypeOK
  <2>5. PaymentOf(h)' = PaymentOf(h)
    BY <2>2 DEF Moved, PaymentOf
  <2>6. HandlerKnows(h)'
    BY <1>1, <1>2, <1>3, <1>4, <2>1, <2>2, <2>3, <2>5
    DEF Moved, gateway, HandlerKnows, At, Succeeding, vars
  <2> QED BY <1>1, <1>4, <2>3, <2>4, <2>6, QuietStep
<1>7. CASE Activate(h)
  <2>1. Moved(h, "mark")
    BY <1>2, <1>7, GotoMoves DEF Activate, ActiveSteps
  <2>2. Quiet(h) /\ UNCHANGED fulfilled
    BY <1>1, <1>4, <1>7, <2>1, BillingAssumption DEF Activate, Moved, Quiet, vars
  <2>3. PaymentOf(h) \in PlanPayments /\ PaymentOf(h) \notin Purchases
    BY <1>7, BillingAssumption DEF Activate, HandlerKnows
  <2>4. BillingTypeOK'
    BY <1>4, <1>7, <2>1, <2>3 DEF Activate, Moved, gateway, counters, BillingTypeOK
  <2>5. HandlerKnows(h)'
    BY <1>1, <1>2, <1>3, <1>4, <2>1, <2>3
    DEF Moved, gateway, HandlerKnows, At, PaymentOf, vars
  <2> QED BY <1>1, <1>4, <2>2, <2>4, <2>5, QuietStep
<1>8. CASE MarkFulfilled(h)
  <2>1. Moved(h, "finish") /\ At(h, "mark")
    BY <1>2, <1>8, GotoMoves DEF MarkFulfilled, ActiveSteps
  <2>2. Quiet(h) /\ fulfilled' = fulfilled \cup {PaymentOf(h)}
    BY <1>1, <1>4, <1>8, <2>1, BillingAssumption DEF MarkFulfilled, Moved, Quiet, vars
  <2>3. BillingTypeOK'
    BY <1>3, <1>4, <1>8, <2>1, <2>2 DEF MarkFulfilled, Moved, gateway, counters, BillingTypeOK
  <2>4. HandlerKnows(h)'
    BY <1>1, <1>2, <1>3, <1>4, <2>1, <2>2
    DEF Moved, gateway, HandlerKnows, At, PaymentOf, vars
  <2> QED BY <1>1, <1>3, <1>4, <2>1, <2>2, <2>3, <2>4, QuietStep
<1> QED BY <1>5, <1>6, <1>7, <1>8

LEMMA FinishStep ==
  ASSUME BillingInvariant, NEW h \in Webhooks, Finish(h)
  PROVE  BillingInvariant'
<1> USE DEF BillingInvariant
<1>1. TypeOK' /\ UNCHANGED vars
  BY TypeStep DEF Finish
<1>2. request[h] = Idle /\ Answer(h) /\ At(h, "finish") /\ ~At(h, "idle")
  BY DEF Finish, HandlerKnows, At
<1>3. Quiet(h) /\ UNCHANGED fulfilled
  BY <1>1, <1>2, AnswerMoves, BillingAssumption DEF Finish, Quiet, vars, gateway
<1>4. BillingTypeOK'
  BY <1>2, AnswerMoves, HandlerType DEF Finish, gateway, counters, BillingTypeOK
<1>5. HandlerKnows(h)'
  BY <1>1, <1>2, AnswerMoves, IdleKnows DEF vars
<1> QED BY <1>1, <1>2, <1>3, <1>4, <1>5, QuietStep

LEMMA LookupGrantStep ==
  ASSUME BillingInvariant, NEW h \in Webhooks, LookupGrant(h)
  PROVE  BillingInvariant'
<1> USE DEF BillingInvariant
<1> DEFINE p == PaymentOf(h)
<1>0. h \in Requests /\ At(h, "grant") /\ ~At(h, "idle") /\ p \in Purchases
  BY BillingAssumption DEF LookupGrant, HandlerKnows, At
<1>1. TypeOK'
  <2>1. [Next]_vars
    BY WebhookWalletStep DEF WebhookStep, Continue
  <2> QED BY <2>1, TypeStep
<1>2. webhook[h].event \in sent /\ Succeeds(webhook[h].event) /\ request[h] = Idle
  BY <1>0 DEF HandlerKnows, At, Succeeding
<1>3. UNCHANGED <<ledger, gateway, due, billing, counters>>
  BY DEF LookupGrant, ReadForGrant, ReadBeforePosting, vars
<1>4. CASE ReadForGrant(h, p) /\ Goto(h, "granting")
  <2>1. Moved(h, "granting")
    BY <1>0, <1>4, GotoMoves DEF ActiveSteps
  <2>2. /\ request'[h].op = "grant" /\ request'[h].key = p
        /\ \A q \in Requests : q # h => request'[q] = request[q]
    BY <1>0, <1>4 DEF ReadForGrant, ReadBeforePosting, TypeOK
  <2>3. Quiet(h) /\ UNCHANGED <<fulfilled, processed>>
    BY <1>3, <2>1, <2>2, BillingAssumption DEF Moved, Quiet, billing
  <2>4. BillingTypeOK'
    BY <1>3, <2>1 DEF Moved, gateway, billing, counters, BillingTypeOK
  <2>5. HandlerKnows(h)'
    BY <1>0, <1>2, <1>3, <2>1, <2>2 DEF Moved, gateway, HandlerKnows, At, PaymentOf
  <2> QED BY <1>1, <2>3, <2>4, <2>5, QuietStep
<1>5. CASE RowsOf(p) # {} /\ UNCHANGED vars /\ Goto(h, "mark")
  <2>1. Moved(h, "mark")
    BY <1>0, <1>5, GotoMoves DEF ActiveSteps
  <2>2. Quiet(h) /\ UNCHANGED <<fulfilled, processed>>
    BY <1>3, <1>5, <2>1, BillingAssumption DEF Moved, Quiet, billing, vars
  <2>3. BillingTypeOK'
    BY <1>3, <2>1 DEF Moved, gateway, billing, counters, BillingTypeOK
  <2>4. RowsOf(p)' # {} /\ p' = p
    BY <1>5, <2>1 DEF vars, RowsOf, Moved, PaymentOf
  <2>5. HandlerKnows(h)'
    BY <1>2, <1>3, <1>5, <2>1, <2>4 DEF Moved, gateway, HandlerKnows, At, vars
  <2> QED BY <1>1, <2>2, <2>3, <2>5, QuietStep
<1> QED BY <1>4, <1>5 DEF LookupGrant

\* The grant: the purchase has a row afterwards, and its charge is paid.
LEMMA CommitGrantStep ==
  ASSUME BillingInvariant, NEW h \in Webhooks, CommitGrant(h)
  PROVE  BillingInvariant'
<1> USE DEF BillingInvariant
<1>0. h \in Requests /\ At(h, "granting") /\ ~At(h, "idle")
  BY BillingAssumption DEF CommitGrant, At
<1> PICK p \in Purchases : p = PaymentOf(h)
  BY <1>0 DEF HandlerKnows, At
<1>1. TypeOK'
  <2>1. [Next]_vars
    BY WebhookWalletStep DEF WebhookStep, Continue
  <2> QED BY <2>1, TypeStep
<1>2. /\ webhook[h].event \in sent /\ Succeeds(webhook[h].event) /\ charge[p] = "paid"
      /\ request[h].op = "grant" /\ request[h].key = p
  BY <1>0 DEF HandlerKnows, At, Succeeding, ReportsAreTrue, PaymentOf
<1>3. UNCHANGED <<gateway, due, billing, counters>> /\ GrantPurchase(h) /\ Moved(h, "mark")
  BY <1>0, GotoMoves DEF CommitGrant, ActiveSteps
<1>4. /\ request'[h] = Idle
      /\ \A q \in Requests : q # h => request'[q] = request[q]
  BY <1>0, <1>3 DEF GrantPurchase, TypeOK
<1>5. /\ RowsOf(p)' # {}
      /\ \A k \in Purchases : k # p => RowsOf(k)' = RowsOf(k)
  <2>1. CASE RowsOf(p) # {}
    <3>1. UNCHANGED ledger
      BY <1>2, <1>3, <2>1 DEF GrantPurchase, Refused
    <3> QED BY <2>1, <3>1 DEF RowsOf
  <2>2. CASE RowsOf(p) = {}
    <3> DEFINE c == request[h].credits
    <3>1. c \in Int /\ Post("PURCHASE", c, p)
      BY <1>0, <1>2, <1>3, <2>2 DEF GrantPurchase, Refused, TypeOK, Request, Idle
    <3> HIDE DEF c
    <3>2. \A k : RowsOf(k)' = IF k = p THEN RowsOf(k) \cup {Len(ledger) + 1} ELSE RowsOf(k)
      BY <3>1, PostRows
    <3> QED BY <3>2
  <2> QED BY <2>1, <2>2
<1>6. BillingTypeOK'
  BY <1>3 DEF Moved, gateway, billing, counters, BillingTypeOK
<1>7. HandlerKnows(h)'
  BY <1>0, <1>2, <1>3, <1>4, <1>5 DEF Moved, gateway, HandlerKnows, At, PaymentOf
<1>8. \A g \in Webhooks : g # h => HandlerKnows(g)'
  <2> SUFFICES ASSUME NEW g \in Webhooks, g # h PROVE HandlerKnows(g)'
    OBVIOUS
  <2>1. request'[g] = request[g] /\ webhook'[g] = webhook[g]
    BY <1>3, <1>4, BillingAssumption DEF Moved
  <2>2. \A k \in Purchases : RowsOf(k) # {} => RowsOf(k)' # {}
    BY <1>5
  <2> QED BY <1>3, <2>1, <2>2, KeepsKnowing DEF gateway, billing
<1>9. NoOtherGrants' /\ ReportsAreTrue'
  BY <1>3, <1>4 DEF NoOtherGrants, ReportsAreTrue, gateway
<1>10. OnlyPaidIsFulfilled' /\ FulfilledIsGranted' /\ ProcessedIsFulfilled'
  BY <1>2, <1>3, <1>5
  DEF OnlyPaidIsFulfilled, FulfilledIsGranted, ProcessedIsFulfilled, gateway, billing
<1> QED BY <1>1, <1>6, <1>7, <1>8, <1>9, <1>10

LEMMA FailureSteps ==
  ASSUME BillingInvariant, NEW h \in Webhooks, CatchError(h) \/ Crash(h)
  PROVE  BillingInvariant'
<1> USE DEF BillingInvariant
<1>0. h \in Requests /\ ~At(h, "idle")
  BY BillingAssumption DEF CatchError, Crash
<1>1. TypeOK'
  <2>1. [Next]_vars
    BY WebhookWalletStep DEF WebhookStep
  <2> QED BY <2>1, TypeStep
<1>2. /\ UNCHANGED <<ledger, gateway, billing>>
      /\ request'[h] = Idle
      /\ \A q \in Requests : q # h => request'[q] = request[q]
  BY <1>0 DEF CatchError, Crash, RollBack, AbandonRequest, vars, TypeOK
<1>3. /\ webhook' \in [Webhooks -> Webhook]
      /\ webhook'[h] = NoHandler
      /\ \A g \in Webhooks : g # h => webhook'[g] = webhook[g]
      /\ due' \subseteq due
  BY AnswerMoves DEF CatchError, Crash, BillingTypeOK, Webhook
<1>4. dropped' \subseteq Events /\ crashes' \in Nat
  BY <1>0, HandlerType DEF CatchError, Crash, BillingTypeOK
<1>5. Quiet(h) /\ UNCHANGED <<fulfilled, processed>>
  BY <1>2, <1>3, BillingAssumption DEF Quiet, billing
<1>6. BillingTypeOK'
  BY <1>2, <1>3, <1>4 DEF gateway, billing, BillingTypeOK
<1>7. HandlerKnows(h)'
  BY <1>2, <1>3, IdleKnows
<1> QED BY <1>1, <1>5, <1>6, <1>7, QuietStep

LEMMA GatewaySteps ==
  ASSUME BillingInvariant, NEW p \in Payments, GatewayStep(p)
  PROVE  BillingInvariant'
<1> USE DEF BillingInvariant
<1>1. UNCHANGED <<vars, fulfilled, activated, processed, webhook, counters>>
  BY DEF GatewayStep, Checkout, AttemptFails, AttemptSucceeds, billing
<1>2. TypeOK' /\ \A k : RowsOf(k)' = RowsOf(k)
  BY <1>1, TypeStep DEF vars, RowsOf
<1>3. /\ sent \subseteq sent'
      /\ \A x \in Payments : charge[x] = "paid" => charge'[x] = "paid"
  BY DEF GatewayStep, Checkout, AttemptFails, AttemptSucceeds, Report, BillingTypeOK
<1>4. BillingTypeOK' /\ ReportsAreTrue'
  <2>1. CASE Checkout(p)
    BY <1>1, <2>1
    DEF Checkout, BillingTypeOK, PaymentStatuses, counters, ReportsAreTrue, Events
  <2>2. CASE AttemptFails(p)
    BY <1>1, <2>2
    DEF AttemptFails, Report, BillingTypeOK, billing, counters, ReportsAreTrue, Events, Succeeds
  <2>3. CASE AttemptSucceeds(p)
    <3>1. SuccessEvents[p] \subseteq EventTypes
      BY BillingAssumption
    <3>2. {p} \X SuccessEvents[p] \subseteq Events
      BY <3>1 DEF Events
    <3> QED
      BY <1>1, <2>3, <3>2
      DEF AttemptSucceeds, Report, BillingTypeOK, billing, counters, ReportsAreTrue, Events
  <2> QED BY <2>1, <2>2, <2>3 DEF GatewayStep
<1>5. \A h \in Webhooks : HandlerKnows(h)'
  BY <1>1, <1>2, <1>3, KeepsKnowing DEF vars
<1>6. NoOtherGrants'
  BY <1>1 DEF NoOtherGrants, vars
<1>7. OnlyPaidIsFulfilled' /\ FulfilledIsGranted' /\ ProcessedIsFulfilled'
  BY <1>1, <1>2, <1>3 DEF OnlyPaidIsFulfilled, FulfilledIsGranted, ProcessedIsFulfilled
<1> QED BY <1>2, <1>4, <1>5, <1>6, <1>7

LEMMA OtherWalletSteps ==
  ASSUME BillingInvariant, OtherWalletStep
  PROVE  BillingInvariant'
<1> USE DEF BillingInvariant
<1>1. TypeOK'
  <2>1. [Next]_vars
    BY BillingWalletStep DEF BillingNext
  <2> QED BY <2>1, TypeStep
<1>2. /\ UNCHANGED billingVars
      /\ \A p \in Purchases : RowsOf(p)' = RowsOf(p)
      /\ NoOtherGrants'
      /\ \A h \in Webhooks : request'[h] = request[h]
  BY OthersKeepRows DEF OtherWalletStep, RowsKept
<1>3. \A h \in Webhooks : HandlerKnows(h)'
  BY <1>2, KeepsKnowing DEF billingVars, gateway, billing
<1>4. BillingTypeOK' /\ ReportsAreTrue'
  BY <1>2 DEF billingVars, gateway, billing, counters, BillingTypeOK, ReportsAreTrue
<1>5. OnlyPaidIsFulfilled' /\ FulfilledIsGranted' /\ ProcessedIsFulfilled'
  BY <1>2 DEF billingVars, gateway, billing, OnlyPaidIsFulfilled, FulfilledIsGranted,
    ProcessedIsFulfilled
<1> QED BY <1>1, <1>2, <1>3, <1>4, <1>5

LEMMA BillingStep ==
  ASSUME BillingInvariant, [BillingNext]_systemVars
  PROVE  BillingInvariant'
<1>1. ASSUME NEW h \in Webhooks, WebhookStep(h) PROVE BillingInvariant'
  BY <1>1, DeliverStep, FindPaymentStep, MarkFailedStep, SuccessSteps, FinishStep,
     LookupGrantStep, CommitGrantStep, FailureSteps
  DEF WebhookStep, Continue
<1>2. CASE UNCHANGED systemVars
  <2>1. TypeOK' /\ \A k : RowsOf(k)' = RowsOf(k)
    BY <1>2, TypeStep DEF systemVars, vars, RowsOf, BillingInvariant
  <2>2. \A h \in Webhooks : HandlerKnows(h)'
    BY <1>2, <2>1, KeepsKnowing
    DEF systemVars, vars, billingVars, gateway, billing, BillingInvariant
  <2> QED
    BY <1>2, <2>1, <2>2
    DEF systemVars, vars, billingVars, gateway, billing, counters, BillingInvariant,
      BillingTypeOK, NoOtherGrants, ReportsAreTrue, OnlyPaidIsFulfilled,
      FulfilledIsGranted, ProcessedIsFulfilled
<1> QED BY <1>1, <1>2, GatewaySteps, OtherWalletSteps DEF BillingNext

LEMMA BillingInvariance == BillingSpec => []BillingInvariant
  BY BillingInitially, BillingStep, PTL DEF BillingSpec

-----------------------------------------------------------------------------
(* No payment is forgotten. *)

\* Only a failure is handled as one.
FailuresFail == \A h \in Webhooks : At(h, "fail") => ~Succeeds(webhook[h].event)

\* A success may only leave the events that are due or dropped when its payment is
\* fulfilled.
Accounted ==
  \A event \in due \cup dropped :
    Succeeds(event) => event \in due' \cup dropped' \/ event[1] \in fulfilled'

LEMMA StillAccounted ==
  ASSUME NoPaymentIsForgotten, Accounted, UNCHANGED charge, fulfilled \subseteq fulfilled'
  PROVE  NoPaymentIsForgotten'
<1> SUFFICES ASSUME NEW p \in Payments, charge[p] = "paid", p \notin fulfilled'
             PROVE  \E event \in (due \cup dropped)' : event[1] = p /\ Succeeds(event)
  BY DEF NoPaymentIsForgotten, Succeeds
<1>1. PICK event \in due \cup dropped : event[1] = p /\ Succeeds(event)
  BY DEF NoPaymentIsForgotten
<1> QED BY <1>1 DEF Accounted

\* What a handler that stays where it is, or is idle afterwards, means for FailuresFail.
LEMMA FailuresFailStep ==
  ASSUME FailuresFail, BillingInvariant, NEW h \in Webhooks,
         \A g \in Webhooks : g # h => webhook'[g] = webhook[g],
         webhook'[h].step = "fail" => ~Succeeds(webhook'[h].event)
  PROVE  FailuresFail'
  BY DEF FailuresFail, At, Succeeds

LEMMA WebhookForgetsNothing ==
  ASSUME BillingInvariant, FailuresFail, NoPaymentIsForgotten,
         NEW h \in Webhooks, WebhookStep(h)
  PROVE  FailuresFail' /\ NoPaymentIsForgotten'
<1> USE DEF BillingInvariant
<1>1. ASSUME NEW event \in Events, Deliver(h, event)
      PROVE  FailuresFail' /\ NoPaymentIsForgotten'
  <2> DEFINE w == [step |-> "received", event |-> event, status |-> "none"]
  <2>1. webhook' = webhook \/ webhook' = [webhook EXCEPT ![h] = w]
    BY <1>1 DEF Deliver
  <2>2. FailuresFail'
    BY <2>1, FailuresFailStep DEF BillingTypeOK, FailuresFail, At
  <2>3. UNCHANGED <<charge, fulfilled, dropped>>
    BY <1>1 DEF Deliver, gateway, billing, counters
  <2>4. due' = due \/ (due' = due \ {event} /\ event[1] \in fulfilled)
    BY <1>1 DEF Deliver, ProcessedIsFulfilled
  <2>5. Accounted
    BY <2>3, <2>4 DEF Accounted
  <2> QED BY <2>2, <2>3, <2>5, StillAccounted
<1>2. CASE FindPayment(h)
  <2>1. webhook' = [webhook EXCEPT ![h] = NoHandler]
        \/ \E step \in {"succeed", "fail"} : \E status :
             /\ webhook' = [webhook EXCEPT ![h] =
                  [step |-> step, event |-> webhook[h].event, status |-> status]]
             /\ step = "fail" => ~Succeeds(webhook[h].event)
    BY <1>2 DEF FindPayment, Answer
  <2>2. FailuresFail'
    BY <2>1, FailuresFailStep DEF BillingTypeOK, NoHandler
  <2>3. UNCHANGED <<charge, fulfilled, dropped>>
    BY <1>2 DEF FindPayment, gateway, billing, counters
  <2>4. due' = due \/ (due' = due \ {webhook[h].event} /\ ~Succeeds(webhook[h].event))
    BY <1>2 DEF FindPayment, Answer
  <2>5. Accounted
    BY <2>3, <2>4 DEF Accounted
  <2> QED BY <2>2, <2>3, <2>5, StillAccounted
<1>3. CASE MarkFailed(h)
  <2>1. FailuresFail'
    BY <1>3, FailuresFailStep DEF MarkFailed, Answer, BillingTypeOK, NoHandler
  <2>2. UNCHANGED <<charge, fulfilled, dropped>>
    BY <1>3 DEF MarkFailed, gateway, counters
  <2>3. due' = due \ {webhook[h].event} /\ ~Succeeds(webhook[h].event)
    BY <1>3 DEF MarkFailed, Answer, FailuresFail
  <2>4. Accounted
    BY <2>2, <2>3 DEF Accounted
  <2> QED BY <2>1, <2>2, <2>4, StillAccounted
<1>4. CASE \/ MarkSucceeded(h) \/ ReadFulfilment(h) \/ LookupGrant(h) \/ CommitGrant(h)
           \/ Activate(h) \/ MarkFulfilled(h)
  <2>1. \E step \in {"fulfil", "finish", "grant", "activate", "granting", "mark"} : Goto(h, step)
    BY <1>4
    DEF MarkSucceeded, ReadFulfilment, LookupGrant, CommitGrant, Activate, MarkFulfilled
  <2>2. FailuresFail'
    BY <2>1, FailuresFailStep DEF Goto, BillingTypeOK
  <2>3. UNCHANGED <<charge, due, dropped>> /\ fulfilled \subseteq fulfilled'
    BY <1>4
    DEF MarkSucceeded, ReadFulfilment, LookupGrant, CommitGrant, Activate, MarkFulfilled,
      gateway, billing, counters
  <2>4. Accounted
    BY <2>3 DEF Accounted
  <2> QED BY <2>2, <2>3, <2>4, StillAccounted
<1>5. CASE Finish(h)
  <2>1. FailuresFail'
    BY <1>5, FailuresFailStep DEF Finish, Answer, BillingTypeOK, NoHandler
  <2>2. UNCHANGED <<charge, fulfilled, dropped>>
    BY <1>5 DEF Finish, gateway, counters
  <2>3. due' = due \ {webhook[h].event} /\ webhook[h].event[1] \in fulfilled
    BY <1>5 DEF Finish, Answer, HandlerKnows, PaymentOf
  <2>4. Accounted
    BY <2>2, <2>3 DEF Accounted
  <2> QED BY <2>1, <2>2, <2>4, StillAccounted
<1>6. CASE CatchError(h)
  <2>1. FailuresFail'
    BY <1>6, FailuresFailStep DEF CatchError, Answer, BillingTypeOK, NoHandler
  <2>2. UNCHANGED <<charge, fulfilled>>
    BY <1>6 DEF CatchError, gateway, billing
  <2>3. due' = due \ {webhook[h].event} /\ dropped' = dropped \cup {webhook[h].event}
    BY <1>6 DEF CatchError, Answer
  <2>4. Accounted
    BY <2>3 DEF Accounted
  <2> QED BY <2>1, <2>2, <2>4, StillAccounted
<1>7. CASE Crash(h)
  <2>1. FailuresFail'
    BY <1>7, FailuresFailStep DEF Crash, BillingTypeOK, NoHandler
  <2>2. UNCHANGED <<charge, fulfilled, due, dropped>>
    BY <1>7 DEF Crash, gateway, billing
  <2>3. Accounted
    BY <2>2 DEF Accounted
  <2> QED BY <2>1, <2>2, <2>3, StillAccounted
<1> QED BY <1>1, <1>2, <1>3, <1>4, <1>5, <1>6, <1>7 DEF WebhookStep, Continue

\* A payment that succeeds brings the events of its success.
LEMMA GatewayForgetsNothing ==
  ASSUME BillingInvariant, FailuresFail, NoPaymentIsForgotten,
         NEW p \in Payments, GatewayStep(p)
  PROVE  FailuresFail' /\ NoPaymentIsForgotten'
<1> USE DEF BillingInvariant
<1>1. UNCHANGED <<webhook, fulfilled, dropped>> /\ due \subseteq due'
  BY DEF GatewayStep, Checkout, AttemptFails, AttemptSucceeds, Report, billing, counters
<1>2. FailuresFail'
  BY <1>1 DEF FailuresFail, At, Succeeds
<1>3. CASE AttemptSucceeds(p)
  <2>1. SuccessEvents[p] \subseteq EventTypes /\ SuccessEvents[p] # {}
    BY BillingAssumption
  <2>2. PICK kind \in SuccessEvents[p] : kind # "failed"
    BY <2>1 DEF EventTypes
  <2>3. <<p, kind>> \in due' /\ Succeeds(<<p, kind>>)
    BY <1>3, <2>2 DEF AttemptSucceeds, Report, Succeeds
  <2>4. \A x \in Payments : x # p => charge'[x] = charge[x]
    BY <1>3 DEF AttemptSucceeds, BillingTypeOK
  <2> QED BY <1>1, <1>2, <2>3, <2>4 DEF NoPaymentIsForgotten
<1>4. CASE Checkout(p) \/ AttemptFails(p)
  <2>1. \A x \in Payments : charge'[x] = "paid" => charge[x] = "paid"
    BY <1>4 DEF Checkout, AttemptFails, BillingTypeOK
  <2> QED BY <1>1, <1>2, <2>1 DEF NoPaymentIsForgotten
<1> QED BY <1>3, <1>4 DEF GatewayStep

LEMMA NothingForgottenStep ==
  ASSUME BillingInvariant, FailuresFail, NoPaymentIsForgotten, [BillingNext]_systemVars
  PROVE  FailuresFail' /\ NoPaymentIsForgotten'
<1>1. CASE OtherWalletStep \/ UNCHANGED systemVars
  <2>1. UNCHANGED <<webhook, charge, fulfilled, due, dropped>>
    BY <1>1 DEF OtherWalletStep, systemVars, billingVars, gateway, billing, counters
  <2> QED BY <2>1 DEF FailuresFail, NoPaymentIsForgotten, At, Succeeds
<1> QED BY <1>1, WebhookForgetsNothing, GatewayForgetsNothing DEF BillingNext

-----------------------------------------------------------------------------
(* Payments are handled as PaymentDesk promises. *)

LEMMA ReportedArePayments == \A events : Reported(events) \subseteq Payments
  BY DEF Reported

\* What an event that is not due any more takes away.
LEMMA ReportedWithout ==
  ASSUME NEW event \in Events, due' = due \ {event}
  PROVE  \/ Reported(due)' = Reported(due)
         \/ Succeeds(event) /\ Reported(due)' = Reported(due) \ {event[1]}
<1> DEFINE Other == \E e \in due \ {event} : e[1] = event[1] /\ Succeeds(e)
<1>1. CASE ~Succeeds(event) \/ Other
  BY <1>1 DEF Reported, Succeeds
<1>2. CASE Succeeds(event) /\ ~Other
  <2>1. Reported(due)' = Reported(due) \ {event[1]}
    BY <1>2 DEF Reported, Succeeds
  <2> QED BY <1>2, <2>1
<1> QED BY <1>1, <1>2

\* A step that fulfils nothing, and after which an event may not be due any more.
LEMMA DeskStands ==
  ASSUME UNCHANGED <<charge, fulfilled>>, UNCHANGED due
  PROVE  Desk!Next
<1>1. UNCHANGED <<PaidSet, fulfilled \X {"fulfilment"}, Reported(due)>>
  BY DEF PaidSet, Reported, Succeeds
<1>2. Reported(dropped)' \in SUBSET Payments
  BY DEF Reported
<1> QED BY <1>1, <1>2 DEF Desk!Next, Desk!ExcusesChange

LEMMA DeskLeaves ==
  ASSUME BillingInvariant, UNCHANGED <<charge, fulfilled>>,
         NEW event \in Events, due' = due \ {event},
         Succeeds(event) => event[1] \in fulfilled \/ event \in dropped'
  PROVE  Desk!Next
<1> DEFINE p == event[1]
<1>0. p \in Payments /\ Reported(dropped)' \in SUBSET Payments
  BY DEF Events, Reported
<1>1. UNCHANGED <<PaidSet, fulfilled \X {"fulfilment"}>>
  BY DEF PaidSet
<1>2. CASE Reported(due)' = Reported(due)
  BY <1>0, <1>1, <1>2 DEF Desk!Next, Desk!ExcusesChange
<1>3. CASE /\ Succeeds(event) /\ Reported(due)' = Reported(due) \ {p}
           /\ Reported(due)' # Reported(due)
  <2>1. p \in Reported(due)
    BY <1>3
  <2>2. p \in fulfilled => Desk!Handled(p)
    <3> SUFFICES ASSUME p \in fulfilled PROVE Desk!Handled(p)
      OBVIOUS
    <3>1. <<p, "fulfilment">> \in fulfilled \X {"fulfilment"} /\ <<p, "fulfilment">>[1] = p
      OBVIOUS
    <3> QED BY <3>1 DEF Desk!Handled
  <2>3. event \in dropped' => p \in Reported(dropped)'
    BY <1>0, <1>3 DEF Reported, Succeeds
  <2>4. Desk!Leave(p)
    BY <1>1, <1>3, <2>1, <2>2, <2>3 DEF Desk!Leave
  <2> QED BY <1>0, <2>4 DEF Desk!Next
<1> QED BY <1>2, <1>3, ReportedWithout

\* The fulfilment itself, of a payment that was made.
LEMMA DeskFulfils ==
  ASSUME NEW p \in Payments, charge[p] = "paid", UNCHANGED <<charge, due>>,
         fulfilled' = fulfilled \cup {p}
  PROVE  Desk!Next
<1> DEFINE d == <<p, "fulfilment">>
<1>1. UNCHANGED <<PaidSet, Reported(due)>> /\ p \in PaidSet
  BY DEF PaidSet, Reported, Succeeds
<1>2. Reported(dropped)' \in SUBSET Payments
  BY DEF Reported
<1>3. CASE p \in fulfilled
  BY <1>3, DeskStands
<1>4. CASE p \notin fulfilled
  <2>1. d \in Payments \X {"fulfilment"} /\ d[1] = p
    OBVIOUS
  <2>2. d \notin fulfilled \X {"fulfilment"}
    BY <1>4
  <2>3. (fulfilled \X {"fulfilment"})' = (fulfilled \X {"fulfilment"}) \cup {d}
    OBVIOUS
  <2>4. Desk!Do(d)
    BY <1>1, <2>1, <2>2, <2>3 DEF Desk!Do
  <2> QED BY <1>2, <2>1, <2>4 DEF Desk!Next
<1> QED BY <1>3, <1>4

\* A charge that is paid for the first time, and its events.
LEMMA DeskIsPaid ==
  ASSUME BillingInvariant, NEW p \in Payments, AttemptSucceeds(p)
  PROVE  Desk!Next
<1> USE DEF BillingInvariant
<1>1. p \notin PaidSet /\ PaidSet' = PaidSet \cup {p}
  BY DEF AttemptSucceeds, PaidSet, BillingTypeOK
<1>2. UNCHANGED fulfilled /\ due' = due \cup ({p} \X SuccessEvents[p])
  BY DEF AttemptSucceeds, Report, billing
<1>3. SuccessEvents[p] \subseteq EventTypes /\ SuccessEvents[p] # {}
  BY BillingAssumption
<1>4. PICK kind \in SuccessEvents[p] : kind # "failed"
  BY <1>3 DEF EventTypes
<1>5. \A event \in {p} \X SuccessEvents[p] : event[1] = p
  OBVIOUS
<1>6. <<p, kind>> \in due' /\ Succeeds(<<p, kind>>) /\ <<p, kind>>[1] = p
  BY <1>2, <1>4 DEF Succeeds
<1>7. Reported(due)' = Reported(due) \cup {p}
  <2>1. p \in Reported(due)'
    BY <1>6 DEF Reported, Succeeds
  <2>2. Reported(due) \subseteq Reported(due)'
    BY <1>2 DEF Reported, Succeeds
  <2>3. Reported(due)' \subseteq Reported(due) \cup {p}
    BY <1>2, <1>5 DEF Reported, Succeeds
  <2> QED BY <2>1, <2>2, <2>3
<1>8. Reported(dropped)' \in SUBSET Payments /\ UNCHANGED (fulfilled \X {"fulfilment"})
  BY <1>2 DEF Reported
<1>9. Desk!Pay(p)
  BY <1>1, <1>7, <1>8 DEF Desk!Pay
<1> QED BY <1>8, <1>9 DEF Desk!Next

LEMMA WebhookAtDesk ==
  ASSUME BillingInvariant, FailuresFail, NEW h \in Webhooks, WebhookStep(h)
  PROVE  Desk!Next
<1> USE DEF BillingInvariant
<1>0. ~At(h, "idle") => webhook[h].event \in Events /\ PaymentOf(h) \in Payments
  BY HandlerType
<1>1. ASSUME NEW event \in Events, Deliver(h, event) PROVE Desk!Next
  <2>1. UNCHANGED <<charge, fulfilled>>
    BY <1>1 DEF Deliver, gateway, billing
  <2>2. UNCHANGED due \/ (due' = due \ {event} /\ event[1] \in fulfilled)
    BY <1>1 DEF Deliver, ProcessedIsFulfilled
  <2> QED BY <2>1, <2>2, DeskStands, DeskLeaves
<1>2. CASE FindPayment(h)
  <2>1. UNCHANGED <<charge, fulfilled>> /\ ~At(h, "idle")
    BY <1>2 DEF FindPayment, gateway, billing, At
  <2>2. UNCHANGED due \/ (due' = due \ {webhook[h].event} /\ ~Succeeds(webhook[h].event))
    BY <1>2 DEF FindPayment, Answer
  <2> QED BY <1>0, <2>1, <2>2, DeskStands, DeskLeaves
<1>3. CASE MarkFailed(h)
  <2>1. UNCHANGED <<charge, fulfilled>> /\ ~At(h, "idle")
    BY <1>3 DEF MarkFailed, gateway, At
  <2>2. due' = due \ {webhook[h].event} /\ ~Succeeds(webhook[h].event)
    BY <1>3 DEF MarkFailed, Answer, FailuresFail
  <2> QED BY <1>0, <2>1, <2>2, DeskLeaves
<1>4. CASE \/ MarkSucceeded(h) \/ ReadFulfilment(h) \/ LookupGrant(h) \/ CommitGrant(h)
           \/ Activate(h)
  <2>1. UNCHANGED <<charge, fulfilled, due>>
    BY <1>4
    DEF MarkSucceeded, ReadFulfilment, LookupGrant, CommitGrant, Activate, gateway, billing
  <2> QED BY <2>1, DeskStands
<1>5. CASE MarkFulfilled(h)
  <2>1. /\ UNCHANGED <<charge, due>> /\ fulfilled' = fulfilled \cup {PaymentOf(h)}
        /\ ~At(h, "idle") /\ webhook[h].step \in Succeeding
    BY <1>5 DEF MarkFulfilled, gateway, At, Succeeding
  <2>2. charge[PaymentOf(h)] = "paid"
    BY <2>1, HandlerType DEF HandlerKnows, ReportsAreTrue, PaymentOf
  <2> QED BY <1>0, <2>1, <2>2, DeskFulfils
<1>6. CASE Finish(h)
  <2>1. UNCHANGED <<charge, fulfilled>> /\ ~At(h, "idle")
    BY <1>6 DEF Finish, gateway, At
  <2>2. due' = due \ {webhook[h].event} /\ webhook[h].event[1] \in fulfilled
    BY <1>6 DEF Finish, Answer, HandlerKnows, PaymentOf
  <2> QED BY <1>0, <2>1, <2>2, DeskLeaves
<1>7. CASE CatchError(h)
  <2>1. UNCHANGED <<charge, fulfilled>> /\ ~At(h, "idle")
    BY <1>7 DEF CatchError, gateway, billing
  <2>2. due' = due \ {webhook[h].event} /\ webhook[h].event \in dropped'
    BY <1>7 DEF CatchError, Answer
  <2> QED BY <1>0, <2>1, <2>2, DeskLeaves
<1>8. CASE Crash(h)
  <2>1. UNCHANGED <<charge, fulfilled, due>>
    BY <1>8 DEF Crash, gateway, billing
  <2> QED BY <2>1, DeskStands
<1> QED BY <1>1, <1>2, <1>3, <1>4, <1>5, <1>6, <1>7, <1>8 DEF WebhookStep, Continue

LEMMA GatewayAtDesk ==
  ASSUME BillingInvariant, NEW p \in Payments, GatewayStep(p)
  PROVE  Desk!Next
<1> USE DEF BillingInvariant
<1>1. CASE Checkout(p) \/ AttemptFails(p)
  <2>1. PaidSet' = PaidSet
    BY <1>1 DEF Checkout, AttemptFails, PaidSet, BillingTypeOK
  <2>2. Reported(due)' = Reported(due)
    BY <1>1 DEF Checkout, AttemptFails, Report, Reported, Succeeds
  <2>3. UNCHANGED (fulfilled \X {"fulfilment"}) /\ Reported(dropped)' \in SUBSET Payments
    BY <1>1 DEF Checkout, AttemptFails, billing, Reported
  <2> QED BY <2>1, <2>2, <2>3 DEF Desk!Next, Desk!ExcusesChange
<1> QED BY <1>1, DeskIsPaid DEF GatewayStep

LEMMA BillingAtDesk ==
  ASSUME BillingInvariant, FailuresFail, [BillingNext]_systemVars
  PROVE  Desk!Next
<1>1. CASE OtherWalletStep \/ UNCHANGED systemVars
  <2>1. UNCHANGED <<charge, fulfilled, due>>
    BY <1>1 DEF OtherWalletStep, systemVars, billingVars, gateway, billing
  <2> QED BY <2>1, DeskStands
<1> QED BY <1>1, WebhookAtDesk, GatewayAtDesk DEF BillingNext

LEMMA DeskOpens == BillingInit => Desk!Init
<1> SUFFICES ASSUME BillingInit PROVE Desk!Init
  OBVIOUS
<1>1. PaidSet = {} /\ fulfilled \X {"fulfilment"} = {} /\ Reported(due) = {}
  BY DEF BillingInit, PaidSet, Reported
<1> QED BY <1>1, ReportedArePayments DEF Desk!Init

-----------------------------------------------------------------------------
(* The theorems. *)

\* The billing side keeps its types, whatever is delivered when.
THEOREM BillingTypeCorrect == BillingSpec => []BillingTypeOK
<1>1. BillingInvariant => BillingTypeOK
  BY DEF BillingInvariant
<1> QED BY <1>1, BillingInvariance, PTL

\* No credits and no closed invoice without money received: no order of failures,
\* successes, repetitions and crashes fulfils a payment that was not made.
THEOREM NothingForNothing == BillingSpec => []OnlyPaidIsFulfilled
<1>1. BillingInvariant => OnlyPaidIsFulfilled
  BY DEF BillingInvariant
<1> QED BY <1>1, BillingInvariance, PTL

\* A purchase that later deliveries skip has its credits.
THEOREM GrantComesFirst == BillingSpec => []FulfilledIsGranted
<1>1. BillingInvariant => FulfilledIsGranted
  BY DEF BillingInvariant
<1> QED BY <1>1, BillingInvariance, PTL

\* An event that deduplication skips is done.
THEOREM DeduplicationIsSafe == BillingSpec => []ProcessedIsFulfilled
<1>1. BillingInvariant => ProcessedIsFulfilled
  BY DEF BillingInvariant
<1> QED BY <1>1, BillingInvariance, PTL

\* Webhooks use the wallet by its own specification, so every theorem about the
\* wallet holds of the system of payments and wallet together.
THEOREM WalletIsUsedAsSpecified == BillingSpec => WebhooksUseTheWallet
<1>1. BillingInit => Init
  BY DEF BillingInit
<1>2. BillingInvariant /\ [BillingNext]_systemVars => [Next]_vars
  BY BillingWalletStep
<1> QED BY <1>1, <1>2, BillingInvariance, PTL DEF BillingSpec, WebhooksUseTheWallet, Spec

\* "A duplicate webhook delivery for the same purchase can never grant twice": the
\* wallet's theorem, for any number of deliveries and overlapping handlers.
THEOREM NeverGrantedTwice == BillingSpec => []AtMostOncePerKey
  BY WalletIsUsedAsSpecified, Idempotence, PTL DEF WebhooksUseTheWallet

\* The safety half of PaidIsFulfilled: as long as a payment received is not fulfilled,
\* there is an event left whose delivery will fulfil it, or an error was swallowed.
THEOREM PaymentsAreKept == BillingSpec => []NoPaymentIsForgotten
<1>1. BillingInit => FailuresFail /\ NoPaymentIsForgotten
  BY DEF BillingInit, FailuresFail, NoPaymentIsForgotten, At, NoHandler
<1>2. BillingInvariant /\ FailuresFail /\ NoPaymentIsForgotten /\ [BillingNext]_systemVars
      => FailuresFail' /\ NoPaymentIsForgotten'
  BY NothingForgottenStep
<1> QED BY <1>1, <1>2, BillingInvariance, PTL DEF BillingSpec

\* What the wallet promises, it keeps while payments are made into it: the balance covers
\* every hold and is explained by the ledger to the last row.
THEOREM WalletKeepsItsPromises == BillingSpec => [](Solvent /\ LedgerExplainsBalance)
  BY WalletIsUsedAsSpecified, Solvency, LedgerIsComplete, PTL DEF WebhooksUseTheWallet
\* Webhooks, rows and handlers keep the promises of PaymentDesk: a payment is fulfilled
\* once, for good and only when it was made, and is attended to until then, with an error
\* that was answered with 200 as the one excuse.
THEOREM DeskImplemented == BillingSpec => ImplementsDesk
<1>1. BillingInit => FailuresFail /\ NoPaymentIsForgotten
  BY DEF BillingInit, FailuresFail, NoPaymentIsForgotten, At, NoHandler
<1>2. BillingInvariant /\ FailuresFail /\ NoPaymentIsForgotten /\ [BillingNext]_systemVars
      => FailuresFail' /\ NoPaymentIsForgotten'
  BY NothingForgottenStep
<1>3. BillingInvariant /\ FailuresFail /\ [BillingNext]_systemVars => [Desk!Next]_(Desk!vars)
  BY BillingAtDesk
<1> QED
  BY <1>1, <1>2, <1>3, DeskOpens, BillingInvariance, PTL
  DEF BillingSpec, ImplementsDesk, Desk!Spec
=============================================================================
