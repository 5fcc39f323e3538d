---------------------------- MODULE CommerceOrders ----------------------------
(***************************************************************************)
(* One order of Managed Commerce: its status, its lines and total          *)
(* (OrdersService), the Paystack transactions opened for it, and the       *)
(* CommerceLedgerEntry rows a verified payment leaves                      *)
(* (CommerceLedgerService).  The transactions themselves live at Paystack, *)
(* outside the system, as do its webhook deliveries.                       *)
(*                                                                         *)
(* No handler holds a lock or a transaction across its reads and writes,   *)
(* so each await between a read and a write that depends on it is a        *)
(* boundary between two actions; only recordPaymentSuccess writes in a     *)
(* transaction.  The order's event log, the staff tasks and the lead       *)
(* status, which nothing here reads, are left out.                         *)
(*                                                                         *)
(* Amounts are in minor units (pesewas, cents).                            *)
(***************************************************************************)
EXTENDS Integers, Sequences, FiniteSets

CONSTANTS
  Handlers,     \* concurrent requests and webhook deliveries
  References,   \* references of Paystack transactions
  NoReference,  \* paystackReference of an order never submitted
  Products,
  MinQuantity,  \* minOrderQuantity of each product, 0 for none
  Quantities,   \* quantities one call adds
  Prices,       \* unit prices a product may have when it is added
  Rates,        \* take rates, in percent, that may be configured
  MaxQuantity,  \* bound: no item is added to an order that holds as many units
  MaxFaults     \* bound: handlers that die or fail half-way

ASSUME OrderAssumption ==
  /\ NoReference \notin References
  /\ MinQuantity \in [Products -> Nat]
  /\ Quantities \subseteq Nat \ {0}
  /\ Prices \subseteq Nat
  /\ Rates \subseteq 0..100
  /\ MaxQuantity \in Nat
  /\ MaxFaults \in Nat

Statuses == {"DRAFT", "AWAITING_APPROVAL", "PENDING_PAYMENT", "PAID",
             "FULFILLING", "COMPLETED", "CANCELLED", "REFUNDED"}

\* Mutant: goods may leave before the payment.
TransitionsOnCredit ==
  [s \in Statuses |->
    CASE s = "DRAFT"             -> {"PENDING_PAYMENT", "AWAITING_APPROVAL", "CANCELLED"}
      [] s = "AWAITING_APPROVAL" -> {"PENDING_PAYMENT", "CANCELLED"}
      [] s = "PENDING_PAYMENT"   -> {"PAID", "FULFILLING", "CANCELLED"}
      [] s = "PAID"              -> {"FULFILLING", "COMPLETED", "REFUNDED"}
      [] s = "FULFILLING"        -> {"COMPLETED", "REFUNDED"}
      [] s = "COMPLETED"         -> {"REFUNDED"}
      [] OTHER                   -> {}]

Transitions ==
  [s \in Statuses |->
    CASE s = "DRAFT"             -> {"PENDING_PAYMENT", "AWAITING_APPROVAL", "CANCELLED"}
      [] s = "AWAITING_APPROVAL" -> {"PENDING_PAYMENT", "CANCELLED"}
      [] s = "PENDING_PAYMENT"   -> {"PAID", "CANCELLED"}
      [] s = "PAID"              -> {"FULFILLING", "COMPLETED", "REFUNDED"}
      [] s = "FULFILLING"        -> {"COMPLETED", "REFUNDED"}
      [] s = "COMPLETED"         -> {"REFUNDED"}
      [] OTHER                   -> {}]

IsValidTransition(from, to) == to \in Transitions[from]

Line == [product: Products, quantity: Nat, lineTotal: Nat]

\* One payment has two event ids: the webhook carries the transaction's
\* reference, the verify API answers with its numeric id.
Events == References \X {"reference", "transactionId"}

Entry == [type: {"GMV", "TAKE_RATE"}, amount: Int, event: Events]

\* A transaction is "open" once the customer has been given its link.
Transaction == [state: {"none", "initialized", "open", "success"}, amount: Nat]

Idle == [op |-> "idle"]

\* A request between two of its steps, with the values it has read.
Handler ==
  {Idle}
  \cup [op: {"addItem"}, product: Products, quantity: Nat]
  \cup [op: {"putLine"}, product: Products, quantity: Nat, line: Nat, price: Nat]
  \cup [op: {"sumLines", "approve", "reject"}]
  \cup [op: {"setTotal"}, total: Nat]
  \cup [op: {"submit"}, status: Statuses, total: Nat]
  \cup [op: {"setReference"}, reference: References]
  \cup [op: {"setStatus"}, to: Statuses]
  \cup [op: {"verify"}, reference: References, total: Nat]
  \cup [op: {"record", "markPaid"}, event: Events, amount: Nat]

VARIABLES
  status,        \* Order.status
  lines,         \* the OrderItem rows
  total,         \* Order.totalMajorUnits
  reference,     \* Order.paystackReference
  ledger,        \* the CommerceLedgerEntry rows of the order
  transactions,  \* the Paystack transactions
  acknowledged,  \* the transactions whose webhook was answered with 200
  handler,       \* the local state of the handlers
  faults         \* handlers that died so far

order == <<status, lines, total, reference>>
paystack == <<transactions, acknowledged>>
vars == <<order, ledger, paystack, handler, faults>>

\* createDraft has just written the row.
Init ==
  /\ status = "DRAFT"
  /\ lines = << >>
  /\ total = 0
  /\ reference = NoReference
  /\ ledger = << >>
  /\ transactions = [r \in References |-> [state |-> "none", amount |-> 0]]
  /\ acknowledged = {}
  /\ handler = [h \in Handlers |-> Idle]
  /\ faults = 0

Runs(h, op) == handler[h].op = op
Becomes(h, local) == handler' = [handler EXCEPT ![h] = local]

-----------------------------------------------------------------------------
(* addItem. *)

Units == UNION {{i} \X (1..lines[i].quantity) : i \in DOMAIN lines}

ReadForItem(h) ==
  /\ Runs(h, "idle")
  /\ status = "DRAFT"
  /\ Cardinality(Units) < MaxQuantity
  /\ \E p \in Products, q \in Quantities :
       Becomes(h, [op |-> "addItem", product |-> p, quantity |-> q])
  /\ UNCHANGED <<order, ledger, paystack, faults>>

\* The product's price, and the line that already has it (0 for none).
FindLine(h) ==
  /\ Runs(h, "addItem")
  /\ LET found == {i \in DOMAIN lines : lines[i].product = handler[h].product}
     IN  \E price \in Prices, line \in IF found = {} THEN {0} ELSE found :
           Becomes(h, [op |-> "putLine", product |-> handler[h].product,
                       quantity |-> IF line = 0 THEN handler[h].quantity
                                    ELSE lines[line].quantity + handler[h].quantity,
                       line |-> line, price |-> price])
  /\ UNCHANGED <<order, ledger, paystack, faults>>

PutLine(h) ==
  LET put == [product |-> handler[h].product, quantity |-> handler[h].quantity,
              lineTotal |-> handler[h].price * handler[h].quantity]
  IN  /\ Runs(h, "putLine")
      /\ lines' = IF handler[h].line = 0 THEN Append(lines, put)
                  ELSE [lines EXCEPT ![handler[h].line] = put]
      /\ Becomes(h, [op |-> "sumLines"])
      /\ UNCHANGED <<status, total, reference, ledger, paystack, faults>>

\* recalculateTotals reads the lines; their sum, counted unit by unit ...
AmountUnits == UNION {{i} \X (1..lines[i].lineTotal) : i \in DOMAIN lines}

SumLines(h) ==
  /\ Runs(h, "sumLines")
  /\ Becomes(h, [op |-> "setTotal", total |-> Cardinality(AmountUnits)])
  /\ UNCHANGED <<order, ledger, paystack, faults>>

\* ... is written in a second statement.
SetTotal(h) ==
  /\ Runs(h, "setTotal")
  /\ total' = handler[h].total
  /\ Becomes(h, Idle)
  /\ UNCHANGED <<status, lines, reference, ledger, paystack, faults>>

-----------------------------------------------------------------------------
(* submitForPayment, also as the second half of approveOrder. *)

ReadForApproval(h, op) ==
  /\ Runs(h, "idle")
  /\ op \in {"approve", "reject"}
  /\ status = "AWAITING_APPROVAL"
  /\ Becomes(h, [op |-> op])
  /\ UNCHANGED <<order, ledger, paystack, faults>>

ReadForSubmit(h) ==
  /\ Runs(h, "idle") \/ Runs(h, "approve")
  /\ Becomes(h, [op |-> "submit", status |-> status, total |-> total])
  /\ UNCHANGED <<order, ledger, paystack, faults>>

BelowMinimum == {i \in DOMAIN lines : lines[i].quantity < MinQuantity[lines[i].product]}

NeedsApproval(h) == handler[h].status = "DRAFT" /\ BelowMinimum # {}

\* sendForApproval, from a DRAFT.
SendForApproval(h) ==
  /\ Runs(h, "submit")
  /\ NeedsApproval(h)
  /\ Becomes(h, [op |-> "setStatus", to |-> "AWAITING_APPROVAL"])
  /\ UNCHANGED <<order, ledger, paystack, faults>>

\* Paystack opens a transaction for the total that was read.
InitializeTransaction(h) ==
  /\ Runs(h, "submit")
  /\ ~NeedsApproval(h)
  /\ IsValidTransition(handler[h].status, "PENDING_PAYMENT")
  /\ handler[h].total > 0
  /\ \E r \in References :
       /\ transactions[r].state = "none"
       /\ transactions' = [transactions EXCEPT ![r] =
            [state |-> "initialized", amount |-> handler[h].total]]
       /\ Becomes(h, [op |-> "setReference", reference |-> r])
  /\ UNCHANGED <<order, ledger, acknowledged, faults>>

\* A transition the table does not have, or an empty order: 409.
RefuseSubmit(h) ==
  /\ Runs(h, "submit")
  /\ ~NeedsApproval(h)
  /\ \/ ~IsValidTransition(handler[h].status, "PENDING_PAYMENT")
     \/ handler[h].total = 0
  /\ Becomes(h, Idle)
  /\ UNCHANGED <<order, ledger, paystack, faults>>

\* The order waits for this payment; the customer is sent the link.
SetReference(h) ==
  /\ Runs(h, "setReference")
  /\ status' = "PENDING_PAYMENT"
  /\ reference' = handler[h].reference
  /\ transactions' = [transactions EXCEPT ![handler[h].reference].state = "open"]
  /\ Becomes(h, Idle)
  /\ UNCHANGED <<lines, total, ledger, acknowledged, faults>>

-----------------------------------------------------------------------------
(* cancel (also as the second half of rejectOrder) and updateFulfillmentStatus. *)

ReadForTransition(h, to) ==
  /\ IsValidTransition(status, to)
  /\ Becomes(h, [op |-> "setStatus", to |-> to])
  /\ UNCHANGED <<order, ledger, paystack, faults>>

ReadForCancel(h) ==
  /\ Runs(h, "idle") \/ Runs(h, "reject")
  /\ ReadForTransition(h, "CANCELLED")

\* A rejection of an order that is no longer cancellable: 409.
RefuseCancel(h) ==
  /\ Runs(h, "reject")
  /\ ~IsValidTransition(status, "CANCELLED")
  /\ Becomes(h, Idle)
  /\ UNCHANGED <<order, ledger, paystack, faults>>

\* Mutant: the generic setter takes PAID as well.
FulfillmentMayPay(h) ==
  /\ Runs(h, "idle")
  /\ \E to \in Statuses : ReadForTransition(h, to)

\* The generic setter refuses PAID, and nothing else.
ReadForFulfillment(h) ==
  /\ Runs(h, "idle")
  /\ \E to \in Statuses \ {"PAID"} : ReadForTransition(h, to)

SetStatus(h) ==
  /\ Runs(h, "setStatus")
  /\ status' = handler[h].to
  /\ Becomes(h, Idle)
  /\ UNCHANGED <<lines, total, reference, ledger, paystack, faults>>

-----------------------------------------------------------------------------
(* Payments. *)

\* The customer pays an open transaction, whatever became of the order.
Pay(r) ==
  /\ transactions[r].state = "open"
  /\ transactions' = [transactions EXCEPT ![r].state = "success"]
  /\ UNCHANGED <<order, ledger, acknowledged, handler, faults>>

\* charge.success reaches the webhook controller; deliveries repeat and overlap,
\* also after one was acknowledged (an admin's reprocess replays it).
DeliverWebhook(h, r) ==
  /\ Runs(h, "idle")
  /\ transactions[r].state = "success"
  /\ Becomes(h, [op |-> "record", event |-> <<r, "reference">>,
                 amount |-> transactions[r].amount])
  /\ UNCHANGED <<order, ledger, paystack, faults>>

\* verifyAndRecordPayment, for an admin or for the checkout page.
ReadForVerify(h) ==
  /\ Runs(h, "idle")
  /\ status # "PAID"
  /\ reference # NoReference
  /\ Becomes(h, [op |-> "verify", reference |-> reference, total |-> total])
  /\ UNCHANGED <<order, ledger, paystack, faults>>

\* Mutant: a transaction of the right amount is taken for a payment.
AmountMatches(h) == transactions[handler[h].reference].amount - handler[h].total \in -1..1

\* Paystack's answer: paid, and within one minor unit of the total that was read.
Confirmed(h) ==
  LET t == transactions[handler[h].reference]
  IN  /\ t.state = "success"
      /\ t.amount - handler[h].total \in -1..1

VerifyTransaction(h) ==
  /\ Runs(h, "verify")
  /\ Becomes(h, IF Confirmed(h)
                THEN [op |-> "record", event |-> <<handler[h].reference, "transactionId">>,
                      amount |-> transactions[handler[h].reference].amount]
                ELSE Idle)
  /\ UNCHANGED <<order, ledger, paystack, faults>>

\* Mutant: the event is remembered instead of its transaction.
AcknowledgeEvent(event) ==
  acknowledged' = IF event[2] = "reference" THEN acknowledged \cup {event} ELSE acknowledged

\* The webhook controller answers 200 once recordPaymentSuccess returns.
Acknowledge(event) ==
  acknowledged' = IF event[2] = "reference" THEN acknowledged \cup {event[1]} ELSE acknowledged

\* recordPaymentSuccess reads the order: already PAID, or no transition to PAID,
\* and the event is ignored.
ReadForPayment(h) ==
  /\ Runs(h, "record")
  /\ IF IsValidTransition(status, "PAID")
     THEN /\ Becomes(h, [handler[h] EXCEPT !.op = "markPaid"])
          /\ UNCHANGED acknowledged
     ELSE /\ Becomes(h, Idle)
          /\ Acknowledge(handler[h].event)
  /\ UNCHANGED <<order, ledger, transactions, faults>>

\* Mutant: a rate of 10 is taken for ten times the amount.
TakeRateAsFactor(amount, pct) == amount * pct

\* computeTakeRate: pct per cent, rounded half up to the minor unit.
ComputeTakeRate(amount, pct) == (2 * amount * pct + 100) \div 200

\* Mutant: no unique constraint.
NeverRecorded(event) == FALSE

\* The unique constraint on (order, type, event).
Recorded(event) == \E i \in DOMAIN ledger : ledger[i].type = "GMV" /\ ledger[i].event = event

\* Its transaction: the status, the sale and the platform's share of it, or, when
\* the event is recorded already, nothing at all.
MarkPaid(h) ==
  LET event == handler[h].event
      amount == handler[h].amount
  IN  /\ Runs(h, "markPaid")
      /\ IF Recorded(event)
         THEN UNCHANGED <<status, ledger>>
         ELSE /\ status' = "PAID"
              /\ \E pct \in Rates :
                   ledger' = ledger \o
                     <<[type |-> "GMV", amount |-> amount, event |-> event],
                       [type |-> "TAKE_RATE", amount |-> -ComputeTakeRate(amount, pct),
                        event |-> event]>>
      /\ Becomes(h, Idle)
      /\ Acknowledge(event)
      /\ UNCHANGED <<lines, total, reference, transactions, faults>>

\* Mutant: the controller answers 200 although recording the payment failed.
FailSilently(h) ==
  /\ handler[h] # Idle
  /\ faults < MaxFaults
  /\ faults' = faults + 1
  /\ Becomes(h, Idle)
  /\ IF Runs(h, "record") \/ Runs(h, "markPaid")
     THEN Acknowledge(handler[h].event)
     ELSE UNCHANGED acknowledged
  /\ UNCHANGED <<order, ledger, transactions>>

\* A statement or a call to Paystack throws, or the process dies: what was written
\* stays, a webhook stays unacknowledged.
Fail(h) ==
  /\ handler[h] # Idle
  /\ faults < MaxFaults
  /\ faults' = faults + 1
  /\ Becomes(h, Idle)
  /\ UNCHANGED <<order, ledger, paystack>>

-----------------------------------------------------------------------------

\* A request that has begun goes on.
Continue(h) ==
  \/ FindLine(h) \/ PutLine(h) \/ SumLines(h) \/ SetTotal(h)
  \/ Runs(h, "approve") /\ ReadForSubmit(h)
  \/ SendForApproval(h) \/ InitializeTransaction(h) \/ RefuseSubmit(h) \/ SetReference(h)
  \/ Runs(h, "reject") /\ ReadForCancel(h)
  \/ RefuseCancel(h)
  \/ SetStatus(h)
  \/ VerifyTransaction(h) \/ ReadForPayment(h) \/ MarkPaid(h)

\* A request arrives.
Begin(h) ==
  \/ ReadForItem(h)
  \/ \E op \in {"approve", "reject"} : ReadForApproval(h, op)
  \/ Runs(h, "idle") /\ ReadForSubmit(h)
  \/ Runs(h, "idle") /\ ReadForCancel(h)
  \/ ReadForFulfillment(h)
  \/ ReadForVerify(h)
  \/ \E r \in References : DeliverWebhook(h, r)

Next ==
  \/ \E h \in Handlers : Begin(h) \/ Continue(h) \/ Fail(h)
  \/ \E r \in References : Pay(r)

Spec == Init /\ [][Next]_vars

\* Paystack delivers a webhook again until it is acknowledged (each delivery finds
\* a handler: the server has no limit on them), and a handler that runs goes on.
Redeliver(r) == r \notin acknowledged /\ \E h \in Handlers : DeliverWebhook(h, r)

FairSpec ==
  /\ Spec
  /\ \A h \in Handlers : WF_vars(Continue(h))
  /\ \A r \in References : SF_vars(Redeliver(r))

-----------------------------------------------------------------------------
(* Properties. *)

\* Every variable has its type.
OrderTypeOK ==
  /\ status \in Statuses
  /\ lines \in Seq(Line)
  /\ total \in Nat
  /\ reference \in References \cup {NoReference}
  /\ ledger \in Seq(Entry)
  /\ transactions \in [References -> Transaction]
  /\ acknowledged \subseteq References
  /\ handler \in [Handlers -> Handler]
  /\ faults \in Nat

\* An order counts as received only when a sale is on the ledger: nothing an admin
\* or the AI does, in whatever order their stale reads are written back, ships or
\* refunds an order nobody paid.
ReceivedIsRecorded ==
  status \in {"PAID", "FULFILLING", "COMPLETED", "REFUNDED"} =>
    \E i \in DOMAIN ledger : ledger[i].type = "GMV"

\* Revenue is real: every sale is a transaction Paystack reported as paid, at the
\* amount Paystack charged.
SalesAreReal ==
  \A i \in DOMAIN ledger :
    ledger[i].type = "GMV" =>
      LET t == transactions[ledger[i].event[1]]
      IN  t.state = "success" /\ ledger[i].amount = t.amount

\* Overlapping and repeated deliveries of one event record one sale and one share.
OneSalePerEvent ==
  \A i, j \in DOMAIN ledger :
    ledger[i].type = ledger[j].type /\ ledger[i].event = ledger[j].event => i = j

\* A sale and the platform's share of it are recorded together or not at all.
SalesHaveTheirShare ==
  \A event \in Events :
    Recorded(event) <=> \E i \in DOMAIN ledger :
      /\ ledger[i].type = "TAKE_RATE" /\ ledger[i].event = event
      /\ \E j \in DOMAIN ledger :
           /\ ledger[j].type = "GMV" /\ ledger[j].event = event
           /\ -ledger[i].amount \in 0..ledger[j].amount

\* "The ONLY path in the codebase that can set Order.status = PAID": an order
\* becomes PAID only in the step that records its sale.
PaidOnlyWithSale ==
  [][status' = "PAID" /\ status # "PAID" => Len(ledger') > Len(ledger)]_vars

\* A payment whose webhook has not been answered yet is recorded, however a
\* delivery fails: in the end there is its sale, or the order left PENDING_PAYMENT.
PaymentsAreRecorded ==
  \A r \in References :
    (transactions[r].state = "success" /\ r \notin acknowledged) ~>
      \/ status # "PENDING_PAYMENT"
      \/ \E kind \in {"reference", "transactionId"} : Recorded(<<r, kind>>)

\* A webhook is answered with 200 only when there is nothing left to do for it: its
\* payment is on the ledger, or the order was not waiting for one.
AcknowledgedIsHandled ==
  [][\A r \in acknowledged' \ acknowledged :
       Recorded(<<r, "reference">>)' \/ status # "PENDING_PAYMENT"]_vars

\* What an order shows of its payments: their excuse is that it does not wait for one.
PaidSet == {r \in References : transactions[r].state = "success"}
RecordedEvents == {event \in Events : Recorded(event)}

Desk == INSTANCE PaymentDesk WITH
  Payments <- References,
  Deeds    <- Events,
  paid     <- PaidSet,
  done     <- RecordedEvents,
  pending  <- PaidSet \ acknowledged,
  excused  <- IF status = "PENDING_PAYMENT" THEN {} ELSE References

\* Payments are handled as promised: each event is recorded once, for good, only for a
\* payment that was made, and webhooks come until then.
ImplementsDesk == Desk!Spec

\* What the source says and the interleavings of the handlers refute.

\* order-state.util.ts: "PAID is a one-way door".
PaidIsOneWay ==
  [][status = "PAID" => status' \in {"PAID", "FULFILLING", "COMPLETED", "REFUNDED"}]_vars
=============================================================================
