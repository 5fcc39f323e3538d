-------------------------- MODULE CommerceOrdersProofs --------------------------
(***************************************************************************)
(* Proofs about an order and its ledger, for any number of handlers,       *)
(* checkouts, products and amounts.                                        *)
(***************************************************************************)
EXTENDS CommerceOrders, FiniteSetTheorems, SequenceTheorems, TLAPS

-----------------------------------------------------------------------------
(* Type correctness. *)

\* The total that recalculateTotals computes is a number.
LEMMA SumIsANumber == ASSUME OrderTypeOK PROVE Cardinality(AmountUnits) \in Nat
<1> DEFINE D == DOMAIN lines
           f == [i \in D |-> {i} \X (1..lines[i].lineTotal)]
           T == {{i} \X (1..lines[i].lineTotal) : i \in D}
<1>1. D = 1..Len(lines) /\ Len(lines) \in Nat
  BY DEF OrderTypeOK
<1>2. IsFiniteSet(D)
  BY <1>1, FS_Interval
<1>3. f \in Surjection(D, T)
  BY DEF Surjection
<1>4. IsFiniteSet(T)
  BY <1>2, <1>3, FS_Surjection
<1>5. ASSUME NEW i \in D PROVE IsFiniteSet({i} \X (1..lines[i].lineTotal))
  <2>1. lines[i] \in Line
    BY <1>5 DEF OrderTypeOK
  <2>2. 1 \in Int /\ lines[i].lineTotal \in Int
    BY <2>1 DEF Line
  <2>3. IsFiniteSet(1..lines[i].lineTotal)
    BY <2>2, FS_Interval
  <2>4. IsFiniteSet({i})
    BY FS_Singleton
  <2> QED BY <2>3, <2>4, FS_Product
<1>6. \A S \in T : IsFiniteSet(S)
  BY <1>5
<1>7. AmountUnits = UNION T
  BY DEF AmountUnits
<1> HIDE DEF T
<1>8. IsFiniteSet(AmountUnits)
  BY <1>4, <1>6, <1>7, FS_UNION
<1> QED BY <1>8, FS_CardinalityType

\* What a handler carries, by the step it is at.
LEMMA HandlerShape ==
  ASSUME OrderTypeOK, NEW h \in Handlers
  PROVE  /\ Runs(h, "addItem") => /\ handler[h].product \in Products
                                  /\ handler[h].quantity \in Nat
         /\ Runs(h, "putLine") => /\ handler[h].product \in Products
                                  /\ handler[h].quantity \in Nat
                                  /\ handler[h].line \in Nat
                                  /\ handler[h].price \in Nat
         /\ Runs(h, "setTotal") => handler[h].total \in Nat
         /\ Runs(h, "submit") => handler[h].status \in Statuses /\ handler[h].total \in Nat
         /\ Runs(h, "setReference") => handler[h].reference \in References
         /\ Runs(h, "setStatus") => handler[h].to \in Statuses
         /\ Runs(h, "verify") => handler[h].reference \in References /\ handler[h].total \in Nat
         /\ Runs(h, "record") \/ Runs(h, "markPaid") =>
              handler[h].event \in Events /\ handler[h].amount \in Nat
  BY DEF OrderTypeOK, Handler, Idle, Runs

LEMMA TypeStep == ASSUME OrderTypeOK, [Next]_vars PROVE OrderTypeOK'
<1> USE DEF order, paystack
<1>0. ASSUME NEW h \in Handlers, NEW local \in Handler, Becomes(h, local)
      PROVE  handler' \in [Handlers -> Handler]
  BY <1>0 DEF Becomes, OrderTypeOK
<1>1. ASSUME NEW h \in Handlers, ReadForItem(h) PROVE OrderTypeOK'
  <2>1. PICK p \in Products, q \in Quantities :
          Becomes(h, [op |-> "addItem", product |-> p, quantity |-> q])
    BY <1>1 DEF ReadForItem
  <2>2. [op |-> "addItem", product |-> p, quantity |-> q] \in Handler
    BY OrderAssumption DEF Handler
  <2> QED BY <1>0, <1>1, <2>1, <2>2 DEF ReadForItem, OrderTypeOK
<1>2. ASSUME NEW h \in Handlers, FindLine(h) PROVE OrderTypeOK'
  <2> DEFINE found == {i \in DOMAIN lines : lines[i].product = handler[h].product}
             quantity(line) == IF line = 0 THEN handler[h].quantity
                               ELSE lines[line].quantity + handler[h].quantity
             local(line, price) == [op |-> "putLine", product |-> handler[h].product,
                                    quantity |-> quantity(line), line |-> line, price |-> price]
  <2>1. PICK price \in Prices, line \in IF found = {} THEN {0} ELSE found :
          Becomes(h, local(line, price))
    BY <1>2 DEF FindLine
  <2>2. handler[h].product \in Products /\ handler[h].quantity \in Nat
    BY <1>2, HandlerShape DEF FindLine
  <2>3. line \in Nat /\ (line # 0 => line \in DOMAIN lines)
    BY DEF OrderTypeOK
  <2>4. quantity(line) \in Nat
    <3>1. ASSUME line # 0 PROVE lines[line] \in Line
      BY <2>3, <3>1 DEF OrderTypeOK
    <3>2. line # 0 => lines[line].quantity \in Nat
      BY <3>1 DEF Line
    <3> QED BY <2>2, <3>2
  <2> HIDE DEF quantity, found
  <2>5. local(line, price) \in Handler
    BY <2>2, <2>3, <2>4, OrderAssumption DEF Handler
  <2> HIDE DEF local
  <2> QED BY <1>0, <1>2, <2>1, <2>5 DEF FindLine, OrderTypeOK
<1>3. ASSUME NEW h \in Handlers, PutLine(h) PROVE OrderTypeOK'
  <2> DEFINE amount == handler[h].price * handler[h].quantity
             put == [product |-> handler[h].product, quantity |-> handler[h].quantity,
                     lineTotal |-> amount]
  <2>1. /\ handler[h].product \in Products /\ handler[h].quantity \in Nat
        /\ handler[h].line \in Nat /\ handler[h].price \in Nat
    BY <1>3, HandlerShape DEF PutLine
  <2>2. amount \in Nat
    BY <2>1
  <2>3. lines' = IF handler[h].line = 0 THEN Append(lines, put)
                 ELSE [lines EXCEPT ![handler[h].line] = put]
    BY <1>3 DEF PutLine
  <2> HIDE DEF amount
  <2>4. put \in Line
    BY <2>1, <2>2 DEF Line
  <2> HIDE DEF put
  <2>5. lines' \in Seq(Line)
    <3>1. Append(lines, put) \in Seq(Line)
      BY <2>4 DEF OrderTypeOK
    <3>2. lines \in [1..Len(lines) -> Line]
      BY DEF OrderTypeOK
    <3>3. Len(lines) \in Nat
      BY DEF OrderTypeOK
    <3> DEFINE changed == [lines EXCEPT ![handler[h].line] = put]
    <3>4. changed \in [1..Len(lines) -> Line]
      BY <2>4, <3>2
    <3>5. lines' = Append(lines, put) \/ lines' = changed
      BY <2>3
    <3> HIDE DEF changed
    <3>6. changed \in UNION {[1..n -> Line] : n \in Nat}
      BY <3>3, <3>4
    <3>7. changed \in Seq(Line)
      BY <3>6, SeqDef
    <3> QED BY <3>1, <3>5, <3>7
  <2>6. Becomes(h, [op |-> "sumLines"]) /\ [op |-> "sumLines"] \in Handler
    BY <1>3 DEF PutLine, Handler
  <2> QED BY <1>0, <1>3, <2>5, <2>6 DEF PutLine, OrderTypeOK
<1>4. ASSUME NEW h \in Handlers, SumLines(h) PROVE OrderTypeOK'
  <2>1. [op |-> "setTotal", total |-> Cardinality(AmountUnits)] \in Handler
    BY SumIsANumber DEF Handler
  <2> QED BY <1>0, <1>4, <2>1 DEF SumLines, OrderTypeOK
<1>5. Idle \in Handler
  BY DEF Handler
<1>6. ASSUME NEW h \in Handlers, SetTotal(h) PROVE OrderTypeOK'
  BY <1>0, <1>5, <1>6, HandlerShape DEF SetTotal, OrderTypeOK
<1>7. ASSUME NEW h \in Handlers, NEW op, ReadForApproval(h, op) PROVE OrderTypeOK'
  <2>1. [op |-> op] \in Handler
    BY <1>7 DEF ReadForApproval, Handler
  <2> QED BY <1>0, <1>7, <2>1 DEF ReadForApproval, OrderTypeOK
<1>8. ASSUME NEW h \in Handlers, ReadForSubmit(h) PROVE OrderTypeOK'
  <2>1. [op |-> "submit", status |-> status, total |-> total] \in Handler
    BY DEF Handler, OrderTypeOK
  <2> QED BY <1>0, <1>8, <2>1 DEF ReadForSubmit, OrderTypeOK
<1>9. ASSUME NEW h \in Handlers, NEW to \in Statuses, Becomes(h, [op |-> "setStatus", to |-> to]),
             UNCHANGED <<order, ledger, paystack, faults>>
      PROVE  OrderTypeOK'
  <2>1. [op |-> "setStatus", to |-> to] \in Handler
    BY DEF Handler
  <2> QED BY <1>0, <1>9, <2>1 DEF OrderTypeOK
<1>10. ASSUME NEW h \in Handlers, SendForApproval(h) PROVE OrderTypeOK'
  BY <1>9, <1>10 DEF SendForApproval, Statuses
<1>11. ASSUME NEW h \in Handlers, InitializeTransaction(h) PROVE OrderTypeOK'
  <2>1. PICK r \in References :
          /\ transactions' = [transactions EXCEPT ![r] =
               [state |-> "initialized", amount |-> handler[h].total]]
          /\ Becomes(h, [op |-> "setReference", reference |-> r])
    BY <1>11 DEF InitializeTransaction
  <2>2. handler[h].total \in Nat
    BY <1>11, HandlerShape DEF InitializeTransaction
  <2>3. transactions' \in [References -> Transaction]
    BY <2>1, <2>2 DEF OrderTypeOK, Transaction
  <2>4. [op |-> "setReference", reference |-> r] \in Handler
    BY DEF Handler
  <2> QED BY <1>0, <1>11, <2>1, <2>3, <2>4 DEF InitializeTransaction, OrderTypeOK
<1>12. ASSUME NEW h \in Handlers, RefuseSubmit(h) \/ RefuseCancel(h) \/ Fail(h) PROVE OrderTypeOK'
  BY <1>0, <1>5, <1>12 DEF RefuseSubmit, RefuseCancel, Fail, OrderTypeOK
<1>13. ASSUME NEW h \in Handlers, SetReference(h) PROVE OrderTypeOK'
  <2>1. handler[h].reference \in References
    BY <1>13, HandlerShape DEF SetReference
  <2>2. transactions' \in [References -> Transaction]
    BY <1>13 DEF SetReference, OrderTypeOK, Transaction
  <2> QED BY <1>0, <1>5, <1>13, <2>1, <2>2 DEF SetReference, OrderTypeOK, Statuses
<1>14. ASSUME NEW h \in Handlers, ReadForCancel(h) PROVE OrderTypeOK'
  BY <1>9, <1>14 DEF ReadForCancel, ReadForTransition, Statuses
<1>15. ASSUME NEW h \in Handlers, ReadForFulfillment(h) PROVE OrderTypeOK'
  BY <1>9, <1>15 DEF ReadForFulfillment, ReadForTransition
<1>16. ASSUME NEW h \in Handlers, SetStatus(h) PROVE OrderTypeOK'
  BY <1>0, <1>5, <1>16, HandlerShape DEF SetStatus, OrderTypeOK
<1>17. ASSUME NEW r \in References, Pay(r) PROVE OrderTypeOK'
  BY <1>17 DEF Pay, OrderTypeOK, Transaction
<1>18. ASSUME NEW h \in Handlers, NEW r \in References, DeliverWebhook(h, r) PROVE OrderTypeOK'
  <2>1. [op |-> "record", event |-> <<r, "reference">>, amount |-> transactions[r].amount] \in Handler
    BY DEF Handler, Events, OrderTypeOK, Transaction
  <2> QED BY <1>0, <1>18, <2>1 DEF DeliverWebhook, OrderTypeOK
<1>19. ASSUME NEW h \in Handlers, ReadForVerify(h) PROVE OrderTypeOK'
  <2>1. [op |-> "verify", reference |-> reference, total |-> total] \in Handler
    BY <1>19 DEF ReadForVerify, Handler, OrderTypeOK
  <2> QED BY <1>0, <1>19, <2>1 DEF ReadForVerify, OrderTypeOK
<1>20. ASSUME NEW h \in Handlers, VerifyTransaction(h) PROVE OrderTypeOK'
  <2> DEFINE r == handler[h].reference
             local == [op |-> "record", event |-> <<r, "transactionId">>,
                       amount |-> transactions[r].amount]
  <2>1. r \in References
    BY <1>20, HandlerShape DEF VerifyTransaction
  <2>2. local \in Handler
    BY <2>1 DEF Handler, Events, OrderTypeOK, Transaction
  <2>3. Becomes(h, local) \/ Becomes(h, Idle)
    BY <1>20 DEF VerifyTransaction
  <2> HIDE DEF local
  <2> QED BY <1>0, <1>5, <1>20, <2>2, <2>3 DEF VerifyTransaction, OrderTypeOK
<1>21. ASSUME NEW h \in Handlers, ReadForPayment(h) PROVE OrderTypeOK'
  <2>1. handler[h].event \in Events
    BY <1>21, HandlerShape DEF ReadForPayment
  <2>2. [handler[h] EXCEPT !.op = "markPaid"] \in Handler
    <3>1. handler[h] \in [op: {"record", "markPaid"}, event: Events, amount: Nat]
      BY <1>21 DEF ReadForPayment, Runs, OrderTypeOK, Handler, Idle
    <3>2. [handler[h] EXCEPT !.op = "markPaid"]
            \in [op: {"record", "markPaid"}, event: Events, amount: Nat]
      BY <3>1
    <3> QED BY <3>2 DEF Handler
  <2>3. acknowledged' \subseteq References
    BY <1>21, <2>1 DEF ReadForPayment, Acknowledge, OrderTypeOK, Events
  <2> QED BY <1>0, <1>5, <1>21, <2>2, <2>3 DEF ReadForPayment, OrderTypeOK
<1>22. ASSUME NEW h \in Handlers, MarkPaid(h) PROVE OrderTypeOK'
  <2> DEFINE event == handler[h].event
             amount == handler[h].amount
             rows(pct) == <<[type |-> "GMV", amount |-> amount, event |-> event],
                            [type |-> "TAKE_RATE", amount |-> -ComputeTakeRate(amount, pct),
                             event |-> event]>>
  <2>1. event \in Events /\ amount \in Nat
    BY <1>22, HandlerShape DEF MarkPaid
  <2>2. UNCHANGED <<status, ledger>> \/ (status' = "PAID" /\ \E pct \in Rates : ledger' = ledger \o rows(pct))
    BY <1>22 DEF MarkPaid
  <2>3. acknowledged' \subseteq References
    BY <1>22, <2>1 DEF MarkPaid, Acknowledge, OrderTypeOK, Events
  <2>4. ASSUME NEW pct \in Rates PROVE rows(pct) \in Seq(Entry)
    <3>1. pct \in Int
      BY OrderAssumption
    <3>2. -ComputeTakeRate(amount, pct) \in Int
      BY <2>1, <3>1 DEF ComputeTakeRate
    <3> QED BY <2>1, <3>2 DEF Entry
  <2> HIDE DEF rows, event, amount
  <2>5. ASSUME NEW pct \in Rates PROVE ledger \o rows(pct) \in Seq(Entry)
    BY <2>4, ConcatProperties DEF OrderTypeOK
  <2>6. ledger' \in Seq(Entry)
    BY <2>2, <2>5 DEF OrderTypeOK
  <2> QED BY <1>0, <1>5, <1>22, <2>2, <2>3, <2>6 DEF MarkPaid, OrderTypeOK, Statuses
<1>23. CASE UNCHANGED vars
  BY <1>23 DEF vars, OrderTypeOK
<1> QED BY <1>1, <1>2, <1>3, <1>4, <1>6, <1>7, <1>8, <1>10, <1>11, <1>12, <1>13, <1>14, <1>15,
           <1>16, <1>17, <1>18, <1>19, <1>20, <1>21, <1>22, <1>23
    DEF Next, Begin, Continue

LEMMA TypeInit == Init => OrderTypeOK
  BY DEF Init, OrderTypeOK, Statuses, Transaction, Handler

\* Every variable keeps its type.
THEOREM OrderTypeCorrect == Spec => []OrderTypeOK
  BY TypeInit, TypeStep, PTL DEF Spec

-----------------------------------------------------------------------------
(* The inductive invariant: what a handler carries from its reads stays true *)
(* until it writes.                                                          *)

Received == {"PAID", "FULFILLING", "COMPLETED", "REFUNDED"}

HasSale == \E i \in DOMAIN ledger : ledger[i].type = "GMV"

Confirms(event, amount) ==
  transactions[event[1]].state = "success" /\ transactions[event[1]].amount = amount

\* A payment on its way to the ledger is one that Paystack confirmed.
CarriedPaymentsAreReal ==
  \A h \in Handlers : Runs(h, "record") \/ Runs(h, "markPaid") =>
    Confirms(handler[h].event, handler[h].amount)

\* A status on its way to the order is never PAID, and follows PAID only after a sale.
CarriedStatusesAreEarned ==
  \A h \in Handlers : Runs(h, "setStatus") =>
    handler[h].to # "PAID" /\ (handler[h].to \in Received => HasSale)

\* A checkout on its way to the order has no link yet, and one handler only.
CarriedCheckoutsAreFresh ==
  /\ \A h \in Handlers : Runs(h, "setReference") =>
       transactions[handler[h].reference].state = "initialized"
  /\ \A g, h \in Handlers :
       Runs(g, "setReference") /\ Runs(h, "setReference")
         /\ handler[g].reference = handler[h].reference => g = h

OrderInvariant ==
  /\ OrderTypeOK
  /\ ReceivedIsRecorded
  /\ SalesAreReal
  /\ CarriedPaymentsAreReal
  /\ CarriedStatusesAreEarned
  /\ CarriedCheckoutsAreFresh

\* The transactions change in three steps only.
LEMMA TransactionsChange ==
  ASSUME [Next]_vars
  PROVE  \/ transactions' = transactions
         \/ \E h \in Handlers : InitializeTransaction(h) \/ SetReference(h)
         \/ \E r \in References : Pay(r)
  BY DEF Next, Begin, Continue, vars, order, paystack, ReadForItem, FindLine, PutLine, SumLines,
     SetTotal, ReadForApproval, ReadForSubmit, SendForApproval, RefuseSubmit, ReadForCancel,
     ReadForTransition, RefuseCancel, ReadForFulfillment, SetStatus, DeliverWebhook,
     ReadForVerify, VerifyTransaction, ReadForPayment, MarkPaid, Fail

\* A payment that Paystack confirmed stays confirmed, at its amount.
LEMMA ConfirmedForGood ==
  ASSUME OrderTypeOK, CarriedCheckoutsAreFresh, [Next]_vars, NEW r \in References,
         transactions[r].state = "success"
  PROVE  transactions'[r] = transactions[r]
<1>1. ASSUME NEW h \in Handlers, InitializeTransaction(h)
      PROVE  transactions'[r] = transactions[r]
  BY <1>1 DEF InitializeTransaction, OrderTypeOK
<1>2. ASSUME NEW h \in Handlers, SetReference(h) PROVE transactions'[r] = transactions[r]
  <2>1. handler[h].reference # r
    BY <1>2 DEF SetReference, CarriedCheckoutsAreFresh
  <2> QED BY <1>2, <2>1 DEF SetReference, OrderTypeOK
<1>3. ASSUME NEW x \in References, Pay(x) PROVE transactions'[r] = transactions[r]
  BY <1>3 DEF Pay, OrderTypeOK
<1> QED BY <1>1, <1>2, <1>3, TransactionsChange

\* The status and the ledger change in three steps only.
LEMMA StatusChanges ==
  ASSUME [Next]_vars
  PROVE  \/ UNCHANGED <<status, ledger>>
         \/ \E h \in Handlers : SetReference(h) \/ SetStatus(h) \/ MarkPaid(h)
  BY ZenonT(30) DEF Next, Begin, Continue, vars, order, paystack, ReadForItem, FindLine, PutLine, SumLines,
     SetTotal, ReadForApproval, ReadForSubmit, SendForApproval, RefuseSubmit, ReadForCancel,
     InitializeTransaction, ReadForTransition, RefuseCancel, ReadForFulfillment, DeliverWebhook,
     ReadForVerify, VerifyTransaction, ReadForPayment, Pay, Fail

\* computeTakeRate stays between nothing and the whole amount.
LEMMA TakeRateBounds ==
  ASSUME NEW amount \in Nat, NEW pct \in Rates
  PROVE  ComputeTakeRate(amount, pct) \in 0..amount
<1>1. pct \in Nat /\ pct <= 100
  BY OrderAssumption
<1> DEFINE scaled == amount * pct
<1>2. scaled \in Nat /\ scaled <= 100 * amount
  BY <1>1
<1>3. ComputeTakeRate(amount, pct) = (2 * scaled + 100) \div 200
  BY <1>1, <1>2 DEF ComputeTakeRate
<1> HIDE DEF scaled
<1>4. (2 * scaled + 100) \div 200 \in 0..amount
  BY <1>2
<1> QED BY <1>3, <1>4

\* The ledger stays as it is, or a sale and its share are put after its rows.
LEMMA LedgerGrows ==
  ASSUME OrderTypeOK, [Next]_vars
  PROVE  \/ ledger' = ledger
         \/ \E h \in Handlers :
              /\ MarkPaid(h) /\ ~Recorded(handler[h].event)
              /\ DOMAIN ledger = 1..Len(ledger) /\ Len(ledger) \in Nat
              /\ DOMAIN ledger' = 1..(Len(ledger) + 2) /\ Len(ledger') = Len(ledger) + 2
              /\ \A i \in DOMAIN ledger : i \in DOMAIN ledger' /\ ledger'[i] = ledger[i]
              /\ \A i \in DOMAIN ledger' : i \notin DOMAIN ledger =>
                   i = Len(ledger) + 1 \/ i = Len(ledger) + 2
              /\ ledger'[Len(ledger) + 1] =
                   [type |-> "GMV", amount |-> handler[h].amount, event |-> handler[h].event]
              /\ \E pct \in Rates : ledger'[Len(ledger) + 2] =
                   [type |-> "TAKE_RATE", amount |-> -ComputeTakeRate(handler[h].amount, pct),
                    event |-> handler[h].event]
<1>1. ASSUME NEW h \in Handlers, MarkPaid(h), ledger' # ledger
      PROVE  /\ MarkPaid(h) /\ ~Recorded(handler[h].event)
             /\ DOMAIN ledger = 1..Len(ledger) /\ Len(ledger) \in Nat
             /\ DOMAIN ledger' = 1..(Len(ledger) + 2) /\ Len(ledger') = Len(ledger) + 2
             /\ \A i \in DOMAIN ledger : i \in DOMAIN ledger' /\ ledger'[i] = ledger[i]
             /\ \A i \in DOMAIN ledger' : i \notin DOMAIN ledger =>
                  i = Len(ledger) + 1 \/ i = Len(ledger) + 2
             /\ ledger'[Len(ledger) + 1] =
                  [type |-> "GMV", amount |-> handler[h].amount, event |-> handler[h].event]
             /\ \E pct \in Rates : ledger'[Len(ledger) + 2] =
                  [type |-> "TAKE_RATE", amount |-> -ComputeTakeRate(handler[h].amount, pct),
                   event |-> handler[h].event]
  <2> DEFINE sale == [type |-> "GMV", amount |-> handler[h].amount, event |-> handler[h].event]
             share(pct) == [type |-> "TAKE_RATE",
                            amount |-> -ComputeTakeRate(handler[h].amount, pct),
                            event |-> handler[h].event]
  <2>1. PICK pct \in Rates : ledger' = ledger \o <<sale, share(pct)>>
    BY <1>1 DEF MarkPaid
  <2>2. ~Recorded(handler[h].event)
    BY <1>1 DEF MarkPaid
  <2>3. ledger \in Seq(Entry) /\ Len(ledger) \in Nat /\ DOMAIN ledger = 1..Len(ledger)
    BY DEF OrderTypeOK
  <2> HIDE DEF sale, share
  <2>4. /\ Len(ledger') = Len(ledger) + 2 /\ DOMAIN ledger' = 1..(Len(ledger) + 2)
        /\ \A i \in 1..Len(ledger) : ledger'[i] = ledger[i]
        /\ ledger'[Len(ledger) + 1] = sale
        /\ ledger'[Len(ledger) + 2] = share(pct)
    BY <2>1, <2>3
  <2>5. \A i \in DOMAIN ledger' : i \notin DOMAIN ledger =>
          i = Len(ledger) + 1 \/ i = Len(ledger) + 2
    BY <2>3, <2>4
  <2>6. \A i \in DOMAIN ledger : i \in DOMAIN ledger'
    BY <2>3, <2>4
  <2>7. ledger'[Len(ledger) + 2] = share(pct) /\ ledger'[Len(ledger) + 1] = sale
    BY <2>4
  <2> USE DEF sale, share
  <2> QED BY <1>1, <2>2, <2>3, <2>4, <2>5, <2>6, <2>7
<1> QED BY <1>1, StatusChanges DEF SetReference, SetStatus, order

\* Once there is a sale, there is one for good.
LEMMA SalesStay == ASSUME OrderTypeOK, [Next]_vars, HasSale PROVE HasSale'
<1>1. PICK i \in DOMAIN ledger : ledger[i].type = "GMV"
  BY DEF HasSale
<1>2. i \in DOMAIN ledger' /\ ledger'[i] = ledger[i]
  BY <1>1, LedgerGrows
<1> QED BY <1>1, <1>2 DEF HasSale

LEMMA SalesAreRealStep ==
  ASSUME OrderInvariant, [Next]_vars PROVE SalesAreReal'
<1> SUFFICES ASSUME NEW i \in DOMAIN ledger', ledger'[i].type = "GMV"
             PROVE  /\ transactions'[ledger'[i].event[1]].state = "success"
                    /\ ledger'[i].amount = transactions'[ledger'[i].event[1]].amount
  BY DEF SalesAreReal
<1>0. OrderTypeOK /\ SalesAreReal /\ CarriedPaymentsAreReal /\ CarriedCheckoutsAreFresh
  BY DEF OrderInvariant
<1>1. CASE i \in DOMAIN ledger
  <2>1. ledger'[i] = ledger[i]
    BY <1>0, <1>1, LedgerGrows
  <2>2. ledger[i] \in Entry
    BY <1>0, <1>1 DEF OrderTypeOK
  <2>3. ledger[i].event[1] \in References
    BY <2>2 DEF Entry, Events
  <2>4. /\ transactions[ledger[i].event[1]].state = "success"
        /\ ledger[i].amount = transactions[ledger[i].event[1]].amount
    BY <1>0, <1>1, <2>1 DEF SalesAreReal
  <2> QED BY <1>0, <2>1, <2>3, <2>4, ConfirmedForGood
<1>2. CASE i \notin DOMAIN ledger
  <2>0. PICK h \in Handlers :
          /\ MarkPaid(h)
          /\ \A k \in DOMAIN ledger' : k \notin DOMAIN ledger =>
               k = Len(ledger) + 1 \/ k = Len(ledger) + 2
          /\ ledger'[Len(ledger) + 1] =
               [type |-> "GMV", amount |-> handler[h].amount, event |-> handler[h].event]
          /\ \E pct \in Rates : ledger'[Len(ledger) + 2] =
               [type |-> "TAKE_RATE", amount |-> -ComputeTakeRate(handler[h].amount, pct),
                event |-> handler[h].event]
    BY <1>0, <1>2, LedgerGrows
  <2>1. ledger'[i].event = handler[h].event /\ ledger'[i].amount = handler[h].amount
    BY <1>2, <2>0
  <2>2. handler[h].event \in Events
    BY <1>0, <2>0, HandlerShape DEF MarkPaid
  <2>3. handler[h].event[1] \in References
    BY <2>2 DEF Events
  <2>4. Confirms(handler[h].event, handler[h].amount)
    BY <1>0, <2>0 DEF MarkPaid, CarriedPaymentsAreReal
  <2> QED BY <1>0, <2>1, <2>3, <2>4, ConfirmedForGood DEF Confirms
<1> QED BY <1>1, <1>2

\* What one handler becomes leaves the others as they are.
LEMMA OthersStay ==
  ASSUME OrderTypeOK, NEW h \in Handlers, NEW local, Becomes(h, local)
  PROVE  handler'[h] = local /\ \A g \in Handlers \ {h} : handler'[g] = handler[g]
  BY DEF Becomes, OrderTypeOK

\* Every step of a handler leaves the others as they are.
LEMMA ActorMoves ==
  ASSUME OrderTypeOK, [Next]_vars, NEW h \in Handlers, handler'[h] # handler[h]
  PROVE  Begin(h) \/ Continue(h) \/ Fail(h)
<1>1. ASSUME NEW g \in Handlers, g # h, Begin(g) \/ Continue(g) \/ Fail(g) PROVE FALSE
  <2>1. ASSUME NEW local, Becomes(g, local) PROVE FALSE
    BY <1>1, <2>1, OthersStay
  <2> QED BY <1>1, <2>1 DEF Begin, Continue, ReadForItem, FindLine, PutLine, SumLines, SetTotal,
             ReadForApproval, ReadForSubmit, SendForApproval, InitializeTransaction,
             RefuseSubmit, SetReference, ReadForCancel, RefuseCancel, ReadForFulfillment,
             ReadForTransition, SetStatus, DeliverWebhook, ReadForVerify, VerifyTransaction,
             ReadForPayment, MarkPaid, Fail
<1>2. ASSUME NEW r \in References, Pay(r) PROVE FALSE
  BY <1>2 DEF Pay
<1> QED BY <1>1, <1>2 DEF Next, vars

\* The steps after which a handler carries a payment, a status or a checkout.
LEMMA CarryingSteps ==
  ASSUME OrderTypeOK, NEW h \in Handlers, Begin(h) \/ Continue(h) \/ Fail(h)
  PROVE  \/ handler'[h].op \notin {"record", "markPaid", "setStatus", "setReference"}
         \/ (\E r \in References : DeliverWebhook(h, r)) \/ VerifyTransaction(h) \/ ReadForPayment(h)
         \/ SendForApproval(h) \/ ReadForCancel(h) \/ ReadForFulfillment(h)
         \/ InitializeTransaction(h)
<1> DEFINE Quiet == handler'[h].op \notin {"record", "markPaid", "setStatus", "setReference"}
<1>1. ASSUME NEW local, Becomes(h, local),
             local.op \notin {"record", "markPaid", "setStatus", "setReference"}
      PROVE  Quiet
  BY <1>1, OthersStay
<1>2. CASE ReadForItem(h)
  BY <1>1, <1>2 DEF ReadForItem, Idle
<1>3. CASE FindLine(h)
  BY <1>1, <1>3 DEF FindLine, Idle
<1>4. CASE PutLine(h)
  BY <1>1, <1>4 DEF PutLine, Idle
<1>5. CASE SumLines(h)
  BY <1>1, <1>5 DEF SumLines, Idle
<1>6. CASE SetTotal(h)
  BY <1>1, <1>6 DEF SetTotal, Idle
<1>7. CASE ReadForSubmit(h)
  BY <1>1, <1>7 DEF ReadForSubmit, Idle
<1>8. CASE RefuseSubmit(h)
  BY <1>1, <1>8 DEF RefuseSubmit, Idle
<1>9. CASE SetReference(h)
  BY <1>1, <1>9 DEF SetReference, Idle
<1>10. CASE RefuseCancel(h)
  BY <1>1, <1>10 DEF RefuseCancel, Idle
<1>11. CASE SetStatus(h)
  BY <1>1, <1>11 DEF SetStatus, Idle
<1>12. CASE ReadForVerify(h)
  BY <1>1, <1>12 DEF ReadForVerify, Idle
<1>13. CASE MarkPaid(h)
  BY <1>1, <1>13 DEF MarkPaid, Idle
<1>14. CASE Fail(h)
  BY <1>1, <1>14 DEF Fail, Idle
<1>15. ASSUME NEW op, ReadForApproval(h, op) PROVE Quiet
  BY <1>1, <1>15 DEF ReadForApproval
<1> QED BY <1>2, <1>3, <1>4, <1>5, <1>6, <1>7, <1>8, <1>9, <1>10, <1>11, <1>12, <1>13, <1>14, <1>15 DEF Begin, Continue

LEMMA StatusSteps ==
  ASSUME OrderInvariant, NEW h \in Handlers,
         SendForApproval(h) \/ ReadForCancel(h) \/ ReadForFulfillment(h)
  PROVE  /\ handler'[h].op = "setStatus" /\ handler'[h].to # "PAID"
         /\ handler'[h].to \in Received => HasSale
<1>0. OrderTypeOK /\ (status \in Received => HasSale)
  BY DEF OrderInvariant, ReceivedIsRecorded, Received, HasSale
<1>1. ASSUME NEW to, Becomes(h, [op |-> "setStatus", to |-> to]), to # "PAID",
             to \in Received => HasSale
      PROVE  /\ handler'[h].op = "setStatus" /\ handler'[h].to # "PAID"
             /\ handler'[h].to \in Received => HasSale
  BY <1>0, <1>1, OthersStay
<1>2. CASE SendForApproval(h)
  BY <1>1, <1>2 DEF SendForApproval, Received
<1>3. CASE ReadForCancel(h)
  BY <1>1, <1>3 DEF ReadForCancel, ReadForTransition, Received
<1>4. CASE ReadForFulfillment(h)
  <2>1. PICK to \in Statuses \ {"PAID"} : ReadForTransition(h, to)
    BY <1>4 DEF ReadForFulfillment
  <2>2. to \in Received => status \in Received
    BY <1>0, <2>1 DEF ReadForTransition, IsValidTransition, Transitions, OrderTypeOK, Statuses, Received
  <2> QED BY <1>0, <1>1, <2>1, <2>2 DEF ReadForTransition
<1> QED BY <1>2, <1>3, <1>4

LEMMA CheckoutSteps ==
  ASSUME OrderTypeOK, NEW h \in Handlers, InitializeTransaction(h)
  PROVE  \E r \in References :
           /\ transactions[r].state = "none"
           /\ transactions'[r].state = "initialized"
           /\ \A x \in References \ {r} : transactions'[x] = transactions[x]
           /\ handler'[h].op = "setReference" /\ handler'[h].reference = r
<1>1. PICK r \in References :
        /\ transactions[r].state = "none"
        /\ transactions' = [transactions EXCEPT ![r] =
             [state |-> "initialized", amount |-> handler[h].total]]
        /\ Becomes(h, [op |-> "setReference", reference |-> r])
  BY DEF InitializeTransaction
<1>2. handler'[h] = [op |-> "setReference", reference |-> r]
  BY <1>1, OthersStay
<1>3. /\ transactions'[r].state = "initialized"
      /\ \A x \in References \ {r} : transactions'[x] = transactions[x]
  BY <1>1 DEF OrderTypeOK
<1> QED BY <1>1, <1>2, <1>3

LEMMA PaymentSteps ==
  ASSUME OrderTypeOK, CarriedPaymentsAreReal, NEW h \in Handlers,
         (\E r \in References : DeliverWebhook(h, r)) \/ VerifyTransaction(h) \/ ReadForPayment(h)
  PROVE  \/ handler'[h].op = "idle"
         \/ /\ handler'[h].op \in {"record", "markPaid"}
            /\ handler'[h].event[1] \in References
            /\ Confirms(handler'[h].event, handler'[h].amount)
<1>1. ASSUME NEW r \in References, DeliverWebhook(h, r)
      PROVE  /\ handler'[h].op = "record" /\ handler'[h].event[1] \in References
             /\ Confirms(handler'[h].event, handler'[h].amount)
  BY <1>1, OthersStay DEF DeliverWebhook, Confirms
<1>2. ASSUME Becomes(h, Idle) PROVE handler'[h].op = "idle"
  BY <1>2, OthersStay DEF Idle
<1>3. CASE VerifyTransaction(h)
  <2>1. handler[h].reference \in References
    BY <1>3, HandlerShape DEF VerifyTransaction
  <2>2. CASE Confirmed(h)
    <3>1. Becomes(h, [op |-> "record", event |-> <<handler[h].reference, "transactionId">>,
                      amount |-> transactions[handler[h].reference].amount])
      BY <1>3, <2>2 DEF VerifyTransaction
    <3>2. /\ handler'[h].op = "record" /\ handler'[h].event[1] = handler[h].reference
          /\ handler'[h].amount = transactions[handler[h].reference].amount
      BY <3>1, OthersStay
    <3>3. transactions[handler[h].reference].state = "success"
      BY <2>2 DEF Confirmed
    <3> QED BY <2>1, <3>2, <3>3 DEF Confirms
  <2> QED BY <1>2, <1>3, <2>2 DEF VerifyTransaction
<1>4. CASE ReadForPayment(h)
  <2>1. /\ Confirms(handler[h].event, handler[h].amount) /\ handler[h].event \in Events
        /\ handler[h] \in [op: {"record", "markPaid"}, event: Events, amount: Nat]
    BY <1>4 DEF ReadForPayment, CarriedPaymentsAreReal, Runs, OrderTypeOK, Handler, Idle
  <2>2. CASE Becomes(h, [handler[h] EXCEPT !.op = "markPaid"])
    <3>1. handler'[h] = [handler[h] EXCEPT !.op = "markPaid"]
      BY <2>2, OthersStay
    <3>2. /\ handler'[h].op = "markPaid" /\ handler'[h].event = handler[h].event
          /\ handler'[h].amount = handler[h].amount
      BY <2>1, <3>1
    <3> QED BY <2>1, <3>2 DEF Events
  <2> QED BY <1>2, <1>4, <2>2 DEF ReadForPayment
<1> QED BY <1>1, <1>3, <1>4

LEMMA CarriedPaymentsStep ==
  ASSUME OrderInvariant, [Next]_vars PROVE CarriedPaymentsAreReal'
<1> SUFFICES ASSUME NEW h \in Handlers, handler'[h].op \in {"record", "markPaid"}
             PROVE  /\ transactions'[handler'[h].event[1]].state = "success"
                    /\ transactions'[handler'[h].event[1]].amount = handler'[h].amount
  BY DEF CarriedPaymentsAreReal, Runs, Confirms
<1>0. OrderTypeOK /\ CarriedPaymentsAreReal /\ CarriedCheckoutsAreFresh
  BY DEF OrderInvariant
<1>1. handler'[h].event[1] \in References /\ Confirms(handler'[h].event, handler'[h].amount)
  <2>1. CASE handler'[h] = handler[h]
    <3>1. handler[h].event \in Events /\ Confirms(handler[h].event, handler[h].amount)
      BY <1>0, <2>1, HandlerShape DEF CarriedPaymentsAreReal, Runs
    <3> QED BY <2>1, <3>1 DEF Events
  <2>2. CASE handler'[h] # handler[h]
    <3>1. Begin(h) \/ Continue(h) \/ Fail(h)
      BY <1>0, <2>2, ActorMoves
    <3>2. \/ (\E r \in References : DeliverWebhook(h, r)) \/ VerifyTransaction(h) \/ ReadForPayment(h)
          \/ SendForApproval(h) \/ ReadForCancel(h) \/ ReadForFulfillment(h)
          \/ InitializeTransaction(h)
      BY <1>0, <3>1, CarryingSteps
    <3> QED BY <1>0, <3>2, PaymentSteps, StatusSteps, CheckoutSteps
  <2> QED BY <2>1, <2>2
<1> QED BY <1>0, <1>1, ConfirmedForGood DEF Confirms

LEMMA CarriedStatusesStep ==
  ASSUME OrderInvariant, [Next]_vars PROVE CarriedStatusesAreEarned'
<1> SUFFICES ASSUME NEW h \in Handlers, handler'[h].op = "setStatus"
             PROVE  handler'[h].to # "PAID" /\ (handler'[h].to \in Received => HasSale')
  BY DEF CarriedStatusesAreEarned, Runs
<1>0. OrderTypeOK /\ CarriedPaymentsAreReal /\ CarriedStatusesAreEarned
  BY DEF OrderInvariant
<1>1. handler'[h].to # "PAID" /\ (handler'[h].to \in Received => HasSale)
  <2>1. CASE handler'[h] = handler[h]
    BY <1>0, <2>1 DEF CarriedStatusesAreEarned, Runs
  <2>2. CASE handler'[h] # handler[h]
    <3>1. Begin(h) \/ Continue(h) \/ Fail(h)
      BY <1>0, <2>2, ActorMoves
    <3>2. \/ (\E r \in References : DeliverWebhook(h, r)) \/ VerifyTransaction(h) \/ ReadForPayment(h)
          \/ SendForApproval(h) \/ ReadForCancel(h) \/ ReadForFulfillment(h)
          \/ InitializeTransaction(h)
      BY <1>0, <3>1, CarryingSteps
    <3> QED BY <1>0, <3>2, PaymentSteps, StatusSteps, CheckoutSteps
  <2> QED BY <2>1, <2>2
<1> QED BY <1>0, <1>1, SalesStay

\* A handler that holds a checkout has just opened it or held it before.
LEMMA CheckoutsCarried ==
  ASSUME OrderInvariant, [Next]_vars, NEW h \in Handlers, handler'[h].op = "setReference"
  PROVE  handler'[h] = handler[h] \/ InitializeTransaction(h)
<1>0. OrderTypeOK /\ CarriedPaymentsAreReal
  BY DEF OrderInvariant
<1>1. ASSUME handler'[h] # handler[h] PROVE InitializeTransaction(h)
  <2>1. Begin(h) \/ Continue(h) \/ Fail(h)
    BY <1>0, <1>1, ActorMoves
  <2>2. \/ (\E r \in References : DeliverWebhook(h, r)) \/ VerifyTransaction(h) \/ ReadForPayment(h)
        \/ SendForApproval(h) \/ ReadForCancel(h) \/ ReadForFulfillment(h)
        \/ InitializeTransaction(h)
    BY <1>0, <2>1, CarryingSteps
  <2> QED BY <1>0, <2>2, PaymentSteps, StatusSteps
<1> QED BY <1>1

LEMMA CarriedCheckoutsStep ==
  ASSUME OrderInvariant, [Next]_vars PROVE CarriedCheckoutsAreFresh'
<1>0. OrderTypeOK /\ CarriedCheckoutsAreFresh
  BY DEF OrderInvariant
<1>1. ASSUME NEW h \in Handlers, handler[h].op = "setReference"
      PROVE  handler[h].reference \in References
             /\ transactions[handler[h].reference].state = "initialized"
  BY <1>0, <1>1, HandlerShape DEF CarriedCheckoutsAreFresh, Runs
<1>2. ASSUME NEW h \in Handlers, handler'[h].op = "setReference"
      PROVE  transactions'[handler'[h].reference].state = "initialized"
  <2>1. CASE InitializeTransaction(h)
    BY <1>0, <2>1, CheckoutSteps
  <2>2. CASE handler'[h] = handler[h]
    <3> DEFINE r == handler[h].reference
    <3>1. r \in References /\ transactions[r].state = "initialized"
      BY <1>1, <1>2, <2>2
    <3>2. ASSUME NEW x \in Handlers, InitializeTransaction(x) PROVE transactions'[r] = transactions[r]
      BY <1>0, <3>1, <3>2, CheckoutSteps
    <3>3. ASSUME NEW x \in Handlers, SetReference(x) PROVE transactions'[r] = transactions[r]
      <4>1. handler'[x] = Idle
        BY <1>0, <3>3, OthersStay DEF SetReference
      <4>2. x # h
        BY <1>2, <4>1 DEF Idle
      <4>3. handler[x].reference # r
        BY <1>0, <1>2, <2>2, <3>3, <4>2 DEF SetReference, CarriedCheckoutsAreFresh, Runs
      <4> QED BY <1>0, <3>1, <3>3, <4>3 DEF SetReference, OrderTypeOK
    <3>4. ASSUME NEW x \in References, Pay(x) PROVE transactions'[r] = transactions[r]
      BY <1>0, <3>1, <3>4 DEF Pay, OrderTypeOK
    <3>5. transactions'[r] = transactions[r]
      BY <3>2, <3>3, <3>4, TransactionsChange
    <3> QED BY <2>2, <3>1, <3>5
  <2> QED BY <1>2, <2>1, <2>2, CheckoutsCarried
<1>3. ASSUME NEW g \in Handlers, NEW h \in Handlers, g # h, InitializeTransaction(h),
             handler'[g].op = "setReference", handler'[g].reference = handler'[h].reference
      PROVE  FALSE
  <2>1. handler'[g] = handler[g]
    BY <1>0, <1>3, OthersStay DEF InitializeTransaction
  <2>2. transactions[handler'[h].reference].state = "none"
    BY <1>0, <1>3, CheckoutSteps
  <2> QED BY <1>1, <1>3, <2>1, <2>2
<1>4. ASSUME NEW g \in Handlers, NEW h \in Handlers, g # h,
             handler'[g].op = "setReference", handler'[h].op = "setReference",
             handler'[g].reference = handler'[h].reference
      PROVE  FALSE
  <2>1. handler'[g] = handler[g] /\ handler'[h] = handler[h]
    BY <1>3, <1>4, CheckoutsCarried
  <2> QED BY <1>0, <1>4, <2>1 DEF CarriedCheckoutsAreFresh, Runs
<1> QED BY <1>2, <1>4 DEF CarriedCheckoutsAreFresh, Runs

\* A ledger that grows has a sale; an unrecorded payment makes it grow.
LEMMA GrownLedger ==
  ASSUME OrderTypeOK, [Next]_vars, ledger' # ledger
  PROVE  HasSale' /\ Len(ledger') > Len(ledger)
<1>1. PICK h \in Handlers :
        /\ DOMAIN ledger = 1..Len(ledger) /\ Len(ledger) \in Nat
        /\ DOMAIN ledger' = 1..(Len(ledger) + 2) /\ Len(ledger') = Len(ledger) + 2
        /\ ledger'[Len(ledger) + 1] =
             [type |-> "GMV", amount |-> handler[h].amount, event |-> handler[h].event]
  BY LedgerGrows
<1>2. Len(ledger) + 1 \in DOMAIN ledger' /\ ledger'[Len(ledger) + 1].type = "GMV"
  BY <1>1
<1> QED BY <1>1, <1>2 DEF HasSale

LEMMA MarkPaidGrows ==
  ASSUME OrderTypeOK, NEW h \in Handlers, MarkPaid(h), ~Recorded(handler[h].event)
  PROVE  ledger' # ledger
<1> DEFINE event == handler[h].event
           sale == [type |-> "GMV", amount |-> handler[h].amount, event |-> event]
           share(pct) == [type |-> "TAKE_RATE",
                          amount |-> -ComputeTakeRate(handler[h].amount, pct), event |-> event]
<1>1. PICK pct \in Rates : ledger' = ledger \o <<sale, share(pct)>>
  BY DEF MarkPaid
<1> HIDE DEF sale, share
<1>2. Len(ledger') = Len(ledger) + 2 /\ Len(ledger) \in Nat
  BY <1>1 DEF OrderTypeOK
<1> QED BY <1>2

LEMMA ReceivedStep ==
  ASSUME OrderInvariant, [Next]_vars PROVE ReceivedIsRecorded'
<1>0. /\ OrderTypeOK /\ (status \in Received => HasSale)
      /\ CarriedStatusesAreEarned
  BY DEF OrderInvariant, ReceivedIsRecorded, Received, HasSale
<1> SUFFICES ASSUME status' \in Received PROVE HasSale'
  BY DEF ReceivedIsRecorded, Received, HasSale
<1>1. CASE UNCHANGED <<status, ledger>>
  BY <1>0, <1>1 DEF HasSale
<1>2. ASSUME NEW h \in Handlers, SetReference(h) PROVE FALSE
  BY <1>2 DEF SetReference, Received
<1>3. ASSUME NEW h \in Handlers, SetStatus(h) PROVE HasSale'
  <2>1. HasSale /\ ledger' = ledger
    BY <1>0, <1>3 DEF SetStatus, CarriedStatusesAreEarned
  <2> QED BY <2>1 DEF HasSale
<1>4. ASSUME NEW h \in Handlers, MarkPaid(h) PROVE HasSale'
  <2>1. CASE Recorded(handler[h].event)
    <3>1. ledger' = ledger
      BY <1>4, <2>1 DEF MarkPaid
    <3>2. HasSale
      BY <2>1 DEF Recorded, HasSale
    <3> QED BY <3>1, <3>2 DEF HasSale
  <2>2. CASE ~Recorded(handler[h].event)
    BY <1>0, <1>4, <2>2, MarkPaidGrows, GrownLedger
  <2> QED BY <2>1, <2>2
<1> QED BY <1>1, <1>2, <1>3, <1>4, StatusChanges

LEMMA OrderInvariance == Spec => []OrderInvariant
<1>1. Init => OrderInvariant
  BY TypeInit DEF Init, OrderInvariant, ReceivedIsRecorded, SalesAreReal, CarriedPaymentsAreReal,
     CarriedStatusesAreEarned, CarriedCheckoutsAreFresh, Runs, Idle
<1>2. OrderInvariant /\ [Next]_vars => OrderInvariant'
  BY TypeStep, ReceivedStep, SalesAreRealStep, CarriedPaymentsStep, CarriedStatusesStep,
     CarriedCheckoutsStep DEF OrderInvariant
<1> QED BY <1>1, <1>2, PTL DEF Spec

\* An order counts as received only when a sale is on the ledger.
THEOREM NothingShipsUnpaid == Spec => []ReceivedIsRecorded
<1>1. OrderInvariant => ReceivedIsRecorded
  BY DEF OrderInvariant
<1> QED BY <1>1, OrderInvariance, PTL

\* Every sale is a payment Paystack confirmed, at the amount it charged.
THEOREM RevenueIsReal == Spec => []SalesAreReal
<1>1. OrderInvariant => SalesAreReal
  BY DEF OrderInvariant
<1> QED BY <1>1, OrderInvariance, PTL

\* An order becomes PAID only in the step that records its sale.
THEOREM PaidWithItsSale == Spec => PaidOnlyWithSale
<1>1. ASSUME OrderInvariant, [Next]_vars, status' = "PAID", status # "PAID"
      PROVE  Len(ledger') > Len(ledger)
  <2>0. OrderTypeOK /\ CarriedStatusesAreEarned
    BY <1>1 DEF OrderInvariant
  <2>1. ledger' # ledger
    <3>1. ASSUME NEW h \in Handlers, SetReference(h) \/ SetStatus(h) PROVE FALSE
      BY <1>1, <2>0, <3>1 DEF SetReference, SetStatus, CarriedStatusesAreEarned
    <3>2. ASSUME NEW h \in Handlers, MarkPaid(h) PROVE ledger' # ledger
      <4>1. ~Recorded(handler[h].event)
        BY <1>1, <3>2 DEF MarkPaid
      <4> QED BY <2>0, <3>2, <4>1, MarkPaidGrows
    <3> QED BY <1>1, <3>1, <3>2, StatusChanges
  <2> QED BY <1>1, <2>0, <2>1, GrownLedger
<1>2. OrderInvariant /\ [Next]_vars
        => [status' = "PAID" /\ status # "PAID" => Len(ledger') > Len(ledger)]_vars
  BY <1>1
<1> QED BY <1>2, OrderInvariance, PTL DEF Spec, PaidOnlyWithSale

-----------------------------------------------------------------------------
(* The rows of the ledger. *)

\* No share without a sale of the same event.
SharesFollowSales ==
  \A i \in DOMAIN ledger : ledger[i].type = "TAKE_RATE" => Recorded(ledger[i].event)

LedgerInvariant == OneSalePerEvent /\ SharesFollowSales /\ SalesHaveTheirShare

\* The rows a step leaves, and the two a payment adds.
LEMMA LedgerStep ==
  ASSUME OrderTypeOK, LedgerInvariant, [Next]_vars PROVE LedgerInvariant'
<1>1. CASE ledger' = ledger
  BY <1>1 DEF LedgerInvariant, OneSalePerEvent, SharesFollowSales, SalesHaveTheirShare, Recorded
<1>2. CASE ledger' # ledger
  <2>1. PICK h \in Handlers :
          /\ MarkPaid(h) /\ ~Recorded(handler[h].event)
          /\ DOMAIN ledger = 1..Len(ledger) /\ Len(ledger) \in Nat
          /\ DOMAIN ledger' = 1..(Len(ledger) + 2) /\ Len(ledger') = Len(ledger) + 2
          /\ \A i \in DOMAIN ledger : i \in DOMAIN ledger' /\ ledger'[i] = ledger[i]
          /\ \A i \in DOMAIN ledger' : i \notin DOMAIN ledger =>
               i = Len(ledger) + 1 \/ i = Len(ledger) + 2
          /\ ledger'[Len(ledger) + 1] =
               [type |-> "GMV", amount |-> handler[h].amount, event |-> handler[h].event]
          /\ \E pct \in Rates : ledger'[Len(ledger) + 2] =
               [type |-> "TAKE_RATE", amount |-> -ComputeTakeRate(handler[h].amount, pct),
                event |-> handler[h].event]
    BY <1>2, LedgerGrows
  <2> DEFINE n == Len(ledger)
             e == handler[h].event
             a == handler[h].amount
  <2>2. e \in Events /\ a \in Nat
    BY <2>1, HandlerShape DEF MarkPaid
  <2>3. /\ n + 1 \in DOMAIN ledger' /\ n + 2 \in DOMAIN ledger' /\ n + 1 # n + 2
        /\ n + 1 \notin DOMAIN ledger /\ n + 2 \notin DOMAIN ledger
    BY <2>1
  <2>4. ledger'[n + 1].type = "GMV" /\ ledger'[n + 1].event = e /\ ledger'[n + 1].amount = a
    BY <2>1
  <2>5. PICK pct \in Rates :
          /\ ledger'[n + 2].type = "TAKE_RATE" /\ ledger'[n + 2].event = e
          /\ ledger'[n + 2].amount = -ComputeTakeRate(a, pct)
    BY <2>1
  <2>6. \A i \in DOMAIN ledger : ledger[i].event # e
    <3>1. ASSUME NEW i \in DOMAIN ledger, ledger[i].event = e PROVE FALSE
      <4>1. ledger[i] \in Entry
        BY <3>1 DEF OrderTypeOK
      <4>2. ledger[i].type = "GMV" \/ ledger[i].type = "TAKE_RATE"
        BY <4>1 DEF Entry
      <4>3. Recorded(ledger[i].event)
        BY <4>2 DEF LedgerInvariant, SharesFollowSales, Recorded
      <4> QED BY <2>1, <3>1, <4>3
    <3> QED BY <3>1
  <2>7. \A i \in DOMAIN ledger' : i \in DOMAIN ledger \/ i = n + 1 \/ i = n + 2
    BY <2>1
  <2>8. \A i \in DOMAIN ledger : i \in DOMAIN ledger' /\ ledger'[i] = ledger[i]
    BY <2>1
  <2> HIDE DEF n, e, a
  <2>9. OneSalePerEvent'
    <3> SUFFICES ASSUME NEW i \in DOMAIN ledger', NEW j \in DOMAIN ledger',
                        ledger'[i].type = ledger'[j].type, ledger'[i].event = ledger'[j].event
                 PROVE  i = j
      BY DEF OneSalePerEvent
    <3>1. CASE i \in DOMAIN ledger /\ j \in DOMAIN ledger
      BY <2>8, <3>1 DEF LedgerInvariant, OneSalePerEvent
    <3>2. CASE i \in DOMAIN ledger /\ j \notin DOMAIN ledger
      BY <2>4, <2>5, <2>6, <2>7, <2>8, <3>2
    <3>3. CASE i \notin DOMAIN ledger /\ j \in DOMAIN ledger
      BY <2>4, <2>5, <2>6, <2>7, <2>8, <3>3
    <3>4. CASE i \notin DOMAIN ledger /\ j \notin DOMAIN ledger
      BY <2>4, <2>5, <2>7, <3>4
    <3> QED BY <3>1, <3>2, <3>3, <3>4
  <2>10. SharesFollowSales'
    <3> SUFFICES ASSUME NEW i \in DOMAIN ledger', ledger'[i].type = "TAKE_RATE"
                 PROVE  \E j \in DOMAIN ledger' : ledger'[j].type = "GMV" /\ ledger'[j].event = ledger'[i].event
      BY DEF SharesFollowSales, Recorded
    <3>1. CASE i \in DOMAIN ledger
      <4>1. PICK j \in DOMAIN ledger : ledger[j].type = "GMV" /\ ledger[j].event = ledger[i].event
        BY <2>8, <3>1 DEF LedgerInvariant, SharesFollowSales, Recorded
      <4> QED BY <2>8, <3>1, <4>1
    <3>2. CASE i \notin DOMAIN ledger
      BY <2>3, <2>4, <2>5, <2>7, <3>2
    <3> QED BY <3>1, <3>2
  <2>11. SalesHaveTheirShare'
    <3> DEFINE Shared(x) == \E i \in DOMAIN ledger :
                 /\ ledger[i].type = "TAKE_RATE" /\ ledger[i].event = x
                 /\ \E j \in DOMAIN ledger :
                      /\ ledger[j].type = "GMV" /\ ledger[j].event = x
                      /\ -ledger[i].amount \in 0..ledger[j].amount
               SharedNext(x) == \E i \in DOMAIN ledger' :
                 /\ ledger'[i].type = "TAKE_RATE" /\ ledger'[i].event = x
                 /\ \E j \in DOMAIN ledger' :
                      /\ ledger'[j].type = "GMV" /\ ledger'[j].event = x
                      /\ -ledger'[i].amount \in 0..ledger'[j].amount
               RecordedNext(x) == \E i \in DOMAIN ledger' :
                 ledger'[i].type = "GMV" /\ ledger'[i].event = x
    <3>1. \A x \in Events : Recorded(x) => Shared(x)
      BY DEF LedgerInvariant, SalesHaveTheirShare
    <3>2. SharedNext(e)
      <4>1. ComputeTakeRate(a, pct) \in 0..a
        BY <2>2, TakeRateBounds
      <4>2. -ledger'[n + 2].amount \in 0..ledger'[n + 1].amount
        BY <2>2, <2>4, <2>5, <4>1
      <4> QED BY <2>3, <2>4, <2>5, <4>2
    <3>3. ASSUME NEW x \in Events, x # e, RecordedNext(x) PROVE SharedNext(x)
      <4>1. Recorded(x)
        BY <2>4, <2>5, <2>7, <2>8, <3>3 DEF Recorded
      <4>2. PICK i \in DOMAIN ledger, j \in DOMAIN ledger :
              /\ ledger[i].type = "TAKE_RATE" /\ ledger[i].event = x
              /\ ledger[j].type = "GMV" /\ ledger[j].event = x
              /\ -ledger[i].amount \in 0..ledger[j].amount
        BY <3>1, <4>1
      <4> QED BY <2>8, <4>2
    <3>4. \A x \in Events : RecordedNext(x) <=> SharedNext(x)
      BY <3>2, <3>3
    <3> QED BY <3>4 DEF SalesHaveTheirShare, Recorded
  <2> QED BY <2>9, <2>10, <2>11 DEF LedgerInvariant
<1> QED BY <1>1, <1>2

LEMMA LedgerInvariance == Spec => []LedgerInvariant
<1>1. Init => LedgerInvariant
  BY DEF Init, LedgerInvariant, OneSalePerEvent, SharesFollowSales, SalesHaveTheirShare, Recorded
<1>2. OrderTypeOK /\ LedgerInvariant /\ [Next]_vars => LedgerInvariant'
  BY LedgerStep
<1> QED BY <1>1, <1>2, OrderTypeCorrect, PTL DEF Spec

\* One event is one sale and one share, however often it is delivered.
THEOREM EventsCountOnce == Spec => []OneSalePerEvent
<1>1. LedgerInvariant => OneSalePerEvent
  BY DEF LedgerInvariant
<1> QED BY <1>1, LedgerInvariance, PTL

\* A sale and its share are on the ledger together, the share within the sale.
THEOREM SharesMatchSales == Spec => []SalesHaveTheirShare
<1>1. LedgerInvariant => SalesHaveTheirShare
  BY DEF LedgerInvariant
<1> QED BY <1>1, LedgerInvariance, PTL
-----------------------------------------------------------------------------
(* No payment is forgotten. *)

\* An event is its transaction and its kind.
LEMMA EventsArePairs ==
  ASSUME NEW event \in Events, event[2] = "reference"
  PROVE  event[1] \in References /\ event = <<event[1], "reference">>
  BY DEF Events

\* The answer 200 is given in two steps only, to the delivery of a webhook.
LEMMA AcknowledgedWhere ==
  ASSUME OrderTypeOK, [Next]_vars, NEW r \in acknowledged' \ acknowledged
  PROVE  \E h \in Handlers :
           /\ handler[h].event = <<r, "reference">>
           /\ \/ ReadForPayment(h) /\ ~IsValidTransition(status, "PAID")
              \/ MarkPaid(h)
<1>1. acknowledged' # acknowledged
  OBVIOUS
<1>2. PICK h \in Handlers : \/ ReadForPayment(h) /\ ~IsValidTransition(status, "PAID")
                            \/ MarkPaid(h)
  BY <1>1 DEF Next, Begin, Continue, vars, order, paystack, ReadForItem, FindLine, PutLine,
     SumLines, SetTotal, ReadForApproval, ReadForSubmit, SendForApproval, InitializeTransaction,
     RefuseSubmit, SetReference, ReadForCancel, ReadForTransition, RefuseCancel,
     ReadForFulfillment, SetStatus, DeliverWebhook, ReadForVerify, VerifyTransaction,
     ReadForPayment, Pay, Fail
<1>3. handler[h].event \in Events
  BY <1>2, HandlerShape DEF ReadForPayment, MarkPaid
<1>4. Acknowledge(handler[h].event)
  BY <1>2 DEF ReadForPayment, MarkPaid
<1>5. handler[h].event[2] = "reference" /\ r = handler[h].event[1]
  BY <1>4 DEF Acknowledge
<1> QED BY <1>2, <1>3, <1>5, EventsArePairs

\* What is recorded stays recorded, and markPaid leaves its event recorded.
LEMMA RecordedForGood ==
  ASSUME OrderTypeOK, [Next]_vars, NEW event, Recorded(event)
  PROVE  Recorded(event)'
<1>1. PICK i \in DOMAIN ledger : ledger[i].type = "GMV" /\ ledger[i].event = event
  BY DEF Recorded
<1>2. i \in DOMAIN ledger' /\ ledger'[i] = ledger[i]
  BY LedgerGrows
<1> QED BY <1>1, <1>2 DEF Recorded

LEMMA MarkPaidRecords ==
  ASSUME OrderTypeOK, [Next]_vars, NEW h \in Handlers, MarkPaid(h), NEW event,
         event = handler[h].event
  PROVE  Recorded(event)'
<1> DEFINE n == Len(ledger)
           sale == [type |-> "GMV", amount |-> handler[h].amount, event |-> handler[h].event]
           share(pct) == [type |-> "TAKE_RATE",
                          amount |-> -ComputeTakeRate(handler[h].amount, pct),
                          event |-> handler[h].event]
<1>1. CASE ~Recorded(handler[h].event)
  <2>1. PICK pct \in Rates : ledger' = ledger \o <<sale, share(pct)>>
    BY <1>1 DEF MarkPaid
  <2>2. ledger \in Seq(Entry) /\ n \in Nat
    BY DEF OrderTypeOK
  <2>3. sale.type = "GMV" /\ sale.event = event
    OBVIOUS
  <2> HIDE DEF sale, share
  <2>4. n + 1 \in DOMAIN ledger' /\ ledger'[n + 1] = sale
    BY <2>1, <2>2
  <2> QED BY <2>3, <2>4 DEF Recorded
<1>2. CASE Recorded(handler[h].event)
  BY <1>2, RecordedForGood
<1> QED BY <1>1, <1>2

\* Paystack is told to stop repeating itself only when there is nothing left to do: the
\* payment is on the ledger, or the order was not waiting for one.
THEOREM AcknowledgedPaymentsAreHandled == Spec => AcknowledgedIsHandled
<1>1. ASSUME OrderTypeOK, [Next]_vars, NEW r \in acknowledged' \ acknowledged
      PROVE  Recorded(<<r, "reference">>)' \/ status # "PENDING_PAYMENT"
  <2>1. PICK h \in Handlers :
          /\ handler[h].event = <<r, "reference">>
          /\ \/ ReadForPayment(h) /\ ~IsValidTransition(status, "PAID")
             \/ MarkPaid(h)
    BY <1>1, AcknowledgedWhere
  <2>2. CASE ~IsValidTransition(status, "PAID")
    BY <2>2 DEF IsValidTransition, Transitions, Statuses
  <2>3. CASE MarkPaid(h)
    BY <1>1, <2>1, <2>3, MarkPaidRecords
  <2> QED BY <2>1, <2>2, <2>3
<1>2. OrderTypeOK /\ [Next]_vars
        => [\A r \in acknowledged' \ acknowledged :
              Recorded(<<r, "reference">>)' \/ status # "PENDING_PAYMENT"]_vars
  BY <1>1
<1> QED BY <1>2, OrderTypeCorrect, PTL DEF Spec, AcknowledgedIsHandled
-----------------------------------------------------------------------------
(* Payments are handled as PaymentDesk promises. *)

\* Only webhooks of payments that were made are answered.
AnswersAreEarned == acknowledged \subseteq PaidSet

LEMMA PaidForGood ==
  ASSUME OrderInvariant, [Next]_vars PROVE PaidSet \subseteq PaidSet'
  BY ConfirmedForGood DEF OrderInvariant, PaidSet

\* The answer 200 is given to one delivery at a time, of a payment that was made.
LEMMA AnswersWhere ==
  ASSUME OrderInvariant, [Next]_vars, NEW r \in acknowledged' \ acknowledged
  PROVE  /\ r \in PaidSet
         /\ acknowledged' = acknowledged \cup {r}
         /\ \E h \in Handlers :
              /\ handler[h].event = <<r, "reference">>
              /\ \/ ReadForPayment(h) /\ ~IsValidTransition(status, "PAID")
                 \/ MarkPaid(h)
<1> USE DEF OrderInvariant
<1>1. PICK h \in Handlers :
        /\ handler[h].event = <<r, "reference">>
        /\ \/ ReadForPayment(h) /\ ~IsValidTransition(status, "PAID")
           \/ MarkPaid(h)
  BY AcknowledgedWhere
<1>2. Runs(h, "record") \/ Runs(h, "markPaid")
  BY <1>1 DEF ReadForPayment, MarkPaid
<1>3. handler[h].event \in Events
  BY <1>2, HandlerShape DEF Runs
<1>4. r \in PaidSet
  BY <1>1, <1>2, <1>3 DEF CarriedPaymentsAreReal, Confirms, PaidSet, Events
<1>5. Acknowledge(handler[h].event)
  BY <1>1 DEF ReadForPayment, MarkPaid
<1>6. acknowledged' = acknowledged \cup {r}
  BY <1>1, <1>5 DEF Acknowledge
<1> QED BY <1>1, <1>4, <1>6

LEMMA AnswersAreEarnedStep ==
  ASSUME OrderInvariant, AnswersAreEarned, [Next]_vars
  PROVE  AnswersAreEarned' /\ acknowledged \subseteq acknowledged'
<1>1. acknowledged \subseteq acknowledged'
  BY DEF Next, Begin, Continue, vars, order, paystack, ReadForItem, FindLine, PutLine,
     SumLines, SetTotal, ReadForApproval, ReadForSubmit, SendForApproval, InitializeTransaction,
     RefuseSubmit, SetReference, ReadForCancel, ReadForTransition, RefuseCancel,
     ReadForFulfillment, SetStatus, DeliverWebhook, ReadForVerify, VerifyTransaction,
     ReadForPayment, MarkPaid, Acknowledge, Pay, Fail
<1> QED BY <1>1, PaidForGood, AnswersWhere DEF AnswersAreEarned

\* The excuses are payments, whatever the status.
LEMMA DeskExcuses ==
  (IF status = "PENDING_PAYMENT" THEN {} ELSE References)' \in SUBSET References
  OBVIOUS

\* An order that cannot become PAID is not waiting for a payment.
LEMMA NotWaiting == ~IsValidTransition(status, "PAID") => status # "PENDING_PAYMENT"
  BY DEF IsValidTransition, Transitions, Statuses

\* Which payments are made in a step: one, when the customer pays.
LEMMA PaymentsWhere ==
  ASSUME OrderInvariant, [Next]_vars
  PROVE  \/ PaidSet' = PaidSet
         \/ \E r \in References :
              /\ r \notin PaidSet /\ PaidSet' = PaidSet \cup {r}
              /\ UNCHANGED <<ledger, acknowledged>>
<1> USE DEF OrderInvariant, OrderTypeOK
<1>1. CASE UNCHANGED transactions
  BY <1>1 DEF PaidSet
<1>2. ASSUME NEW h \in Handlers, InitializeTransaction(h) PROVE PaidSet' = PaidSet
  BY <1>2 DEF InitializeTransaction, PaidSet
<1>3. ASSUME NEW h \in Handlers, SetReference(h) PROVE PaidSet' = PaidSet
  <2>1. transactions[handler[h].reference].state = "initialized"
    BY <1>3 DEF SetReference, CarriedCheckoutsAreFresh
  <2>2. \A x \in References : x # handler[h].reference => transactions'[x] = transactions[x]
    BY <1>3 DEF SetReference
  <2>3. \A x \in References : x = handler[h].reference => transactions'[x].state = "open"
    BY <1>3 DEF SetReference, Transaction
  <2> QED BY <2>1, <2>2, <2>3 DEF PaidSet
<1>4. ASSUME NEW r \in References, Pay(r)
      PROVE  /\ r \notin PaidSet /\ PaidSet' = PaidSet \cup {r}
             /\ UNCHANGED <<ledger, acknowledged>>
  BY <1>4 DEF Pay, PaidSet, Transaction
<1> QED BY <1>1, <1>2, <1>3, <1>4, TransactionsChange

\* What is recorded in a step: at most one event, of a payment that was made.
LEMMA RecordedWhere ==
  ASSUME OrderInvariant, [Next]_vars
  PROVE  \/ RecordedEvents' = RecordedEvents
         \/ \E h \in Handlers :
              /\ MarkPaid(h)
              /\ handler[h].event \in Events \ RecordedEvents
              /\ handler[h].event[1] \in PaidSet
              /\ RecordedEvents' = RecordedEvents \cup {handler[h].event}
<1> USE DEF OrderInvariant
<1>1. CASE ledger' = ledger
  BY <1>1 DEF RecordedEvents, Recorded
<1>2. CASE ledger' # ledger
  <2>1. PICK h \in Handlers :
          /\ MarkPaid(h) /\ ~Recorded(handler[h].event)
          /\ \A i \in DOMAIN ledger' : i \notin DOMAIN ledger =>
               i = Len(ledger) + 1 \/ i = Len(ledger) + 2
          /\ \A i \in DOMAIN ledger : i \in DOMAIN ledger' /\ ledger'[i] = ledger[i]
          /\ ledger'[Len(ledger) + 1] =
               [type |-> "GMV", amount |-> handler[h].amount, event |-> handler[h].event]
          /\ \E pct \in Rates : ledger'[Len(ledger) + 2] =
               [type |-> "TAKE_RATE", amount |-> -ComputeTakeRate(handler[h].amount, pct),
                event |-> handler[h].event]
    BY <1>2, LedgerGrows
  <2>0. PICK event : event = handler[h].event
    OBVIOUS
  <2>2. Runs(h, "markPaid")
    BY <2>1 DEF MarkPaid
  <2>3. event \in Events
    BY <2>0, <2>2, HandlerShape DEF Runs
  <2>4. event[1] \in PaidSet
    BY <2>0, <2>2, <2>3 DEF CarriedPaymentsAreReal, Confirms, PaidSet, Events
  <2>5. Recorded(event)'
    BY <2>0, <2>1, MarkPaidRecords
  <2>6. ASSUME NEW e, Recorded(e)' PROVE Recorded(e) \/ e = event
    <3>1. PICK i \in DOMAIN ledger' : ledger'[i].type = "GMV" /\ ledger'[i].event = e
      BY <2>6 DEF Recorded
    <3>2. CASE i \in DOMAIN ledger
      BY <2>1, <3>1, <3>2 DEF Recorded
    <3>3. CASE i = Len(ledger) + 1
      BY <2>0, <2>1, <3>1, <3>3
    <3>4. CASE i = Len(ledger) + 2
      BY <2>1, <3>1, <3>4
    <3> QED BY <2>1, <3>1, <3>2, <3>3, <3>4
  <2>7. \A e : Recorded(e) => Recorded(e)'
    BY RecordedForGood
  <2>8. RecordedEvents' = RecordedEvents \cup {event}
    <3>1. \A e \in Events : Recorded(e)' <=> Recorded(e) \/ e = event
      BY <2>5, <2>6, <2>7
    <3>2. RecordedEvents' = {e \in Events : Recorded(e)'}
      BY DEF RecordedEvents
    <3> QED BY <2>3, <3>1, <3>2 DEF RecordedEvents
  <2>9. event \notin RecordedEvents
    BY <2>0, <2>1 DEF RecordedEvents
  <2> QED BY <2>0, <2>1, <2>3, <2>4, <2>8, <2>9
<1> QED BY <1>1, <1>2

LEMMA OrderAtDesk ==
  ASSUME OrderInvariant, AnswersAreEarned, [Next]_vars
  PROVE  Desk!Next
<1> DEFINE Pending == PaidSet \ acknowledged
           Excused == IF status = "PENDING_PAYMENT" THEN {} ELSE References
<1>0. Excused' \in SUBSET References
  BY DeskExcuses
\* The customer pays.
<1>1. ASSUME NEW r \in References, r \notin PaidSet, PaidSet' = PaidSet \cup {r},
             UNCHANGED <<ledger, acknowledged>>
      PROVE  Desk!Next
  <2>1. Pending' = Pending \cup {r}
    BY <1>1 DEF AnswersAreEarned
  <2>2. RecordedEvents' = RecordedEvents
    BY <1>1 DEF RecordedEvents, Recorded
  <2>3. Desk!Pay(r)
    BY <1>1, <2>1, <2>2 DEF Desk!Pay
  <2> QED BY <1>0, <2>3 DEF Desk!Next
\* A sale is recorded, and its webhook may be answered.
<1>2. ASSUME PaidSet' = PaidSet, NEW h \in Handlers, MarkPaid(h),
             handler[h].event \in Events \ RecordedEvents, handler[h].event[1] \in PaidSet,
             RecordedEvents' = RecordedEvents \cup {handler[h].event}
      PROVE  Desk!Next
  <2>1. acknowledged' \in {acknowledged, acknowledged \cup {handler[h].event[1]}}
    BY <1>2 DEF MarkPaid, Acknowledge
  <2>2. Pending' \in {Pending, Pending \ {handler[h].event[1]}}
    BY <1>2, <2>1
  <2>3. Desk!Do(handler[h].event)
    BY <1>2, <2>2 DEF Desk!Do
  <2> QED BY <1>0, <1>2, <2>3 DEF Desk!Next
\* A webhook is answered, and nothing is recorded.
<1>3. ASSUME PaidSet' = PaidSet, RecordedEvents' = RecordedEvents,
             NEW r \in acknowledged' \ acknowledged
      PROVE  Desk!Next
  <2>1. r \in PaidSet /\ acknowledged' = acknowledged \cup {r}
    BY <1>3, AnswersWhere
  <2>2. r \in Pending /\ Pending' = Pending \ {r} /\ r \in References
    BY <1>3, <2>1 DEF PaidSet
  <2>3. PICK h \in Handlers :
          /\ handler[h].event = <<r, "reference">>
          /\ \/ ReadForPayment(h) /\ ~IsValidTransition(status, "PAID")
             \/ MarkPaid(h)
    BY <1>3, AnswersWhere
  <2>4. CASE ~IsValidTransition(status, "PAID")
    <3>1. r \in Excused
      BY <2>2, <2>4, NotWaiting
    <3>2. Desk!Leave(r)
      BY <1>3, <2>2, <3>1 DEF Desk!Leave
    <3> QED BY <1>0, <2>2, <3>2 DEF Desk!Next
  <2>5. CASE MarkPaid(h)
    <3> DEFINE event == <<r, "reference">>
    <3>1. Recorded(event)'
      BY <2>3, <2>5, MarkPaidRecords DEF OrderInvariant
    <3>2. event \in Events /\ event[1] = r
      BY <2>2 DEF Events
    <3>3. event \in RecordedEvents'
      BY <3>1, <3>2 DEF RecordedEvents
    <3>4. Desk!Handled(r)
      BY <1>3, <3>2, <3>3 DEF Desk!Handled
    <3>5. Desk!Leave(r)
      BY <1>3, <2>2, <3>4 DEF Desk!Leave
    <3> QED BY <1>0, <2>2, <3>5 DEF Desk!Next
  <2> QED BY <2>3, <2>4, <2>5
\* Nothing of all that.
<1>4. ASSUME PaidSet' = PaidSet, RecordedEvents' = RecordedEvents,
             acknowledged' \ acknowledged = {}
      PROVE  Desk!Next
  <2>1. acknowledged' = acknowledged
    BY <1>4, AnswersAreEarnedStep
  <2>2. Pending' = Pending
    BY <1>4, <2>1
  <2> QED BY <1>0, <1>4, <2>2 DEF Desk!Next, Desk!ExcusesChange
<1>5. CASE PaidSet' = PaidSet
  BY <1>2, <1>3, <1>4, <1>5, RecordedWhere
<1> QED BY <1>1, <1>5, PaymentsWhere

\* Orders, webhooks and verifications keep the promises of PaymentDesk: an event is
\* recorded once, for good and only for a payment that was made, and Paystack repeats its
\* webhook until the event is on the ledger or the order is not waiting for it.
THEOREM DeskImplemented == Spec => ImplementsDesk
<1>1. Init => AnswersAreEarned /\ Desk!Init
  <2> SUFFICES ASSUME Init PROVE AnswersAreEarned /\ Desk!Init
    OBVIOUS
  <2>1. PaidSet = {} /\ RecordedEvents = {} /\ acknowledged = {}
    BY DEF Init, PaidSet, RecordedEvents, Recorded
  <2> QED BY <2>1 DEF AnswersAreEarned, Desk!Init
<1>2. OrderInvariant /\ AnswersAreEarned /\ [Next]_vars => AnswersAreEarned'
  BY AnswersAreEarnedStep
<1>3. OrderInvariant /\ AnswersAreEarned /\ [Next]_vars => [Desk!Next]_(Desk!vars)
  BY OrderAtDesk
<1> QED BY <1>1, <1>2, <1>3, OrderInvariance, PTL DEF Spec, ImplementsDesk, Desk!Spec

-----------------------------------------------------------------------------
(* The arithmetic of the share. *)

\* computeTakeRate is the share asked for, to the nearest minor unit with halves rounded
\* up: it never strays by more than half a unit, nothing is taken at 0 % and all of it at
\* 100 %, and a higher rate never takes less.
THEOREM TakeRateIsFair ==
  ASSUME NEW amount \in Nat, NEW pct \in 0..100
  PROVE  /\ 200 * ComputeTakeRate(amount, pct) - 2 * (amount * pct) \in -99..100
         /\ pct = 0 => ComputeTakeRate(amount, pct) = 0
         /\ pct = 100 => ComputeTakeRate(amount, pct) = amount
         /\ \A higher \in pct..100 :
              ComputeTakeRate(amount, pct) <= ComputeTakeRate(amount, higher)
<1> DEFINE Share(scaled) == (2 * scaled + 100) \div 200
<1>1. ASSUME NEW p \in 0..100
      PROVE  /\ amount * p \in Nat /\ ComputeTakeRate(amount, p) = Share(amount * p)
             /\ ComputeTakeRate(amount, p) \in Nat
  <2> DEFINE scaled == amount * p
  <2>1. scaled \in Nat
    BY <1>1
  <2>2. 2 * amount * p = 2 * scaled
    BY <1>1
  <2> HIDE DEF scaled
  <2>3. Share(scaled) \in Nat
    BY <2>1
  <2>4. ComputeTakeRate(amount, p) = Share(scaled)
    BY <2>2 DEF ComputeTakeRate
  <2> QED BY <2>1, <2>3, <2>4 DEF scaled
<1>2. ASSUME NEW scaled \in Nat PROVE 200 * Share(scaled) - 2 * scaled \in -99..100
  BY <1>2
<1>3. ASSUME NEW less \in Nat, NEW more \in Nat, less <= more PROVE Share(less) <= Share(more)
  BY <1>3
<1>4. Share(0) = 0 /\ Share(100 * amount) = amount
  OBVIOUS
<1> HIDE DEF Share
<1>5. pct = 0 => amount * pct = 0
  OBVIOUS
<1>6. pct = 100 => amount * pct = 100 * amount
  OBVIOUS
<1>7. ASSUME NEW higher \in pct..100
      PROVE  ComputeTakeRate(amount, pct) <= ComputeTakeRate(amount, higher)
  <2>1. higher \in 0..100 /\ amount * pct <= amount * higher
    BY <1>7
  <2> QED BY <1>1, <1>3, <2>1
<1>8. 200 * ComputeTakeRate(amount, pct) - 2 * (amount * pct) \in -99..100
  BY <1>1, <1>2
<1> QED BY <1>1, <1>4, <1>5, <1>6, <1>7, <1>8
=============================================================================
