------------------------------ MODULE PaymentDesk ------------------------------
(***************************************************************************)
(* What the handling of payments promises those who pay and those who are  *)
(* paid, with no gateway, no webhooks, no rows and no handlers: what is    *)
(* done for a payment (a purchase fulfilled, a sale recorded) is done only *)
(* if the payment was made, at most once and for good; and a payment that  *)
(* was made is attended to until that is done, unless there is an excuse.  *)
(* BillingWebhook and CommerceOrders implement this specification, each    *)
(* with the excuses of its own.                                            *)
(***************************************************************************)

CONSTANTS Payments,
          Deeds     \* what can be done for them: d[1] is the payment of deed d

VARIABLES paid,     \* the payments that were made
          done,     \* the deeds done
          pending,  \* the payments still attended to
          excused   \* the payments that may be left alone now, as the environment has it

vars == <<paid, done, pending, excused>>

Init ==
  /\ paid = {}
  /\ done = {}
  /\ pending = {}
  /\ excused \in SUBSET Payments

Handled(p) == \E d \in done : d[1] = p

Pay(p) ==
  /\ p \notin paid
  /\ paid' = paid \cup {p}
  /\ pending' = pending \cup {p}
  /\ UNCHANGED done

\* A deed is done, and the payment may need no more attention.
Do(d) ==
  /\ d[1] \in paid
  /\ d \notin done
  /\ done' = done \cup {d}
  /\ pending' \in {pending, pending \ {d[1]}}
  /\ UNCHANGED paid

\* A payment gets no more attention: something was done for it, or there is an excuse.
Leave(p) ==
  /\ p \in pending
  /\ Handled(p) \/ p \in excused \cup excused'
  /\ pending' = pending \ {p}
  /\ UNCHANGED <<paid, done>>

ExcusesChange == UNCHANGED <<paid, done, pending>>

Next ==
  /\ excused' \in SUBSET Payments
  /\ \/ \E p \in Payments : Pay(p) \/ Leave(p)
     \/ \E d \in Deeds : Do(d)
     \/ ExcusesChange

Spec == Init /\ [][Next]_vars
=============================================================================
