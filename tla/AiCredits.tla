------------------------------ MODULE AiCredits ------------------------------
(***************************************************************************)
(* The AI credit wallet of one tenant, as kept by AiCreditsService         *)
(* (apps/backend/src/ai-core/credits/ai-credits.service.ts): the cached    *)
(* balance Tenant.aiCredits, the reservations that hold part of it while a *)
(* provider call is running, and the append-only AiCreditTransaction       *)
(* ledger.                                                                 *)
(*                                                                         *)
(* Every operation locks the tenant row (SELECT ... FOR UPDATE) before it  *)
(* reads the balance, so what a transaction does from the lock to the      *)
(* commit is one action here.  What an operation reads BEFORE it holds the *)
(* lock is a step of its own: the lookup that makes grant and              *)
(* settleForExecution idempotent, the status read of releaseReservation    *)
(* and the list of ids the expiry sweep works through.                     *)
(***************************************************************************)
EXTENDS Integers, Sequences, FiniteSets

CONSTANTS
  Reservations,   \* ids of AiCreditReservation rows
  Purchases,      \* ids of CreditPurchase rows
  Executions,     \* ids of AiExecution rows
  NoKey,          \* a ledger row with none of the three unique columns set
  Requests,       \* concurrent handlers that hold a value read before the lock
  Sweepers,       \* running passes of the expiry sweep (instances, overlapping timers)
  SweepBatch,     \* "take" of the sweep's query (100 in the code)
  PackCredits,    \* credits of each purchase
  MaxReservation, \* largest quote a reservation is made for
  MaxAttempts,    \* largest maxAttempts of a provider
  UsageCredits,   \* what one answered call may cost
  AdminCredits,   \* amounts of admin grants and of flat charges
  MaxLedger,      \* bound: no unkeyed row is posted beyond this length
  MaxFaults       \* bound: sweep transactions that fail

Keys == Purchases \cup Executions \cup Reservations

ASSUME CreditAssumption ==
  /\ IsFiniteSet(Reservations)
  /\ NoKey \notin Keys
  /\ Purchases \cap Executions = {}
  /\ Purchases \cap Reservations = {}
  /\ Executions \cap Reservations = {}
  /\ PackCredits \in [Purchases -> Nat]
  /\ MaxReservation \in Nat
  /\ MaxAttempts \in Nat \ {0}
  /\ SweepBatch \in Nat \ {0}
  /\ UsageCredits \subseteq Nat
  /\ AdminCredits \subseteq Nat \ {0}
  /\ MaxLedger \in Nat
  /\ MaxFaults \in Nat

Statuses == {"NONE", "RESERVED", "SETTLED", "RELEASED", "EXPIRED"}

\* The columns of AiCreditReservation that the operations read or write.
Reservation == [status: Statuses, reservedCredits: Nat, settledCredits: Nat,
                maxCreditsPerAttempt: Nat, overdue: BOOLEAN]

\* A row of the ledger; key stands for the one unique column that is set.
Transaction == [type: {"AI_USAGE", "PURCHASE", "ADJUSTMENT"}, credits: Int,
                balanceAfter: Int, key: Keys \cup {NoKey}]

\* A handler between its read and its transaction.
Idle == [op |-> "idle", key |-> NoKey, credits |-> 0]

Request ==
  {Idle} \cup [op: {"grant"}, key: Purchases, credits: Nat]
         \cup [op: {"settleForExecution"}, key: Executions, credits: Nat]
         \cup [op: {"release"}, key: Reservations, credits: {0}]

VARIABLES
  aiCredits,    \* Tenant.aiCredits
  reservation,  \* the reservation rows
  ledger,       \* the AiCreditTransaction rows, oldest first
  request,      \* the handlers' local state
  listed,       \* the ids a sweep has read and not yet worked through
  faults        \* failed sweep transactions so far

vars == <<aiCredits, reservation, ledger, request, listed, faults>>
wallet == <<aiCredits, reservation, ledger>>

Unreserved == [status |-> "NONE", reservedCredits |-> 0, settledCredits |-> 0,
               maxCreditsPerAttempt |-> 0, overdue |-> FALSE]

Init ==
  /\ aiCredits = 0
  /\ reservation = [r \in Reservations |-> Unreserved]
  /\ ledger = << >>
  /\ request = [q \in Requests |-> Idle]
  /\ listed = [s \in Sweepers |-> {}]
  /\ faults = 0

-----------------------------------------------------------------------------
(* Reading the wallet. *)

IsReserved(r) == reservation[r].status = "RESERVED"

\* The sum of reservedCredits over the RESERVED rows, counted credit by credit:
\* the k-th credit of r is held when r is RESERVED and holds at least k.
HeldUnits == {u \in Reservations \X (1..MaxReservation) :
                IsReserved(u[1]) /\ u[2] <= reservation[u[1]].reservedCredits}

HeldCredits == Cardinality(HeldUnits)

\* What a new charge or a new hold may take.
Available == aiCredits - HeldCredits

RowsOf(k) == {i \in 1..Len(ledger) : ledger[i].key = k}

\* Mutant: the row carries the balance as it was before the change.
StaleBalancePost(type, credits, key) ==
  /\ aiCredits' = aiCredits + credits
  /\ ledger' = Append(ledger, [type |-> type, credits |-> credits,
                               balanceAfter |-> aiCredits, key |-> key])

\* A ledger row and the balance change it stands for, in one transaction.
Post(type, credits, key) ==
  /\ aiCredits' = aiCredits + credits
  /\ ledger' = Append(ledger, [type |-> type, credits |-> credits,
                               balanceAfter |-> aiCredits + credits, key |-> key])

-----------------------------------------------------------------------------
(* Reservations. *)

Reserve(r, credits, perAttempt) ==
  /\ reservation[r].status = "NONE"
  /\ Available >= credits
  /\ reservation' = [reservation EXCEPT ![r] =
       [status |-> "RESERVED", reservedCredits |-> credits, settledCredits |-> 0,
        maxCreditsPerAttempt |-> perAttempt, overdue |-> FALSE]]
  /\ UNCHANGED <<aiCredits, ledger, request, listed, faults>>

\* reserveForProviderCall: holds the most the provider's attempts can cost.
ReserveForProviderCall(r, perAttempt, attempts) ==
  /\ perAttempt * attempts <= MaxReservation
  /\ Reserve(r, perAttempt * attempts, perAttempt)

\* reserveFixedCredits: the legacy responder's flat hold.
ReserveFixedCredits(r) == \E credits \in 1..MaxReservation : Reserve(r, credits, credits)

\* Mutant: the signed amount of the ledger row is stored as settledCredits.
SignedClose(r, status, credits) ==
  reservation' = [reservation EXCEPT ![r].status = status, ![r].settledCredits = -credits]

\* A reservation leaves RESERVED.
Close(r, status, credits) ==
  reservation' = [reservation EXCEPT ![r].status = status, ![r].settledCredits = credits]

\* The whole of settleReservation's transaction when it does not stop early:
\* a settled or closed reservation, or a charge that the rest of the balance
\* does not cover, leaves the wallet as it is.
SettleReservation(r, credits) ==
  /\ IsReserved(r)
  /\ RowsOf(r) = {}
  /\ credits <= aiCredits - (HeldCredits - reservation[r].reservedCredits)
  /\ Post("AI_USAGE", -credits, r)
  /\ Close(r, "SETTLED", credits)
  /\ UNCHANGED <<request, listed, faults>>

\* settleReservationForUsage: the answered attempt at what it used, each earlier
\* attempt at the maximum.
UsageCharge(r, attemptsUsed, usage) ==
  reservation[r].maxCreditsPerAttempt * (attemptsUsed - 1) + usage

SettleReservationForUsage(r, attemptsUsed, usage) ==
  /\ \/ reservation[r].maxCreditsPerAttempt = 0
     \/ attemptsUsed * reservation[r].maxCreditsPerAttempt <= reservation[r].reservedCredits
  /\ SettleReservation(r, UsageCharge(r, attemptsUsed, usage))

\* The legacy responder settles exactly what it reserved.
SettleFixedCredits(r) == SettleReservation(r, reservation[r].reservedCredits)

\* releaseReservation: the status is read before the lock is taken ...
ReadForRelease(q, r) ==
  /\ request[q] = Idle
  /\ IsReserved(r)
  /\ request' = [request EXCEPT ![q] = [op |-> "release", key |-> r, credits |-> 0]]
  /\ UNCHANGED <<aiCredits, reservation, ledger, listed, faults>>

\* Mutant: the update trusts the status that was read before the lock.
UnguardedRelease(q) ==
  /\ request[q].op = "release"
  /\ request' = [request EXCEPT ![q] = Idle]
  /\ Close(request[q].key, "RELEASED", 0)
  /\ UNCHANGED <<aiCredits, ledger, listed, faults>>

\* ... and the update is guarded by the status once more.
ReleaseReservation(q) ==
  /\ request[q].op = "release"
  /\ request' = [request EXCEPT ![q] = Idle]
  /\ IF IsReserved(request[q].key)
     THEN Close(request[q].key, "RELEASED", 0)
     ELSE UNCHANGED reservation
  /\ UNCHANGED <<aiCredits, ledger, listed, faults>>

-----------------------------------------------------------------------------
(* The expiry sweep. *)

\* The reservation's expiresAt passes (RESERVATION_TTL_MS after it was made).
PassExpiry(r) ==
  /\ IsReserved(r)
  /\ ~reservation[r].overdue
  /\ reservation' = [reservation EXCEPT ![r].overdue = TRUE]
  /\ UNCHANGED <<aiCredits, ledger, request, listed, faults>>

\* Mutant: the sweep looks for rows whose amount per attempt was left empty.
OverdueEmpty ==
  {r \in Reservations : IsReserved(r) /\ reservation[r].overdue
                         /\ reservation[r].maxCreditsPerAttempt = 0}

Overdue == {r \in Reservations : IsReserved(r) /\ reservation[r].overdue}

\* A sweep reads at most SweepBatch ids, in no particular order.
ListExpired(s) ==
  /\ listed[s] = {}
  /\ \E batch \in SUBSET Overdue :
       /\ batch # {}
       /\ Cardinality(batch) <= SweepBatch
       /\ batch # Overdue => Cardinality(batch) = SweepBatch
       /\ listed' = [listed EXCEPT ![s] = batch]
  /\ UNCHANGED <<aiCredits, reservation, ledger, request, faults>>

\* Mutant: the sweep trusts the list it read.
ExpireAsListed(s, r) ==
  /\ r \in listed[s]
  /\ listed' = [listed EXCEPT ![s] = @ \ {r}]
  /\ Close(r, "EXPIRED", reservation[r].reservedCredits)
  /\ Post("AI_USAGE", -reservation[r].reservedCredits, r)
  /\ UNCHANGED <<request, faults>>

\* The transaction of one listed id: it reads the row again under the lock and
\* charges the reserved maximum if the row is still open and overdue.
ExpireReservation(s, r) ==
  /\ r \in listed[s]
  /\ listed' = [listed EXCEPT ![s] = @ \ {r}]
  /\ IF r \in Overdue
     THEN /\ Close(r, "EXPIRED", reservation[r].reservedCredits)
          /\ Post("AI_USAGE", -reservation[r].reservedCredits, r)
     ELSE UNCHANGED wallet
  /\ UNCHANGED <<request, faults>>

ExpireListed(s) == \E r \in listed[s] : ExpireReservation(s, r)

\* A transaction of the sweep throws, or its process dies: the rest of the list
\* is dropped until a later pass reads it again.
AbortSweep(s) ==
  /\ listed[s] # {}
  /\ faults < MaxFaults
  /\ faults' = faults + 1
  /\ listed' = [listed EXCEPT ![s] = {}]
  /\ UNCHANGED <<aiCredits, reservation, ledger, request>>

-----------------------------------------------------------------------------
(* Charges and grants outside a reservation. *)

\* settleForExecution and grant look for an earlier row of the same key first.
ReadBeforePosting(q, op, k, credits) ==
  /\ request[q] = Idle
  /\ RowsOf(k) = {}
  /\ request' = [request EXCEPT ![q] = [op |-> op, key |-> k, credits |-> credits]]
  /\ UNCHANGED <<aiCredits, reservation, ledger, listed, faults>>

ReadForSettlement(q, e, credits) == ReadBeforePosting(q, "settleForExecution", e, credits)

ReadForGrant(q, p) == ReadBeforePosting(q, "grant", p, PackCredits[p])

\* Mutant: no unique column, only the lookup before the transaction.
NeverRefused(k) == FALSE

\* The unique column of the key refuses a second row (P2002): the transaction
\* rolls back and the handler returns the row that won.
Refused(k) == RowsOf(k) # {}

\* settleForExecution's transaction.  A charge the free balance does not cover is
\* dropped; a charge of 0 still writes its row.
SettleForExecution(q) ==
  LET k == request[q].key
      credits == request[q].credits
  IN  /\ request[q].op = "settleForExecution"
      /\ request' = [request EXCEPT ![q] = Idle]
      /\ IF Refused(k) \/ (credits # 0 /\ Available < credits)
         THEN UNCHANGED <<aiCredits, ledger>>
         ELSE Post("AI_USAGE", -credits, k)
      /\ UNCHANGED <<reservation, listed, faults>>

\* grant's transaction for a paid purchase.
GrantPurchase(q) ==
  /\ request[q].op = "grant"
  /\ request' = [request EXCEPT ![q] = Idle]
  /\ IF Refused(request[q].key)
     THEN UNCHANGED <<aiCredits, ledger>>
     ELSE Post("PURCHASE", request[q].credits, request[q].key)
  /\ UNCHANGED <<reservation, listed, faults>>

\* Mutant: an adjustment may take credits that a reservation holds.
AdjustHeldCredits(credits) ==
  /\ Len(ledger) < MaxLedger
  /\ credits < 0 => aiCredits >= -credits
  /\ Post("ADJUSTMENT", credits, NoKey)
  /\ UNCHANGED <<reservation, request, listed, faults>>

\* grant without a purchase: a bonus or an adjustment, which may take credits
\* away but none that a reservation holds.
AdjustCredits(credits) ==
  /\ Len(ledger) < MaxLedger
  /\ credits < 0 => Available >= -credits
  /\ Post("ADJUSTMENT", credits, NoKey)
  /\ UNCHANGED <<reservation, request, listed, faults>>

\* Mutant: a flat charge may take credits that a reservation holds.
ChargeHeldCredits(credits) ==
  /\ Len(ledger) < MaxLedger
  /\ aiCredits >= credits
  /\ Post("AI_USAGE", -credits, NoKey)
  /\ UNCHANGED <<reservation, request, listed, faults>>

\* chargeFlat: a fixed charge without a key.
ChargeFlat(credits) ==
  /\ Len(ledger) < MaxLedger
  /\ Available >= credits
  /\ Post("AI_USAGE", -credits, NoKey)
  /\ UNCHANGED <<reservation, request, listed, faults>>

\* The process dies, or the connection is lost, between the read and the transaction.
AbandonRequest(q) ==
  /\ request[q] # Idle
  /\ request' = [request EXCEPT ![q] = Idle]
  /\ UNCHANGED <<aiCredits, reservation, ledger, listed, faults>>

-----------------------------------------------------------------------------

ReservationStep(r) ==
  \/ \E perAttempt \in 0..MaxReservation, attempts \in 1..MaxAttempts :
       ReserveForProviderCall(r, perAttempt, attempts)
  \/ ReserveFixedCredits(r)
  \/ \E attemptsUsed \in 1..MaxAttempts, usage \in UsageCredits :
       SettleReservationForUsage(r, attemptsUsed, usage)
  \/ SettleFixedCredits(r)
  \/ PassExpiry(r)

RequestStep(q) ==
  \/ \E r \in Reservations : ReadForRelease(q, r)
  \/ ReleaseReservation(q)
  \/ \E e \in Executions, credits \in {0} \cup UsageCredits : ReadForSettlement(q, e, credits)
  \/ SettleForExecution(q)
  \/ \E p \in Purchases : ReadForGrant(q, p)
  \/ GrantPurchase(q)
  \/ AbandonRequest(q)

SweepStep(s) == ListExpired(s) \/ ExpireListed(s) \/ AbortSweep(s)

AdminStep ==
  \E credits \in AdminCredits :
    AdjustCredits(credits) \/ AdjustCredits(-credits) \/ ChargeFlat(credits)

Next ==
  \/ \E r \in Reservations : ReservationStep(r)
  \/ \E q \in Requests : RequestStep(q)
  \/ \E s \in Sweepers : SweepStep(s)
  \/ AdminStep

Spec == Init /\ [][Next]_vars

\* Time passes, and the timer of every instance keeps running the sweep.
Fairness ==
  /\ \A r \in Reservations : WF_vars(PassExpiry(r))
  /\ \A s \in Sweepers : WF_vars(ListExpired(s)) /\ WF_vars(ExpireListed(s))

FairSpec == Spec /\ Fairness

-----------------------------------------------------------------------------
(* Properties. *)

\* Every variable has its type; the bounds of the model are respected.
TypeOK ==
  /\ aiCredits \in Int
  /\ reservation \in [Reservations -> Reservation]
  /\ \A r \in Reservations : reservation[r].reservedCredits <= MaxReservation
  /\ ledger \in Seq(Transaction)
  /\ request \in [Requests -> Request]
  /\ listed \in [Sweepers -> SUBSET Reservations]
  /\ faults \in Nat

\* The balance always covers what the open reservations hold, so a hold can be
\* charged in full whenever it is settled or expires and the balance never goes
\* below zero: no operation spends credits another call has reserved.
Solvent == HeldCredits <= aiCredits

\* "The balance may only ever change together with an AiCreditTransaction insert,
\* in the same DB transaction": the rows chain from 0 to the cached balance.
BalanceBefore(i) == IF i = 1 THEN 0 ELSE ledger[i - 1].balanceAfter

LedgerExplainsBalance ==
  /\ aiCredits = BalanceBefore(Len(ledger) + 1)
  /\ \A i \in 1..Len(ledger) :
       ledger[i].balanceAfter = BalanceBefore(i) + ledger[i].credits

\* At most one row per purchase, per execution and per reservation, whatever
\* handlers overlap: "exactly one settlement per AI call, exactly one grant per
\* purchase" (schema.prisma).
AtMostOncePerKey ==
  \A i, j \in 1..Len(ledger) :
    ledger[i].key = ledger[j].key /\ ledger[i].key # NoKey => i = j

\* A reservation and the ledger agree: a settled or expired one has a row of its
\* charge, an open or released one has none.
ReservationsMatchLedger ==
  \A r \in Reservations :
    IF reservation[r].status \in {"SETTLED", "EXPIRED"}
    THEN \E i \in RowsOf(r) : ledger[i].credits = -reservation[r].settledCredits
    ELSE RowsOf(r) = {}

\* A settled, released or expired reservation never changes again: a late
\* settlement does not undo an expiry, a late release refunds nothing.
Closed(r) == reservation[r].status \in {"SETTLED", "RELEASED", "EXPIRED"}

ClosedForGood ==
  [][\A r \in Reservations : Closed(r) => reservation'[r] = reservation[r]]_vars

\* The wallet keeps the promises of CreditWallet: its holds are the open
\* reservations, and a key is used once a ledger row carries it.
Wallet == INSTANCE CreditWallet WITH
  Holds   <- Reservations,
  Keys    <- Purchases \cup Executions,
  balance <- aiCredits,
  held    <- HeldUnits,
  opened  <- {r \in Reservations : reservation[r].status # "NONE"},
  closed  <- {r \in Reservations : Closed(r)},
  posted  <- {k \in Keys : RowsOf(k) # {}}

ImplementsWallet == Wallet!Spec

\* No hold is kept for ever: whatever becomes of the call, the sweep closes its
\* reservation, also when sweeps overlap or fail now and then.
HoldsAreResolved ==
  \A r \in Reservations : IsReserved(r) ~> Closed(r)
=============================================================================
