--------------------------- MODULE AiCreditsProofs ---------------------------
(***************************************************************************)
(* Proofs about the AI credit wallet for every number of reservations,     *)
(* requests and sweeps and every amount.                                   *)
(***************************************************************************)
EXTENDS AiCredits, FiniteSetTheorems, TLAPS

-----------------------------------------------------------------------------
(* Type correctness. *)

LEMMA PostType ==
  ASSUME NEW type \in {"AI_USAGE", "PURCHASE", "ADJUSTMENT"}, NEW credits \in Int,
         NEW key \in Keys \cup {NoKey}, TypeOK, Post(type, credits, key)
  PROVE  aiCredits' \in Int /\ ledger' \in Seq(Transaction)
  BY DEF TypeOK, Post, Transaction

LEMMA ReservationKeys == Reservations \subseteq Keys \cup {NoKey}
  BY DEF Keys

LEMMA ReserveType ==
  ASSUME TypeOK, NEW r \in Reservations, NEW credits \in Nat, NEW perAttempt \in Nat,
         credits <= MaxReservation, Reserve(r, credits, perAttempt)
  PROVE  TypeOK'
  BY DEF TypeOK, Reserve, Reservation, Statuses

LEMMA UsageChargeType ==
  ASSUME TypeOK, NEW r \in Reservations, NEW a \in 1..MaxAttempts, NEW u \in UsageCredits
  PROVE  UsageCharge(r, a, u) \in Nat
<1> DEFINE m == reservation[r].maxCreditsPerAttempt
<1>1. m \in Nat /\ a - 1 \in Nat /\ u \in Nat
  BY CreditAssumption DEF TypeOK, Reservation
<1>2. m * (a - 1) \in Nat
  BY <1>1
<1> HIDE DEF m
<1>3. m * (a - 1) + u \in Nat
  BY <1>1, <1>2
<1> QED BY <1>3 DEF UsageCharge, m

LEMMA CloseType ==
  ASSUME TypeOK, NEW r \in Reservations, NEW credits \in Nat,
         NEW status \in {"SETTLED", "RELEASED", "EXPIRED"}, Close(r, status, credits)
  PROVE  /\ reservation' \in [Reservations -> Reservation]
         /\ \A x \in Reservations : reservation'[x].reservedCredits <= MaxReservation
  BY ZenonT(30) DEF Close, TypeOK, Reservation, Statuses

LEMMA SettleType ==
  ASSUME TypeOK, NEW r \in Reservations, NEW credits \in Nat, SettleReservation(r, credits)
  PROVE  TypeOK'
<1>1. aiCredits' \in Int /\ ledger' \in Seq(Transaction)
  <2>1. -credits \in Int /\ r \in Keys \cup {NoKey}
    BY ReservationKeys
  <2>2. Post("AI_USAGE", -credits, r)
    BY DEF SettleReservation
  <2> QED BY <2>1, <2>2, PostType
<1>2. reservation' \in [Reservations -> Reservation]
      /\ \A x \in Reservations : reservation'[x].reservedCredits <= MaxReservation
  BY CloseType DEF SettleReservation
<1> QED BY <1>1, <1>2 DEF SettleReservation, TypeOK

LEMMA TypeStep == ASSUME TypeOK, [Next]_vars PROVE TypeOK'
<1>1. ASSUME NEW r \in Reservations, NEW perAttempt \in 0..MaxReservation,
             NEW attempts \in 1..MaxAttempts, ReserveForProviderCall(r, perAttempt, attempts)
      PROVE  TypeOK'
  <2>1. /\ perAttempt * attempts <= MaxReservation
        /\ Reserve(r, perAttempt * attempts, perAttempt)
    BY <1>1 DEF ReserveForProviderCall
  <2>2. perAttempt * attempts \in Nat /\ perAttempt \in Nat
    OBVIOUS
  <2> DEFINE credits == perAttempt * attempts
  <2>3. credits \in Nat /\ credits <= MaxReservation /\ Reserve(r, credits, perAttempt)
    BY <2>1, <2>2
  <2> HIDE DEF credits
  <2> QED BY <2>2, <2>3, ReserveType
<1>2. ASSUME NEW r \in Reservations, ReserveFixedCredits(r) PROVE TypeOK'
  <2>1. PICK credits \in 1..MaxReservation : Reserve(r, credits, credits)
    BY <1>2 DEF ReserveFixedCredits
  <2> QED BY <2>1, ReserveType
<1>3. ASSUME NEW r \in Reservations, NEW a \in 1..MaxAttempts, NEW u \in UsageCredits,
             SettleReservationForUsage(r, a, u)
      PROVE  TypeOK'
  BY <1>3, UsageChargeType, SettleType DEF SettleReservationForUsage
<1>4. ASSUME NEW r \in Reservations, SettleFixedCredits(r) PROVE TypeOK'
  <2>1. reservation[r].reservedCredits \in Nat
    BY DEF TypeOK, Reservation
  <2> QED BY <1>4, <2>1, SettleType DEF SettleFixedCredits
<1>5. ASSUME NEW r \in Reservations, PassExpiry(r) PROVE TypeOK'
  BY <1>5 DEF PassExpiry, TypeOK, Reservation
<1>6. ASSUME NEW q \in Requests, NEW r \in Reservations, ReadForRelease(q, r) PROVE TypeOK'
  BY <1>6 DEF ReadForRelease, TypeOK, Request
<1>7. ASSUME NEW q \in Requests, ReleaseReservation(q) PROVE TypeOK'
  <2> DEFINE k == request[q].key
  <2>1. k \in Reservations
    BY <1>7 DEF ReleaseReservation, TypeOK, Request, Idle
  <2>2. request' \in [Requests -> Request]
    BY <1>7 DEF ReleaseReservation, TypeOK, Request
  <2>3. UNCHANGED reservation \/ Close(k, "RELEASED", 0)
    BY <1>7 DEF ReleaseReservation
  <2> HIDE DEF k
  <2>4. reservation' \in [Reservations -> Reservation]
        /\ \A x \in Reservations : reservation'[x].reservedCredits <= MaxReservation
    BY <2>1, <2>3, CloseType DEF TypeOK
  <2> QED BY <1>7, <2>2, <2>4 DEF ReleaseReservation, TypeOK
<1>8. ASSUME NEW q \in Requests, NEW e \in Executions, NEW c \in {0} \cup UsageCredits,
             ReadForSettlement(q, e, c)
      PROVE  TypeOK'
  BY <1>8, CreditAssumption DEF ReadForSettlement, ReadBeforePosting, TypeOK, Request
<1>9. ASSUME NEW q \in Requests, SettleForExecution(q) PROVE TypeOK'
  <2> DEFINE k == request[q].key
             n == -request[q].credits
  <2>1. k \in Keys \cup {NoKey} /\ n \in Int
    BY DEF TypeOK, Request, Idle, Keys
  <2>2. UNCHANGED <<aiCredits, ledger>> \/ Post("AI_USAGE", n, k)
    BY <1>9 DEF SettleForExecution
  <2> HIDE DEF k, n
  <2>3. aiCredits' \in Int /\ ledger' \in Seq(Transaction)
    BY <2>1, <2>2, PostType DEF TypeOK
  <2>4. request' \in [Requests -> Request]
    BY <1>9 DEF SettleForExecution, TypeOK, Request
  <2> QED BY <1>9, <2>3, <2>4 DEF SettleForExecution, TypeOK
<1>10. ASSUME NEW q \in Requests, NEW p \in Purchases, ReadForGrant(q, p) PROVE TypeOK'
  BY <1>10, CreditAssumption DEF ReadForGrant, ReadBeforePosting, TypeOK, Request
<1>11. ASSUME NEW q \in Requests, GrantPurchase(q) PROVE TypeOK'
  <2> DEFINE k == request[q].key
             n == request[q].credits
  <2>1. k \in Keys \cup {NoKey} /\ n \in Int
    BY DEF TypeOK, Request, Idle, Keys
  <2>2. UNCHANGED <<aiCredits, ledger>> \/ Post("PURCHASE", n, k)
    BY <1>11 DEF GrantPurchase
  <2> HIDE DEF k, n
  <2>3. aiCredits' \in Int /\ ledger' \in Seq(Transaction)
    BY <2>1, <2>2, PostType DEF TypeOK
  <2>4. request' \in [Requests -> Request]
    BY <1>11 DEF GrantPurchase, TypeOK, Request
  <2> QED BY <1>11, <2>3, <2>4 DEF GrantPurchase, TypeOK
<1>12. ASSUME NEW s \in Sweepers, ListExpired(s) PROVE TypeOK'
  BY <1>12 DEF ListExpired, Overdue, TypeOK
<1>13. ASSUME NEW s \in Sweepers, NEW r \in listed[s], ExpireReservation(s, r) PROVE TypeOK'
  <2> DEFINE n == reservation[r].reservedCredits
  <2>1. r \in Reservations /\ n \in Nat /\ -n \in Int /\ r \in Keys \cup {NoKey}
    BY DEF TypeOK, Reservation, Keys
  <2>2. \/ UNCHANGED <<aiCredits, ledger>> /\ UNCHANGED reservation
        \/ Post("AI_USAGE", -n, r) /\ Close(r, "EXPIRED", n)
    BY <1>13 DEF ExpireReservation, wallet
  <2> HIDE DEF n
  <2>3. aiCredits' \in Int /\ ledger' \in Seq(Transaction)
    BY <2>1, <2>2, PostType DEF TypeOK
  <2>4. reservation' \in [Reservations -> Reservation]
        /\ \A x \in Reservations : reservation'[x].reservedCredits <= MaxReservation
    BY <2>1, <2>2, CloseType DEF TypeOK
  <2>5. listed' \in [Sweepers -> SUBSET Reservations]
    BY <1>13 DEF ExpireReservation, TypeOK
  <2> QED BY <1>13, <2>3, <2>4, <2>5 DEF ExpireReservation, TypeOK
<1>14. ASSUME NEW s \in Sweepers, AbortSweep(s) PROVE TypeOK'
  BY <1>14 DEF AbortSweep, TypeOK
<1>15. ASSUME NEW credits \in Int, AdjustCredits(credits) PROVE TypeOK'
  BY <1>15, PostType DEF AdjustCredits, TypeOK
<1>16. ASSUME NEW credits \in Int, ChargeFlat(credits) PROVE TypeOK'
  <2>1. -credits \in Int
    OBVIOUS
  <2> QED BY <1>16, <2>1, PostType DEF ChargeFlat, TypeOK
<1>17. ASSUME NEW q \in Requests, AbandonRequest(q) PROVE TypeOK'
  BY <1>17 DEF AbandonRequest, TypeOK, Request
<1>18. CASE AdminStep
  BY <1>15, <1>16, <1>18, CreditAssumption DEF AdminStep
<1>19. CASE UNCHANGED vars
  BY <1>19 DEF vars, TypeOK
<1> QED
  BY <1>1, <1>2, <1>3, <1>4, <1>5, <1>6, <1>7, <1>8, <1>9, <1>10, <1>11, <1>12, <1>13,
     <1>14, <1>17, <1>18, <1>19
  DEF Next, ReservationStep, RequestStep, SweepStep, ExpireListed

\* In every behaviour of the wallet every column keeps its type, and no reservation
\* holds more than the largest quote.
THEOREM TypeCorrect == Spec => []TypeOK
<1>1. Init => TypeOK
  BY CreditAssumption
  DEF Init, TypeOK, Unreserved, Reservation, Statuses, Idle, Request, Transaction
<1> QED BY <1>1, TypeStep, PTL DEF Spec

-----------------------------------------------------------------------------
(* How a step moves the held credits. *)

Own(r) == {r} \X (1..reservation[r].reservedCredits)

LEMMA BlockSize ==
  ASSUME NEW r, NEW n \in Nat
  PROVE  IsFiniteSet({r} \X (1..n)) /\ Cardinality({r} \X (1..n)) = n
<1> DEFINE S == {r}
           T == 1..n
<1>1. IsFiniteSet(S) /\ Cardinality(S) = 1
  BY FS_Singleton
<1>2. IsFiniteSet(T) /\ Cardinality(T) = n
  BY FS_Interval
<1> HIDE DEF S, T
<1>3. IsFiniteSet(S \X T) /\ Cardinality(S \X T) = Cardinality(S) * Cardinality(T)
  BY <1>1, <1>2, FS_Product
<1>4. Cardinality(S \X T) = n
  BY <1>1, <1>2, <1>3
<1> QED BY <1>3, <1>4 DEF S, T

LEMMA HeldFinite == ASSUME TypeOK PROVE IsFiniteSet(HeldUnits) /\ HeldCredits \in Nat
<1>1. IsFiniteSet(1..MaxReservation)
  BY CreditAssumption, FS_Interval
<1>2. IsFiniteSet(Reservations \X (1..MaxReservation))
  BY <1>1, CreditAssumption, FS_Product
<1>3. IsFiniteSet(HeldUnits)
  BY <1>2, FS_Subset DEF HeldUnits
<1> QED BY <1>3, FS_CardinalityType DEF HeldCredits

\* An open reservation's credits are a block of the held ones.
LEMMA OwnUnits ==
  ASSUME TypeOK, NEW r \in Reservations, IsReserved(r)
  PROVE  /\ Own(r) \subseteq HeldUnits
         /\ Own(r) = {u \in HeldUnits : u[1] = r}
         /\ Cardinality(Own(r)) = reservation[r].reservedCredits
         /\ Cardinality(HeldUnits \ Own(r)) = HeldCredits - reservation[r].reservedCredits
<1>1. reservation[r].reservedCredits \in 0..MaxReservation
  BY CreditAssumption DEF TypeOK, Reservation
<1>2. Own(r) = {u \in HeldUnits : u[1] = r}
  BY <1>1, CreditAssumption DEF Own, HeldUnits
<1>3. Cardinality(Own(r)) = reservation[r].reservedCredits
  <2> DEFINE n == reservation[r].reservedCredits
  <2>1. n \in Nat
    BY <1>1, CreditAssumption
  <2> HIDE DEF n
  <2>2. Cardinality({r} \X (1..n)) = n
    BY <2>1, BlockSize
  <2> QED BY <2>2 DEF Own, n
<1>4. Own(r) \subseteq HeldUnits /\ HeldUnits \cap Own(r) = Own(r)
  BY <1>2
<1>5. Cardinality(HeldUnits \ Own(r)) = HeldCredits - Cardinality(Own(r))
  BY <1>4, HeldFinite, FS_Difference DEF HeldCredits
<1> QED BY <1>2, <1>3, <1>4, <1>5

LEMMA ReserveHolds ==
  ASSUME TypeOK, NEW r \in Reservations, NEW credits \in Nat, NEW perAttempt,
         credits <= MaxReservation, Reserve(r, credits, perAttempt)
  PROVE  /\ HeldUnits' = HeldUnits \cup ({r} \X (1..credits))
         /\ HeldCredits' = HeldCredits + credits
<1>1. HeldUnits' = HeldUnits \cup ({r} \X (1..credits))
  <2>1. /\ reservation'[r].status = "RESERVED"
        /\ reservation'[r].reservedCredits = credits
        /\ \A x \in Reservations \ {r} : reservation'[x] = reservation[x]
    BY DEF Reserve, TypeOK
  <2>2. ~IsReserved(r)
    BY DEF Reserve, IsReserved
  <2> QED BY <2>1, <2>2, CreditAssumption DEF HeldUnits, IsReserved
<1>2. HeldUnits \cap ({r} \X (1..credits)) = {}
  BY DEF HeldUnits, IsReserved, Reserve
<1> DEFINE B == {r} \X (1..credits)
<1>3. IsFiniteSet(B) /\ Cardinality(B) = credits
  BY BlockSize
<1> HIDE DEF B
<1>4. Cardinality(HeldUnits \cup B) =
        Cardinality(HeldUnits) + Cardinality(B) - Cardinality(HeldUnits \cap B)
  BY <1>3, HeldFinite, FS_Union
<1>5. HeldUnits \cap B = {} /\ HeldUnits' = HeldUnits \cup B
  BY <1>1, <1>2 DEF B
<1>6. Cardinality(HeldUnits \cap B) = 0
  BY <1>5, FS_EmptySet
<1>7. HeldCredits' = Cardinality(HeldUnits \cup B)
  BY <1>5 DEF HeldCredits
<1>8. HeldCredits' = HeldCredits + credits
  BY <1>3, <1>4, <1>6, <1>7, HeldFinite DEF HeldCredits
<1> QED BY <1>1, <1>8

LEMMA CloseFrees ==
  ASSUME TypeOK, NEW r \in Reservations, IsReserved(r), NEW credits,
         NEW status \in {"SETTLED", "RELEASED", "EXPIRED"}, Close(r, status, credits)
  PROVE  /\ HeldUnits' = HeldUnits \ Own(r)
         /\ HeldCredits' = HeldCredits - reservation[r].reservedCredits
<1>1. /\ reservation'[r].status # "RESERVED"
      /\ \A x \in Reservations \ {r} : reservation'[x] = reservation[x]
  BY DEF Close, TypeOK, Reservation
<1>2. HeldUnits' = HeldUnits \ {u \in HeldUnits : u[1] = r}
  BY <1>1 DEF HeldUnits, IsReserved
<1>3. HeldUnits' = HeldUnits \ Own(r)
  BY <1>2, OwnUnits
<1> QED BY <1>3, OwnUnits DEF HeldCredits

LEMMA HeldUnchanged ==
  ASSUME \A x \in Reservations : /\ reservation'[x].status = reservation[x].status
                                 /\ reservation'[x].reservedCredits = reservation[x].reservedCredits
  PROVE  HeldUnits' = HeldUnits /\ HeldCredits' = HeldCredits
<1>1. HeldUnits' = HeldUnits
  BY DEF HeldUnits, IsReserved
<1> QED BY <1>1 DEF HeldCredits

-----------------------------------------------------------------------------
(* Every step of the wallet is one of five movements. *)

\* Nothing an invariant speaks of changes.
Keeps ==
  /\ UNCHANGED <<aiCredits, ledger>>
  /\ reservation' \in [Reservations -> Reservation]
  /\ \A x \in Reservations :
       /\ reservation'[x].status = reservation[x].status
       /\ reservation'[x].reservedCredits = reservation[x].reservedCredits
       /\ reservation'[x].settledCredits = reservation[x].settledCredits
       /\ ~IsReserved(x) => reservation'[x] = reservation[x]

Reserves(r, credits) ==
  /\ credits \in 0..MaxReservation
  /\ \E perAttempt \in Nat : Reserve(r, credits, perAttempt)

Charges(r, status, credits) ==
  /\ IsReserved(r)
  /\ credits \in Nat
  /\ credits <= aiCredits - (HeldCredits - reservation[r].reservedCredits)
  /\ status \in {"SETTLED", "EXPIRED"}
  /\ Close(r, status, credits)
  /\ Post("AI_USAGE", -credits, r)

Releases(r) ==
  /\ IsReserved(r)
  /\ Close(r, "RELEASED", 0)
  /\ UNCHANGED <<aiCredits, ledger>>

Posts(type, credits, key) ==
  /\ type \in {"AI_USAGE", "PURCHASE", "ADJUSTMENT"}
  /\ credits \in Int
  /\ key \in Purchases \cup Executions \cup {NoKey}
  /\ key # NoKey => RowsOf(key) = {}
  /\ credits < 0 => -credits <= Available
  /\ Post(type, credits, key)
  /\ UNCHANGED reservation

Movement ==
  \/ Keeps
  \/ \E r \in Reservations, credits \in Nat : Reserves(r, credits)
  \/ \E r \in Reservations, status \in {"SETTLED", "EXPIRED"}, credits \in Nat :
       Charges(r, status, credits)
  \/ \E r \in Reservations : Releases(r)
  \/ \E type \in {"AI_USAGE", "PURCHASE", "ADJUSTMENT"}, credits \in Int,
        key \in Keys \cup {NoKey} : Posts(type, credits, key)

LEMMA SettleMoves ==
  ASSUME TypeOK, NEW r \in Reservations, NEW credits \in Nat, SettleReservation(r, credits)
  PROVE  Charges(r, "SETTLED", credits)
  BY DEF SettleReservation, Charges

LEMMA StepMoves == ASSUME TypeOK, Solvent, [Next]_vars PROVE Movement
<1>1. ASSUME NEW r \in Reservations, NEW perAttempt \in 0..MaxReservation,
             NEW attempts \in 1..MaxAttempts, ReserveForProviderCall(r, perAttempt, attempts)
      PROVE  Movement
  <2>1. /\ perAttempt * attempts <= MaxReservation
        /\ Reserve(r, perAttempt * attempts, perAttempt)
    BY <1>1 DEF ReserveForProviderCall
  <2>2. perAttempt * attempts \in Nat /\ perAttempt \in Nat
    BY CreditAssumption
  <2> DEFINE credits == perAttempt * attempts
  <2>3. credits \in Nat /\ credits <= MaxReservation /\ Reserve(r, credits, perAttempt)
    BY <2>1, <2>2
  <2> HIDE DEF credits
  <2>4. credits \in 0..MaxReservation
    BY <2>3, CreditAssumption
  <2> QED BY <2>2, <2>3, <2>4 DEF Movement, Reserves
<1>2. ASSUME NEW r \in Reservations, ReserveFixedCredits(r) PROVE Movement
  <2>1. PICK credits \in 1..MaxReservation : Reserve(r, credits, credits)
    BY <1>2 DEF ReserveFixedCredits
  <2>2. credits \in 0..MaxReservation /\ credits \in Nat
    BY CreditAssumption
  <2> QED BY <2>1, <2>2 DEF Movement, Reserves
<1>3. ASSUME NEW r \in Reservations, NEW a \in 1..MaxAttempts, NEW u \in UsageCredits,
             SettleReservationForUsage(r, a, u)
      PROVE  Movement
  BY <1>3, UsageChargeType, SettleMoves DEF SettleReservationForUsage, Movement
<1>4. ASSUME NEW r \in Reservations, SettleFixedCredits(r) PROVE Movement
  <2>1. reservation[r].reservedCredits \in Nat
    BY DEF TypeOK, Reservation
  <2> QED BY <1>4, <2>1, SettleMoves DEF SettleFixedCredits, Movement
<1>5. ASSUME NEW r \in Reservations, PassExpiry(r) PROVE Movement
  <2>1. Keeps
    BY <1>5 DEF PassExpiry, Keeps, TypeOK, Reservation
  <2> QED BY <2>1 DEF Movement
<1>6. ASSUME UNCHANGED wallet PROVE Movement
  BY <1>6 DEF wallet, Movement, Keeps, TypeOK
<1>7. ASSUME NEW q \in Requests, ReleaseReservation(q) PROVE Movement
  <2> DEFINE k == request[q].key
  <2>1. k \in Reservations
    BY <1>7 DEF ReleaseReservation, TypeOK, Request, Idle
  <2>2. UNCHANGED wallet \/ Releases(k)
    BY <1>7 DEF ReleaseReservation, Releases, wallet
  <2> HIDE DEF k
  <2> QED BY <2>1, <2>2, <1>6 DEF Movement
<1>8. ASSUME NEW q \in Requests, SettleForExecution(q) PROVE Movement
  <2> DEFINE k == request[q].key
             c == request[q].credits
  <2>1. k \in Executions /\ c \in Nat
    BY <1>8 DEF SettleForExecution, TypeOK, Request, Idle
  <2>2. \/ UNCHANGED wallet
        \/ /\ RowsOf(k) = {}
           /\ c = 0 \/ ~(Available < c)
           /\ Post("AI_USAGE", -c, k)
           /\ UNCHANGED reservation
    BY <1>8 DEF SettleForExecution, wallet, Refused
  <2> HIDE DEF k, c
  <2>3. Available \in Int
    BY HeldFinite DEF Available, TypeOK
  <2>4. UNCHANGED wallet \/ Posts("AI_USAGE", -c, k)
    BY <2>1, <2>2, <2>3 DEF Posts
  <2>5. -c \in Int /\ k \in Keys \cup {NoKey}
    BY <2>1 DEF Keys
  <2> QED BY <2>4, <2>5, <1>6 DEF Movement
<1>9. ASSUME NEW q \in Requests, GrantPurchase(q) PROVE Movement
  <2> DEFINE k == request[q].key
             c == request[q].credits
  <2>1. k \in Purchases /\ c \in Nat
    BY <1>9 DEF GrantPurchase, TypeOK, Request, Idle
  <2>2. \/ UNCHANGED wallet
        \/ RowsOf(k) = {} /\ Post("PURCHASE", c, k) /\ UNCHANGED reservation
    BY <1>9 DEF GrantPurchase, wallet, Refused
  <2> HIDE DEF k, c
  <2>3. UNCHANGED wallet \/ Posts("PURCHASE", c, k)
    BY <2>1, <2>2 DEF Posts
  <2>4. c \in Int /\ k \in Keys \cup {NoKey}
    BY <2>1 DEF Keys
  <2> QED BY <2>3, <2>4, <1>6 DEF Movement
<1>10. ASSUME NEW s \in Sweepers, NEW r \in listed[s], ExpireReservation(s, r) PROVE Movement
  <2> DEFINE n == reservation[r].reservedCredits
  <2>1. r \in Reservations /\ n \in Nat
    BY DEF TypeOK, Reservation
  <2>2. \/ UNCHANGED wallet
        \/ IsReserved(r) /\ Post("AI_USAGE", -n, r) /\ Close(r, "EXPIRED", n)
    BY <1>10 DEF ExpireReservation, Overdue
  <2>3. n <= aiCredits - (HeldCredits - n)
    BY <2>1, HeldFinite DEF Solvent, TypeOK
  <2>4. UNCHANGED wallet \/ Charges(r, "EXPIRED", n)
    BY <2>1, <2>2, <2>3 DEF Charges
  <2> QED BY <2>1, <2>4, <1>6 DEF Movement
<1>11. ASSUME NEW n \in AdminCredits, AdjustCredits(n) \/ AdjustCredits(-n) \/ ChargeFlat(n)
       PROVE  Movement
  <2>1. n \in Nat /\ -n \in Int /\ Available \in Int
    BY CreditAssumption, HeldFinite DEF Available, TypeOK
  <2>2. \/ Posts("ADJUSTMENT", n, NoKey)
        \/ Posts("ADJUSTMENT", -n, NoKey)
        \/ Posts("AI_USAGE", -n, NoKey)
    BY <1>11, <2>1 DEF AdjustCredits, ChargeFlat, Posts
  <2> QED BY <2>1, <2>2 DEF Movement
<1>12. ASSUME NEW q \in Requests,
              \/ \E r \in Reservations : ReadForRelease(q, r)
              \/ \E e \in Executions, c \in {0} \cup UsageCredits : ReadForSettlement(q, e, c)
              \/ \E p \in Purchases : ReadForGrant(q, p)
              \/ AbandonRequest(q)
       PROVE  Movement
  BY <1>6, <1>12 DEF ReadForRelease, ReadForSettlement, ReadForGrant, ReadBeforePosting,
    AbandonRequest, wallet
<1>13. ASSUME NEW s \in Sweepers, ListExpired(s) \/ AbortSweep(s) PROVE Movement
  BY <1>6, <1>13 DEF ListExpired, AbortSweep, wallet
<1>14. CASE UNCHANGED vars
  BY <1>6, <1>14 DEF vars, wallet
<1> QED
  BY <1>1, <1>2, <1>3, <1>4, <1>5, <1>7, <1>8, <1>9, <1>10, <1>11, <1>12, <1>13, <1>14
  DEF Next, ReservationStep, RequestStep, SweepStep, ExpireListed, AdminStep

-----------------------------------------------------------------------------
(* Solvency. *)

LEMMA SolventStep == ASSUME TypeOK, Solvent, Movement PROVE Solvent'
<1> USE DEF Solvent
<1>0. aiCredits \in Int /\ HeldCredits \in Nat
  BY HeldFinite DEF TypeOK
<1>1. CASE Keeps
  BY <1>1, HeldUnchanged DEF Keeps
<1>2. ASSUME NEW r \in Reservations, NEW c \in Nat, Reserves(r, c) PROVE Solvent'
  <2>1. c <= MaxReservation /\ \E p \in Nat : Reserve(r, c, p)
    BY <1>2, CreditAssumption DEF Reserves
  <2>2. HeldCredits' = HeldCredits + c
    BY <2>1, ReserveHolds
  <2>3. aiCredits' = aiCredits /\ aiCredits - HeldCredits >= c
    BY <2>1 DEF Reserve, Available
  <2> QED BY <1>0, <2>2, <2>3
<1>3. ASSUME NEW r \in Reservations, NEW status \in {"SETTLED", "EXPIRED"}, NEW c \in Nat,
             Charges(r, status, c)
      PROVE  Solvent'
  <2>1. HeldCredits' = HeldCredits - reservation[r].reservedCredits
    BY <1>3, CloseFrees DEF Charges
  <2>2. reservation[r].reservedCredits \in Nat
    BY DEF TypeOK, Reservation
  <2>3. aiCredits' = aiCredits - c
    BY <1>0, <1>3 DEF Charges, Post
  <2> QED BY <1>0, <1>3, <2>1, <2>2, <2>3 DEF Charges
<1>4. ASSUME NEW r \in Reservations, Releases(r) PROVE Solvent'
  <2>1. HeldCredits' = HeldCredits - reservation[r].reservedCredits
    BY <1>4, CloseFrees DEF Releases
  <2>2. reservation[r].reservedCredits \in Nat
    BY DEF TypeOK, Reservation
  <2> QED BY <1>0, <1>4, <2>1, <2>2 DEF Releases
<1>5. ASSUME NEW type, NEW c \in Int, NEW k, Posts(type, c, k) PROVE Solvent'
  <2>1. HeldCredits' = HeldCredits
    BY <1>5, HeldUnchanged DEF Posts
  <2>2. aiCredits' = aiCredits + c
    BY <1>5 DEF Posts, Post
  <2> QED BY <1>0, <1>5, <2>1, <2>2 DEF Posts, Available
<1> QED BY <1>1, <1>2, <1>3, <1>4, <1>5 DEF Movement

-----------------------------------------------------------------------------
(* The ledger. *)

\* A posted row is the last one and leaves the others as they are.
LEMMA PostAppends ==
  ASSUME TypeOK, NEW type, NEW credits \in Int, NEW key, Post(type, credits, key)
  PROVE  /\ Len(ledger) \in Nat
         /\ Len(ledger') = Len(ledger) + 1
         /\ \A i \in 1..Len(ledger) : ledger'[i] = ledger[i]
         /\ ledger'[Len(ledger) + 1].credits = credits
         /\ ledger'[Len(ledger) + 1].balanceAfter = aiCredits + credits
         /\ ledger'[Len(ledger) + 1].key = key
         /\ aiCredits' = aiCredits + credits
  BY DEF TypeOK, Post

LEMMA PostRows ==
  ASSUME TypeOK, NEW type, NEW credits \in Int, NEW key, Post(type, credits, key), NEW k
  PROVE  RowsOf(k)' = IF k = key THEN RowsOf(k) \cup {Len(ledger) + 1} ELSE RowsOf(k)
<1>1. \A i : i \in RowsOf(k)' <=> i \in 1..(Len(ledger) + 1) /\ ledger'[i].key = k
  BY PostAppends DEF RowsOf
<1>2. \A i \in 1..Len(ledger) : ledger'[i].key = ledger[i].key
  BY PostAppends
<1>3. ledger'[Len(ledger) + 1].key = key
  BY PostAppends
<1>4. Len(ledger) \in Nat
  BY PostAppends
<1> QED BY <1>1, <1>2, <1>3, <1>4 DEF RowsOf

LEMMA ExplainsStep ==
  ASSUME TypeOK, LedgerExplainsBalance,
         \/ UNCHANGED <<aiCredits, ledger>>
         \/ \E credits \in Int : \E type, key : Post(type, credits, key)
  PROVE  LedgerExplainsBalance'
<1>1. CASE UNCHANGED <<aiCredits, ledger>>
  BY <1>1 DEF LedgerExplainsBalance, BalanceBefore
<1>2. ASSUME NEW type, NEW key, NEW credits \in Int, Post(type, credits, key)
      PROVE  LedgerExplainsBalance'
  <2>1. /\ Len(ledger) \in Nat
        /\ Len(ledger') = Len(ledger) + 1
        /\ \A i \in 1..Len(ledger) : ledger'[i] = ledger[i]
        /\ ledger'[Len(ledger) + 1].credits = credits
        /\ ledger'[Len(ledger) + 1].balanceAfter = aiCredits + credits
        /\ aiCredits' = aiCredits + credits
    BY <1>2, PostAppends
  <2>2. \A i \in 1..(Len(ledger) + 1) : BalanceBefore(i)' = BalanceBefore(i)
    BY <2>1 DEF BalanceBefore
  <2>3. BalanceBefore(Len(ledger) + 1) = aiCredits
    BY DEF LedgerExplainsBalance
  <2>4. ASSUME NEW i \in 1..(Len(ledger) + 1)
        PROVE  ledger'[i].balanceAfter = BalanceBefore(i)' + ledger'[i].credits
    BY <2>1, <2>2, <2>3, <2>4 DEF LedgerExplainsBalance
  <2>5. aiCredits' = BalanceBefore(Len(ledger) + 1)'
    BY <2>1 DEF BalanceBefore
  <2> QED BY <2>1, <2>4, <2>5 DEF LedgerExplainsBalance
<1> QED BY <1>1, <1>2

LEMMA MovementPosts ==
  ASSUME TypeOK, Movement
  PROVE  \/ UNCHANGED <<aiCredits, ledger>>
         \/ \E credits \in Int : \E type, key : Post(type, credits, key)
<1>1. ASSUME NEW r \in Reservations, NEW status \in {"SETTLED", "EXPIRED"}, NEW c \in Nat,
             Charges(r, status, c)
      PROVE  \E credits \in Int : \E type, key : Post(type, credits, key)
  <2>1. -c \in Int /\ Post("AI_USAGE", -c, r)
    BY <1>1 DEF Charges
  <2> QED BY <2>1
<1>2. ASSUME NEW type, NEW c \in Int, NEW k, Posts(type, c, k)
      PROVE  \E credits \in Int : \E t, key : Post(t, credits, key)
  BY <1>2 DEF Posts
<1>3. ASSUME NEW r \in Reservations, NEW c \in Nat, Reserves(r, c)
      PROVE  UNCHANGED <<aiCredits, ledger>>
  BY <1>3 DEF Reserves, Reserve
<1> QED BY <1>1, <1>2, <1>3 DEF Movement, Keeps, Releases

-----------------------------------------------------------------------------
(* One row per key, and the rows of the reservations. *)

\* A key without a row gets its first one.
LEMMA FreshKey ==
  ASSUME TypeOK, AtMostOncePerKey, NEW type, NEW credits \in Int, NEW key,
         Post(type, credits, key), key = NoKey \/ RowsOf(key) = {}
  PROVE  AtMostOncePerKey'
<1>1. /\ Len(ledger) \in Nat
      /\ Len(ledger') = Len(ledger) + 1
      /\ \A i \in 1..Len(ledger) : ledger'[i] = ledger[i]
      /\ ledger'[Len(ledger) + 1].key = key
  BY PostAppends
<1>2. key # NoKey => \A i \in 1..Len(ledger) : ledger[i].key # key
  BY DEF RowsOf
<1>3. ASSUME NEW i \in 1..Len(ledger'), NEW j \in 1..Len(ledger'),
             ledger'[i].key = ledger'[j].key, ledger'[i].key # NoKey
      PROVE  i = j
  <2>1. CASE i \in 1..Len(ledger) /\ j \in 1..Len(ledger)
    BY <1>1, <1>3, <2>1 DEF AtMostOncePerKey
  <2>2. CASE i = Len(ledger) + 1 /\ j \in 1..Len(ledger)
    BY <1>1, <1>2, <1>3, <2>2
  <2>3. CASE i \in 1..Len(ledger) /\ j = Len(ledger) + 1
    BY <1>1, <1>2, <1>3, <2>3
  <2> QED BY <1>1, <2>1, <2>2, <2>3
<1> QED BY <1>3 DEF AtMostOncePerKey

LEMMA OnceStep ==
  ASSUME TypeOK, AtMostOncePerKey, ReservationsMatchLedger, Movement
  PROVE  AtMostOncePerKey'
<1>1. ASSUME UNCHANGED <<aiCredits, ledger>> PROVE AtMostOncePerKey'
  BY <1>1 DEF AtMostOncePerKey
<1>2. ASSUME NEW r \in Reservations, NEW c \in Nat, Reserves(r, c) PROVE AtMostOncePerKey'
  BY <1>1, <1>2 DEF Reserves, Reserve
<1>3. ASSUME NEW r \in Reservations, NEW status \in {"SETTLED", "EXPIRED"}, NEW c \in Nat,
             Charges(r, status, c)
      PROVE  AtMostOncePerKey'
  <2>1. RowsOf(r) = {}
    BY <1>3 DEF Charges, IsReserved, ReservationsMatchLedger
  <2>2. -c \in Int /\ Post("AI_USAGE", -c, r)
    BY <1>3 DEF Charges
  <2> QED BY <2>1, <2>2, FreshKey
<1>4. ASSUME NEW type, NEW c \in Int, NEW k, Posts(type, c, k) PROVE AtMostOncePerKey'
  BY <1>4, FreshKey DEF Posts
<1> QED BY <1>1, <1>2, <1>3, <1>4 DEF Movement, Keeps, Releases

LEMMA MatchStep ==
  ASSUME TypeOK, ReservationsMatchLedger, Movement
  PROVE  ReservationsMatchLedger'
<1> DEFINE Matches(x) == IF reservation[x].status \in {"SETTLED", "EXPIRED"}
                         THEN \E i \in RowsOf(x) : ledger[i].credits = -reservation[x].settledCredits
                         ELSE RowsOf(x) = {}
<1>0. \A x \in Reservations : Matches(x)
  BY DEF ReservationsMatchLedger
<1>1. ASSUME UNCHANGED ledger, NEW x \in Reservations,
             \/ reservation'[x].status = reservation[x].status
                /\ reservation'[x].settledCredits = reservation[x].settledCredits
             \/ /\ reservation[x].status \notin {"SETTLED", "EXPIRED"}
                /\ reservation'[x].status \notin {"SETTLED", "EXPIRED"}
      PROVE  Matches(x)'
  <2>1. RowsOf(x)' = RowsOf(x)
    BY <1>1 DEF RowsOf
  <2> QED BY <1>0, <1>1, <2>1
<1>2. CASE Keeps
  BY <1>1, <1>2 DEF Keeps, ReservationsMatchLedger
<1>3. ASSUME NEW r \in Reservations, NEW c \in Nat, Reserves(r, c)
      PROVE  ReservationsMatchLedger'
  <2>1. /\ reservation[r].status = "NONE" /\ reservation'[r].status = "RESERVED"
        /\ \A x \in Reservations \ {r} : reservation'[x] = reservation[x]
        /\ UNCHANGED ledger
    BY <1>3 DEF Reserves, Reserve, TypeOK
  <2> QED BY <1>1, <2>1 DEF ReservationsMatchLedger
<1>4. ASSUME NEW r \in Reservations, Releases(r) PROVE ReservationsMatchLedger'
  <2>1. /\ reservation[r].status = "RESERVED" /\ reservation'[r].status = "RELEASED"
        /\ \A x \in Reservations \ {r} : reservation'[x] = reservation[x]
        /\ UNCHANGED ledger
    BY <1>4 DEF Releases, Close, IsReserved, TypeOK, Reservation
  <2> QED BY <1>1, <2>1 DEF ReservationsMatchLedger
\* A row of another key leaves the rows of x and their charges alone.
<1>5. ASSUME NEW type, NEW c \in Int, NEW k, Post(type, c, k),
             NEW x \in Reservations, x # k, reservation'[x] = reservation[x]
      PROVE  Matches(x)'
  <2>1. RowsOf(x)' = RowsOf(x)
    BY <1>5, PostRows
  <2>2. \A i \in RowsOf(x) : ledger'[i] = ledger[i]
    BY <1>5, PostAppends DEF RowsOf
  <2> QED BY <1>0, <1>5, <2>1, <2>2
<1>6. ASSUME NEW r \in Reservations, NEW status \in {"SETTLED", "EXPIRED"}, NEW c \in Nat,
             Charges(r, status, c)
      PROVE  ReservationsMatchLedger'
  <2>1. -c \in Int /\ Post("AI_USAGE", -c, r)
    BY <1>6 DEF Charges
  <2>2. /\ reservation'[r].status = status /\ reservation'[r].settledCredits = c
        /\ \A x \in Reservations \ {r} : reservation'[x] = reservation[x]
    BY <1>6 DEF Charges, Close, TypeOK, Reservation
  <2>3. Len(ledger) + 1 \in RowsOf(r)' /\ ledger'[Len(ledger) + 1].credits = -c
    BY <2>1, PostRows, PostAppends
  <2>4. Matches(r)'
    BY <2>2, <2>3
  <2>5. ASSUME NEW x \in Reservations \ {r} PROVE Matches(x)'
    BY <1>5, <2>1, <2>2, <2>5
  <2> QED BY <2>4, <2>5 DEF ReservationsMatchLedger
<1>7. ASSUME NEW type, NEW c \in Int, NEW k, Posts(type, c, k)
      PROVE  ReservationsMatchLedger'
  <2>1. k \notin Reservations
    BY <1>7, CreditAssumption DEF Posts, Keys
  <2>2. Post(type, c, k) /\ \A x \in Reservations : reservation'[x] = reservation[x]
    BY <1>7 DEF Posts
  <2> QED BY <1>5, <2>1, <2>2 DEF ReservationsMatchLedger
<1> QED BY <1>2, <1>3, <1>4, <1>6, <1>7 DEF Movement

-----------------------------------------------------------------------------
(* The invariants as theorems of the specification. *)

WalletInvariant ==
  /\ TypeOK
  /\ Solvent
  /\ LedgerExplainsBalance
  /\ AtMostOncePerKey
  /\ ReservationsMatchLedger

LEMMA WalletInitially == Init => WalletInvariant
<1> SUFFICES ASSUME Init PROVE WalletInvariant
  OBVIOUS
<1>1. TypeOK
  BY CreditAssumption
  DEF Init, TypeOK, Unreserved, Reservation, Statuses, Idle, Request, Transaction
<1>2. HeldUnits = {}
  BY DEF Init, HeldUnits, IsReserved, Unreserved
<1>3. Solvent
  BY <1>2, FS_EmptySet DEF Solvent, HeldCredits, Init
<1>4. Len(ledger) = 0 /\ \A k : RowsOf(k) = {}
  BY DEF Init, RowsOf
<1>5. LedgerExplainsBalance /\ AtMostOncePerKey /\ ReservationsMatchLedger
  BY <1>4 DEF LedgerExplainsBalance, BalanceBefore, AtMostOncePerKey,
    ReservationsMatchLedger, Init, Unreserved
<1> QED BY <1>1, <1>3, <1>5 DEF WalletInvariant

LEMMA WalletInvariantStep == ASSUME WalletInvariant, [Next]_vars PROVE WalletInvariant'
<1> USE DEF WalletInvariant
<1>1. Movement
  BY StepMoves
<1>2. TypeOK'
  BY TypeStep
<1>3. Solvent'
  BY <1>1, SolventStep
<1>4. LedgerExplainsBalance'
  BY <1>1, MovementPosts, ExplainsStep
<1>5. AtMostOncePerKey' /\ ReservationsMatchLedger'
  BY <1>1, OnceStep, MatchStep
<1> QED BY <1>2, <1>3, <1>4, <1>5

LEMMA WalletInvariance == Spec => []WalletInvariant
  BY WalletInitially, WalletInvariantStep, PTL DEF Spec

\* The balance always covers the open reservations, for every number of them,
\* every price and every interleaving of calls, charges, grants and sweeps.
THEOREM Solvency == Spec => []Solvent
<1>1. WalletInvariant => Solvent
  BY DEF WalletInvariant
<1> QED BY <1>1, WalletInvariance, PTL

\* The ledger always adds up to the cached balance.
THEOREM LedgerIsComplete == Spec => []LedgerExplainsBalance
<1>1. WalletInvariant => LedgerExplainsBalance
  BY DEF WalletInvariant
<1> QED BY <1>1, WalletInvariance, PTL

\* No purchase is granted twice and no reservation or execution charged twice.
THEOREM Idempotence == Spec => []AtMostOncePerKey
<1>1. WalletInvariant => AtMostOncePerKey
  BY DEF WalletInvariant
<1> QED BY <1>1, WalletInvariance, PTL

\* What the reservation rows say was charged is what the ledger says.
THEOREM ReservationsAreExplained == Spec => []ReservationsMatchLedger
<1>1. WalletInvariant => ReservationsMatchLedger
  BY DEF WalletInvariant
<1> QED BY <1>1, WalletInvariance, PTL

-----------------------------------------------------------------------------
(* The wallet implements CreditWallet. *)

Opened == {r \in Reservations : reservation[r].status # "NONE"}
ClosedSet == {r \in Reservations : Closed(r)}
Posted == {k \in Keys : RowsOf(k) # {}}

\* The instance counts with the same operator.
LEMMA SameCardinality == \A S : Wallet!Cardinality(S) = Cardinality(S)
  BY DEF Wallet!Cardinality, Cardinality

LEMMA RefinesInit == Init => Wallet!Init
<1> SUFFICES ASSUME Init PROVE Wallet!Init
  OBVIOUS
<1>1. HeldUnits = {}
  BY DEF Init, HeldUnits, IsReserved, Unreserved
<1>2. \A k : RowsOf(k) = {}
  BY DEF Init, RowsOf
<1> QED BY <1>1, <1>2 DEF Init, Wallet!Init, Closed, Unreserved

\* Which sets change when the row of one reservation changes.
LEMMA SetsAfter ==
  ASSUME NEW r \in Reservations,
         \A x \in Reservations \ {r} : reservation'[x].status = reservation[x].status,
         reservation'[r].status \in {"RESERVED", "SETTLED", "RELEASED", "EXPIRED"}
  PROVE  /\ Opened' = Opened \cup {r}
         /\ ~Closed(r) /\ reservation'[r].status = "RESERVED" => ClosedSet' = ClosedSet
         /\ reservation'[r].status # "RESERVED" => ClosedSet' = ClosedSet \cup {r}
  BY DEF Opened, ClosedSet, Closed

LEMMA PostedAfter ==
  ASSUME TypeOK, NEW type, NEW credits \in Int, NEW key, Post(type, credits, key)
  PROVE  Posted' = IF key \in Keys THEN Posted \cup {key} ELSE Posted
<1>1. \A k : RowsOf(k)' # {} <=> RowsOf(k) # {} \/ k = key
  BY PostRows
<1> QED BY <1>1 DEF Posted

LEMMA PostedKept == ASSUME UNCHANGED ledger PROVE Posted' = Posted
  BY DEF Posted, RowsOf

LEMMA RefinesStep ==
  ASSUME WalletInvariant, Movement
  PROVE  Wallet!Next \/ UNCHANGED Wallet!vars
<1> USE DEF WalletInvariant
<1>0. aiCredits \in Int /\ HeldCredits \in Nat
  BY HeldFinite DEF TypeOK
<1>1. CASE Keeps
  <2>1. HeldUnits' = HeldUnits /\ aiCredits' = aiCredits /\ Posted' = Posted
    BY <1>1, HeldUnchanged, PostedKept DEF Keeps
  <2>2. Opened' = Opened /\ ClosedSet' = ClosedSet
    BY <1>1 DEF Keeps, Opened, ClosedSet, Closed
  <2> QED BY <2>1, <2>2 DEF Wallet!vars, Opened, ClosedSet, Posted
<1>2. ASSUME NEW r \in Reservations, NEW c \in Nat, Reserves(r, c) PROVE Wallet!TakeHold(r)
  <2>1. PICK p \in Nat : Reserve(r, c, p)
    BY <1>2 DEF Reserves
  <2>2. HeldUnits' = HeldUnits \cup ({r} \X (1..c))
    BY <1>2, <2>1, ReserveHolds, CreditAssumption DEF Reserves
  <2>3. c \in 0..(aiCredits - Cardinality(HeldUnits))
    BY <2>1, <1>0 DEF Reserve, Available, HeldCredits
  <2>4. r \notin Opened /\ ~Closed(r)
    BY <2>1 DEF Reserve, Opened, Closed
  <2>5. /\ reservation'[r].status = "RESERVED"
        /\ \A x \in Reservations \ {r} : reservation'[x] = reservation[x]
    BY <2>1 DEF Reserve, TypeOK
  <2>6. Opened' = Opened \cup {r} /\ ClosedSet' = ClosedSet
    BY <2>4, <2>5, SetsAfter
  <2>7. Posted' = Posted /\ aiCredits' = aiCredits
    BY <2>1, PostedKept DEF Reserve
  <2> QED BY <2>2, <2>3, <2>4, <2>6, <2>7, SameCardinality
          DEF Wallet!TakeHold, Wallet!Free, Opened, ClosedSet, Posted
\* What the two ways of closing a reservation have in common.
<1>3. ASSUME NEW r \in Reservations, IsReserved(r), NEW c,
             NEW status \in {"SETTLED", "RELEASED", "EXPIRED"}, Close(r, status, c)
      PROVE  /\ r \in Opened \ ClosedSet
             /\ ClosedSet' = ClosedSet \cup {r} /\ Opened' = Opened
             /\ Wallet!HeldBy(r) = Own(r)
             /\ HeldUnits' = HeldUnits \ Wallet!HeldBy(r)
             /\ RowsOf(r) = {}
  <2>1. /\ reservation'[r].status = status
        /\ \A x \in Reservations \ {r} : reservation'[x] = reservation[x]
    BY <1>3 DEF Close, TypeOK, Reservation
  <2>2. r \in Opened \ ClosedSet
    BY <1>3 DEF Opened, ClosedSet, Closed, IsReserved
  <2>3. ClosedSet' = ClosedSet \cup {r} /\ Opened' = Opened
    BY <2>1, <2>2, SetsAfter, SMTT(30)
  <2>4. Wallet!HeldBy(r) = Own(r)
    BY <1>3, OwnUnits DEF Wallet!HeldBy
  <2>5. HeldUnits' = HeldUnits \ Own(r)
    BY <1>3, CloseFrees
  <2>6. RowsOf(r) = {}
    BY <1>3 DEF ReservationsMatchLedger, IsReserved
  <2> QED BY <2>2, <2>3, <2>4, <2>5, <2>6
<1>4. ASSUME NEW r \in Reservations, NEW status \in {"SETTLED", "EXPIRED"}, NEW c \in Nat,
             Charges(r, status, c)
      PROVE  Wallet!CloseHold(r)
  <2>1. IsReserved(r) /\ Close(r, status, c) /\ Post("AI_USAGE", -c, r) /\ -c \in Int
    BY <1>4 DEF Charges
  <2>2. /\ r \in Opened \ ClosedSet
        /\ ClosedSet' = ClosedSet \cup {r} /\ Opened' = Opened
        /\ Wallet!HeldBy(r) = Own(r)
        /\ HeldUnits' = HeldUnits \ Wallet!HeldBy(r)
        /\ RowsOf(r) = {}
    BY <1>3, <2>1
  <2>3. r \notin Posted /\ Posted' = Posted \cup {r}
    BY <2>1, <2>2, PostedAfter DEF Posted, Keys
  <2>4. Cardinality(Wallet!HeldBy(r)) = reservation[r].reservedCredits
        /\ reservation[r].reservedCredits \in Nat
    BY <2>1, <2>2, OwnUnits DEF TypeOK, Reservation
  <2>5. c \in 0..(aiCredits - Cardinality(HeldUnits) + Cardinality(Wallet!HeldBy(r)))
    BY <1>0, <1>4, <2>4 DEF Charges, HeldCredits
  <2>6. aiCredits' = aiCredits - c
    BY <1>0, <2>1 DEF Post
  <2> QED BY <2>2, <2>3, <2>5, <2>6, SameCardinality
          DEF Wallet!CloseHold, Wallet!Free, Opened, ClosedSet, Posted
<1>5. ASSUME NEW r \in Reservations, Releases(r) PROVE Wallet!CloseHold(r)
  <2>1. IsReserved(r) /\ Close(r, "RELEASED", 0) /\ UNCHANGED <<aiCredits, ledger>>
    BY <1>5 DEF Releases
  <2>2. /\ r \in Opened \ ClosedSet
        /\ ClosedSet' = ClosedSet \cup {r} /\ Opened' = Opened
        /\ HeldUnits' = HeldUnits \ Wallet!HeldBy(r)
    BY <1>3, <2>1
  <2>3. Posted' = Posted
    BY <2>1, PostedKept
  <2> QED BY <2>1, <2>2, <2>3 DEF Wallet!CloseHold, Opened, ClosedSet, Posted
<1>6. ASSUME NEW type, NEW c \in Int, NEW k, Posts(type, c, k)
      PROVE  Wallet!Deposit \/ Wallet!Withdraw
  <2>1. HeldUnits' = HeldUnits /\ Opened' = Opened /\ ClosedSet' = ClosedSet
    BY <1>6, HeldUnchanged DEF Posts, Opened, ClosedSet, Closed
  <2>2. aiCredits' = aiCredits + c
    BY <1>6 DEF Posts, Post
  <2>3. Posted' = IF k \in Keys THEN Posted \cup {k} ELSE Posted
    BY <1>6, PostedAfter DEF Posts
  <2>4. \/ Posted' = Posted
        \/ k \in (Purchases \cup Executions) \ Posted /\ Posted' = Posted \cup {k}
    BY <1>6, <2>3, CreditAssumption DEF Posts, Posted, Keys
  <2>5. Wallet!Mark
    BY <2>4 DEF Wallet!Mark, Posted
  <2>6. CASE c >= 0
    BY <1>0, <2>1, <2>2, <2>5, <2>6 DEF Wallet!Deposit, Opened, ClosedSet
  <2>7. CASE c < 0
    <3> DEFINE n == -c
    <3>1. n \in 0..(aiCredits - Cardinality(HeldUnits)) /\ aiCredits' = aiCredits - n
      BY <1>0, <1>6, <2>2, <2>7 DEF Posts, Available, HeldCredits
    <3> HIDE DEF n
    <3> QED BY <3>1, <2>1, <2>5, SameCardinality DEF Wallet!Withdraw, Wallet!Free, Opened, ClosedSet
  <2> QED BY <2>6, <2>7
<1> QED BY <1>1, <1>2, <1>4, <1>5, <1>6 DEF Movement, Wallet!Next

\* AiCreditsService keeps the promises of a prepaid wallet: every step of its
\* transactions is a step of CreditWallet or changes nothing that it shows.
THEOREM WalletImplemented == Spec => ImplementsWallet
<1>1. WalletInvariant /\ [Next]_vars => [Wallet!Next]_(Wallet!vars)
  BY StepMoves, RefinesStep DEF WalletInvariant
<1> QED BY <1>1, RefinesInit, WalletInvariance, PTL DEF Spec, ImplementsWallet, Wallet!Spec

\* A settled, released or expired reservation never changes again.
THEOREM ClosedStays == Spec => ClosedForGood
<1> DEFINE Stays == \A r \in Reservations : Closed(r) => reservation'[r] = reservation[r]
<1>1. ASSUME TypeOK, Movement PROVE Stays
  <2>1. ASSUME NEW r \in Reservations, NEW c \in Nat, Reserves(r, c) PROVE Stays
    BY <2>1, <1>1 DEF Reserves, Reserve, Closed, TypeOK
  <2>2. ASSUME NEW r \in Reservations, IsReserved(r), NEW status, NEW c, Close(r, status, c)
        PROVE  Stays
    BY <2>2, <1>1 DEF Close, Closed, IsReserved, TypeOK
  <2> QED BY <1>1, <2>1, <2>2
          DEF Movement, Keeps, Charges, Releases, Posts, Closed, IsReserved
<1>2. UNCHANGED vars => Stays
  BY DEF vars
<1>3. WalletInvariant /\ [Next]_vars => [Stays]_vars
  BY <1>1, <1>2, StepMoves DEF WalletInvariant
<1> QED BY <1>3, WalletInvariance, PTL DEF Spec, ClosedForGood
=============================================================================
