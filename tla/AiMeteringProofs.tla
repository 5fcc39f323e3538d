--------------------------- MODULE AiMeteringProofs ---------------------------
(***************************************************************************)
(* Proofs about metered AI calls for every number of turns, reservations,  *)
(* attempts and calls, every price, and crashes at any step.               *)
(***************************************************************************)
EXTENDS AiMetering, AiCreditsProofs

-----------------------------------------------------------------------------
(* The invariant. *)

HasCall(t) == turn[t].step \in {"attempt", "settle", "release", "releasing"}
PerAttempt(r) == reservation[r].maxCreditsPerAttempt

\* The hold covers all that the provider may have done, and the charge of a closed one too.
HoldCovers(r) ==
  /\ cost[r] \in Nat
  /\ reservation[r].status = "NONE" => cost[r] = 0
  /\ reservation[r].status # "NONE" =>
       /\ reservation[r].reservedCredits = PerAttempt(r) * MaxAttempts
       /\ cost[r] <= reservation[r].reservedCredits
  /\ reservation[r].status = "EXPIRED" =>
       reservation[r].settledCredits = reservation[r].reservedCredits
  /\ reservation[r].status \in {"SETTLED", "RELEASED"} => cost[r] <= reservation[r].settledCredits

\* What a turn knows of the provider's work while its call is not over.
CallKnows(t) ==
  HasCall(t) =>
    /\ turn[t].current \in Reservations
    /\ reservation[turn[t].current].status \in {"RESERVED", "EXPIRED"}
    /\ At(t, "attempt") =>
         /\ cost[turn[t].current] <= PerAttempt(turn[t].current) * (turn[t].attempt - 1)
         /\ turn[t].uncertainPriorAttempt \/ cost[turn[t].current] = 0
    /\ At(t, "settle") =>
         /\ turn[t].usage \in UsageCredits
         /\ cost[turn[t].current] <= UsageCharge(turn[t].current, turn[t].attempt, turn[t].usage)
    /\ turn[t].step \in {"release", "releasing"} => cost[turn[t].current] = 0

OwnCalls ==
  \A t, u \in Turns : HasCall(t) /\ HasCall(u) /\ turn[t].current = turn[u].current => t = u

\* Only turns release reservations and post rows of executions, their own.
RequestIsTurns(q) ==
  /\ request[q].op = "release" =>
       q \in Turns /\ At(q, "releasing") /\ request[q].key = turn[q].current
  /\ request[q].op = "settleForExecution" =>
       q \in Turns /\ At(q, "posting") /\ request[q].key = q

\* A turn with an answered call has its reservations linked, one without posts its own row.
ChargedOneWay(t) ==
  /\ At(t, "idle") => turn[t].calls = 0
  /\ At(t, "call") => turn[t].calls < MaxIterations
  /\ turn[t].step \in {"post", "posting"} => turn[t].reservationIds = {}
  /\ RowsOf(t) # {} => At(t, "done") /\ turn[t].reservationIds = {}
  /\ \A r \in Reservations : execution[r] = t => At(t, "done") /\ turn[t].reservationIds # {}

MeteringInvariant ==
  /\ MeteringTypeOK
  /\ \A r \in Reservations : HoldCovers(r)
  /\ \A t \in Turns : CallKnows(t) /\ ChargedOneWay(t)
  /\ OwnCalls
  /\ \A q \in Requests : RequestIsTurns(q)

LEMMA TurnIds ==
  /\ Turns \subseteq Requests /\ Turns \subseteq Executions /\ NoKey \notin Turns
  /\ \A t \in Turns : t \notin Reservations /\ t \notin Purchases
  BY CreditAssumption, MeteringAssumption DEF Keys

LEMMA MeteringInitially == MeteringInit => MeteringInvariant
<1> SUFFICES ASSUME MeteringInit PROVE MeteringInvariant
  OBVIOUS
<1>1. TypeOK /\ \A k : RowsOf(k) = {}
  <2>1. TypeOK
    BY WalletInitially DEF MeteringInit, WalletInvariant
  <2> QED BY <2>1 DEF MeteringInit, Init, RowsOf
<1>2. NewTurn \in Turn
  BY CreditAssumption, MeteringAssumption DEF NewTurn, Turn, Steps
<1>3. MeteringTypeOK
  BY <1>1, <1>2 DEF MeteringInit, MeteringTypeOK
<1>4. \A r \in Reservations : HoldCovers(r)
  BY DEF MeteringInit, Init, HoldCovers, Unreserved
<1>5. \A t \in Turns : turn[t] = NewTurn /\ ~HasCall(t)
  BY DEF MeteringInit, NewTurn, HasCall
<1>6. \A t \in Turns : CallKnows(t) /\ ChargedOneWay(t)
  BY <1>1, <1>5, TurnIds DEF MeteringInit, CallKnows, ChargedOneWay, At, NewTurn
<1>7. OwnCalls
  BY <1>5 DEF OwnCalls
<1>8. \A q \in Requests : RequestIsTurns(q)
  BY DEF MeteringInit, Init, Idle, RequestIsTurns
<1> QED BY <1>3, <1>4, <1>6, <1>7, <1>8 DEF MeteringInvariant

-----------------------------------------------------------------------------
(* Turns use the wallet by its own operations. *)

LEMMA QuoteIsBounded ==
  ASSUME NEW quote \in Quotes, quote * MaxAttempts <= MaxReservation
  PROVE  quote \in 0..MaxReservation /\ MaxAttempts \in 1..MaxAttempts
<1>1. quote \in Nat /\ MaxAttempts \in Nat \ {0} /\ MaxReservation \in Nat
  BY CreditAssumption, MeteringAssumption
<1>2. \A x, y \in Nat : y >= 1 => x <= x * y
  OBVIOUS
<1>3. quote <= quote * MaxAttempts
  BY <1>1, <1>2
<1>4. \A x, y, z \in Nat : x <= y /\ y <= z => x <= z
  OBVIOUS
<1>5. quote * MaxAttempts \in Nat
  BY <1>1
<1> QED BY <1>1, <1>3, <1>4, <1>5

LEMMA MeteringWalletStep ==
  ASSUME MeteringInvariant, [MeteringNext]_allVars
  PROVE  [Next]_vars
<1>1. ASSUME NEW t \in Turns, TurnStep(t) PROVE [Next]_vars
  <2>0. t \in Requests /\ t \in Executions /\ (HasCall(t) => turn[t].current \in Reservations)
    BY TurnIds DEF MeteringInvariant, CallKnows
  <2>1. CASE ReserveCall(t)
    <3>1. PICK r \in Reservations, quote \in Quotes :
            ReserveForProviderCall(r, quote, MaxAttempts)
      BY <2>1 DEF ReserveCall
    <3>2. quote \in 0..MaxReservation /\ MaxAttempts \in 1..MaxAttempts
      BY <3>1, QuoteIsBounded DEF ReserveForProviderCall
    <3>3. ReservationStep(r)
      BY <3>1, <3>2 DEF ReservationStep
    <3> QED BY <3>3 DEF Next
  <2>2. CASE SettleCall(t)
    <3>1. /\ turn[t].current \in Reservations
          /\ turn[t].attempt \in 1..MaxAttempts /\ turn[t].usage \in UsageCredits
      BY <2>2 DEF SettleCall, HasCall, At, MeteringInvariant, MeteringTypeOK, Turn, CallKnows
    <3>2. CASE SettleReservationForUsage(turn[t].current, turn[t].attempt, turn[t].usage)
      <4>1. ReservationStep(turn[t].current)
        BY <3>1, <3>2 DEF ReservationStep
      <4> QED BY <3>1, <4>1 DEF Next
    <3> QED BY <2>2, <3>2 DEF SettleCall
  <2>3. CASE ReleaseCall(t)
    <3>1. CASE ReadForRelease(t, turn[t].current)
      BY <2>0, <2>3, <3>1 DEF ReleaseCall, HasCall, At, Next, RequestStep
    <3> QED BY <2>3, <3>1 DEF ReleaseCall
  <2>4. CASE CommitRelease(t) \/ CommitPost(t)
    BY <2>0, <2>4 DEF CommitRelease, CommitPost, Next, RequestStep
  <2>5. CASE PostExecution(t)
    BY <2>0, <2>5 DEF PostExecution, Next, RequestStep
  <2>6. CASE Crash(t)
    <3>1. UNCHANGED vars \/ AbandonRequest(t)
      BY <2>6 DEF Crash
    <3> QED BY <2>0, <3>1 DEF Next, RequestStep
  <2>7. CASE \/ Begin(t) \/ RefuseCall(t) \/ AttemptAnswered(t) \/ AttemptLost(t)
             \/ AttemptRateLimited(t) \/ AttemptRejected(t) \/ Record(t) \/ RecordFails(t)
    BY <2>7 DEF Begin, RefuseCall, AttemptAnswered, AttemptLost, AttemptRateLimited,
                AttemptRejected, Record, RecordFails
  <2> QED BY <1>1, <2>1, <2>2, <2>3, <2>4, <2>5, <2>6, <2>7 DEF TurnStep
<1>2. CASE WalletStep
  <2>1. CASE \E r \in Reservations : PassExpiry(r)
    BY <2>1 DEF Next, ReservationStep
  <2>2. CASE \E s \in Sweepers : SweepStep(s)
    BY <2>2 DEF Next
  <2>3. CASE \E q \in Requests \ Turns : (\E p \in Purchases : ReadForGrant(q, p)) \/ GrantPurchase(q)
    BY <2>3 DEF Next, RequestStep
  <2> QED BY <1>2, <2>1, <2>2, <2>3 DEF WalletStep
<1>3. CASE UNCHANGED allVars
  BY <1>3 DEF allVars
<1> QED BY <1>1, <1>2, <1>3 DEF MeteringNext

-----------------------------------------------------------------------------
(* The steps of a turn: what each does to the turn itself and what it touches. *)

SameHold(r) == reservation'[r] = reservation[r] /\ cost'[r] = cost[r]

\* What a step of t has to keep; it touches a free reservation or that of its own call.
StepOK(t) ==
  /\ turn'[t] \in Turn
  /\ CallKnows(t)' /\ ChargedOneWay(t)' /\ RequestIsTurns(t)'
  /\ HasCall(t)' => \/ HasCall(t) /\ turn'[t].current = turn[t].current
                    \/ reservation[turn'[t].current].status = "NONE"
  /\ \A r \in Reservations :
       \/ SameHold(r)
       \/ /\ HoldCovers(r)'
          /\ reservation[r].status = "NONE" \/ (HasCall(t) /\ r = turn[t].current)
  /\ \A u \in Turns \ {t} : RowsOf(u)' = RowsOf(u)
  /\ \A r \in Reservations : execution'[r] \in {execution[r], t}

\* The fields of a turn other than its step stay.
Stays(t) ==
  /\ turn'[t].current = turn[t].current
  /\ turn'[t].reservationIds = turn[t].reservationIds
  /\ turn'[t].attempt = turn[t].attempt
  /\ turn'[t].uncertainPriorAttempt = turn[t].uncertainPriorAttempt
  /\ turn'[t].usage = turn[t].usage
  /\ turn'[t].calls = turn[t].calls

LEMMA GotoStays ==
  ASSUME MeteringTypeOK, NEW t \in Turns, NEW step \in Steps, Goto(t, step)
  PROVE  turn'[t] \in Turn /\ turn'[t].step = step /\ Stays(t)
<1> DEFINE moved == [turn[t] EXCEPT !.step = step]
<1>1. turn \in [Turns -> Turn] /\ turn[t] \in Turn
  BY DEF MeteringTypeOK
<1>2. turn' = [turn EXCEPT ![t] = moved]
  BY <1>1 DEF Goto
<1>3. /\ moved \in Turn /\ moved.step = step
      /\ moved.current = turn[t].current
      /\ moved.reservationIds = turn[t].reservationIds
      /\ moved.attempt = turn[t].attempt
      /\ moved.uncertainPriorAttempt = turn[t].uncertainPriorAttempt
      /\ moved.usage = turn[t].usage /\ moved.calls = turn[t].calls
  BY <1>1 DEF Turn
<1> HIDE DEF moved
<1>4. turn'[t] = moved
  BY <1>1, <1>2
<1> QED BY <1>3, <1>4 DEF Stays

\* A turn that is not done has been charged in no way.
LEMMA NotCharged ==
  ASSUME MeteringInvariant, NEW t \in Turns, ~At(t, "done")
  PROVE  RowsOf(t) = {} /\ \A r \in Reservations : execution[r] # t
  BY DEF MeteringInvariant, ChargedOneWay

\* Steps between calls: nothing happens to the wallet or at the provider.
LEMMA QuietStep ==
  ASSUME MeteringInvariant, NEW t \in Turns, ~At(t, "done"),
         UNCHANGED <<reservation, ledger, execution, cost>>,
         turn'[t] \in Turn, ~HasCall(t)',
         RequestIsTurns(t)',
         turn'[t].step = "idle" => FALSE,
         turn'[t].step = "call" => turn'[t].calls < MaxIterations,
         turn'[t].step \in {"post", "posting"} => turn'[t].reservationIds = {}
  PROVE  StepOK(t)
<1>1. \A k : RowsOf(k)' = RowsOf(k)
  BY DEF RowsOf
<1>2. RowsOf(t) = {} /\ \A r \in Reservations : execution[r] # t
  BY NotCharged
<1>3. ChargedOneWay(t)'
  BY <1>1, <1>2 DEF ChargedOneWay, At
<1>4. CallKnows(t)'
  BY DEF CallKnows
<1> QED BY <1>1, <1>3, <1>4 DEF StepOK, SameHold

\* A request that stays is right as long as it is none of the two that a turn waits for.
LEMMA IdleRequest ==
  ASSUME MeteringInvariant, NEW t \in Turns, UNCHANGED request,
         turn[t].step \notin {"releasing", "posting"}
  PROVE  RequestIsTurns(t)'
  BY TurnIds DEF MeteringInvariant, RequestIsTurns, At

LEMMA DroppedRequest ==
  ASSUME MeteringInvariant, NEW t \in Turns, request'[t] = Idle
  PROVE  RequestIsTurns(t)'
  BY DEF RequestIsTurns, Idle

LEMMA BetweenCalls ==
  ASSUME MeteringInvariant, NEW t \in Turns,
         \/ Begin(t) \/ RefuseCall(t) \/ RecordFails(t) \/ PostExecution(t) \/ Crash(t)
  PROVE  StepOK(t)
<1>0. MeteringTypeOK /\ {"call", "record", "done", "posting", "crashed"} \subseteq Steps
  BY DEF MeteringInvariant, Steps
<1>1. /\ ~At(t, "done")
      /\ UNCHANGED <<reservation, ledger, execution, cost>>
  BY DEF Begin, RefuseCall, RecordFails, PostExecution, ReadForSettlement, ReadBeforePosting,
         Crash, AbandonRequest, At, vars
<1>2. ChargedOneWay(t)
  BY DEF MeteringInvariant
<1>3. CASE Begin(t)
  <2>1. turn'[t] \in Turn /\ turn'[t].step = "call" /\ Stays(t) /\ turn[t].step = "idle"
    BY <1>0, <1>3, GotoStays DEF Begin, At
  <2>2. turn'[t].calls < MaxIterations /\ ~HasCall(t)'
    BY <1>2, <2>1, MeteringAssumption DEF ChargedOneWay, Stays, HasCall, At
  <2>3. RequestIsTurns(t)'
    BY <1>3, <2>1, IdleRequest DEF Begin, vars
  <2> QED BY <1>1, <2>1, <2>2, <2>3, QuietStep
<1>4. CASE RefuseCall(t) \/ RecordFails(t)
  <2>1. /\ turn'[t] \in Turn /\ turn'[t].step \in {"record", "done"}
        /\ turn[t].step \in {"call", "record"}
    BY <1>0, <1>4, GotoStays DEF RefuseCall, RecordFails, Fail, At
  <2>2. RequestIsTurns(t)'
    BY <1>4, <2>1, IdleRequest DEF RefuseCall, RecordFails, vars
  <2>3. ~HasCall(t)'
    BY <2>1 DEF HasCall
  <2> QED BY <1>1, <2>1, <2>2, <2>3, QuietStep
<1>5. CASE PostExecution(t)
  <2>1. CASE UNCHANGED vars /\ Goto(t, "done")
    <3>1. turn'[t] \in Turn /\ turn'[t].step = "done" /\ turn[t].step = "post"
      BY <1>0, <1>5, <2>1, GotoStays DEF PostExecution, At
    <3>2. RequestIsTurns(t)'
      BY <2>1, <3>1, IdleRequest DEF vars
    <3>3. ~HasCall(t)'
      BY <3>1 DEF HasCall
    <3> QED BY <1>1, <3>1, <3>2, <3>3, QuietStep
  <2>2. CASE ReadForSettlement(t, t, 0) /\ Goto(t, "posting")
    <3>1. /\ turn'[t] \in Turn /\ turn'[t].step = "posting" /\ turn[t].step = "post"
          /\ Stays(t)
      BY <1>0, <1>5, <2>2, GotoStays DEF PostExecution, At
    <3>2. turn'[t].reservationIds = {} /\ ~HasCall(t)'
      BY <1>2, <3>1 DEF ChargedOneWay, Stays, HasCall
    <3>3. request' = [request EXCEPT ![t] = [op |-> "settleForExecution", key |-> t, credits |-> 0]]
      BY <2>2 DEF ReadForSettlement, ReadBeforePosting
    <3>4. request \in [Requests -> Request] /\ t \in Requests
      BY TurnIds DEF MeteringInvariant, MeteringTypeOK, TypeOK
    <3>5. request'[t] = [op |-> "settleForExecution", key |-> t, credits |-> 0]
      BY <3>3, <3>4
    <3>6. RequestIsTurns(t)'
      BY <3>1, <3>5 DEF RequestIsTurns, At
    <3> QED BY <1>1, <3>1, <3>2, <3>6, QuietStep
  <2> QED BY <1>5, <2>1, <2>2 DEF PostExecution
<1>6. CASE Crash(t)
  <2>1. turn'[t] \in Turn /\ turn'[t].step = "crashed"
    BY <1>0, <1>6, GotoStays DEF Crash
  <2>2. request'[t] = Idle
    <3>1. request \in [Requests -> Request] /\ t \in Requests
      BY TurnIds DEF MeteringInvariant, MeteringTypeOK, TypeOK
    <3>2. (request[t] = Idle /\ UNCHANGED request) \/ request' = [request EXCEPT ![t] = Idle]
      BY <1>6 DEF Crash, AbandonRequest, vars
    <3> QED BY <3>1, <3>2
  <2>3. ~HasCall(t)'
    BY <2>1 DEF HasCall
  <2> QED BY <1>1, <2>1, <2>2, <2>3, QuietStep, DroppedRequest
<1> QED BY <1>3, <1>4, <1>5, <1>6

\* The link of the reservations; a turn without any goes on to post.
LEMMA RecordStep ==
  ASSUME MeteringInvariant, NEW t \in Turns, Record(t)
  PROVE  StepOK(t)
<1>0. MeteringTypeOK /\ {"done", "post"} \subseteq Steps
  BY DEF MeteringInvariant, Steps
<1> DEFINE ids == turn[t].reservationIds
<1>1. /\ turn[t].step = "record" /\ UNCHANGED <<vars, cost>>
      /\ Goto(t, IF ids # {} THEN "done" ELSE "post")
      /\ \A r \in Reservations : execution'[r] = IF r \in ids /\ execution[r] = NoKey
                                                 THEN t ELSE execution[r]
  BY DEF Record, At
<1>2. turn'[t] \in Turn /\ Stays(t) /\ turn'[t].step = IF ids # {} THEN "done" ELSE "post"
  BY <1>0, <1>1, GotoStays
<1>3. \A k : RowsOf(k)' = RowsOf(k)
  BY <1>1 DEF RowsOf, vars
<1>4. RowsOf(t) = {} /\ \A r \in Reservations : execution[r] # t
  BY <1>1, NotCharged DEF At
<1>5. ChargedOneWay(t)'
  BY <1>1, <1>2, <1>3, <1>4 DEF ChargedOneWay, Stays, At
<1>6. ~HasCall(t)' /\ RequestIsTurns(t)'
  BY <1>1, <1>2, IdleRequest DEF HasCall, vars
<1> QED BY <1>1, <1>2, <1>3, <1>5, <1>6 DEF StepOK, CallKnows, SameHold, vars

-----------------------------------------------------------------------------
(* The steps of a call that is under way. *)

LEMMA AttemptArithmetic ==
  ASSUME NEW m \in Nat, NEW a \in Nat, NEW b \in Nat, NEW c \in Nat, NEW d \in Nat,
         1 <= a, a <= b, d <= m, c <= m * (a - 1)
  PROVE  /\ c + d \in Nat
         /\ c + d <= m * a /\ c + d <= m * b
         /\ c + d <= m * ((a + 1) - 1)
         /\ c + d <= m * (a - 1) + d
<1>1. m * (a - 1) + m = m * a
  OBVIOUS
<1>2. \A x, y \in Nat : x <= y => m * x <= m * y
  OBVIOUS
<1>3. m * a <= m * b
  BY <1>2
<1>4. (a + 1) - 1 = a
  OBVIOUS
<1> DEFINE p == m * (a - 1)
           q == m * a
           s == m * b
<1>5. p \in Nat /\ q \in Nat /\ s \in Nat
  OBVIOUS
<1>6. p + m = q /\ q <= s /\ c <= p
  BY <1>1, <1>3
<1> HIDE DEF p, q, s
<1>7. c + d \in Nat /\ c + d <= q /\ c + d <= s /\ c + d <= p + d
  BY <1>5, <1>6
<1> QED BY <1>4, <1>7 DEF p, q, s

\* What there is of a call.
LEMMA CallShape ==
  ASSUME MeteringInvariant, NEW t \in Turns, HasCall(t)
  PROVE  /\ turn[t] \in Turn /\ turn[t].current \in Reservations
         /\ turn[t].attempt \in 1..MaxAttempts
         /\ PerAttempt(turn[t].current) \in Nat
         /\ cost \in [Reservations -> Nat]
         /\ reservation[turn[t].current].status \in {"RESERVED", "EXPIRED"}
         /\ reservation[turn[t].current].reservedCredits = PerAttempt(turn[t].current) * MaxAttempts
<1>1. turn[t] \in Turn /\ turn[t].current \in Reservations
  BY DEF MeteringInvariant, MeteringTypeOK, CallKnows
<1>2. reservation[turn[t].current] \in Reservation /\ cost \in [Reservations -> Nat]
  BY <1>1 DEF MeteringInvariant, MeteringTypeOK, TypeOK
<1>3. HoldCovers(turn[t].current) /\ CallKnows(t)
  BY <1>1 DEF MeteringInvariant
<1>4. turn[t].attempt \in 1..MaxAttempts /\ PerAttempt(turn[t].current) \in Nat
  BY <1>1, <1>2 DEF Turn, PerAttempt, Reservation
<1> QED BY <1>1, <1>2, <1>3, <1>4 DEF HoldCovers, CallKnows

LEMMA CallStep ==
  ASSUME MeteringInvariant, NEW t \in Turns, HasCall(t),
         UNCHANGED <<reservation, ledger, execution>>,
         turn'[t] \in Turn, turn'[t].current = turn[t].current,
         turn'[t].step \in {"attempt", "settle", "release", "releasing", "record"},
         \A r \in Reservations \ {turn[t].current} : cost'[r] = cost[r],
         cost'[turn[t].current] \in Nat,
         cost'[turn[t].current] <= PerAttempt(turn[t].current) * MaxAttempts,
         CallKnows(t)', RequestIsTurns(t)'
  PROVE  StepOK(t)
<1> DEFINE c == turn[t].current
<1>1. /\ c \in Reservations /\ reservation[c].status \in {"RESERVED", "EXPIRED"}
      /\ HoldCovers(c)
  BY CallShape DEF MeteringInvariant
<1>2. HoldCovers(c)'
  BY <1>1 DEF HoldCovers, PerAttempt
<1>3. \A k : RowsOf(k)' = RowsOf(k)
  BY DEF RowsOf
<1>4. RowsOf(t) = {} /\ \A r \in Reservations : execution[r] # t
  BY NotCharged DEF HasCall, At
<1>5. ChargedOneWay(t)'
  BY <1>3, <1>4 DEF ChargedOneWay, At
<1>6. ASSUME NEW r \in Reservations
      PROVE  SameHold(r) \/ (HoldCovers(r)' /\ r = c)
  BY <1>2 DEF SameHold
<1> QED BY <1>3, <1>5, <1>6 DEF StepOK

LEMMA AttemptSteps ==
  ASSUME MeteringInvariant, NEW t \in Turns,
         \/ AttemptAnswered(t) \/ AttemptLost(t) \/ AttemptRateLimited(t) \/ AttemptRejected(t)
  PROVE  StepOK(t)
<1> DEFINE c == turn[t].current
           m == PerAttempt(c)
           a == turn[t].attempt
<1>0. /\ turn[t].step = "attempt" /\ HasCall(t)
      /\ UNCHANGED <<reservation, ledger, execution, request>>
  BY DEF AttemptAnswered, AttemptLost, AttemptRateLimited, AttemptRejected, At, HasCall, vars
<1>1. /\ turn \in [Turns -> Turn] /\ turn[t] \in Turn
      /\ MeteringTypeOK /\ {"record", "release"} \subseteq Steps
  BY DEF MeteringInvariant, MeteringTypeOK, Steps
<1>2. /\ c \in Reservations /\ a \in 1..MaxAttempts /\ m \in Nat
      /\ cost \in [Reservations -> Nat] /\ cost[c] \in Nat /\ MaxAttempts \in Nat
      /\ reservation[c].status \in {"RESERVED", "EXPIRED"}
  BY <1>0, CallShape, CreditAssumption
<1>3. /\ cost[c] <= m * (a - 1)
      /\ turn[t].uncertainPriorAttempt \/ cost[c] = 0
  BY <1>0 DEF MeteringInvariant, CallKnows, At
<1>4. RequestIsTurns(t)'
  BY <1>0, IdleRequest
<1>5. UNCHANGED reservation /\ reservation[c].maxCreditsPerAttempt = m
  BY <1>0 DEF PerAttempt
<1>6. ASSUME NEW d \in Nat, Owed(t, d)
      PROVE  /\ cost'[c] = cost[c] + d
             /\ \A r \in Reservations \ {c} : cost'[r] = cost[r]
             /\ cost'[c] \in Nat /\ cost'[c] <= m * a /\ cost'[c] <= m * MaxAttempts
             /\ cost'[c] <= m * ((a + 1) - 1) /\ cost'[c] <= m * (a - 1) + d
  <2>1. cost' = [cost EXCEPT ![c] = @ + d] /\ d <= m
    BY <1>6 DEF Owed, PerAttempt
  <2>2. cost'[c] = cost[c] + d /\ \A r \in Reservations \ {c} : cost'[r] = cost[r]
    BY <1>2, <2>1
  <2>3. 1 <= a /\ a <= MaxAttempts /\ a \in Nat
    BY <1>2
  <2> HIDE DEF c, m, a
  <2> QED BY <1>2, <1>3, <2>1, <2>2, <2>3, AttemptArithmetic
<1>7. UNCHANGED cost => /\ \A r \in Reservations \ {c} : cost'[r] = cost[r]
                        /\ cost'[c] \in Nat /\ cost'[c] <= m * MaxAttempts
                        /\ cost'[c] = cost[c]
  <2>1. 1 <= a /\ a <= MaxAttempts /\ a \in Nat /\ 0 \in Nat /\ 0 <= m
    BY <1>2
  <2> HIDE DEF c, m, a
  <2>2. cost[c] + 0 <= m * MaxAttempts
    BY <1>2, <1>3, <2>1, AttemptArithmetic
  <2> QED BY <1>2, <2>2
\* The turn goes on to record or to release.
<1>8. ASSUME NEW uncertain \in BOOLEAN, GiveUp(t, uncertain),
             ~uncertain => cost'[c] = 0,
             \A r \in Reservations \ {c} : cost'[r] = cost[r],
             cost'[c] \in Nat, cost'[c] <= m * MaxAttempts
      PROVE  StepOK(t)
  <2>1. CASE uncertain
    <3>1. turn'[t] \in Turn /\ turn'[t].step = "record" /\ turn'[t].current = c
      BY <1>1, <1>8, <2>1, GotoStays DEF GiveUp, Fail, Stays
    <3>2. CallKnows(t)'
      BY <3>1 DEF CallKnows, HasCall
    <3> QED BY <1>0, <1>4, <1>8, <3>1, <3>2, CallStep
  <2>2. CASE ~uncertain
    <3>1. turn'[t] \in Turn /\ turn'[t].step = "release" /\ turn'[t].current = c
      BY <1>1, <1>8, <2>2, GotoStays DEF GiveUp, Stays
    <3>2. CallKnows(t)'
      BY <1>2, <1>5, <1>8, <2>2, <3>1 DEF CallKnows, HasCall, At
    <3> QED BY <1>0, <1>4, <1>8, <3>1, <3>2, CallStep
  <2> QED BY <2>1, <2>2
<1>9. CASE AttemptAnswered(t)
  <2>1. PICK usage \in UsageCredits :
          Owed(t, usage) /\ turn' = [turn EXCEPT ![t].step = "settle", ![t].usage = usage]
    BY <1>9 DEF AttemptAnswered
  <2>2. usage \in Nat
    BY CreditAssumption
  <2> DEFINE next == [turn[t] EXCEPT !.step = "settle", !.usage = usage]
  <2>3. turn'[t] = next
    BY <1>1, <2>1
  <2>4. /\ next \in Turn /\ next.step = "settle" /\ next.current = c
        /\ next.attempt = a /\ next.usage = usage
    BY <1>1, <2>2 DEF Turn, Steps
  <2> HIDE DEF next
  <2>5. CallKnows(t)'
    <3>1. UsageCharge(turn[t].current, turn[t].attempt, turn[t].usage)' = m * (a - 1) + usage
      BY <1>5, <2>3, <2>4 DEF UsageCharge, PerAttempt
    <3>2. cost'[c] <= m * (a - 1) + usage
      BY <1>6, <2>1, <2>2
    <3> HIDE DEF m, a
    <3> QED BY <1>2, <1>5, <2>3, <2>4, <3>1, <3>2 DEF CallKnows, HasCall, At
  <2> QED BY <1>0, <1>4, <1>6, <2>1, <2>2, <2>3, <2>4, <2>5, CallStep
<1>10. CASE AttemptLost(t)
  <2>1. PICK credits \in {0} \cup UsageCredits : Owed(t, credits)
    BY <1>10 DEF AttemptLost
  <2>2. credits \in Nat
    BY CreditAssumption
  <2>3. CASE a < MaxAttempts
    <3> DEFINE next == [turn[t] EXCEPT !.attempt = a + 1, !.uncertainPriorAttempt = TRUE]
    <3>1. turn' = [turn EXCEPT ![t].attempt = @ + 1, ![t].uncertainPriorAttempt = TRUE]
      BY <1>10, <2>3 DEF AttemptLost
    <3>2. turn'[t] = next
      BY <1>1, <3>1
    <3>3. a + 1 \in 1..MaxAttempts
      BY <1>2, <2>3
    <3>4. /\ next \in Turn /\ next.step = "attempt" /\ next.current = c
          /\ next.attempt = a + 1 /\ next.uncertainPriorAttempt
      BY <1>0, <1>1, <3>3 DEF Turn
    <3> HIDE DEF next
    <3>5. CallKnows(t)'
      <4>1. cost'[c] <= m * ((a + 1) - 1)
        BY <1>6, <2>1, <2>2
      <4> HIDE DEF m, a
      <4> QED BY <1>2, <1>5, <3>2, <3>4, <4>1 DEF CallKnows, HasCall, At, PerAttempt
    <3> QED BY <1>0, <1>4, <1>6, <2>1, <2>2, <3>2, <3>4, <3>5, CallStep
  <2>4. CASE ~(a < MaxAttempts)
    <3>1. GiveUp(t, TRUE)
      BY <1>10, <2>4 DEF AttemptLost
    <3> QED BY <1>6, <1>8, <2>1, <2>2, <3>1
  <2> QED BY <2>3, <2>4
<1>11. CASE AttemptRateLimited(t) \/ AttemptRejected(t)
  <2>1. UNCHANGED cost
    BY <1>11 DEF AttemptRateLimited, AttemptRejected
  <2>2. turn[t].uncertainPriorAttempt \in BOOLEAN
    BY <1>1 DEF Turn
  <2>3. CASE GiveUp(t, turn[t].uncertainPriorAttempt)
    BY <1>3, <1>7, <1>8, <2>1, <2>2, <2>3
  <2>4. CASE a < MaxAttempts /\ turn' = [turn EXCEPT ![t].attempt = @ + 1]
    <3> DEFINE next == [turn[t] EXCEPT !.attempt = a + 1]
    <3>2. turn'[t] = next
      BY <1>1, <2>4
    <3>3. a + 1 \in 1..MaxAttempts
      BY <1>2, <2>4
    <3>4. /\ next \in Turn /\ next.step = "attempt" /\ next.current = c
          /\ next.attempt = a + 1
          /\ next.uncertainPriorAttempt = turn[t].uncertainPriorAttempt
      BY <1>0, <1>1, <3>3 DEF Turn
    <3> HIDE DEF next
    <3>5. CallKnows(t)'
      <4>1. cost[c] <= m * ((a + 1) - 1)
        <5>1. 1 <= a /\ a <= MaxAttempts /\ a \in Nat /\ 0 \in Nat /\ 0 <= m
          BY <1>2
        <5> HIDE DEF c, m, a
        <5>2. cost[c] + 0 <= m * ((a + 1) - 1)
          BY <1>2, <1>3, <5>1, AttemptArithmetic
        <5> QED BY <1>2, <5>2
      <4> HIDE DEF m, a
      <4> QED BY <1>2, <1>3, <1>5, <2>1, <3>2, <3>4, <4>1 DEF CallKnows, HasCall, At, PerAttempt
    <3> QED BY <1>0, <1>4, <1>7, <2>1, <3>2, <3>4, <3>5, CallStep
  <2> QED BY <1>11, <2>3, <2>4 DEF AttemptRateLimited, AttemptRejected
<1> QED BY <1>9, <1>10, <1>11

\* A release is asked for; the provider is owed nothing.
LEMMA ReleaseCallStep ==
  ASSUME MeteringInvariant, NEW t \in Turns, ReleaseCall(t)
  PROVE  StepOK(t)
<1> DEFINE c == turn[t].current
<1>0. MeteringTypeOK /\ {"releasing", "record"} \subseteq Steps
  BY DEF MeteringInvariant, Steps
<1>1. /\ turn[t].step = "release" /\ HasCall(t)
      /\ UNCHANGED <<reservation, ledger, execution, cost>>
  BY DEF ReleaseCall, At, HasCall, vars, ReadForRelease
<1>2. /\ c \in Reservations /\ reservation[c].status \in {"RESERVED", "EXPIRED"}
      /\ cost[c] = 0 /\ cost[c] \in Nat /\ 0 <= PerAttempt(c) * MaxAttempts
  <2>1. cost[c] = 0
    BY <1>1 DEF MeteringInvariant, CallKnows
  <2>2. PerAttempt(c) * MaxAttempts \in Nat
    BY <1>1, CallShape, CreditAssumption
  <2> QED BY <1>1, <2>1, <2>2, CallShape
<1>3. CASE ReadForRelease(t, c) /\ Goto(t, "releasing")
  <2>1. turn'[t] \in Turn /\ turn'[t].step = "releasing" /\ turn'[t].current = c
    BY <1>0, <1>3, GotoStays DEF Stays
  <2>2. request'[t] = [op |-> "release", key |-> c, credits |-> 0]
    <3>1. request \in [Requests -> Request] /\ t \in Requests
      BY <1>0, TurnIds DEF MeteringTypeOK, TypeOK
    <3> QED BY <1>3, <3>1 DEF ReadForRelease
  <2>3. RequestIsTurns(t)'
    BY <2>1, <2>2 DEF RequestIsTurns, At
  <2>4. CallKnows(t)'
    BY <1>1, <1>2, <2>1 DEF CallKnows, HasCall, At
  <2> QED BY <1>1, <1>2, <2>1, <2>3, <2>4, CallStep
<1>4. CASE UNCHANGED vars /\ Fail(t)
  <2>1. turn'[t] \in Turn /\ turn'[t].step = "record" /\ turn'[t].current = c
    BY <1>0, <1>4, GotoStays DEF Fail, Stays
  <2>2. RequestIsTurns(t)' /\ CallKnows(t)'
    BY <1>1, <1>4, <2>1, IdleRequest DEF CallKnows, HasCall, vars
  <2> QED BY <1>1, <1>2, <2>1, <2>2, CallStep
<1> QED BY <1>3, <1>4 DEF ReleaseCall

-----------------------------------------------------------------------------
(* The steps that change the wallet. *)

LEMMA ReserveCallStep ==
  ASSUME MeteringInvariant, NEW t \in Turns, ReserveCall(t)
  PROVE  StepOK(t)
<1>0. /\ turn[t].step = "call" /\ turn \in [Turns -> Turn] /\ turn[t] \in Turn
      /\ reservation \in [Reservations -> Reservation]
  BY DEF ReserveCall, At, MeteringInvariant, MeteringTypeOK, TypeOK
<1>1. PICK r \in Reservations, quote \in Quotes :
        /\ Reserve(r, quote * MaxAttempts, quote)
        /\ turn' = [turn EXCEPT ![t].step = "attempt", ![t].current = r, ![t].attempt = 1,
                                ![t].uncertainPriorAttempt = FALSE, ![t].calls = @ + 1]
  BY DEF ReserveCall, ReserveForProviderCall
<1> DEFINE next == [turn[t] EXCEPT !.step = "attempt", !.current = r, !.attempt = 1,
                                   !.uncertainPriorAttempt = FALSE, !.calls = @ + 1]
           hold == [status |-> "RESERVED", reservedCredits |-> quote * MaxAttempts,
                    settledCredits |-> 0, maxCreditsPerAttempt |-> quote, overdue |-> FALSE]
<1>2. /\ reservation[r].status = "NONE" /\ reservation' = [reservation EXCEPT ![r] = hold]
      /\ UNCHANGED <<ledger, request, execution, cost>>
  BY <1>1 DEF Reserve, ReserveCall
<1>3. /\ quote \in Nat /\ quote * MaxAttempts \in Nat /\ MaxAttempts \in Nat \ {0}
      /\ quote * (1 - 1) = 0 /\ 0 <= quote * MaxAttempts
  <2>1. quote \in Nat /\ MaxAttempts \in Nat \ {0}
    BY CreditAssumption, MeteringAssumption
  <2> QED BY <2>1
<1>4. turn[t].calls + 1 \in 0..MaxIterations
  <2>1. turn[t].calls < MaxIterations /\ turn[t].calls \in 0..MaxIterations
    BY <1>0 DEF MeteringInvariant, ChargedOneWay, At, Turn
  <2> QED BY <2>1, MeteringAssumption
<1>5. turn'[t] = next
  BY <1>0, <1>1
<1>6. /\ next \in Turn /\ next.step = "attempt" /\ next.current = r /\ next.attempt = 1
      /\ ~next.uncertainPriorAttempt
  <2>1. 1 \in 1..MaxAttempts
    BY <1>3
  <2> QED BY <1>0, <1>4, <2>1 DEF Turn, Steps
<1>7. /\ reservation'[r] = hold
      /\ \A x \in Reservations \ {r} : reservation'[x] = reservation[x]
  BY <1>0, <1>2
<1>8. /\ hold.status = "RESERVED" /\ hold.reservedCredits = quote * MaxAttempts
      /\ hold.maxCreditsPerAttempt = quote
  OBVIOUS
<1> HIDE DEF next, hold
<1>9. cost[r] = 0
  BY <1>2 DEF MeteringInvariant, HoldCovers
<1>10. HoldCovers(r)'
  BY <1>2, <1>3, <1>7, <1>8, <1>9 DEF HoldCovers, PerAttempt
<1>11. CallKnows(t)'
  BY <1>2, <1>3, <1>5, <1>6, <1>7, <1>8, <1>9 DEF CallKnows, HasCall, At, PerAttempt
<1>12. \A k : RowsOf(k)' = RowsOf(k)
  BY <1>2 DEF RowsOf
<1>13. RowsOf(t) = {} /\ \A x \in Reservations : execution[x] # t
  BY <1>0, NotCharged DEF At
<1>14. ChargedOneWay(t)'
  BY <1>2, <1>5, <1>6, <1>12, <1>13 DEF ChargedOneWay, At
<1>15. RequestIsTurns(t)'
  BY <1>0, <1>2, IdleRequest
<1>16. ASSUME NEW x \in Reservations PROVE SameHold(x) \/ (HoldCovers(x)' /\ x = r)
  BY <1>2, <1>7, <1>10 DEF SameHold
<1> QED BY <1>2, <1>5, <1>6, <1>11, <1>12, <1>14, <1>15, <1>16 DEF StepOK

\* A reservation is closed with a charge that covers the cost; its key is no turn's.
LEMMA ClosedHold ==
  ASSUME MeteringInvariant, NEW r \in Reservations, NEW credits \in Nat,
         NEW status \in {"SETTLED", "RELEASED"},
         reservation[r].status # "NONE", cost[r] <= credits,
         Close(r, status, credits), UNCHANGED cost
  PROVE  /\ HoldCovers(r)'
         /\ \A x \in Reservations \ {r} : SameHold(x)
<1> DEFINE closed == [reservation[r] EXCEPT !.status = status, !.settledCredits = credits]
<1>1. reservation \in [Reservations -> Reservation] /\ HoldCovers(r)
  BY DEF MeteringInvariant, MeteringTypeOK, TypeOK
<1>2. reservation' = [reservation EXCEPT ![r] = closed]
  BY <1>1 DEF Close
<1>3. /\ closed.status = status /\ closed.settledCredits = credits
      /\ closed.reservedCredits = reservation[r].reservedCredits
      /\ closed.maxCreditsPerAttempt = reservation[r].maxCreditsPerAttempt
  BY <1>1 DEF Reservation
<1> HIDE DEF closed
<1>4. reservation'[r] = closed /\ \A x \in Reservations \ {r} : reservation'[x] = reservation[x]
  BY <1>1, <1>2
<1>5. HoldCovers(r)'
  BY <1>1, <1>3, <1>4 DEF HoldCovers, PerAttempt
<1> QED BY <1>4, <1>5 DEF SameHold

LEMMA SettleCallStep ==
  ASSUME MeteringInvariant, NEW t \in Turns, SettleCall(t)
  PROVE  StepOK(t)
<1> DEFINE c == turn[t].current
           charge == UsageCharge(c, turn[t].attempt, turn[t].usage)
<1>0. turn[t].step = "settle" /\ HasCall(t) /\ UNCHANGED <<execution, cost>> /\ UNCHANGED request
  BY DEF SettleCall, At, HasCall, vars, SettleReservationForUsage, SettleReservation
<1>1. /\ turn \in [Turns -> Turn] /\ turn[t] \in Turn /\ TypeOK
      /\ c \in Reservations /\ turn[t].attempt \in 1..MaxAttempts
      /\ reservation[c].status # "NONE"
  BY <1>0, CallShape DEF MeteringInvariant, MeteringTypeOK
<1>2. turn[t].usage \in UsageCredits /\ cost[c] <= charge
  BY <1>0 DEF MeteringInvariant, CallKnows, At
<1>3. charge \in Nat /\ -charge \in Int
  BY <1>1, <1>2, UsageChargeType
\* The turn.
<1>4. PICK step \in {"record", "call"} :
        /\ step = "call" => turn[t].calls < MaxIterations
        /\ turn' = [turn EXCEPT ![t].step = step, ![t].reservationIds = @ \cup {c}]
  BY DEF SettleCall, AfterAnswer
<1> DEFINE next == [turn[t] EXCEPT !.step = step, !.reservationIds = @ \cup {c}]
<1>5. turn'[t] = next
  BY <1>1, <1>4
<1>6. next \in Turn /\ next.step = step /\ next.calls = turn[t].calls
  BY <1>1 DEF Turn, Steps
<1> HIDE DEF next
<1>7. ~HasCall(t)' /\ CallKnows(t)' /\ RequestIsTurns(t)'
  BY <1>0, <1>5, <1>6, IdleRequest DEF CallKnows, HasCall
\* The wallet.
<1>8. \A u \in Turns : RowsOf(u)' = RowsOf(u)
  <2>1. CASE UNCHANGED vars
    BY <2>1 DEF vars, RowsOf
  <2>2. CASE SettleReservationForUsage(c, turn[t].attempt, turn[t].usage)
    <3>1. Post("AI_USAGE", -charge, c)
      BY <2>2 DEF SettleReservationForUsage, SettleReservation
    <3> HIDE DEF charge
    <3> QED BY <1>1, <1>3, <3>1, PostRows, TurnIds
  <2> QED BY <2>1, <2>2 DEF SettleCall
<1>9. \A r \in Reservations : SameHold(r) \/ (HoldCovers(r)' /\ r = c)
  <2>1. CASE UNCHANGED vars
    BY <1>0, <2>1 DEF vars, SameHold
  <2>2. CASE SettleReservationForUsage(c, turn[t].attempt, turn[t].usage)
    <3>1. Close(c, "SETTLED", charge)
      BY <2>2 DEF SettleReservationForUsage, SettleReservation
    <3> HIDE DEF charge
    <3> QED BY <1>0, <1>1, <1>2, <1>3, <3>1, ClosedHold
  <2> QED BY <2>1, <2>2 DEF SettleCall
<1>10. RowsOf(t) = {} /\ \A r \in Reservations : execution[r] # t
  BY <1>0, NotCharged DEF At
<1>11. ChargedOneWay(t)'
  BY <1>0, <1>4, <1>5, <1>6, <1>8, <1>10 DEF ChargedOneWay, At
<1> QED BY <1>0, <1>5, <1>6, <1>7, <1>8, <1>9, <1>11 DEF StepOK

\* The release is committed, or dropped; either way the turn goes on to record.
LEMMA CommitReleaseStep ==
  ASSUME MeteringInvariant, NEW t \in Turns, CommitRelease(t)
  PROVE  StepOK(t)
<1> DEFINE c == turn[t].current
<1>0. /\ turn[t].step = "releasing" /\ HasCall(t)
      /\ UNCHANGED <<ledger, execution, cost>>
      /\ MeteringTypeOK /\ "record" \in Steps
  BY DEF CommitRelease, At, HasCall, ReleaseReservation, AbandonRequest, MeteringInvariant, Steps
<1>1. turn'[t] \in Turn /\ turn'[t].step = "record"
  BY <1>0, GotoStays DEF CommitRelease, Fail
<1>2. /\ c \in Reservations /\ reservation[c].status # "NONE" /\ cost[c] = 0
  <2>1. cost[c] = 0
    BY <1>0 DEF MeteringInvariant, CallKnows
  <2> QED BY <1>0, <2>1, CallShape
<1>3. request'[t] = Idle
  <2>1. request \in [Requests -> Request] /\ t \in Requests
    BY <1>0, TurnIds DEF MeteringTypeOK, TypeOK
  <2> QED BY <2>1 DEF CommitRelease, ReleaseReservation, AbandonRequest
<1>4. UNCHANGED reservation \/ Close(c, "RELEASED", 0)
  <2>1. CASE AbandonRequest(t)
    BY <2>1 DEF AbandonRequest
  <2>2. CASE ReleaseReservation(t)
    <3>1. request[t].op = "release" /\ t \in Requests
      BY <2>2, TurnIds DEF ReleaseReservation
    <3>2. request[t].key = c
      BY <3>1 DEF MeteringInvariant, RequestIsTurns
    <3> QED BY <2>2, <3>2 DEF ReleaseReservation
  <2> QED BY <2>1, <2>2 DEF CommitRelease
<1>5. \A r \in Reservations : SameHold(r) \/ (HoldCovers(r)' /\ r = c)
  <2>1. CASE UNCHANGED reservation
    BY <1>0, <2>1 DEF SameHold
  <2>2. CASE Close(c, "RELEASED", 0)
    <3>1. cost[c] <= 0
      BY <1>2
    <3> QED BY <1>0, <1>2, <2>2, <3>1, ClosedHold
  <2> QED BY <1>4, <2>1, <2>2
<1>6. \A k : RowsOf(k)' = RowsOf(k)
  BY <1>0 DEF RowsOf
<1>7. RowsOf(t) = {} /\ \A r \in Reservations : execution[r] # t
  BY <1>0, NotCharged DEF At
<1>8. ChargedOneWay(t)' /\ CallKnows(t)' /\ ~HasCall(t)'
  BY <1>0, <1>1, <1>6, <1>7 DEF ChargedOneWay, At, CallKnows, HasCall
<1> QED BY <1>0, <1>1, <1>3, <1>5, <1>6, <1>8, DroppedRequest DEF StepOK

\* The execution's own row, for a turn without an answered call.
LEMMA CommitPostStep ==
  ASSUME MeteringInvariant, NEW t \in Turns, CommitPost(t)
  PROVE  StepOK(t)
<1>0. /\ turn[t].step = "posting" /\ turn[t].reservationIds = {}
      /\ UNCHANGED <<reservation, execution, cost>>
      /\ MeteringTypeOK /\ TypeOK /\ "done" \in Steps /\ ChargedOneWay(t)
  BY DEF CommitPost, At, SettleForExecution, AbandonRequest, MeteringInvariant, MeteringTypeOK,
         Steps, ChargedOneWay
<1>1. turn'[t] \in Turn /\ turn'[t].step = "done" /\ turn'[t].reservationIds = {}
  BY <1>0, GotoStays DEF CommitPost, Stays
<1>2. request'[t] = Idle /\ request[t] \in Request
  <2>1. request \in [Requests -> Request] /\ t \in Requests
    BY <1>0, TurnIds DEF TypeOK
  <2> QED BY <2>1 DEF CommitPost, SettleForExecution, AbandonRequest
<1>3. \A u \in Turns \ {t} : RowsOf(u)' = RowsOf(u)
  <2>1. CASE UNCHANGED ledger
    BY <2>1 DEF RowsOf
  <2>2. CASE SettleForExecution(t) /\ ~UNCHANGED ledger
    <3>1. request[t].op = "settleForExecution" /\ t \in Requests
      BY <2>2, TurnIds DEF SettleForExecution
    <3>2. request[t].key = t
      BY <3>1 DEF MeteringInvariant, RequestIsTurns
    <3>3. -request[t].credits \in Int
      BY <1>2 DEF Request, Idle
    <3>4. Post("AI_USAGE", -request[t].credits, t)
      BY <2>2, <3>2 DEF SettleForExecution
    <3> QED BY <1>0, <3>3, <3>4, PostRows
  <2> QED BY <2>1, <2>2 DEF CommitPost, AbandonRequest
<1>4. \A r \in Reservations : execution[r] # t
  BY <1>0, NotCharged DEF At
<1>5. ChargedOneWay(t)' /\ CallKnows(t)' /\ ~HasCall(t)'
  BY <1>0, <1>1, <1>4 DEF ChargedOneWay, At, CallKnows, HasCall
<1> QED BY <1>0, <1>1, <1>2, <1>3, <1>5, DroppedRequest DEF StepOK, SameHold

-----------------------------------------------------------------------------
(* The invariant is inductive. *)

LEMMA TurnStepOK ==
  ASSUME MeteringInvariant, NEW t \in Turns, TurnStep(t)
  PROVE  StepOK(t)
<1>1. CASE \/ Begin(t) \/ RefuseCall(t) \/ RecordFails(t) \/ PostExecution(t) \/ Crash(t)
  BY <1>1, BetweenCalls
<1>2. CASE \/ AttemptAnswered(t) \/ AttemptLost(t) \/ AttemptRateLimited(t) \/ AttemptRejected(t)
  BY <1>2, AttemptSteps
<1> QED BY <1>1, <1>2, ReserveCallStep, SettleCallStep, ReleaseCallStep, CommitReleaseStep,
           RecordStep, CommitPostStep DEF TurnStep

\* A step of t is seen in the local state and in the request of t only.
Frame(t) ==
  /\ turn' = [u \in Turns |-> turn'[u]]
  /\ \A u \in Turns \ {t} : turn'[u] = turn[u]
  /\ \A q \in Requests \ {t} : request'[q] = request[q]
  /\ cost' = [r \in Reservations |-> cost'[r]]
  /\ execution' = [r \in Reservations |-> execution'[r]]

LEMMA TurnFrame ==
  ASSUME MeteringInvariant, NEW t \in Turns, TurnStep(t)
  PROVE  Frame(t)
<1>1. /\ turn \in [Turns -> Turn] /\ cost \in [Reservations -> Nat]
      /\ execution \in [Reservations -> Turns \cup {NoKey}]
      /\ request \in [Requests -> Request] /\ t \in Requests
  BY TurnIds DEF MeteringInvariant, MeteringTypeOK, TypeOK
<1>2. /\ turn' = [u \in Turns |-> turn'[u]]
      /\ \A u \in Turns \ {t} : turn'[u] = turn[u]
  <2>1. ASSUME NEW step, Goto(t, step)
        PROVE  turn' = [u \in Turns |-> turn'[u]] /\ \A u \in Turns \ {t} : turn'[u] = turn[u]
    BY <1>1, <2>1 DEF Goto
  <2>2. CASE ReserveCall(t)
    BY <1>1, <2>2 DEF ReserveCall
  <2>3. CASE AttemptAnswered(t)
    BY <1>1, <2>3 DEF AttemptAnswered
  <2>4. CASE AttemptLost(t)
    BY <1>1, <2>1, <2>4 DEF AttemptLost, GiveUp, Fail
  <2>5. CASE AttemptRateLimited(t) \/ AttemptRejected(t)
    BY <1>1, <2>1, <2>5 DEF AttemptRateLimited, AttemptRejected, GiveUp, Fail
  <2>6. CASE SettleCall(t)
    BY <1>1, <2>6 DEF SettleCall, AfterAnswer
  <2>7. CASE Begin(t) \/ RefuseCall(t) \/ ReleaseCall(t) \/ CommitRelease(t)
    BY <2>1, <2>7 DEF Begin, RefuseCall, ReleaseCall, CommitRelease, Fail
  <2>8. CASE Record(t) \/ RecordFails(t) \/ PostExecution(t) \/ CommitPost(t) \/ Crash(t)
    BY <2>1, <2>8 DEF Record, RecordFails, PostExecution, CommitPost, Crash
  <2> QED BY <2>2, <2>3, <2>4, <2>5, <2>6, <2>7, <2>8 DEF TurnStep
<1>3. \A q \in Requests \ {t} : request'[q] = request[q]
  <2>1. CASE UNCHANGED request
    BY <2>1
  <2>2. CASE \E x : request' = [request EXCEPT ![t] = x]
    BY <1>1, <2>2
  <2>3. UNCHANGED request \/ \E x : request' = [request EXCEPT ![t] = x]
    <3>1. CASE \/ Begin(t) \/ RefuseCall(t) \/ AttemptAnswered(t) \/ AttemptLost(t)
               \/ AttemptRateLimited(t) \/ AttemptRejected(t) \/ Record(t) \/ RecordFails(t)
      BY <3>1 DEF Begin, RefuseCall, AttemptAnswered, AttemptLost, AttemptRateLimited,
                  AttemptRejected, Record, RecordFails, vars
    <3>2. CASE ReserveCall(t) \/ SettleCall(t)
      BY <3>2 DEF ReserveCall, ReserveForProviderCall, Reserve, SettleCall,
                  SettleReservationForUsage, SettleReservation, vars
    <3>3. CASE ReleaseCall(t) \/ CommitRelease(t)
      BY <3>3 DEF ReleaseCall, ReadForRelease, CommitRelease, ReleaseReservation,
                  AbandonRequest, vars
    <3>4. CASE PostExecution(t) \/ CommitPost(t) \/ Crash(t)
      BY <3>4 DEF PostExecution, ReadForSettlement, ReadBeforePosting, CommitPost,
                  SettleForExecution, Crash, AbandonRequest, vars
    <3> QED BY <3>1, <3>2, <3>3, <3>4 DEF TurnStep
  <2> QED BY <2>1, <2>2, <2>3
<1>4. cost' = [r \in Reservations |-> cost'[r]]
  <2>1. ASSUME NEW credits, Owed(t, credits) PROVE cost' = [r \in Reservations |-> cost'[r]]
    BY <1>1, <2>1 DEF Owed
  <2>2. CASE AttemptAnswered(t) \/ AttemptLost(t)
    BY <2>1, <2>2 DEF AttemptAnswered, AttemptLost
  <2>3. UNCHANGED cost => cost' = [r \in Reservations |-> cost'[r]]
    BY <1>1
  <2> QED BY <2>2, <2>3 DEF TurnStep, Begin, ReserveCall, RefuseCall, AttemptRateLimited,
             AttemptRejected, SettleCall, ReleaseCall, CommitRelease, Record, RecordFails,
             PostExecution, CommitPost, Crash
<1>5. execution' = [r \in Reservations |-> execution'[r]]
  <2>1. CASE Record(t)
    BY <2>1 DEF Record
  <2>2. UNCHANGED execution => execution' = [r \in Reservations |-> execution'[r]]
    BY <1>1
  <2> QED BY <2>1, <2>2 DEF TurnStep, Begin, ReserveCall, RefuseCall, AttemptAnswered,
             AttemptLost, AttemptRateLimited, AttemptRejected, SettleCall, ReleaseCall,
             CommitRelease, RecordFails, PostExecution, CommitPost, Crash
<1> QED BY <1>2, <1>3, <1>4, <1>5 DEF Frame

LEMMA WalletTypeStep ==
  ASSUME MeteringInvariant, [MeteringNext]_allVars
  PROVE  TypeOK'
  BY MeteringWalletStep, TypeStep DEF MeteringInvariant, MeteringTypeOK

\* The call of another turn is not disturbed: it has a reservation of its own.
LEMMA OthersKeepTheirCalls ==
  ASSUME MeteringInvariant, NEW t \in Turns, StepOK(t), Frame(t), NEW u \in Turns \ {t}
  PROVE  CallKnows(u)' /\ ChargedOneWay(u)'
<1> DEFINE c == turn[u].current
<1>1. turn'[u] = turn[u] /\ CallKnows(u) /\ ChargedOneWay(u)
  BY DEF Frame, MeteringInvariant
<1>2. CASE HasCall(u)
  <2>1. c \in Reservations /\ reservation[c].status # "NONE" /\ ~(HasCall(t) /\ c = turn[t].current)
    BY <1>2, CallShape DEF MeteringInvariant, OwnCalls
  <2>2. SameHold(c)
    BY <2>1 DEF StepOK
  <2>3. CallKnows(u)'
    BY <1>1, <2>1, <2>2 DEF CallKnows, HasCall, At, SameHold, PerAttempt, UsageCharge
  <2> QED BY <1>1, <2>3 DEF ChargedOneWay, At, StepOK
<1>3. ChargedOneWay(u)'
  <2>1. RowsOf(u)' = RowsOf(u) /\ \A r \in Reservations : execution'[r] \in {execution[r], t}
    BY DEF StepOK
  <2> QED BY <1>1, <2>1 DEF ChargedOneWay, At
<1>4. CASE ~HasCall(u)
  BY <1>1, <1>3, <1>4 DEF CallKnows, HasCall
<1> QED BY <1>2, <1>3, <1>4

LEMMA TurnPreserves ==
  ASSUME MeteringInvariant, NEW t \in Turns, TurnStep(t)
  PROVE  MeteringInvariant'
<1>1. StepOK(t) /\ Frame(t)
  BY TurnStepOK, TurnFrame
<1>2. \A r \in Reservations : HoldCovers(r)'
  <2>1. ASSUME NEW r \in Reservations, SameHold(r) PROVE HoldCovers(r)'
    BY <2>1 DEF MeteringInvariant, HoldCovers, SameHold, PerAttempt
  <2> QED BY <1>1, <2>1 DEF StepOK
<1>3. MeteringTypeOK'
  <2>1. TypeOK'
    BY WalletTypeStep DEF MeteringNext
  <2>2. turn' \in [Turns -> Turn]
    <3>1. \A u \in Turns : turn'[u] \in Turn
      BY <1>1 DEF StepOK, Frame, MeteringInvariant, MeteringTypeOK
    <3> QED BY <1>1, <3>1 DEF Frame
  <2>3. cost' \in [Reservations -> Nat]
    <3>1. \A r \in Reservations : cost'[r] \in Nat
      BY <1>2 DEF HoldCovers
    <3> QED BY <1>1, <3>1 DEF Frame
  <2>4. execution' \in [Reservations -> Turns \cup {NoKey}]
    <3>1. \A r \in Reservations : execution'[r] \in Turns \cup {NoKey}
      BY <1>1 DEF StepOK, MeteringInvariant, MeteringTypeOK
    <3> QED BY <1>1, <3>1 DEF Frame
  <2> QED BY <2>1, <2>2, <2>3, <2>4 DEF MeteringTypeOK
<1>4. \A u \in Turns : CallKnows(u)' /\ ChargedOneWay(u)'
  <2>1. CallKnows(t)' /\ ChargedOneWay(t)'
    BY <1>1 DEF StepOK
  <2> QED BY <1>1, <2>1, OthersKeepTheirCalls
<1>5. OwnCalls'
  <2>1. ASSUME NEW u \in Turns \ {t}, HasCall(u)', HasCall(t)',
               turn'[u].current = turn'[t].current
        PROVE  FALSE
    <3>1. turn'[u] = turn[u] /\ HasCall(u)
      BY <1>1, <2>1 DEF Frame, HasCall
    <3>2. reservation[turn[u].current].status # "NONE"
      BY <3>1, CallShape
    <3>3. HasCall(t) /\ turn'[t].current = turn[t].current
      BY <1>1, <2>1, <3>1, <3>2 DEF StepOK
    <3> QED BY <2>1, <3>1, <3>3 DEF MeteringInvariant, OwnCalls
  <2>2. ASSUME NEW u \in Turns \ {t}, NEW v \in Turns \ {t}, HasCall(u)', HasCall(v)',
               turn'[u].current = turn'[v].current
        PROVE  u = v
    BY <1>1, <2>2 DEF Frame, HasCall, MeteringInvariant, OwnCalls
  <2> QED BY <2>1, <2>2 DEF OwnCalls
<1>6. \A q \in Requests : RequestIsTurns(q)'
  <2>1. RequestIsTurns(t)'
    BY <1>1 DEF StepOK
  <2>2. ASSUME NEW q \in Requests \ {t} PROVE RequestIsTurns(q)'
    <3>1. request'[q] = request[q] /\ (q \in Turns => turn'[q] = turn[q]) /\ RequestIsTurns(q)
      BY <1>1 DEF Frame, MeteringInvariant
    <3> QED BY <3>1 DEF RequestIsTurns, At
  <2> QED BY <2>1, <2>2
<1> QED BY <1>2, <1>3, <1>4, <1>5, <1>6 DEF MeteringInvariant

\* What the rest of the system may do to the wallet while turns run: a hold gets
\* overdue or is charged in full, a purchase is granted.
WalletMove ==
  /\ \A r \in Reservations :
       \/ reservation'[r] = reservation[r]
       \/ /\ IsReserved(r)
          /\ reservation'[r].reservedCredits = reservation[r].reservedCredits
          /\ reservation'[r].maxCreditsPerAttempt = reservation[r].maxCreditsPerAttempt
          /\ \/ reservation'[r].status = "RESERVED"
             \/ /\ reservation'[r].status = "EXPIRED"
                /\ reservation'[r].settledCredits = reservation[r].reservedCredits
  /\ \A t \in Turns : RowsOf(t)' = RowsOf(t)
  /\ \A q \in Requests : request'[q] \in {request[q], Idle} \/ request'[q].op = "grant"

LEMMA WalletMoves ==
  ASSUME MeteringInvariant, WalletStep
  PROVE  WalletMove
<1>1. /\ TypeOK /\ reservation \in [Reservations -> Reservation]
      /\ request \in [Requests -> Request]
  BY DEF MeteringInvariant, MeteringTypeOK, TypeOK
<1>2. ASSUME NEW r \in Reservations, PassExpiry(r) PROVE WalletMove
  <2>1. /\ reservation' = [reservation EXCEPT ![r].overdue = TRUE]
        /\ UNCHANGED <<ledger, request>> /\ IsReserved(r)
    BY <1>2 DEF PassExpiry
  <2> DEFINE hold == [reservation[r] EXCEPT !.overdue = TRUE]
  <2>2. /\ hold.status = reservation[r].status
        /\ hold.reservedCredits = reservation[r].reservedCredits
        /\ hold.maxCreditsPerAttempt = reservation[r].maxCreditsPerAttempt
    BY <1>1 DEF Reservation
  <2>3. reservation'[r] = hold /\ \A x \in Reservations \ {r} : reservation'[x] = reservation[x]
    BY <1>1, <2>1
  <2> HIDE DEF hold
  <2> QED BY <2>1, <2>2, <2>3 DEF WalletMove, RowsOf, IsReserved
<1>3. ASSUME UNCHANGED <<reservation, ledger, request>> PROVE WalletMove
  BY <1>3 DEF WalletMove, RowsOf
<1>4. ASSUME NEW s \in Sweepers, NEW r \in listed[s], ExpireReservation(s, r) PROVE WalletMove
  <2>0. r \in Reservations
    BY <1>1 DEF TypeOK
  <2>1. CASE r \in Overdue
    <3>1. /\ Close(r, "EXPIRED", reservation[r].reservedCredits)
          /\ Post("AI_USAGE", -reservation[r].reservedCredits, r)
          /\ UNCHANGED request /\ IsReserved(r)
      BY <1>4, <2>1 DEF ExpireReservation, Overdue
    <3>2. -reservation[r].reservedCredits \in Int
      BY <1>1, <2>0 DEF Reservation
    <3>3. \A t \in Turns : RowsOf(t)' = RowsOf(t)
      BY <1>1, <2>0, <3>1, <3>2, PostRows, TurnIds
    <3> DEFINE hold == [reservation[r] EXCEPT !.status = "EXPIRED",
                                              !.settledCredits = reservation[r].reservedCredits]
    <3>4. /\ hold.status = "EXPIRED" /\ hold.settledCredits = reservation[r].reservedCredits
          /\ hold.reservedCredits = reservation[r].reservedCredits
          /\ hold.maxCreditsPerAttempt = reservation[r].maxCreditsPerAttempt
      BY <1>1, <2>0 DEF Reservation
    <3>5. reservation' = [reservation EXCEPT ![r] = hold]
      BY <1>1, <2>0, <3>1 DEF Close
    <3>6. reservation'[r] = hold /\ \A x \in Reservations \ {r} : reservation'[x] = reservation[x]
      BY <1>1, <2>0, <3>5
    <3> HIDE DEF hold
    <3> QED BY <3>1, <3>3, <3>4, <3>6 DEF WalletMove
  <2>2. CASE r \notin Overdue
    BY <1>3, <1>4, <2>2 DEF ExpireReservation, wallet
  <2> QED BY <2>1, <2>2
<1>5. ASSUME NEW q \in Requests, NEW p \in Purchases, ReadForGrant(q, p) PROVE WalletMove
  <2>1. /\ request' = [request EXCEPT ![q] = [op |-> "grant", key |-> p, credits |-> PackCredits[p]]]
        /\ UNCHANGED <<reservation, ledger>>
    BY <1>5 DEF ReadForGrant, ReadBeforePosting
  <2>2. /\ request'[q] = [op |-> "grant", key |-> p, credits |-> PackCredits[p]]
        /\ \A x \in Requests \ {q} : request'[x] = request[x]
    BY <1>1, <2>1
  <2> QED BY <2>1, <2>2 DEF WalletMove, RowsOf
<1>6. ASSUME NEW q \in Requests, GrantPurchase(q) PROVE WalletMove
  <2>1. /\ request' = [request EXCEPT ![q] = Idle] /\ UNCHANGED reservation
        /\ request[q].op = "grant"
    BY <1>6 DEF GrantPurchase
  <2>2. request'[q] = Idle /\ \A x \in Requests \ {q} : request'[x] = request[x]
    BY <1>1, <2>1
  <2>3. request[q].key \in Purchases /\ request[q].credits \in Int
    <3>1. request[q] \in Request
      BY <1>1
    <3> QED BY <2>1, <3>1 DEF Request, Idle
  <2>4. \A t \in Turns : RowsOf(t)' = RowsOf(t)
    <3>1. CASE UNCHANGED ledger
      BY <3>1 DEF RowsOf
    <3>2. CASE Post("PURCHASE", request[q].credits, request[q].key)
      BY <1>1, <2>3, <3>2, PostRows, TurnIds
    <3> QED BY <1>6, <3>1, <3>2 DEF GrantPurchase
  <2> QED BY <2>1, <2>2, <2>4 DEF WalletMove
<1>7. ASSUME NEW s \in Sweepers, SweepStep(s) PROVE WalletMove
  <2>1. CASE ListExpired(s) \/ AbortSweep(s)
    BY <1>3, <2>1 DEF ListExpired, AbortSweep
  <2>2. CASE ExpireListed(s)
    BY <1>4, <2>2 DEF ExpireListed
  <2> QED BY <1>7, <2>1, <2>2 DEF SweepStep
<1> QED BY <1>2, <1>5, <1>6, <1>7 DEF WalletStep

LEMMA WalletPreserves ==
  ASSUME MeteringInvariant, WalletStep
  PROVE  MeteringInvariant'
<1>1. WalletMove /\ UNCHANGED <<turn, execution, cost>>
  BY WalletMoves DEF WalletStep, meteringVars
<1>2. MeteringTypeOK'
  <2>1. TypeOK'
    BY WalletTypeStep DEF MeteringNext
  <2> QED BY <1>1, <2>1 DEF MeteringInvariant, MeteringTypeOK
<1>3. ASSUME NEW r \in Reservations PROVE HoldCovers(r)'
  <2>1. HoldCovers(r)
    BY DEF MeteringInvariant
  <2>2. CASE reservation'[r] = reservation[r]
    BY <1>1, <2>1, <2>2 DEF HoldCovers, PerAttempt
  <2>3. CASE /\ IsReserved(r)
             /\ reservation'[r].reservedCredits = reservation[r].reservedCredits
             /\ reservation'[r].maxCreditsPerAttempt = reservation[r].maxCreditsPerAttempt
             /\ \/ reservation'[r].status = "RESERVED"
                \/ /\ reservation'[r].status = "EXPIRED"
                   /\ reservation'[r].settledCredits = reservation[r].reservedCredits
    BY <1>1, <2>1, <2>3 DEF HoldCovers, PerAttempt, IsReserved
  <2> QED BY <1>1, <2>2, <2>3 DEF WalletMove
<1>4. ASSUME NEW t \in Turns PROVE CallKnows(t)' /\ ChargedOneWay(t)'
  <2>1. CallKnows(t) /\ ChargedOneWay(t)
    BY DEF MeteringInvariant
  <2>2. ChargedOneWay(t)'
    BY <1>1, <2>1 DEF WalletMove, ChargedOneWay, At
  <2>3. CASE HasCall(t)
    <3>1. /\ turn[t].current \in Reservations
          /\ reservation'[turn[t].current].status \in {"RESERVED", "EXPIRED"}
          /\ PerAttempt(turn[t].current)' = PerAttempt(turn[t].current)
      BY <1>1, <2>1, <2>3 DEF CallKnows, WalletMove, PerAttempt
    <3> QED BY <1>1, <2>1, <2>2, <2>3, <3>1 DEF CallKnows, HasCall, At, PerAttempt, UsageCharge
  <2>4. CASE ~HasCall(t)
    BY <1>1, <2>2, <2>4 DEF CallKnows, HasCall
  <2> QED BY <2>3, <2>4
<1>5. OwnCalls'
  BY <1>1 DEF MeteringInvariant, OwnCalls, HasCall
<1>6. ASSUME NEW q \in Requests PROVE RequestIsTurns(q)'
  BY <1>1 DEF MeteringInvariant, WalletMove, RequestIsTurns, Idle, At
<1> QED BY <1>2, <1>3, <1>4, <1>5, <1>6 DEF MeteringInvariant

LEMMA MeteringStep ==
  ASSUME MeteringInvariant, [MeteringNext]_allVars
  PROVE  MeteringInvariant'
<1>1. CASE UNCHANGED allVars
  <2>1. /\ UNCHANGED <<turn, execution, cost, reservation, ledger, request>>
        /\ TypeOK' /\ \A t \in Turns : RowsOf(t)' = RowsOf(t)
    BY <1>1, WalletTypeStep DEF allVars, vars, meteringVars, RowsOf
  <2>2. MeteringTypeOK' /\ OwnCalls' /\ \A q \in Requests : RequestIsTurns(q)'
    BY <2>1 DEF MeteringInvariant, MeteringTypeOK, OwnCalls, HasCall, RequestIsTurns, At
  <2>3. /\ \A r \in Reservations : HoldCovers(r)'
        /\ \A t \in Turns : CallKnows(t)' /\ ChargedOneWay(t)'
    BY <2>1 DEF MeteringInvariant, HoldCovers, CallKnows, ChargedOneWay, HasCall, At,
                PerAttempt, UsageCharge
  <2> QED BY <2>2, <2>3 DEF MeteringInvariant
<1> QED BY <1>1, TurnPreserves, WalletPreserves DEF MeteringNext

LEMMA MeteringInvariance == MeteringSpec => []MeteringInvariant
  BY MeteringInitially, MeteringStep, PTL DEF MeteringSpec

-----------------------------------------------------------------------------
(* No charge exceeds its hold. *)

\* The answer that is about to be charged costs at most what one attempt may.
WithinQuote(t) == At(t, "settle") => turn[t].usage <= PerAttempt(turn[t].current)

\* The charge of an answered call: its attempts before the answer at the maximum, the
\* answer at what it used.
LEMMA ChargeIsCovered ==
  ASSUME MeteringInvariant, NEW t \in Turns, At(t, "settle"), WithinQuote(t)
  PROVE  LET r == turn[t].current
         IN  /\ turn[t].attempt * PerAttempt(r) <= reservation[r].reservedCredits
             /\ UsageCharge(r, turn[t].attempt, turn[t].usage) \in Nat
             /\ UsageCharge(r, turn[t].attempt, turn[t].usage) <= reservation[r].reservedCredits
<1> DEFINE r == turn[t].current
           a == turn[t].attempt
           m == PerAttempt(r)
           u == turn[t].usage
<1>1. HasCall(t)
  BY DEF HasCall, At
<1>2. /\ m \in Nat /\ a \in Nat /\ 1 <= a /\ a <= MaxAttempts /\ MaxAttempts \in Nat
      /\ reservation[r].reservedCredits = m * MaxAttempts
  BY <1>1, CallShape, CreditAssumption
<1>3. u \in Nat /\ u <= m
  BY <1>1, CallShape DEF WithinQuote, Turn
<1>4. UsageCharge(r, a, u) = m * (a - 1) + u
  BY DEF UsageCharge, PerAttempt
<1> HIDE DEF r, a, m, u
<1>5. m * (a - 1) + u <= m * MaxAttempts /\ m * (a - 1) + u \in Nat
  <2>1. m * (a - 1) \in Nat /\ m * (a - 1) <= m * (a - 1)
    BY <1>2
  <2> QED BY <1>2, <1>3, <2>1, AttemptArithmetic
<1>6. a * m <= m * MaxAttempts
  <2>1. \A x, y \in Nat : x <= y => m * x <= m * y
    BY <1>2
  <2>2. a * m = m * a
    BY <1>2
  <2> QED BY <1>2, <2>1, <2>2
<1> QED BY <1>2, <1>4, <1>5, <1>6 DEF r, a, m, u

\* A turn begins to settle with the answer of an attempt only.
LEMMA OwnQuote ==
  ASSUME MeteringInvariant, NEW t \in Turns, TurnStep(t)
  PROVE  WithinQuote(t)'
<1>1. MeteringTypeOK /\ turn \in [Turns -> Turn] /\ turn[t] \in Turn
  BY DEF MeteringInvariant, MeteringTypeOK
<1>2. ASSUME NEW step \in Steps \ {"settle"}, Goto(t, step) PROVE WithinQuote(t)'
  BY <1>1, <1>2, GotoStays DEF WithinQuote, At
<1>3. {"call", "release", "releasing", "record", "post", "posting", "done", "crashed"}
        \subseteq Steps \ {"settle"}
  BY DEF Steps
<1>4. CASE AttemptAnswered(t)
  <2>1. PICK usage \in UsageCredits :
          Owed(t, usage) /\ turn' = [turn EXCEPT ![t].step = "settle", ![t].usage = usage]
    BY <1>4 DEF AttemptAnswered
  <2>2. turn'[t].usage = usage /\ turn'[t].current = turn[t].current
    BY <1>1, <2>1 DEF Turn
  <2>3. usage <= PerAttempt(turn[t].current) /\ UNCHANGED reservation
    BY <1>4, <2>1 DEF Owed, PerAttempt, AttemptAnswered, vars
  <2> QED BY <2>2, <2>3 DEF WithinQuote, PerAttempt
<1>5. CASE AttemptLost(t) \/ AttemptRateLimited(t) \/ AttemptRejected(t)
  <2>1. CASE \E uncertain : GiveUp(t, uncertain)
    BY <1>2, <1>3, <2>1 DEF GiveUp, Fail
  <2>2. CASE \/ turn' = [turn EXCEPT ![t].attempt = @ + 1, ![t].uncertainPriorAttempt = TRUE]
             \/ turn' = [turn EXCEPT ![t].attempt = @ + 1]
    <3>1. turn'[t].step = turn[t].step /\ At(t, "attempt")
      BY <1>1, <1>5, <2>2 DEF Turn, AttemptLost, AttemptRateLimited, AttemptRejected
    <3> QED BY <3>1 DEF WithinQuote, At
  <2> QED BY <1>5, <2>1, <2>2 DEF AttemptLost, AttemptRateLimited, AttemptRejected
<1>6. CASE ReserveCall(t)
  <2>1. turn'[t].step = "attempt"
    BY <1>1, <1>6 DEF ReserveCall, Turn
  <2> QED BY <2>1 DEF WithinQuote, At
<1>7. CASE SettleCall(t)
  <2>1. turn'[t].step \in {"record", "call"}
    BY <1>1, <1>7 DEF SettleCall, AfterAnswer, Turn
  <2> QED BY <2>1 DEF WithinQuote, At
<1> QED
  BY <1>2, <1>3, <1>4, <1>5, <1>6, <1>7
  DEF TurnStep, Begin, RefuseCall, ReleaseCall, CommitRelease, Record, RecordFails,
    PostExecution, CommitPost, Crash, Fail

\* Another turn's reservation keeps its quote.
LEMMA OthersQuote ==
  ASSUME MeteringInvariant, NEW t \in Turns, TurnStep(t), NEW u \in Turns \ {t}, WithinQuote(u)
  PROVE  WithinQuote(u)'
<1>1. StepOK(t) /\ Frame(t)
  BY TurnStepOK, TurnFrame
<1>2. turn'[u] = turn[u]
  BY <1>1 DEF Frame
<1>3. CASE At(u, "settle")
  <2> DEFINE c == turn[u].current
  <2>1. HasCall(u)
    BY <1>3 DEF HasCall, At
  <2>2. c \in Reservations /\ reservation[c].status # "NONE" /\ ~(HasCall(t) /\ c = turn[t].current)
    BY <2>1, CallShape DEF MeteringInvariant, OwnCalls
  <2>3. SameHold(c)
    BY <1>1, <2>2 DEF StepOK
  <2> QED BY <1>2, <2>3 DEF WithinQuote, At, SameHold, PerAttempt
<1> QED BY <1>2, <1>3 DEF WithinQuote, At

\* A reservation that is closed, with a charge its hold covers.
LEMMA ClosedWithin ==
  ASSUME MeteringTypeOK, ChargedWithinHold, NEW r \in Reservations, NEW status,
         NEW credits, credits <= reservation[r].reservedCredits,
         Close(r, status, credits)
  PROVE  ChargedWithinHold'
<1> DEFINE closed == [reservation[r] EXCEPT !.status = status, !.settledCredits = credits]
<1>1. reservation \in [Reservations -> Reservation]
  BY DEF MeteringTypeOK, TypeOK
<1>2. reservation' = [reservation EXCEPT ![r] = closed]
  BY <1>1 DEF Close
<1>3. closed.settledCredits = credits /\ closed.reservedCredits = reservation[r].reservedCredits
  BY <1>1 DEF Reservation
<1> HIDE DEF closed
<1>4. reservation'[r] = closed /\ \A x \in Reservations \ {r} : reservation'[x] = reservation[x]
  BY <1>1, <1>2
<1> QED BY <1>3, <1>4 DEF ChargedWithinHold

LEMMA TurnChargesWithin ==
  ASSUME MeteringInvariant, ChargedWithinHold, NEW t \in Turns, WithinQuote(t), TurnStep(t)
  PROVE  ChargedWithinHold'
<1>0. MeteringTypeOK /\ reservation \in [Reservations -> Reservation]
  BY DEF MeteringInvariant, MeteringTypeOK, TypeOK
<1>1. CASE UNCHANGED reservation
  BY <1>1 DEF ChargedWithinHold
<1>2. CASE ReserveCall(t)
  <2>1. PICK r \in Reservations, quote \in Quotes : Reserve(r, quote * MaxAttempts, quote)
    BY <1>2 DEF ReserveCall, ReserveForProviderCall
  <2> DEFINE hold == [status |-> "RESERVED", reservedCredits |-> quote * MaxAttempts,
                      settledCredits |-> 0, maxCreditsPerAttempt |-> quote, overdue |-> FALSE]
  <2>2. reservation' = [reservation EXCEPT ![r] = hold]
    BY <2>1 DEF Reserve
  <2>3. 0 <= quote * MaxAttempts
    BY CreditAssumption, MeteringAssumption
  <2>4. hold.settledCredits = 0 /\ hold.reservedCredits = quote * MaxAttempts
    OBVIOUS
  <2> HIDE DEF hold
  <2>5. reservation'[r] = hold /\ \A x \in Reservations \ {r} : reservation'[x] = reservation[x]
    BY <1>0, <2>2
  <2> QED BY <2>3, <2>4, <2>5 DEF ChargedWithinHold
<1>3. CASE SettleCall(t)
  <2>1. At(t, "settle") /\ turn[t].current \in Reservations
    BY <1>3, CallShape DEF SettleCall, HasCall, At
  <2>2. CASE SettleReservationForUsage(turn[t].current, turn[t].attempt, turn[t].usage)
    <3> DEFINE charge == UsageCharge(turn[t].current, turn[t].attempt, turn[t].usage)
    <3>1. Close(turn[t].current, "SETTLED", charge)
      BY <2>2 DEF SettleReservationForUsage, SettleReservation
    <3>2. charge <= reservation[turn[t].current].reservedCredits
      BY <2>1, ChargeIsCovered
    <3> HIDE DEF charge
    <3> QED BY <1>0, <2>1, <3>1, <3>2, ClosedWithin
  <2> QED BY <1>1, <1>3, <2>2 DEF SettleCall, vars
<1>4. CASE CommitRelease(t)
  <2>1. CASE Close(request[t].key, "RELEASED", 0) /\ request[t].op = "release"
    <3>1. request[t].key = turn[t].current /\ HasCall(t)
      BY <2>1, TurnIds DEF MeteringInvariant, RequestIsTurns, HasCall, At
    <3>2. turn[t].current \in Reservations
      BY <3>1, CallShape
    <3>3. 0 <= reservation[turn[t].current].reservedCredits
      BY <1>0, <3>2 DEF Reservation
    <3> QED BY <1>0, <2>1, <3>1, <3>2, <3>3, ClosedWithin
  <2> QED BY <1>1, <1>4, <2>1 DEF CommitRelease, ReleaseReservation, AbandonRequest
<1> QED
  BY <1>1, <1>2, <1>3, <1>4
  DEF TurnStep, Begin, RefuseCall, AttemptAnswered, AttemptLost, AttemptRateLimited,
    AttemptRejected, ReleaseCall, ReadForRelease, Record, RecordFails, PostExecution,
    ReadForSettlement, ReadBeforePosting, CommitPost, SettleForExecution, Crash,
    AbandonRequest, vars

ChargeInvariant == ChargedWithinHold /\ \A t \in Turns : WithinQuote(t)

LEMMA ChargeStep ==
  ASSUME MeteringInvariant, ChargeInvariant, [MeteringNext]_allVars
  PROVE  ChargeInvariant'
<1> USE DEF ChargeInvariant
<1>1. ASSUME NEW t \in Turns, TurnStep(t) PROVE ChargeInvariant'
  <2>1. \A u \in Turns : WithinQuote(u)'
    BY <1>1, OwnQuote, OthersQuote
  <2> QED BY <1>1, <2>1, TurnChargesWithin
<1>2. CASE WalletStep
  <2>1. WalletMove /\ UNCHANGED turn
    BY <1>2, WalletMoves DEF WalletStep, meteringVars
  <2>2. ChargedWithinHold'
    <3>1. ASSUME NEW r \in Reservations
          PROVE  reservation'[r].settledCredits <= reservation'[r].reservedCredits
      <4>1. CASE PassExpiry(r)
        <5>1. reservation \in [Reservations -> Reservation]
          BY DEF MeteringInvariant, MeteringTypeOK, TypeOK
        <5>2. /\ reservation'[r].settledCredits = reservation[r].settledCredits
              /\ reservation'[r].reservedCredits = reservation[r].reservedCredits
          BY <4>1, <5>1 DEF PassExpiry, Reservation
        <5> QED BY <5>2 DEF ChargedWithinHold
      <4>2. CASE reservation'[r] = reservation[r]
        BY <4>2 DEF ChargedWithinHold
      <4>3. CASE /\ reservation'[r].settledCredits = reservation[r].reservedCredits
                 /\ reservation'[r].reservedCredits = reservation[r].reservedCredits
        <5>1. reservation[r].reservedCredits \in Nat
          BY DEF MeteringInvariant, MeteringTypeOK, TypeOK, Reservation
        <5> QED BY <4>3, <5>1
      <4>4. reservation'[r].status = "RESERVED" =>
              PassExpiry(r) \/ reservation'[r] = reservation[r]
        <5>1. ASSUME NEW s \in Sweepers, SweepStep(s), reservation'[r].status = "RESERVED"
              PROVE  reservation'[r] = reservation[r]
          <6>1. CASE UNCHANGED reservation
            BY <6>1
          <6>2. ASSUME NEW x \in listed[s], Close(x, "EXPIRED", reservation[x].reservedCredits)
                PROVE  reservation'[r] = reservation[r]
            <7>1. reservation \in [Reservations -> Reservation] /\ x \in Reservations
              BY DEF MeteringInvariant, MeteringTypeOK, TypeOK
            <7>2. reservation'[x].status = "EXPIRED"
              BY <6>2, <7>1 DEF Close, Reservation
            <7> QED BY <5>1, <6>2, <7>1, <7>2 DEF Close
          <6> QED BY <5>1, <6>1, <6>2
                  DEF SweepStep, ListExpired, AbortSweep, ExpireListed, ExpireReservation, wallet
        <5>2. ASSUME NEW x \in Reservations \ {r}, PassExpiry(x)
              PROVE  reservation'[r] = reservation[r]
          BY <5>2 DEF PassExpiry, MeteringInvariant, MeteringTypeOK, TypeOK
        <5>3. ASSUME NEW q \in Requests,
                     (\E p \in Purchases : ReadForGrant(q, p)) \/ GrantPurchase(q)
              PROVE  reservation'[r] = reservation[r]
          BY <5>3 DEF ReadForGrant, ReadBeforePosting, GrantPurchase
        <5> QED BY <1>2, <5>1, <5>2, <5>3 DEF WalletStep
      <4> QED BY <2>1, <4>1, <4>2, <4>3, <4>4 DEF WalletMove
    <3> QED BY <3>1 DEF ChargedWithinHold
  <2>3. ASSUME NEW t \in Turns PROVE WithinQuote(t)'
    <3>1. CASE At(t, "settle")
      <4>1. turn[t].current \in Reservations
        BY <3>1, CallShape DEF HasCall, At
      <4>2. PerAttempt(turn[t].current)' = PerAttempt(turn[t].current)
        BY <2>1, <4>1 DEF WalletMove, PerAttempt
      <4> QED BY <2>1, <4>2 DEF WithinQuote, At, PerAttempt
    <3> QED BY <2>1, <3>1 DEF WithinQuote, At
  <2> QED BY <2>2, <2>3
<1>3. CASE UNCHANGED allVars
  BY <1>3 DEF allVars, vars, meteringVars, ChargedWithinHold, WithinQuote, At, PerAttempt
<1> QED BY <1>1, <1>2, <1>3 DEF MeteringNext

LEMMA ChargeInvariance == MeteringSpec => []ChargeInvariant
<1>1. MeteringInit => ChargeInvariant
  BY DEF MeteringInit, Init, ChargeInvariant, ChargedWithinHold, WithinQuote, At, NewTurn,
    Unreserved
<1>2. MeteringInvariant /\ ChargeInvariant /\ [MeteringNext]_allVars => ChargeInvariant'
  BY ChargeStep
<1> QED BY <1>1, <1>2, MeteringInvariance, PTL DEF MeteringSpec

-----------------------------------------------------------------------------

\* Every variable of a metered turn keeps its type.
THEOREM MeteringTypeCorrect == MeteringSpec => []MeteringTypeOK
<1>1. MeteringInvariant => MeteringTypeOK
  BY DEF MeteringInvariant
<1> QED BY <1>1, MeteringInvariance, PTL

\* A reservation that is over was charged at least what the provider is owed for all
\* attempts made under it, for every number of attempts, every price and every crash.
THEOREM NothingIsGivenAway == MeteringSpec => []NeverUnderRecovers
<1>1. ASSUME MeteringInvariant PROVE NeverUnderRecovers
  <2>1. ASSUME NEW r \in Reservations, Closed(r)
        PROVE  reservation[r].settledCredits >= cost[r]
    <3>1. HoldCovers(r) /\ cost[r] \in Nat
      BY <1>1 DEF MeteringInvariant, HoldCovers
    <3>2. reservation[r].settledCredits \in Nat /\ reservation[r].reservedCredits \in Nat
      BY <1>1 DEF MeteringInvariant, MeteringTypeOK, TypeOK, Reservation
    <3> QED BY <2>1, <3>1, <3>2 DEF HoldCovers, Closed
  <2> QED BY <2>1 DEF NeverUnderRecovers
<1> QED BY <1>1, MeteringInvariance, PTL

\* No turn is charged both through its reservations and through its execution's row.
THEOREM ChargedOnlyOneWay == MeteringSpec => []OneWayToCharge
<1>1. MeteringInvariant => OneWayToCharge
  BY DEF MeteringInvariant, ChargedOneWay, OneWayToCharge
<1> QED BY <1>1, MeteringInvariance, PTL

\* Metered turns use the wallet as AiCredits specifies it, so what is proved of the
\* wallet alone holds of the wallet in use.
THEOREM WalletUsedAsSpecified == MeteringSpec => ImplementsAiCredits
<1>1. MeteringInit => Init
  BY DEF MeteringInit
<1>2. MeteringInvariant /\ [MeteringNext]_allVars => [Next]_vars
  BY MeteringWalletStep
<1> QED BY <1>1, <1>2, MeteringInvariance, PTL DEF MeteringSpec, ImplementsAiCredits, Spec

\* The wallet's invariant holds while turns use it.
LEMMA WalletInUse == MeteringSpec => []WalletInvariant
  BY WalletUsedAsSpecified, WalletInvariance, PTL DEF ImplementsAiCredits

\* While turns run, the balance covers every hold and is explained by the ledger to the
\* last row, no key is charged twice, and the wallet keeps the promises of CreditWallet.
THEOREM WalletKeepsItsPromises ==
  MeteringSpec => /\ [](Solvent /\ LedgerExplainsBalance /\ AtMostOncePerKey)
                  /\ ImplementsWallet
  BY WalletUsedAsSpecified, Solvency, LedgerIsComplete, Idempotence, WalletImplemented, PTL
  DEF ImplementsAiCredits

\* The safety half of WorkIsPaid: whatever the providers are owed and nobody has charged
\* yet is on hold, and the balance covers all of it at once.
THEOREM WorkStaysCovered == MeteringSpec => []UnpaidWorkIsCovered
<1>1. ASSUME MeteringInvariant, WalletInvariant PROVE UnpaidWorkIsCovered
  <2>1. ASSUME NEW r \in Reservations, IsReserved(r)
        PROVE  /\ cost[r] \in Nat /\ reservation[r].reservedCredits \in Nat
               /\ cost[r] <= reservation[r].reservedCredits
               /\ reservation[r].reservedCredits <= MaxReservation
    BY <1>1, <2>1
    DEF MeteringInvariant, MeteringTypeOK, TypeOK, Reservation, HoldCovers, IsReserved
  <2>2. MaxReservation \in Nat
    BY CreditAssumption
  <2>3. UnpaidUnits \subseteq HeldUnits
    <3>1. ASSUME NEW u \in UnpaidUnits PROVE u \in HeldUnits
      <4>1. u[1] \in Reservations /\ u[2] \in 1..MaxReservation /\ IsReserved(u[1]) /\ u[2] <= cost[u[1]]
            /\ u \in Reservations \X (1..MaxReservation)
        BY DEF UnpaidUnits
      <4>2. u[2] <= reservation[u[1]].reservedCredits
        BY <2>1, <2>2, <4>1
      <4> QED BY <4>1, <4>2 DEF HeldUnits
    <3> QED BY <3>1
  <2>4. IsFiniteSet(HeldUnits) /\ HeldCredits \in Nat
    BY <1>1, HeldFinite DEF WalletInvariant
  <2>5. IsFiniteSet(UnpaidUnits) /\ Cardinality(UnpaidUnits) <= HeldCredits
    BY <2>3, <2>4, FS_Subset DEF HeldCredits
  <2>6. HeldCredits <= aiCredits /\ aiCredits \in Int /\ Cardinality(UnpaidUnits) \in Nat
    BY <1>1, <2>5, FS_CardinalityType DEF WalletInvariant, Solvent, TypeOK
  <2>7. Cardinality(UnpaidUnits) <= aiCredits
    BY <2>4, <2>5, <2>6
  <2>8. ASSUME NEW r \in Reservations, IsReserved(r) PROVE cost[r] <= MaxReservation
    BY <2>1, <2>2, <2>8
  <2> QED BY <2>7, <2>8 DEF UnpaidWorkIsCovered
<1> QED BY <1>1, MeteringInvariance, WalletInUse, PTL

\* A call costs at most what was reserved for it, for every price, every number of
\* attempts and every way the call and the sweep may cross.
THEOREM NoSurprises == MeteringSpec => []ChargedWithinHold
<1>1. ChargeInvariant => ChargedWithinHold
  BY DEF ChargeInvariant
<1> QED BY <1>1, ChargeInvariance, PTL

\* An answered call can be settled for as long as its reservation is open: neither the
\* limit on attempts nor the balance refuses it.
THEOREM AnswersCanBeSettled == MeteringSpec => []SettlementsGoThrough
<1>1. ASSUME MeteringInvariant, WalletInvariant, ChargeInvariant PROVE SettlementsGoThrough
  <2> SUFFICES ASSUME NEW t \in Turns, At(t, "settle"), IsReserved(turn[t].current)
               PROVE  LET r == turn[t].current IN
                      /\ RowsOf(r) = {}
                      /\ turn[t].attempt * reservation[r].maxCreditsPerAttempt
                           <= reservation[r].reservedCredits
                      /\ UsageCharge(r, turn[t].attempt, turn[t].usage)
                           <= aiCredits - (HeldCredits - reservation[r].reservedCredits)
    BY DEF SettlementsGoThrough
  <2> DEFINE r == turn[t].current
             charge == UsageCharge(r, turn[t].attempt, turn[t].usage)
  <2>1. r \in Reservations
    BY <1>1, CallShape DEF HasCall, At
  <2>2. RowsOf(r) = {}
    BY <1>1, <2>1 DEF WalletInvariant, ReservationsMatchLedger, IsReserved
  <2>3. /\ turn[t].attempt * PerAttempt(r) <= reservation[r].reservedCredits
        /\ charge \in Nat /\ charge <= reservation[r].reservedCredits
    BY <1>1, ChargeIsCovered DEF ChargeInvariant
  <2>4. HeldCredits \in Nat /\ aiCredits \in Int /\ HeldCredits <= aiCredits
        /\ reservation[r].reservedCredits \in Nat
    BY <1>1, <2>1, HeldFinite DEF WalletInvariant, Solvent, TypeOK, Reservation
  <2> HIDE DEF charge
  <2>5. charge <= aiCredits - (HeldCredits - reservation[r].reservedCredits)
    BY <2>3, <2>4
  <2> QED BY <2>2, <2>3, <2>5 DEF PerAttempt, charge
<1> QED BY <1>1, MeteringInvariance, WalletInUse, ChargeInvariance, PTL
=============================================================================
