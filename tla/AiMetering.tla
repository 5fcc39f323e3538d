------------------------------ MODULE AiMetering ------------------------------
(***************************************************************************)
(* Metered AI calls on top of the wallet: an AI turn (ToolCallingService,  *)
(* AiCompletionService, the pipeline's generation stage) makes one or more *)
(* provider calls through AiMeteredProviderService.complete, each with a   *)
(* reservation of its own, and then records an AiExecution, which links    *)
(* the reservations or posts the execution's row.                          *)
(*                                                                         *)
(* The provider is outside the system: an attempt is answered, refused, or *)
(* ends without an answer, and then the provider may or may not have done  *)
(* the work.  What it did is kept in the history variable "cost".          *)
(***************************************************************************)
EXTENDS AiCredits

CONSTANTS
  Turns,          \* AI turns; the AiExecution row of a turn has the turn's id
  Quotes,         \* maxCreditsPerAttempt of a quote
  MaxIterations   \* provider calls of one turn (tool-calling iterations)

ASSUME MeteringAssumption ==
  /\ Turns \subseteq Requests /\ Turns \subseteq Executions
  /\ Quotes \subseteq Nat
  /\ MaxIterations \in Nat \ {0}
  /\ MaxReservation >= MaxAttempts

VARIABLES
  turn,       \* the local state of each turn's handlers
  execution,  \* aiExecutionId of each reservation
  cost        \* what the provider did for each reservation, in credits

meteringVars == <<turn, execution, cost>>
allVars == <<vars, meteringVars>>

Steps == {"idle", "call", "attempt", "settle", "release", "releasing", "record",
          "post", "posting", "done", "crashed"}

Turn == [step: Steps, current: Reservations \cup {NoKey},
         reservationIds: SUBSET Reservations, attempt: 1..MaxAttempts,
         uncertainPriorAttempt: BOOLEAN, usage: Nat, calls: 0..MaxIterations]

NewTurn == [step |-> "idle", current |-> NoKey, reservationIds |-> {}, attempt |-> 1,
            uncertainPriorAttempt |-> FALSE, usage |-> 0, calls |-> 0]

MeteringInit ==
  /\ Init
  /\ turn = [t \in Turns |-> NewTurn]
  /\ execution = [r \in Reservations |-> NoKey]
  /\ cost = [r \in Reservations |-> 0]

At(t, step) == turn[t].step = step
Goto(t, step) == turn' = [turn EXCEPT ![t].step = step]
Fail(t) == Goto(t, "record")

-----------------------------------------------------------------------------
(* AiMeteredProviderService.complete. *)

Begin(t) ==
  /\ At(t, "idle")
  /\ Goto(t, "call")
  /\ UNCHANGED <<vars, execution, cost>>

\* The reservation comes first, for every attempt the provider may make.
ReserveCall(t) ==
  /\ At(t, "call")
  /\ \E r \in Reservations, quote \in Quotes :
       /\ ReserveForProviderCall(r, quote, MaxAttempts)
       /\ turn' = [turn EXCEPT ![t].step = "attempt", ![t].current = r, ![t].attempt = 1,
                               ![t].uncertainPriorAttempt = FALSE, ![t].calls = @ + 1]
  /\ UNCHANGED <<execution, cost>>

\* InsufficientAiCreditsError: no reservation, no provider call.
RefuseCall(t) ==
  /\ At(t, "call")
  /\ \E quote \in Quotes : Available < quote * MaxAttempts
  /\ Fail(t)
  /\ UNCHANGED <<vars, execution, cost>>

\* What the provider is owed for an attempt: never more than the quote, which is
\* priced for the full context window and the full answer.
Owed(t, credits) ==
  LET r == turn[t].current
  IN  /\ credits <= reservation[r].maxCreditsPerAttempt
      /\ cost' = [cost EXCEPT ![r] = @ + credits]

AttemptAnswered(t) ==
  /\ At(t, "attempt")
  /\ \E usage \in UsageCredits :
       /\ Owed(t, usage)
       /\ turn' = [turn EXCEPT ![t].step = "settle", ![t].usage = usage]
  /\ UNCHANGED <<vars, execution>>

\* Mutant: the hold is given back whatever the provider may have done.
AlwaysRelease(t, uncertain) == Goto(t, "release")

\* The last attempt is over without an answer: an outcome that is certain lets
\* the reservation go, an uncertain one (of this or an earlier attempt) keeps it.
GiveUp(t, uncertain) ==
  IF uncertain THEN Fail(t) ELSE Goto(t, "release")

\* Mutant: retried without end.
RetryForEver(t) ==
  /\ At(t, "attempt")
  /\ \E credits \in {0} \cup UsageCredits : Owed(t, credits)
  /\ turn' = [turn EXCEPT ![t].attempt = @ + 1, ![t].uncertainPriorAttempt = TRUE]
  /\ UNCHANGED <<vars, execution>>

\* timeout, network or server error: the provider may have done the work.
AttemptLost(t) ==
  /\ At(t, "attempt")
  /\ \E credits \in {0} \cup UsageCredits : Owed(t, credits)
  /\ IF turn[t].attempt < MaxAttempts
     THEN turn' = [turn EXCEPT ![t].attempt = @ + 1, ![t].uncertainPriorAttempt = TRUE]
     ELSE GiveUp(t, TRUE)
  /\ UNCHANGED <<vars, execution>>

\* 429: tried again, and known not to be billed.
AttemptRateLimited(t) ==
  /\ At(t, "attempt")
  /\ IF turn[t].attempt < MaxAttempts
     THEN turn' = [turn EXCEPT ![t].attempt = @ + 1]
     ELSE GiveUp(t, turn[t].uncertainPriorAttempt)
  /\ UNCHANGED <<vars, execution, cost>>

\* Mutant: only the last attempt's certainty counts.
RejectedForgetsPrior(t) ==
  /\ At(t, "attempt")
  /\ GiveUp(t, FALSE)
  /\ UNCHANGED <<vars, execution, cost>>

\* A definitive refusal (auth, invalid request): not tried again.
AttemptRejected(t) ==
  /\ At(t, "attempt")
  /\ GiveUp(t, turn[t].uncertainPriorAttempt)
  /\ UNCHANGED <<vars, execution, cost>>

\* An answered call is settled, and another one follows if the model asked for
\* tools; the turn goes on whatever becomes of the settlement.  A malformed answer is
\* paid for like any other and ends the turn.
AfterAnswer(t) ==
  \E next \in {"record"} \cup (IF turn[t].calls < MaxIterations THEN {"call"} ELSE {}) :
    turn' = [turn EXCEPT ![t].step = next,
                         ![t].reservationIds = @ \cup {turn[t].current}]

SettleCall(t) ==
  /\ At(t, "settle")
  /\ \/ SettleReservationForUsage(turn[t].current, turn[t].attempt, turn[t].usage)
     \/ UNCHANGED vars  \* expired meanwhile, or the settlement failed: the hold stays
  /\ AfterAnswer(t)
  /\ UNCHANGED <<execution, cost>>

\* releaseReservation after a definitive rejection: read, then update under the lock.
ReleaseCall(t) ==
  /\ At(t, "release")
  /\ \/ ReadForRelease(t, turn[t].current) /\ Goto(t, "releasing")
     \/ UNCHANGED vars /\ Fail(t)  \* not open any more, or the read failed
  /\ UNCHANGED <<execution, cost>>

\* Mutant: the reservation is released on the strength of the earlier read.
ReleaseUnchecked(t) ==
  /\ At(t, "releasing")
  /\ Close(turn[t].current, "RELEASED", 0)
  /\ request' = [request EXCEPT ![t] = Idle]
  /\ Fail(t)
  /\ UNCHANGED <<aiCredits, ledger, listed, faults, execution, cost>>

CommitRelease(t) ==
  /\ At(t, "releasing")
  /\ ReleaseReservation(t) \/ AbandonRequest(t)
  /\ Fail(t)
  /\ UNCHANGED <<execution, cost>>

-----------------------------------------------------------------------------
(* AiExecutionsService.record. *)

\* Mutant: every execution posts a row of its own, metered or not.
RecordAndPost(t) ==
  /\ At(t, "record")
  /\ execution' = [r \in Reservations |->
       IF r \in turn[t].reservationIds /\ execution[r] = NoKey THEN t ELSE execution[r]]
  /\ Goto(t, "post")
  /\ UNCHANGED <<vars, cost>>

\* The execution row is written; reservations of the turn are linked to it, a
\* turn without any goes on to post the execution's own row.
Record(t) ==
  LET ids == turn[t].reservationIds
  IN  /\ At(t, "record")
      /\ execution' = [r \in Reservations |->
           IF r \in ids /\ execution[r] = NoKey THEN t ELSE execution[r]]
      /\ Goto(t, IF ids # {} THEN "done" ELSE "post")
      /\ UNCHANGED <<vars, cost>>

\* The row or its link cannot be written: logged, the reply goes out all the same.
RecordFails(t) ==
  /\ At(t, "record")
  /\ Goto(t, "done")
  /\ UNCHANGED <<vars, execution, cost>>

\* settleForExecution of 0 credits for a turn that failed before any answer.
PostExecution(t) ==
  /\ At(t, "post")
  /\ \/ ReadForSettlement(t, t, 0) /\ Goto(t, "posting")
     \/ UNCHANGED vars /\ Goto(t, "done")
  /\ UNCHANGED <<execution, cost>>

CommitPost(t) ==
  /\ At(t, "posting")
  /\ SettleForExecution(t) \/ AbandonRequest(t)
  /\ Goto(t, "done")
  /\ UNCHANGED <<execution, cost>>

-----------------------------------------------------------------------------

\* The process dies between any two steps of a turn.
Crash(t) ==
  /\ turn[t].step \notin {"idle", "done", "crashed"}
  /\ Goto(t, "crashed")
  /\ IF request[t] = Idle THEN UNCHANGED vars ELSE AbandonRequest(t)
  /\ UNCHANGED <<execution, cost>>

TurnStep(t) ==
  \/ Begin(t)
  \/ ReserveCall(t) \/ RefuseCall(t)
  \/ AttemptAnswered(t) \/ AttemptLost(t) \/ AttemptRateLimited(t) \/ AttemptRejected(t)
  \/ SettleCall(t)
  \/ ReleaseCall(t) \/ CommitRelease(t)
  \/ Record(t) \/ RecordFails(t)
  \/ PostExecution(t) \/ CommitPost(t)
  \/ Crash(t)

\* The rest of the system: purchases are granted, time passes, sweeps run.
WalletStep ==
  /\ \/ \E r \in Reservations : PassExpiry(r)
     \/ \E s \in Sweepers : SweepStep(s)
     \/ \E q \in Requests \ Turns :
          (\E p \in Purchases : ReadForGrant(q, p)) \/ GrantPurchase(q)
  /\ UNCHANGED meteringVars

MeteringNext == (\E t \in Turns : TurnStep(t)) \/ WalletStep

MeteringSpec == MeteringInit /\ [][MeteringNext]_allVars

MeteringFairSpec ==
  /\ MeteringSpec
  /\ \A r \in Reservations : WF_allVars(PassExpiry(r) /\ UNCHANGED meteringVars)
  /\ \A s \in Sweepers : /\ WF_allVars(ListExpired(s) /\ UNCHANGED meteringVars)
                         /\ WF_allVars(ExpireListed(s) /\ UNCHANGED meteringVars)

-----------------------------------------------------------------------------
(* Properties. *)

MeteringTypeOK ==
  /\ TypeOK
  /\ turn \in [Turns -> Turn]
  /\ execution \in [Reservations -> Turns \cup {NoKey}]
  /\ cost \in [Reservations -> Nat]

\* Work the provider may have done is never given away: once a reservation is
\* over, it was charged at least what the provider is owed for all attempts made
\* under it, also when an uncertain attempt was followed by a definitive refusal,
\* when the process died, or when the sweep closed it during the call.
NeverUnderRecovers ==
  \A r \in Reservations : Closed(r) => reservation[r].settledCredits >= cost[r]

\* Work that is not charged yet can be: what the provider is owed under the open
\* reservations, counted credit by credit, never exceeds the balance.
UnpaidUnits == {u \in Reservations \X (1..MaxReservation) :
                  IsReserved(u[1]) /\ u[2] <= cost[u[1]]}

UnpaidWorkIsCovered ==
  /\ \A r \in Reservations : IsReserved(r) => cost[r] <= MaxReservation
  /\ Cardinality(UnpaidUnits) <= aiCredits

\* A call costs the tenant at most what was reserved for it.
ChargedWithinHold ==
  \A r \in Reservations : reservation[r].settledCredits <= reservation[r].reservedCredits

\* The settlement of an answered call is never refused while its reservation is open:
\* neither "more attempts than were reserved" nor "not enough credits" can happen, however
\* much the other holds, charges and sweeps have taken since.
SettlementsGoThrough ==
  \A t \in Turns :
    LET r == turn[t].current IN
    At(t, "settle") /\ IsReserved(r) =>
      /\ RowsOf(r) = {}
      /\ turn[t].attempt * reservation[r].maxCreditsPerAttempt <= reservation[r].reservedCredits
      /\ UsageCharge(r, turn[t].attempt, turn[t].usage)
           <= aiCredits - (HeldCredits - reservation[r].reservedCredits)

\* A turn is charged through its reservations or through its execution row, never
\* both: an execution with a row of its own has no reservation linked to it.
OneWayToCharge ==
  \A t \in Turns : RowsOf(t) # {} => \A r \in Reservations : execution[r] # t

\* Whatever turns do, they use the wallet as AiCredits specifies it: no call settles,
\* releases or posts past the locks and re-checks of AiCreditsService.
ImplementsAiCredits == Spec

\* Whatever a turn does or wherever it dies, work done for it is paid in the end.
WorkIsPaid ==
  \A r \in Reservations : cost[r] > 0 ~> reservation[r].settledCredits >= cost[r]
=============================================================================
