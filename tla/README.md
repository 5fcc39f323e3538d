# TLA+ models of the WhatsApp SaaS platform

Formal models of the parts of this repository where several actors work on one
state. Money first: the AI credit wallet, the metered AI calls that draw on it, the
payments that fill it, and the orders and payments of Managed Commerce. Then
messages: bulk campaigns, a conversation between a customer, the AI and human
agents, and the sockets of linked WhatsApp phones. TLC checks the models on small instances,
TLAPS proves the central safety properties for every value of the constants. `PROJECT.json` lists the
components, the runs, the map from definitions to source lines, the hazards, the
findings and the theorems; this file says how they fit together.

## 1. The system

A pnpm monorepo. `apps/backend` is a NestJS API over PostgreSQL (Prisma) and Redis
(BullMQ); `apps/worker` runs the queue processors; `apps/whatsapp-web` keeps one
Baileys socket per linked phone; `apps/realtime` fans events out to browsers;
`apps/frontend` and `apps/mobile` are clients. Backend and worker may run as
several instances: nothing in memory is shared, the database is. All handlers are
async, so between two awaits of one handler any step of another may happen, and a
process may die at any of them. Outside are Meta, Paystack, Stripe and DeepSeek.

| Component | State | Operations | Hard because |
|---|---|---|---|
| AI credit wallet (`ai-core/credits`) | `Tenant.aiCredits`, `AiCreditReservation`, `AiCreditTransaction` | reserve, settle, release, expire (sweep), charge flat, grant, adjust | all of them run concurrently; the sweep runs in every instance and races with late settlements |
| Metered calls (`ai-core/completion`, `tools`, `executions`, `pipeline`) | the local state of a turn, `AiExecution`, the link to reservations | reserve, call with retries, settle or release, record | a lost answer may have been billed; the process may die between call and settlement |
| Commerce orders (`commerce/orders`) | `Order`, `OrderItem` | add item, submit, approve, reject, cancel, update fulfilment | reads and writes are separate statements without a lock |
| Commerce payments (`commerce/ledger`, `webhooks`, `public-checkout`) | `CommerceLedgerEntry` | webhook, verify, reprocess, refund | repeated, overlapping and late deliveries under two event ids |
| Billing (`billing`) | `Payment`, `Invoice`, `Subscription`, `CreditPurchase`, `BillingEvent` | checkout, webhook, cron | deduplication by check-then-write, errors answered with 200 |
| Campaigns (`campaigns`, worker) | `Campaign`, `CampaignRecipient`, `Message`, jobs of `CAMPAIGN_SEND` | create, launch, defer, pause, resume, delete, send a batch, complete | at-least-once jobs, external sends before their rows, a pause that is read once per batch |
| Conversations and the AI's turns (`conversations`, `messages`) | `Conversation.status`, `assignedToId`, `Message`, the chain of turns in memory | inbound message, request, intervene, take over, resolve, reopen, hand back; generate, suggest, hand off, reply | a provider call of seconds between the check of the owner and the reply; repeated webhooks; stale owners |
| WhatsApp-web sessions (`whatsapp-web`) | map of sockets, lease columns, auth state | connect, heartbeat, reconnect, flush keys, start, shut down, disconnect, log out | one owner among processes, check-then-act across awaits, timers |
| Receipts, calls | `Message.status`, `Call.status` | status webhooks | out-of-order events |
| Snooze and inactivity | delayed jobs | snooze, wake | delayed jobs of an older state |
| Reconciliation, rollups, SLA, quality sync (worker) | exceptions, rollup rows | scheduled scans | check-then-create |
| The rest (contacts, templates, segments, teams, auth, analytics, notifications, clients ...) | CRUD rows | | little control of their own |

Interactions: an AI turn calls the wallet (reserve, settle, release) and records
an execution, which links the reservations; a credit purchase reaches the wallet
through the billing webhook (`grant`); AI tools and admins operate on orders;
Paystack's webhooks and the checkout page's polling reach the commerce ledger,
which sets the order to PAID. An inbound message is stored, hands the conversation to
the AI's chain of turns, and each turn looks at the owner of the conversation again
before it pays and before it sends. The backend reaches a WhatsApp-web process by HTTP and
shares the session's row with it. Campaign jobs go through Redis.

What makes each component correct: the wallet never spends held or missing
credits, every change has its row, nothing is charged or granted twice, no hold
lasts for ever; metered work is always paid and paid once; an order is received
only with a recorded sale, sales are real, recorded once, and never lost;
a payment is fulfilled only if it was made, once, and in the end;
what a campaign reports as sent was sent, a recipient is messaged again only by a
repeated delivery, and a completed campaign has left nobody out; the AI does not
talk over an agent, take a conversation from one on its own account, or answer a message twice, and it answers what it has
queued or leaves it to a human for a known reason; a process that lost a session's lease gives its socket up, reconnects are
bounded and use the keys that were negotiated.

## 2. Modules

| Module | What it is | Source |
|---|---|---|
| `CreditWallet` | abstract specification: what a prepaid wallet promises | none, it is a promise |
| `AiCredits` | the wallet service | `ai-credits.service.ts` |
| `AiCreditsProofs` | theorems about `AiCredits` | |
| `AiMetering` | AI turns on top of `AiCredits` (which it EXTENDS) | `ai-metered-provider.service.ts`, `deepseek.provider.ts`, `tool-calling.service.ts`, `ai-executions.service.ts` |
| `AiMeteringProofs` | theorems about `AiMetering` | |
| `BillingWebhook` | payments from checkout to fulfilment, on top of `AiCredits` (which it EXTENDS) | `billing-webhook.controller.ts`, `billing.service.ts`, `stripe.gateway.ts`, `paystack.gateway.ts` |
| `BillingWebhookProofs` | theorems about `BillingWebhook` | |
| `PaymentDesk` | abstract specification: what the handling of payments promises; `BillingWebhook` and `CommerceOrders` implement it | none, it is a promise |
| `CommerceOrders` | an order, its payments and its ledger | `orders.service.ts`, `commerce-ledger.service.ts` |
| `CommerceOrdersProofs` | theorems about `CommerceOrders` | |
| `Campaigns` | a bulk campaign: backend, queue, worker | `campaigns.service.ts`, `campaign-send.processor.ts` |
| `CampaignsProofs` | theorems about `Campaigns` | |
| `Conversations` | a conversation with its customer, agents and the AI's turns | `messages.service.ts`, `conversations.service.ts`, `ai-takeover.util.ts` |
| `ConversationsProofs` | theorems about `Conversations` | |
| `WebSessions` | a linked phone, the processes that may serve it, and the backend's requests | `session-manager.ts`, `auth-state-store.ts`, `index.ts`, `whatsapp-web.service.ts` |
| `WebSessionsProofs` | theorems about `WebSessions` | |
| `MC*` | values of the constants for TLC, symmetry sets | |

Definitions whose comment starts with "Mutant" are faulty variants of the
definition below them. No specification uses them; substituting one for its
original must make TLC refute the property `PROJECT.json` pairs it with, which
shows that the property depends on the code.

### AiCredits

One tenant. `aiCredits`, `reservation` and `ledger` are the three pieces of
persistent state. Every transaction begins with `SELECT ... FOR UPDATE` on the
tenant row and reads again what it depends on, so one action stands for
everything from the lock to the commit. Reads made before the lock are actions of
their own, and their result waits in `request` (a release, a grant, the charge of
an execution) or in `listed` (ids of a sweep) until the transaction runs; between
the two anything may happen.

* `ReserveForProviderCall`, `ReserveFixedCredits`: hold credits if the balance less
  the open holds covers them.
* `SettleReservation`, in its two uses `SettleReservationForUsage` and
  `SettleFixedCredits`: charges and closes. A settlement that returns early or throws
  changes nothing and needs no action.
* `ReadForRelease`/`ReleaseReservation`.
* `PassExpiry` is the passing of `expiresAt`; `ListExpired`, `ExpireReservation`,
  `AbortSweep` are the sweep, of which several may run at once.
* `ReadForSettlement`/`SettleForExecution`, `ReadForGrant`/`GrantPurchase`:
  the lookup, and the transaction that the unique column refuses if another won.
* `AdjustCredits` (bonuses and adjustments of an admin, both signs; the BONUS and
  ADJUSTMENT types are not told apart), `ChargeFlat`, `AbandonRequest` (a crash).

The three unique columns of a ledger row are one field `key`, since a row has at
most one of them. Held credits are a set of (reservation, credit) pairs and their
sum its cardinality: a sum without recursion, which the prover can reason about.
`chargeFlat` is exported and kept in the model, although the legacy responder now
uses a fixed reservation.

### AiMetering

`turn[t]` is the local state of an AI turn: where it is, the reservation of the
current call, the attempt, whether an earlier attempt was uncertain. `cost[r]` is
a history variable: what the provider has done under reservation `r`, which the
system cannot see. `Owed` bounds it per attempt by the quote, because the quote
is priced for a full context window and the full answer. A 429 or a definitive
refusal is taken as not billed, as the code takes it. The steps of `complete`,
of the retry loop, of the tool-calling loop and of `record` are actions; a
settlement may fail and the turn goes on; `Crash` can happen at every step. The
wallet steps are those of `AiCredits`, and `ImplementsAiCredits` checks that turns
use it by its own specification and in no other way.

### BillingWebhook

`charge`, `sent` and `due` are the gateway: what became of a charge, the events it
has produced, and those it will deliver until it gets a 200. `payment` is
`Payment.status`. `fulfilled` holds the payments whose `CreditPurchase` is SUCCEEDED
(credit packs, which are the wallet's `Purchases`) or whose `Invoice` is PAID (plans);
`processed` holds the events with a processed `BillingEvent` row, which is what
deduplication looks at; an unprocessed row counts for nothing and is left out.
`webhook[h]` is a handler between two awaits. `Deliver` is the check for a processed
row, `FindPayment` the read of the payment, `MarkSucceeded` and `MarkFailed` its
update, `ReadFulfilment` the read of the purchase or invoice, `LookupGrant` and
`CommitGrant` the wallet's `grant` in its two steps, `Activate` and `MarkFulfilled` the
rest, `Finish` the processed mark and the answer. `CatchError` is the catch block that
answers 200; `Crash` is a process that dies, or an error before the try block, and
leaves the event to be delivered again. `InvoicesNamingPlan` is empty because
`createInvoice` writes no metadata. `OtherWalletStep` is everything else that happens to the
wallet, and `WebhooksUseTheWallet` checks the whole against the specification of the wallet.
`Desk` says what all this shows of the payments: a payment is attended to while an event of its
success is due, and excused while such an event was answered with 200 after an error.

Left out: renewals, cancellations and trials. The first two are found through ids that
are stored only after an activation, and no invoice leads to one.

### CommerceOrders

One order. `handler[h]` is a request between two awaits with what it has read.
Nothing locks the order, so `ReadForCancel` and `SetStatus`, `ReadForSubmit`,
`InitializeTransaction` and `SetReference`, `SumLines` and `SetTotal` are separate steps;
only `MarkPaid` (the transaction of `recordPaymentSuccess`) writes several rows
at once. `approveOrder` and `rejectOrder` check the status and then go through
the steps of `submitForPayment` and `cancel`. `transactions` lives at Paystack: a
transaction becomes payable when the order has its reference and the customer
its link, and may be paid whatever becomes of the order. A webhook may be
delivered any number of times, before and after it was acknowledged; it carries
the reference as its event id, while the verify call returns the numeric id, so
an event is a pair of reference and kind. Amounts are whole minor units, and
`ComputeTakeRate` is the rounding of `computeTakeRate` in integers. `Desk` shows the order's
payments as `PaymentDesk` sees them: attended to until the webhook is answered, and excused
while the order is not waiting for a payment.

Left out: the order event log, the staff tasks and the lead status (written and
never read back by these handlers), the dry-run references of the evaluation
harness, currency, the reads.

### Campaigns

One campaign. `request[q]` is a request of the backend between its read of the campaign and
its write, `job[j]` a batch in the queue or in a worker's hands. `ReadFor...` is the
lookup and the check of the status, and `LaunchNow`, `Pause`, `Resume` or `Defer` the
write, which looks at nothing again; so two launches may both go through. `ListPending`
and `Enqueue` are the read of the recipients and the jobs made of them: a resume
makes new jobs of recipients whose old jobs are still queued. `Take`, `List` and the
loop (`SkipUnreachable`, `SendAccepted` or `SendFails`, `StoreMessage`, `MarkSent`, `CountSent`)
are the worker, one action per await; the recipient's status is not looked at again after the
batch was listed. `CatchError` is the catch block of the loop, `AttemptFails` an error outside
it: each uses up one attempt, and the last one has the job given up. `Crash` is a worker that
dies: the queue finds the job stalled and delivers it again, without counting an attempt, but
only once (`stalled`), since the worker leaves the queue's stall limit at its default of one; the
second time the job is given up as well. `CheckDone` and `Complete` are two steps, as in the code.

`accepted` is what Meta was sent; `deliveries` counts how often a batch found the recipient
pending. Left out: DELIVERED and READ (SENT stands for them), the counters of a
campaign, the edit of a draft, the delays of the queue (jobs come in any order), a
backend that dies between RUNNING and the queue, and the scheduled start: nothing in
the worker reads its queue.

### Conversations

One conversation. `delivery[d]` is the handler of a webhook: duplicate check, row,
insert, dispatch. Row reads and row writes are two steps (`Find` and `ReopenForCustomer`,
`AskForHuman` and `RequestForCustomer`); the insert is refused by the unique column if another
delivery won. `turns` is `conversationAiLocks`, a chain of promises in the one
backend process: the first turn runs, one await per action, with the provider's answer
(`Generate`) in the middle, and looks at the owner before it pays (`CheckBeforeCall`),
before it sends (`CheckBeforeReply`), after a handoff and before each image. A lookup
that fails counts as "an agent has it", as in the code. `request[q]` is an agent's request:
interventions, resolutions and hand-backs read the row first (`Read`), takeovers,
transfers, reopenings and the general setter do not. A takeover goes to an agent; a transfer and
the general setter write any user they are given, the AI's own user, which the list of users shows with
everyone else, included. The hand-back is conditional on the owner that
was read, the AI's own assignment on there being none.

`outcome` is history: what the AI's turn came to for each message. It is "answered" when the
reply was delivered or the suggestion shown; "undelivered" when the channel did not take the
reply (`sendAiText` stores the row as FAILED and the turn goes on); "referred" when a turn in
suggestion mode got no response, so that nothing was stored or shown, but a human was asked for.
It stays "none" when the turn ends otherwise, also when a suggestion is not shown because its log cannot
be stored, or when there is none and the request for a human failed too. `told` is the
stored apology for an outage that `recentProviderFailureFallbackSent` looks for: it takes a row that was
stored and a request for a human that succeeded, whatever the channel made of the text.

`MayBeAway` are agents whose presence may lapse while the tenant lets the AI step in for
them, so whether they keep the AI out is open at each check. `late` counts the AI's
messages since an agent who is present took over. It starts from 1 if no message had passed
its last check by then, so `OnlyCheckedIsLate` allows the one that had and no other.

Messages are numbered in the order in which they first come (`Arrive`), which halves the state
space and leaves nothing out. Left out: creation of the row, snooze, notes, read marks, import,
simulated contacts, and a restart of the backend, which loses the chain of turns. The rule that
only the owner or an admin may close or hand back is left out, because one of them can always do it.

### WebSessions

One session. `conn[c]` is one call of `connect()` and the socket that came of it: `claim`,
`load`, `start` are the awaits before the entry in the map (`active`), `live` the
socket, `write`, `flush` and `timer` the handler of its close. The check of the map at the
beginning of `connect()` and the entry made at its end are several steps apart, and the entry
replaces whatever is there. `fresh` says the lease's heartbeat is not older than 45 seconds; `Stale` lets it
lapse when its owner is gone, or, `MaxLapses` times, when the owner is held up. A
restarted process has a new id, hence is another instance. The timer is `Reconnect`, with the
attempts it carries over. `EndSocket` and `Unlink` are disconnect and logout in the process, the
backend's own writes follow.

`Replace` is a write of the auth state, which replaces the whole: a socket may overwrite the keys of
another. `expects` and `spare` are history. Left out: sending, and parsing of what comes in; the
backend's write of a status it is notified of, which repeats the one just made; a pairing that
cannot start, which is rolled back. The shutdown's two steps (flush, release) are one; the
heartbeat's update and what it does when refused are one.

## 3. Runs

| Run | Checks | Bounds |
|---|---|---|
| `wallet_safety` | `TypeOK`, `Solvent`, `LedgerExplainsBalance`, `AtMostOncePerKey`, `ReservationsMatchLedger`, `ClosedForGood`, `ImplementsWallet` | 2 reservations, 2 handlers, a sweep with a batch of 1 that may fail once, a purchase of 3 credits, an execution, 2 attempts, unkeyed charges and adjustments on a ledger of at most one row |
| `metering_safety` | `MeteringTypeOK`, `NeverUnderRecovers`, `OneWayToCharge`, `ImplementsAiCredits` | 2 turns of at most 2 calls with 2 attempts each, 2 reservations |
| `metering_paid` | `WorkIsPaid`, `HoldsAreResolved` | 1 turn of 2 calls, 2 reservations, 2 sweeps with a batch of 1, one failure |
| `orders_safety` | `OrderTypeOK`, `ReceivedIsRecorded`, `SalesAreReal`, `OneSalePerEvent`, `SalesHaveTheirShare`, `PaidOnlyWithSale` | 2 handlers, 2 transactions, 1 product, one failure |
| `orders_payments` | `PaymentsAreRecorded` | 2 handlers, 1 transaction, one failure |
| `orders_paid_is_one_way` | `PaidIsOneWay`, violated (section 5) | 2 handlers, 1 transaction |
| `billing_safety` | `BillingTypeOK`, `OnlyPaidIsFulfilled`, `FulfilledIsGranted`, `ProcessedIsFulfilled`, `WebhooksUseTheWallet` | 2 handlers, a credit purchase and a plan that Stripe reports in two events, an error, a crash, an adjustment of the wallet |
| `billing_liveness` | `PaidIsFulfilled` | 2 handlers of a purchase, an error, 2 crashes |
| `campaigns` | `TypeOK`, `SentIsReal`, `CompletedMeansDone`, `OncePerDelivery`, `LaunchedIsCompleted` | 2 recipients, one of whom may opt out, 4 requests of which the third may delete, 3 jobs of one recipient, 2 at a time, 2 attempts; the first job may meet 2 faults |
| `conversations` | `ConversationTypeOK`, `OnlyCheckedIsLate`, `OneTurnPerMessage`, `AgentsKeepTheirConversation`, `TurnsAreAnswered` | 2 deliveries of at most 2 messages, 2 agents of whom one may be away, the AI as a possible assignee, 2 requests, a reply with an image, one failed query |
| `web_sessions` | `SessionTypeOK`, `RetriesAreBounded`, `ReconnectsWithItsKeys`, `LostLeaseIsYielded` | 2 processes, 2 connections, a pairing and another request, a lapse of the lease, one failed write |
| `web_sessions_paired` | `PairedIsNotUnscanned`, violated (section 5) | 1 process, 3 connections |

Why the bounds are enough. The hazards are races of two: a stale read against one
committed change, two deliveries, two sweeps, a retry against an expiry. Two
handlers give every such pair; two reservations let one operation touch a hold
while another is computed from the sum of both; a batch of 1 makes the sweep
leave work for a later pass. Three jobs for two recipients are the launch and
one more job that a resume makes of a recipient whose first job is still there; two
connections are a socket and the one that replaces it, in its own process or in the other. A purchase of 3 with holds of up to 2 makes both
"enough" and "not enough" reachable in every guard. Every named bound sits in a
guard of an action that creates something new (`MaxLedger`, `MaxFaults`,
`MaxQuantity`, `MaxReservation`, `MaxJobs`, `MaxConnects`, `Deleters`, the deliveries and requests) or in a failure (`MaxErrors`, `MaxCrashes`, `FaultyJobs`, `MaxLapses`), never in one that finishes what was begun, and
the theorems of section 4 hold for every value of them. `Campaigns` starts a campaign only while
there are jobs left for it (`JobsAreLeft`); `WebSessions` opens a connection only while there are some left.
Two faults are as many as a job has attempts, so the run of `Campaigns` reaches a batch that is given
up, by failed attempts and by a worker that died twice, while the campaign is RUNNING: without its excuse
`LaunchedIsCompleted` is violated there. `Deleters` is the third request only: one request creates, and a
delete that is read second, third or last passes the same check; as the third it has a launch or a deferral
before or beside it, and one more request after it. Two deletions beside each other, which write the same, are not in the run.

Deadlock is not checked: reservations, purchases and transactions are finite in
number and the workload is bounded, so a run may come to rest with nothing to do.

Symmetry is used in the safety runs over ids that nothing compares except for
equality, and in no run that checks liveness.

Fairness. `AiCredits`: time passes (`PassExpiry`), and the interval timer of every
instance runs the sweep again after a failed pass, so listing and expiring are
weakly fair per sweep; no handler, provider or turn is assumed to make progress.
`BillingWebhook` and `CommerceOrders`: a handler that runs goes on (`Continue`, weakly fair; failures
are bounded by `MaxFaults`, `MaxErrors`, `MaxCrashes`), and the gateway delivers again until it is answered with
200. `Redeliver` is strongly fair because a model has few handlers, which may be
busy now and then, where the server takes every delivery.
`Campaigns`: one weak fairness condition over the steps of all handlers and jobs together, the
weakest that serves, since each has finitely many steps; a user need do nothing, and a fault is never due. `Conversations`: a
delivery's handler goes on, and so does the turn that runs, because the provider answers or its
call times out. `WebSessions`: the heartbeat's interval timer and the requests that are being
served; no socket need open, close, scan or retry.

## 4. What is proved

The invariants, step properties and refinements of all passing runs are theorems, for every value of the
constants. Liveness is not within the prover's reach, but what liveness rests on is: each
liveness property but `HoldsAreResolved` says that something is not forgotten, and that has
a safety half, an invariant or a property of steps, which is proved.

| Checked under fairness | Its safety half | Theorem |
|---|---|---|
| `WorkIsPaid` | `UnpaidWorkIsCovered`, `SettlementsGoThrough`: the balance covers all work not charged yet, and nothing refuses the charge | `WorkStaysCovered`, `AnswersCanBeSettled` |
| `PaidIsFulfilled` | `NoPaymentIsForgotten`: an unfulfilled payment has an event due, or one swallowed | `PaymentsAreKept` |
| `PaymentsAreRecorded` | `AcknowledgedIsHandled`: a webhook is answered only when nothing is left to do | `AcknowledgedPaymentsAreHandled` |
| `LaunchedIsCompleted` | `PendingIsQueued`, `NoBatchIsDropped`: whoever is PENDING is queued, and batches leave the queue worked off, unless they are given up | `NobodyIsForgotten`, `BatchesAreWorkedOff` |
| `TurnsAreAnswered` | `NoTurnIsDropped`: no turn leaves the chain but for a named reason | `EveryTurnIsAccountedFor` |
| `LostLeaseIsYielded` | `SocketsAreWatched`: a socket in use has a heartbeat that will ask for the lease | `SocketsHaveTheirWatch` |

The middle column, `ChargedWithinHold` and `ImplementsDesk` are in no `.cfg`, because their theorems say more.
To have TLC check one, add it to the first `.cfg` that section 3 lists for its module; each was checked so before it was proved.

`AiCreditsProofs`, from `CreditAssumption` only. Every step of the service is one
of five movements (keep, reserve, charge, release, post), one lemma per action;
each part of the invariant is then proved once per movement instead of once per
action. `WalletInvariant` is inductive: type correctness, `Solvent`, the chain of
balances, uniqueness of keys, agreement of reservations with rows, and that
requests and lists name things that exist. `Solvent` alone is not inductive: an
expiry takes the reserved credits from the balance and from the holds at once,
which needs the cardinality of the units of one reservation. Proved: `TypeCorrect`,
`Solvency`, `LedgerIsComplete`, `Idempotence`, `ReservationsAreExplained`,
`ClosedStays`, and `WalletImplemented`: the refinement of `CreditWallet` (initial
states map to initial states, every movement to a step or a stutter).

`AiMeteringProofs`, from `CreditAssumption` and `MeteringAssumption`. What the provider is owed must be
bounded at every moment of a call, not only at its end: `CallKnows` says that an attempt begins with at
most the maximum of each earlier one, that it is nothing unless an earlier attempt was
uncertain, that an answered call is owed no more than its charge, and a refused one nothing.
`HoldCovers` ties a reservation to what was done under it, `OwnCalls` says no two calls share one,
`RequestIsTurns` that whoever releases or posts does so for its own call, and `ChargedOneWay` that a turn
is charged at its end, in one of two ways. One lemma per step shows what it does
to its own turn (`StepOK`), one that it is seen nowhere else (`Frame`), and one what sweeps
and purchases may do meanwhile (`WalletMove`). Proved: `MeteringTypeCorrect`, `NothingIsGivenAway`,
`ChargedOnlyOneWay`, `WalletUsedAsSpecified`; through the last, the theorems of `AiCreditsProofs` hold of the
wallet in use, `WalletKeepsItsPromises` by name, the refinement of `CreditWallet` with it.
`WorkStaysCovered` counts what is owed credit by credit: under each open reservation it is a subset of the
units held, whose number the balance covers. `NoSurprises` and `AnswersCanBeSettled` need that the usage an
answered call brings to its settlement is within the quote of one attempt (`WithinQuote`, part of
`ChargeInvariant`), which no later step of the turn, and no step of another, can change.

`CommerceOrdersProofs`, from `OrderAssumption` only. `OrderInvariant` adds to types,
`ReceivedIsRecorded` and `SalesAreReal` what the handlers carry between their
steps: a payment about to be recorded is a successful transaction of that amount,
a status about to be written other than a cancellation or a request for approval
was earned by a sale, and a reference about to be written is a transaction no
customer has yet. Without these a stale write could be anything.
`LedgerInvariant` says the ledger is a sequence of pairs, each share right behind
its sale, which is what makes `OneSalePerEvent` and `SalesHaveTheirShare` inductive.
`TakeRateIsFair` says what `computeTakeRate` does for every amount and every rate in 0..100: it is within half
a minor unit of the exact share, and monotone.
`DeskImplemented` is the refinement of `PaymentDesk`; its invariant adds that only webhooks of payments
that were made are answered (`AnswersAreEarned`). Three lemmas say where a payment is made (`PaymentsWhere`), an event is recorded
(`RecordedWhere`) and a webhook answered (`AnswersWhere`), so that the refinement has four cases instead
of one for each action.
Proved: `OrderTypeCorrect`, `NothingShipsUnpaid`, `RevenueIsReal`,
`PaidWithItsSale`, `EventsCountOnce`, `SharesMatchSales`, `AcknowledgedPaymentsAreHandled`,
`TakeRateIsFair`, `DeskImplemented`.

`BillingWebhookProofs`, from `CreditAssumption` and `BillingAssumption`.
`BillingInvariant` says what a handler knows at each step: that its event was sent, that a
success means a paid charge, that the wallet waits for its grant and for no one
else's (`NoOtherGrants`), and that a purchase about to be marked has its row. Most
steps leave the ledger alone and are proved through one lemma (`QuietStep`); the grant is
proved on its own; for the wallet's other users it is shown that they add no row of a
purchase. Proved: `BillingTypeCorrect`, `NothingForNothing`, `GrantComesFirst`,
`DeduplicationIsSafe`; and `WalletIsUsedAsSpecified`, a refinement through which every
theorem of `AiCreditsProofs` holds of the composition: `NeverGrantedTwice` first of all, and
`WalletKeepsItsPromises`. `PaymentsAreKept` needs one more fact about handlers, that only a failure is handled
as one (`FailuresFail`): without it a success could be answered in the failure's branch. Then an
event of a success leaves `due` only when its payment is fulfilled or the event is dropped (`Accounted`).
`DeskImplemented`, the refinement of `PaymentDesk`, rests on the same two facts.

`CampaignsProofs`, from `CampaignAssumption`. Batches overlap, so `SentIsReal` needs for each
recipient a count of what is on the way: the invariant says of every job how far it is with
the recipient it is sending to, and that the messages accepted are those stored and those
about to be. `OncePerDelivery` likewise counts the jobs that still have the recipient before them.
`CompletedMeansDone` rests on the fact that recipients become pending only while the campaign is created
and that a job at `complete` has seen none left. `PendingIsQueued` rests on `ForgetInv`: a job that has read its batch still has all who are
PENDING before it, what a request has read of the pending recipients is all of them, jobs are
numbered as they come, and a deleted campaign has nobody pending. Proved: `TypeCorrect`, `CompletedIsDone`,
`ReportsAreReal`, `NoExtraMessages`, `NobodyIsForgotten`, `BatchesAreWorkedOff`.

`ConversationsProofs`, from `ConversationAssumption`. The chain of turns is a sequence of which only
the first has begun (`TurnsOK`), and every step takes it off, replaces it, or appends one; three
lemmas say so for all actions, and what comes after speaks of the first turn only. `TurnInv` says at most one
delivery of a message is past the insert, and only until its turn is queued. `LateInv` says that
while a message which has passed its check is on its way, nothing has been late. For `NoTurnIsDropped`, a turn
comes to its images and to the assignment only after its reply (`Delivered`). Proved: `TypeCorrect`,
`OneTurn`, `AgentsAreNotTalkedOver`, `ConversationsAreKept`, `EveryTurnIsAccountedFor`.

`WebSessionsProofs`, from `SessionAssumption`. `SessionInvariant` says what a call of `connect()` knows at
each of its steps (`Fits`), that the entry in a process's map is a live socket of its own, and that a request
waits for a socket that is or was alive. `RetriesAreBounded` needs more: a timer that finds the session in the map
writes its count into the entry of another connection, so counts move and no bound per
connection is inductive. The set `Left(UsedUp)` holds the pairs of a connection and an attempt it may still make;
`spare` is at least its size. Four lemmas on sizes of such sets cover the steps:
attempts are only used, one is used and paid for, all of one connection are given back, those of one go over to
another. `SocketsAreWatched` needs `WatchInv`: a process that is gone has no entry and no connection left, and a
request that has stopped a heartbeat waits for a process that runs, shuts down or is gone, never for one
that starts afresh. One lemma (`WatchGoesOn`) says what a step must show to keep it: that each connection's
heartbeat goes on beating or its entry goes, one process at a time.
Proved: `SessionTypeCorrect`, `ReconnectsAreBounded`, `KeysAreThere`, `SocketsHaveTheirWatch`.

Only model-checked: that what is not forgotten does happen under fairness (`HoldsAreResolved`, `WorkIsPaid`,
`PaymentsAreRecorded`, `PaidIsFulfilled`, `LaunchedIsCompleted`, `TurnsAreAnswered`,
`LostLeaseIsYielded`), because liveness is out of the prover's reach, as is ENABLED; `HoldsAreResolved` has no safety half
beyond the types. No theorem is about a
recursive definition: recursion is avoided in all modules with theorems.

## 5. Where the code and its documentation disagree

* `orders_paid_is_one_way`: "PAID is a one-way door" (`order-state.util.ts:4`). A
  cancellation or submission that read the order before the payment overwrites PAID.
* `web_sessions_paired`: `hasConnectedOnce` is documented to tell a QR code that was never scanned
  from a connection that dropped (`session-manager.ts:48-51`). It belongs to the entry, and a
  reconnect makes a new one: a paired phone whose first reconnect fails is QR_EXPIRED.

More of the same kind is reachable in the models and not kept as a run.

* Billing: the retry after a failed grant that `billing-webhook.controller.ts:153-155` relies on never
  comes, because the error is caught and answered with 200; a plan's activation is skipped because
  the metadata it is looked up in is never written (`:201`); a failure event
  whose handler read PENDING before the success overwrites SUCCEEDED (`:221-224`, in `MarkFailed`).
* Orders: the webhook and the verify call use different event ids and may both record one payment
  (`commerce-ledger.service.ts:188`, in `MarkPaid`); a line may be added to an order that left
  DRAFT since it was checked, or twice for one product (`orders.service.ts:45,58`, in
  `FindLine` and `PutLine`).
* Wallet: a call that fails with an uncertain outcome is charged its reserved maximum when its
  reservation expires, on purpose, against the older comment in `ai-executions.service.ts:40`.
* Campaigns: a batch that is given up, because its attempts failed (for instance without credentials,
  `campaign-send.processor.ts:67`, with the three attempts of `campaigns.service.ts:254`) or because its worker
  died twice, leaves its recipients PENDING and the campaign RUNNING for ever, with no job that could
  complete it; `LaunchedIsCompleted` names this exception. COMPLETED may overwrite a PAUSED that came
  after the count (`campaign-send.processor.ts:210`), which `CompletedMeansDone` permits.
* Campaigns: a resume makes jobs of recipients whose earlier jobs are still queued
  (`campaigns.service.ts:357-358`), so that two jobs may message one recipient; and one that finds nobody
  pending leaves the campaign RUNNING with no job that could complete it.
* Conversations: an AI turn that has asked for a human and then assigns the conversation to itself sets
  REQUESTED back to OPEN (`messages.service.ts:2094-2096`, `:2215-2217`).
* Conversations: a transfer or an update that names the AI's user gives it any conversation, also one that
  an agent has taken over since (`conversations.service.ts:457-467`, `:508-515`): the condition that the hand-back and
  the AI's own assignment make of the owner is missing there. `AgentsKeepTheirConversation` names this exception.
* Conversations: a turn in suggestion mode that gets no response shows nothing and asks for a human
  (`messages.service.ts:1937-1945`); if that fails too, or a suggestion's log cannot be stored (`:1974-1978`), nothing tells the
  agents. An apology that the channel refused is stored as FAILED and still counts as sent within its
  cooldown (`:1704-1719`), so the customer hears nothing of the outage.
* WebSessions: a process that comes back within 45 seconds of a crash finds the lease of its
  former id fresh, passes the session over and does not look again (`session-manager.ts:72,135`); a
  disconnect ends the socket, whose close handler reconnects it (`session-manager.ts:474`); a
  logout while a reconnect waits finds no entry, and the timer connects once more. `LostLeaseIsYielded` is about
  the socket in the map. "At most one instance can ever hold a live Baileys socket" (`session-manager.ts:98-99`) says
  more than that: it holds neither until the next heartbeat of the process that lost the lease, nor of an
  older socket that was replaced in the map, which nothing ends.

`ReceivedIsRecorded`, `SalesAreReal` and `OneSalePerEvent` hold in spite of these
races: an order may lose its PAID status, or count a payment twice, but none ships
without a payment.

`PaymentsAreRecorded` is stated for payments whose webhook was not answered yet and
lets the order leave PENDING_PAYMENT: the code answers 200 and drops a payment for
an order that is cancelled at that moment.

## 6. Not modelled, and what could come next

What is left of the components that are modelled: refunds (`recordRefund` has no caller),
the event log and staff tasks of an order, trials, cancellations and renewals of subscriptions (no event
reaches a subscription while none is activated), the edit and the counters of a campaign, creation,
snooze and import of conversations, sending by agents.

Small state machines that could be modules of their own, in order of importance: calls
(`calls.service.ts`: agents, events of Meta and the sweep of stale calls write one row, only some of them on
condition), receipts out of order (`Message.status` is read, compared and written by handlers side
by side), the snooze timer, and the nightly reconciliation scan, which reads orders and
ledger and which nothing reads back. The first two are listed as hazards without a property. A module of calls would
have three things to show: a call taken or placed is closed in the end (`expireStaleCalls`), an `ENDED` call was
answered, and where the comments do not hold: a late event revives a finished call, two overlapping requests
place two calls, a `terminate` event read before the agent hung up overwrites what the agent wrote and logs it again,
and the sweep closes a call that was taken as unanswered.

Not planned: prompts and model output, message formatting, user interfaces (a large part of the
repository's lines), authorisation checks, analytics, catalogue and contact management. They are text
processing, CRUD or reads, with little state that two actors could disagree about.
