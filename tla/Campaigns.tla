------------------------------- MODULE Campaigns -------------------------------
(***************************************************************************)
(* One bulk campaign: CampaignsService in the backend creates, launches,   *)
(* pauses, resumes and deletes it and queues batches of recipients; the    *)
(* CAMPAIGN_SEND worker sends them through Meta.  A request reads the      *)
(* campaign, decides, and writes later without looking again; a batch is   *)
(* delivered at least once.  What the worker reports of a message after    *)
(* it was sent (DELIVERED, READ) is left to receipts: SENT stands for all  *)
(* three here.                                                             *)
(***************************************************************************)
EXTENDS Naturals, FiniteSets

CONSTANTS
  Recipients,    \* the contacts the campaign is created for
  OptingOut,     \* those that may be blocked, or opt out or in again, at any time
  MaxJobs,       \* send-batch jobs; bounds how often the campaign is started
  MaxRequests,   \* requests to the backend, one operation each
  Deleters,      \* requests that may delete the campaign
  BatchSize,     \* recipients of a job
  Concurrency,   \* jobs the worker has in hand at a time
  Attempts,      \* attempts of a job
  FaultyJobs,    \* jobs that may meet a fault
  MaxFaults      \* crashes, failed queries and missing credentials in the worker

ASSUME CampaignAssumption ==
  /\ IsFiniteSet(Recipients) /\ OptingOut \subseteq Recipients
  /\ MaxJobs \in Nat /\ MaxRequests \in Nat
  /\ BatchSize \in Nat \ {0}
  /\ Concurrency \in Nat \ {0}
  /\ Attempts \in Nat \ {0}
  /\ FaultyJobs \subseteq Nat /\ MaxFaults \in Nat
  /\ Deleters \subseteq Nat

\* Jobs and requests are numbered in the order in which they come.
Jobs == 1..MaxJobs
Requests == 1..MaxRequests

VARIABLES
  status,       \* Campaign.status; "none" before it is created
  recipient,    \* CampaignRecipient.status of each row; "none" without one
  stored,       \* Message rows of each recipient
  job,          \* the queue and the worker
  request,      \* the local state of the backend's requests
  accepted,     \* at Meta: messages accepted for each recipient
  deliveries,   \* history: how often a job found the recipient PENDING
  faults        \* faults so far

database == <<status, recipient, stored>>
environment == <<accepted, deliveries, faults>>
vars == <<database, job, request, environment>>

\* No step makes a campaign FAILED.
Statuses == {"none", "DRAFT", "SCHEDULED", "RUNNING", "PAUSED", "COMPLETED", "FAILED", "deleted"}
Exists == status \notin {"none", "deleted"}

Pending == {r \in Recipients : recipient[r] = "PENDING"}

NoJob == [step |-> "none", recipients |-> {}, attempt |-> 1, stalled |-> FALSE,
          todo |-> {}, skip |-> {}, sending |-> {}]

Active == {"list", "loop", "accepted", "stored", "marked", "failing", "complete"}
Queued == Active \cup {"waiting"}

Init ==
  /\ status = "none"
  /\ recipient = [r \in Recipients |-> "none"]
  /\ stored = [r \in Recipients |-> 0]
  /\ job = [j \in Jobs |-> NoJob]
  /\ request = [q \in Requests |-> [step |-> "new", pending |-> {}]]
  /\ accepted = [r \in Recipients |-> 0]
  /\ deliveries = [r \in Recipients |-> 0]
  /\ faults = 0

-----------------------------------------------------------------------------
(* The backend. *)

At(q, step) == request[q].step = step
Goto(q, step) == request' = [request EXCEPT ![q].step = step]

Arrives(q) == At(q, "new") /\ \A p \in 1..(q - 1) : ~At(p, "new")

\* A request reads the campaign and goes on only from the states given.
ReadFor(q, states, step) ==
  /\ Arrives(q)
  /\ status \in states
  /\ Goto(q, step)
  /\ UNCHANGED <<database, job, environment>>

\* The campaign row first; an API campaign has no recipients.
Create(q) ==
  /\ Arrives(q)
  /\ status = "none"
  /\ status' \in {"DRAFT", "SCHEDULED"}
  /\ \/ Goto(q, "addRecipients")
     \/ Goto(q, "done")
  /\ UNCHANGED <<recipient, stored, job, environment>>

AddRecipients(q) ==
  /\ At(q, "addRecipients")
  /\ recipient' = IF Exists
                  THEN [r \in Recipients |-> "PENDING"]
                  ELSE recipient
  /\ Goto(q, "done")
  /\ UNCHANGED <<status, stored, job, environment>>

\* The bound on jobs: a start begins only while there are jobs left for all it may list.
JobsAreLeft ==
  LET queued == {j \in Jobs : job[j].step # "none"}
      starts == {q \in Requests : request[q].step \in {"launch", "start", "listPending", "enqueue"}}
      unsent == {r \in Recipients : recipient[r] \in {"none", "PENDING"}}
  IN  Cardinality(queued) + (Cardinality(starts) + 1) * Cardinality(unsent) <= MaxJobs

ReadForLaunch(q) == JobsAreLeft /\ ReadFor(q, {"DRAFT", "SCHEDULED"}, "launch")
ReadForPause(q) == ReadFor(q, {"RUNNING"}, "pause")
ReadForResume(q) == JobsAreLeft /\ ReadFor(q, {"PAUSED"}, "start")
ReadForDelete(q) ==
  q \in Deleters /\ ReadFor(q, {"DRAFT", "SCHEDULED", "FAILED"}, "deleteRecipients")

\* The write that follows the read; it fails on a campaign that is gone.
WriteStatus(q, from, new, to) ==
  /\ At(q, from)
  /\ IF Exists
     THEN status' = new /\ Goto(q, to)
     ELSE UNCHANGED status /\ Goto(q, "done")
  /\ UNCHANGED <<recipient, stored, job, environment>>

\* With a date in the future: a job for a queue that no worker reads, and SCHEDULED.
Defer(q) == WriteStatus(q, "launch", "SCHEDULED", "done")
LaunchNow(q) == WriteStatus(q, "launch", "RUNNING", "listPending")
Resume(q) == WriteStatus(q, "start", "RUNNING", "listPending")
Pause(q) == WriteStatus(q, "pause", "PAUSED", "done")

\* startSending: the recipients that are PENDING once the campaign is RUNNING ...
ListPending(q) ==
  /\ At(q, "listPending")
  /\ request' = [request EXCEPT ![q] = [step |-> "enqueue", pending |-> Pending]]
  /\ UNCHANGED <<database, job, environment>>

\* Batches of BatchSize, the last one may be smaller.
IsBatching(batch, first, last) ==
  LET Size(j) == Cardinality({r \in DOMAIN batch : batch[r] = j})
  IN  /\ \A j \in first..(last - 1) : Size(j) = BatchSize
      /\ first <= last => Size(last) \in 1..BatchSize

\* ... are queued in batches, whatever is queued already.
Enqueue(q) ==
  /\ At(q, "enqueue")
  /\ LET pending == request[q].pending
         queued == {j \in Jobs : job[j].step # "none"}
         first == Cardinality(queued) + 1
     IN
     \E last \in (first - 1)..MaxJobs :
       \E batch \in [pending -> first..last] :
         /\ IsBatching(batch, first, last)
         /\ job' = [j \in Jobs |->
              IF j \in first..last
              THEN [NoJob EXCEPT !.step = "waiting",
                                 !.recipients = {r \in pending : batch[r] = j}]
              ELSE job[j]]
  /\ request' = [request EXCEPT ![q] = [step |-> "done", pending |-> {}]]
  /\ UNCHANGED <<database, environment>>

DeleteRecipients(q) ==
  /\ At(q, "deleteRecipients")
  /\ recipient' = [r \in Recipients |-> "none"]
  /\ Goto(q, "deleteCampaign")
  /\ UNCHANGED <<status, stored, job, environment>>

\* Recipients added in between go with the campaign (ON DELETE CASCADE).
DeleteCampaign(q) ==
  /\ At(q, "deleteCampaign")
  /\ status' = "deleted"
  /\ recipient' = [r \in Recipients |-> "none"]
  /\ Goto(q, "done")
  /\ UNCHANGED <<stored, job, environment>>

-----------------------------------------------------------------------------
(* The worker. *)

Set(j, step) == job' = [job EXCEPT ![j].step = step]
Finish(j) == job' = [job EXCEPT ![j] = [NoJob EXCEPT !.step = "completed"]]

Again(j, attempt, stalled) ==
  [NoJob EXCEPT !.step = "waiting", !.recipients = job[j].recipients,
                !.attempt = attempt, !.stalled = stalled]
GivenUp == [NoJob EXCEPT !.step = "given up"]

\* Mutant: the attempts are not limited.
RetryForever(j) ==
  job' = [job EXCEPT ![j] = Again(j, job[j].attempt + 1, job[j].stalled)]

\* The attempt failed; the queue tries again or gives the job up.
FailAttempt(j) ==
  job' = [job EXCEPT ![j] =
    IF job[j].attempt < Attempts
    THEN Again(j, job[j].attempt + 1, job[j].stalled)
    ELSE GivenUp]

\* A fault, of the kinds the worker meets.
Fault(j) ==
  /\ j \in FaultyJobs /\ faults < MaxFaults
  /\ faults' = faults + 1

\* A delivery of the job reads the campaign once, for the whole batch.
Take(j) ==
  /\ job[j].step = "waiting"
  /\ Cardinality({k \in Jobs : job[k].step \in Active}) < Concurrency
  /\ IF Exists /\ status # "PAUSED" THEN Set(j, "list") ELSE Finish(j)
  /\ UNCHANGED <<database, request, environment>>

\* Mutant: nothing left to send, nothing to do.
ListOrStop(j) ==
  /\ job[j].step = "list"
  /\ LET todo == Pending \cap job[j].recipients IN
     /\ IF todo = {}
        THEN Finish(j)
        ELSE \E skip \in SUBSET (todo \cap OptingOut) :
               job' = [job EXCEPT ![j].step = "loop", ![j].todo = todo, ![j].skip = skip]
     /\ deliveries' = [r \in Recipients |-> deliveries[r] + IF r \in todo THEN 1 ELSE 0]
  /\ UNCHANGED <<database, request, accepted, faults>>

\* The batch's recipients that are PENDING, with their contacts as they are now.
List(j) ==
  /\ job[j].step = "list"
  /\ LET todo == Pending \cap job[j].recipients IN
     /\ \E skip \in SUBSET (todo \cap OptingOut) :
          job' = [job EXCEPT ![j].step = "loop", ![j].todo = todo, ![j].skip = skip]
     /\ deliveries' = [r \in Recipients |-> deliveries[r] + IF r \in todo THEN 1 ELSE 0]
  /\ UNCHANGED <<database, request, accepted, faults>>

LoopIsOver(j) == job[j].step = "loop" /\ job[j].todo = {}

\* No credentials, or a query outside the try fails (of the batch, of a recipient that is
\* skipped or has failed, of the count or the completion): the attempt fails.
AttemptFails(j) ==
  /\ job[j].step \in {"list", "loop", "failing", "complete"}
  /\ Fault(j)
  /\ FailAttempt(j)
  /\ UNCHANGED <<database, request, accepted, deliveries>>

\* The recipient leaves the loop.
Leave(j, r) ==
  job' = [job EXCEPT ![j].step = "loop", ![j].todo = @ \ {r}, ![j].skip = @ \ {r},
                     ![j].sending = {}]

\* A row of a deleted campaign cannot be updated, and the attempt fails.
MarkFailed(j, r) ==
  IF recipient[r] # "none"
  THEN /\ recipient' = [recipient EXCEPT ![r] = "FAILED"]
       /\ Leave(j, r)
  ELSE UNCHANGED recipient /\ FailAttempt(j)

\* Blocked or opted out when the batch was read.
SkipUnreachable(j) ==
  /\ job[j].step = "loop"
  /\ \E r \in job[j].todo \cap job[j].skip : MarkFailed(j, r)
  /\ UNCHANGED <<status, stored, request, environment>>

Ask(j, r, answer) ==
  /\ job[j].step = "loop"
  /\ r \in job[j].todo \ job[j].skip
  /\ job' = [job EXCEPT ![j].step = answer, ![j].sending = {r}]
  /\ UNCHANGED <<database, request, deliveries, faults>>

SendAccepted(j, r) ==
  /\ Ask(j, r, "accepted")
  /\ accepted' = [accepted EXCEPT ![r] = @ + 1]

\* Mutant: a send that failed or timed out is tried again at once.
SendAgain(j, r) ==
  /\ Ask(j, r, "loop")
  /\ accepted[r] < 3
  /\ accepted' = [accepted EXCEPT ![r] = @ + 1]

\* Refused, or timed out with or without being accepted.
SendFails(j, r) ==
  /\ Ask(j, r, "failing")
  /\ \/ UNCHANGED accepted
     \/ accepted' = [accepted EXCEPT ![r] = @ + 1]

\* Mutant: the recipient is marked first.
MarkBeforeStore(j) ==
  /\ job[j].step = "accepted"
  /\ \E r \in job[j].sending :
       recipient' = [recipient EXCEPT ![r] = "SENT"]
  /\ Set(j, "stored")
  /\ UNCHANGED <<status, stored, request, environment>>

\* The Message row, in a conversation found or created.
StoreMessage(j) ==
  /\ job[j].step = "accepted"
  /\ \E r \in job[j].sending : stored' = [stored EXCEPT ![r] = @ + 1]
  /\ Set(j, "stored")
  /\ UNCHANGED <<status, recipient, request, environment>>

\* The recipient is marked, whatever another job has made of it meanwhile.
MarkSent(j) ==
  /\ job[j].step = "stored"
  /\ \E r \in job[j].sending :
       IF recipient[r] # "none"
       THEN /\ recipient' = [recipient EXCEPT ![r] = "SENT"]
            /\ Set(j, "marked")
       ELSE UNCHANGED recipient /\ Set(j, "failing")
  /\ UNCHANGED <<status, stored, request, environment>>

\* The campaign's sentCount goes up; there is none to count in once it is deleted.
CountSent(j) ==
  /\ job[j].step = "marked"
  /\ IF Exists
     THEN \E r \in job[j].sending : Leave(j, r)
     ELSE Set(j, "failing")
  /\ UNCHANGED <<database, request, environment>>

\* Any error after the send was asked for lands in the same catch.
CatchError(j) ==
  /\ job[j].step \in {"accepted", "stored", "marked"}
  /\ Fault(j)
  /\ Set(j, "failing")
  /\ UNCHANGED <<database, request, accepted, deliveries>>

FailRecipient(j) ==
  /\ job[j].step = "failing"
  /\ \E r \in job[j].sending : MarkFailed(j, r)
  /\ UNCHANGED <<status, stored, request, environment>>

\* Mutant: the batch is done, so the campaign is.
CheckBatch(j) ==
  /\ LoopIsOver(j)
  /\ IF Pending \cap job[j].recipients = {} THEN Set(j, "complete") ELSE Finish(j)
  /\ UNCHANGED <<database, request, environment>>

\* checkAndCompleteIfDone: the campaign's PENDING recipients are counted ...
CheckDone(j) ==
  /\ LoopIsOver(j)
  /\ IF Pending = {} THEN Set(j, "complete") ELSE Finish(j)
  /\ UNCHANGED <<database, request, environment>>

\* ... and with none left it is COMPLETED, whatever its status is by now.
Complete(j) ==
  /\ job[j].step = "complete"
  /\ IF Exists
     THEN status' = "COMPLETED" /\ Finish(j)
     ELSE UNCHANGED status /\ FailAttempt(j)
  /\ UNCHANGED <<recipient, stored, request, environment>>

\* The worker dies, and the queue finds the job stalled: it delivers the job again, once
\* (the worker leaves the queue's maxStalledCount at 1), and the second time fails it.
Crash(j) ==
  /\ job[j].step \in Active
  /\ Fault(j)
  /\ job' = [job EXCEPT ![j] =
       IF job[j].stalled THEN GivenUp ELSE Again(j, job[j].attempt, TRUE)]
  /\ UNCHANGED <<database, request, accepted, deliveries>>

-----------------------------------------------------------------------------

\* What a request that has begun goes on to do.
Proceed(q) ==
  \/ AddRecipients(q)
  \/ Defer(q) \/ LaunchNow(q) \/ Resume(q) \/ Pause(q)
  \/ ListPending(q) \/ Enqueue(q)
  \/ DeleteRecipients(q) \/ DeleteCampaign(q)

Begin(q) ==
  \/ Create(q)
  \/ ReadForLaunch(q) \/ ReadForPause(q)
  \/ ReadForResume(q) \/ ReadForDelete(q)

Work(j) ==
  \/ Take(j) \/ List(j) \/ SkipUnreachable(j)
  \/ \E r \in Recipients : SendAccepted(j, r) \/ SendFails(j, r)
  \/ StoreMessage(j) \/ MarkSent(j) \/ CountSent(j) \/ FailRecipient(j)
  \/ CheckDone(j) \/ Complete(j)

Next ==
  \/ \E q \in Requests : Begin(q) \/ Proceed(q)
  \/ \E j \in Jobs : Work(j) \/ AttemptFails(j) \/ CatchError(j) \/ Crash(j)

Spec == Init /\ [][Next]_vars

\* A handler that runs is not abandoned and a queued job is taken up; users need not
\* do anything, and nothing need fail.
FairSpec ==
  /\ Spec
  /\ WF_vars((\E q \in Requests : Proceed(q)) \/ (\E j \in Jobs : Work(j)))

-----------------------------------------------------------------------------
(* Properties. *)

\* Every variable has its type.
TypeOK ==
  /\ status \in Statuses
  /\ recipient \in [Recipients -> {"none", "PENDING", "SENT", "FAILED"}]
  /\ stored \in [Recipients -> Nat]
  /\ job \in [Jobs -> [step: Queued \cup {"none", "completed", "given up"},
                       recipients: SUBSET Recipients, attempt: 1..Attempts,
                       stalled: BOOLEAN, todo: SUBSET Recipients,
                       skip: SUBSET Recipients, sending: SUBSET Recipients]]
  /\ request \in [Requests -> [step: {"new", "addRecipients", "launch", "start",
                                      "pause", "listPending", "enqueue", "deleteRecipients",
                                      "deleteCampaign", "done"},
                               pending: SUBSET Recipients]]
  /\ accepted \in [Recipients -> Nat]
  /\ deliveries \in [Recipients -> Nat]
  /\ faults \in 0..MaxFaults

\* What the campaign reports as sent was sent: a recipient is SENT only with a message
\* stored, and no more messages are stored than Meta accepted, also when two jobs work on
\* one recipient and one of them fails on the way.
SentIsReal ==
  \A r \in Recipients :
    /\ recipient[r] = "SENT" => stored[r] > 0
    /\ stored[r] <= accepted[r]

\* checkAndCompleteIfDone completes a campaign only when nobody is left to send to,
\* although batches run side by side and COMPLETED may overwrite a pause.
CompletedMeansDone == status = "COMPLETED" => Pending = {}

\* The limit of what at-least-once delivery costs: a recipient gets at most one
\* message for each time a batch was read with the recipient still PENDING, so a second
\* one takes a crash, a failed write, or a resume over jobs that were still queued.
OncePerDelivery == \A r \in Recipients : accepted[r] <= deliveries[r]

\* No recipient is forgotten: while the campaign is RUNNING, whoever is PENDING is in a
\* batch in the queue, or a request is about to queue one.  (Unless the queue has given a
\* batch up, because its attempts failed or its worker died twice, or the campaign was
\* launched before its recipients were added and no batch has been queued.)
PendingIsQueued ==
  \A r \in Pending :
    status = "RUNNING" =>
      \/ \E j \in Jobs : job[j].step \in Queued /\ r \in job[j].recipients
      \/ \E q \in Requests : At(q, "listPending") \/ r \in request[q].pending
      \/ \E j \in Jobs : job[j].step = "given up"
      \/ \A j \in Jobs : job[j].step = "none"

\* A batch leaves the queue with nobody in it still PENDING, unless it is given up or was
\* delivered while the campaign was paused.
NoBatchIsDropped ==
  [][\A j \in Jobs :
       job[j].step \in Queued /\ job'[j].step = "completed" =>
         \/ \A r \in job[j].recipients : recipient'[r] # "PENDING"
         \/ job[j].step = "waiting" /\ status = "PAUSED"]_vars

\* A campaign that is RUNNING with a batch in the queue is COMPLETED in the end, unless it
\* is paused or deleted, or the queue gives a batch up: its attempts failed (missing
\* credentials, queries that fail), or its worker died twice.  The campaign may then be
\* RUNNING for ever.
LaunchedIsCompleted ==
  (status = "RUNNING" /\ \E j \in Jobs : job[j].step \in Queued)
    ~> \/ status \in {"COMPLETED", "PAUSED", "deleted"}
       \/ \E j \in Jobs : job[j].step = "given up"
=============================================================================
