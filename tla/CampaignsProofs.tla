--------------------------- MODULE CampaignsProofs ---------------------------
(***************************************************************************)
(* Proofs about a bulk campaign, for any number of recipients, jobs,       *)
(* requests, attempts and faults.                                          *)
(***************************************************************************)
EXTENDS Campaigns, FiniteSetTheorems, TLAPS

-----------------------------------------------------------------------------
(* Type correctness. *)

Job == [step: Queued \cup {"none", "completed", "given up"},
        recipients: SUBSET Recipients, attempt: 1..Attempts,
        stalled: BOOLEAN, todo: SUBSET Recipients,
        skip: SUBSET Recipients, sending: SUBSET Recipients]

Request == [step: {"new", "addRecipients", "launch", "start", "pause", "listPending",
                   "enqueue", "deleteRecipients", "deleteCampaign", "done"},
            pending: SUBSET Recipients]

\* The jobs that the worker leaves behind are jobs.
LEMMA JobShapes ==
  ASSUME TypeOK, NEW j \in Jobs
  PROVE  /\ job[j] \in Job
         /\ NoJob \in Job
         /\ \A step \in Queued : [job EXCEPT ![j].step = step] \in [Jobs -> Job]
         /\ Finish(j) => job' \in [Jobs -> Job]
         /\ FailAttempt(j) => job' \in [Jobs -> Job]
         /\ GivenUp \in Job
         /\ Again(j, job[j].attempt, TRUE) \in Job
<1> USE DEF Job
<1>1. job \in [Jobs -> Job] /\ job[j] \in Job
  BY DEF TypeOK
<1>2. NoJob \in Job
  BY CampaignAssumption DEF NoJob, Queued, Active
<1>3. \A step \in Queued : [job EXCEPT ![j].step = step] \in [Jobs -> Job]
  BY <1>1
<1>4. [NoJob EXCEPT !.step = "completed"] \in Job /\ GivenUp \in Job
  BY <1>2 DEF GivenUp
<1>5. \A n \in 1..Attempts, stalled \in BOOLEAN : Again(j, n, stalled) \in Job
  BY <1>1, CampaignAssumption DEF Again, NoJob, Queued
<1>6. job[j].attempt \in 1..Attempts /\ job[j].stalled \in BOOLEAN
  BY <1>1
<1>7. job[j].attempt < Attempts => job[j].attempt + 1 \in 1..Attempts
  BY <1>6, CampaignAssumption
<1>8. Finish(j) => job' \in [Jobs -> Job]
  <2> HIDE DEF Job
  <2> QED BY <1>1, <1>4 DEF Finish
<1>9. FailAttempt(j) => job' \in [Jobs -> Job]
  <2> HIDE DEF Job
  <2> QED BY <1>1, <1>4, <1>5, <1>6, <1>7 DEF FailAttempt
<1> QED BY <1>1, <1>2, <1>3, <1>4, <1>5, <1>6, <1>8, <1>9

LEMMA RequestType ==
  ASSUME TypeOK, [Next]_vars
  PROVE  request' \in [Requests -> Request]
<1> USE DEF Request, TypeOK
<1>1. ASSUME NEW q \in Requests, NEW step \in {"addRecipients", "launch", "start", "pause",
               "listPending", "enqueue", "deleteRecipients", "deleteCampaign", "done"},
             Goto(q, step)
      PROVE  request' \in [Requests -> Request]
  BY <1>1, ZenonT(30) DEF Goto
<1>2. ASSUME NEW q \in Requests, Begin(q) PROVE request' \in [Requests -> Request]
  BY <1>1, <1>2 DEF Begin, Create, ReadForLaunch, ReadForPause, ReadForResume, ReadForDelete, ReadFor
<1>3. ASSUME NEW q \in Requests, Proceed(q) PROVE request' \in [Requests -> Request]
  <2>1. CASE ListPending(q)
    BY <2>1 DEF ListPending, Pending
  <2>2. CASE Enqueue(q)
    BY <2>2 DEF Enqueue
  <2>3. CASE AddRecipients(q) \/ DeleteRecipients(q) \/ DeleteCampaign(q)
    BY <1>1, <2>3 DEF AddRecipients, DeleteRecipients, DeleteCampaign
  <2>4. CASE Defer(q) \/ LaunchNow(q) \/ Resume(q) \/ Pause(q)
    BY <1>1, <2>4 DEF Defer, LaunchNow, Resume, Pause, WriteStatus
  <2> QED BY <1>3, <2>1, <2>2, <2>3, <2>4 DEF Proceed
<1>4. ASSUME NEW j \in Jobs, Work(j) \/ AttemptFails(j) \/ CatchError(j) \/ Crash(j)
      PROVE  UNCHANGED request
  BY <1>4 DEF Work, Take, List, SkipUnreachable, SendAccepted, SendFails, Ask, StoreMessage,
              MarkSent, CountSent, FailRecipient, CheckDone, Complete, AttemptFails, CatchError,
              Crash
<1>5. CASE UNCHANGED vars
  BY <1>5 DEF vars
<1> QED BY <1>2, <1>3, <1>4, <1>5 DEF Next

\* A batch of Enqueue is a set of the recipients that were read as pending; without any
\* there is no batch.
LEMMA EnqueuedJobs ==
  ASSUME TypeOK, NEW q \in Requests, Enqueue(q)
  PROVE  /\ job' \in [Jobs -> Job]
         /\ \A j \in Jobs :
              \/ job'[j] = job[j]
              \/ /\ job'[j].step = "waiting" /\ job'[j].todo = {} /\ job'[j].sending = {}
                 /\ request[q].pending # {}
<1> DEFINE first == Cardinality({j \in Jobs : job[j].step # "none"}) + 1
           Batched(batch, last) ==
             job' = [i \in Jobs |->
               IF i \in first..last
               THEN [NoJob EXCEPT !.step = "waiting",
                                  !.recipients = {r \in request[q].pending : batch[r] = i}]
               ELSE job[i]]
<1>1. PICK last \in (first - 1)..MaxJobs :
        \E batch \in [request[q].pending -> first..last] :
          IsBatching(batch, first, last) /\ Batched(batch, last)
  BY Zenon DEF Enqueue
<1>2. PICK batch \in [request[q].pending -> first..last] :
        IsBatching(batch, first, last) /\ Batched(batch, last)
  BY <1>1
<1>3. first \in Nat
  <2>1. IsFiniteSet(Jobs)
    BY CampaignAssumption, FS_Interval DEF Jobs
  <2>2. Cardinality({j \in Jobs : job[j].step # "none"}) \in Nat
    BY <2>1, FS_Subset, FS_CardinalityType
  <2> QED BY <2>2
<1> HIDE DEF first
<1>4. request[q].pending \subseteq Recipients
  BY DEF TypeOK
<1>5. \A i \in Jobs : [NoJob EXCEPT !.step = "waiting",
                         !.recipients = {r \in request[q].pending : batch[r] = i}] \in Job
  <2>1. 1 \in 1..Attempts
    BY CampaignAssumption
  <2> QED BY <1>4, <2>1 DEF NoJob, Job, Queued
<1>6. \A j \in Jobs : job[j] \in Job
  BY DEF TypeOK, Job
<1>7. job' \in [Jobs -> Job]
  BY <1>2, <1>5, <1>6
<1>8. ASSUME NEW j \in Jobs, j \in first..last PROVE request[q].pending # {}
  <2>1. first <= last
    <3>1. first \in Int /\ last \in Int /\ j \in Int
      <4>1. first - 1 \in Int /\ MaxJobs \in Int
        BY <1>3, CampaignAssumption
      <4>2. last \in Int
        BY <4>1
      <4> QED BY <1>3, <4>2 DEF Jobs
    <3> QED BY <1>8, <3>1
  <2>2. Cardinality({r \in DOMAIN batch : batch[r] = last}) \in 1..BatchSize
    BY <1>2, <2>1 DEF IsBatching
  <2>3. Cardinality({r \in DOMAIN batch : batch[r] = last}) # 0
    BY <2>2
  <2>4. {r \in DOMAIN batch : batch[r] = last} # {}
    BY <2>3, FS_EmptySet
  <2> QED BY <2>4
<1>9. ASSUME NEW j \in Jobs
      PROVE  \/ job'[j] = job[j]
             \/ /\ job'[j].step = "waiting" /\ job'[j].todo = {} /\ job'[j].sending = {}
                /\ request[q].pending # {}
  BY <1>2, <1>8 DEF NoJob
<1> QED BY <1>7, <1>9

\* A step of a job leaves the others alone, and only CheckDone makes it "complete".
LEMMA OneJob ==
  ASSUME TypeOK, NEW j \in Jobs, Work(j) \/ AttemptFails(j) \/ CatchError(j) \/ Crash(j)
  PROVE  /\ \A k \in Jobs \ {j} : job'[k] = job[k]
         /\ job'[j].step = "complete" => CheckDone(j) /\ Pending = {}
<1>0. job \in [Jobs -> Job]
  BY DEF TypeOK, Job
<1> DEFINE Goal == /\ \A k \in Jobs \ {j} : job'[k] = job[k]
                   /\ job'[j].step = "complete" => CheckDone(j) /\ Pending = {}
<1>1. ASSUME NEW step \in Queued \ {"complete"}, Set(j, step) PROVE Goal
  BY <1>0, <1>1 DEF Set, Job
<1>2. Finish(j) => Goal
  BY <1>0 DEF Finish, NoJob
<1>3. FailAttempt(j) => Goal
  BY <1>0 DEF FailAttempt, Again, GivenUp, NoJob
<1>4. ASSUME NEW r, Leave(j, r) PROVE Goal
  BY <1>0, <1>4 DEF Leave, Job
<1>5. ASSUME NEW r, MarkFailed(j, r) PROVE Goal
  BY <1>3, <1>4, <1>5 DEF MarkFailed
<1> SUFFICES Goal
  OBVIOUS
<1> HIDE DEF Goal
<1>6. {"list", "loop", "accepted", "stored", "marked", "failing"} \subseteq Queued \ {"complete"}
  BY DEF Queued, Active
<1>7. CASE List(j)
  BY <1>0, <1>7 DEF List, Job, Goal
<1>8. CASE \E r \in Recipients : SendAccepted(j, r) \/ SendFails(j, r)
  BY <1>0, <1>8, ZenonT(30) DEF SendAccepted, SendFails, Ask, Job, Goal
<1>9. CASE SkipUnreachable(j) \/ FailRecipient(j)
  BY <1>5, <1>9 DEF SkipUnreachable, FailRecipient
<1>10. CASE CountSent(j)
  BY <1>1, <1>4, <1>6, <1>10 DEF CountSent
<1>11. CASE Take(j) \/ StoreMessage(j) \/ MarkSent(j) \/ Complete(j)
  BY <1>1, <1>2, <1>3, <1>6, <1>11 DEF Take, StoreMessage, MarkSent, Complete
<1>12. CASE CheckDone(j)
  <2>1. CASE Finish(j)
    BY <1>2, <2>1
  <2>2. CASE Pending = {} /\ Set(j, "complete")
    BY <1>0, <1>12, <2>2 DEF Set, Job, Goal
  <2> QED BY <1>12, <2>1, <2>2 DEF CheckDone
<1>13. CASE AttemptFails(j) \/ CatchError(j)
  BY <1>1, <1>3, <1>6, <1>13 DEF AttemptFails, CatchError
<1>14. CASE Crash(j)
  BY <1>0, <1>14 DEF Crash, Again, GivenUp, NoJob, Goal
<1> QED BY <1>7, <1>8, <1>9, <1>10, <1>11, <1>12, <1>13, <1>14 DEF Work

LEMMA JobType ==
  ASSUME TypeOK, [Next]_vars
  PROVE  job' \in [Jobs -> Job]
<1> SUFFICES ASSUME Next PROVE job' \in [Jobs -> Job]
  BY DEF vars, TypeOK, Job
<1>0. job \in [Jobs -> Job]
  BY DEF TypeOK, Job
<1>1. ASSUME NEW q \in Requests, Begin(q) \/ Proceed(q) PROVE job' \in [Jobs -> Job]
  BY <1>0, <1>1, EnqueuedJobs
     DEF Begin, Create, ReadForLaunch, ReadForPause, ReadForResume, ReadForDelete, ReadFor,
         Proceed, AddRecipients, Defer, LaunchNow, Resume, Pause, WriteStatus, ListPending,
         DeleteRecipients, DeleteCampaign
<1>2. ASSUME NEW j \in Jobs, Work(j) \/ AttemptFails(j) \/ CatchError(j) \/ Crash(j)
      PROVE  job' \in [Jobs -> Job]
  <2>0. /\ job[j] \in Job
        /\ \A step \in Queued : [job EXCEPT ![j].step = step] \in [Jobs -> Job]
        /\ Finish(j) => job' \in [Jobs -> Job]
        /\ FailAttempt(j) => job' \in [Jobs -> Job]
    BY JobShapes
  <2>1. ASSUME NEW step \in Queued, Set(j, step) PROVE job' \in [Jobs -> Job]
    BY <2>0, <2>1 DEF Set
  <2>2. ASSUME NEW r, Leave(j, r) PROVE job' \in [Jobs -> Job]
    <3> DEFINE left == [job[j] EXCEPT !.step = "loop", !.todo = @ \ {r}, !.skip = @ \ {r},
                                      !.sending = {}]
    <3>1. left \in Job
      BY <2>0 DEF Job, Queued, Active
    <3>2. job' = [job EXCEPT ![j] = left]
      BY <1>0, <2>2 DEF Leave
    <3> QED BY <1>0, <3>1, <3>2
  <2>3. ASSUME NEW r, MarkFailed(j, r) PROVE job' \in [Jobs -> Job]
    BY <2>0, <2>2, <2>3 DEF MarkFailed
  <2>4. CASE List(j)
    <3>1. PICK todo \in SUBSET Recipients, skip \in SUBSET Recipients :
            job' = [job EXCEPT ![j].step = "loop", ![j].todo = todo, ![j].skip = skip]
      BY <2>4 DEF List, Pending
    <3> DEFINE listed == [job[j] EXCEPT !.step = "loop", !.todo = todo, !.skip = skip]
    <3>2. listed \in Job
      BY <2>0 DEF Job, Queued, Active
    <3>3. job' = [job EXCEPT ![j] = listed]
      BY <1>0, <3>1
    <3> QED BY <1>0, <3>2, <3>3
  <2>5. CASE \E r \in Recipients : SendAccepted(j, r) \/ SendFails(j, r)
    <3>1. PICK r \in Recipients, answer \in {"accepted", "failing"} : Ask(j, r, answer)
      BY <2>5 DEF SendAccepted, SendFails
    <3> DEFINE asked == [job[j] EXCEPT !.step = answer, !.sending = {r}]
    <3>2. asked \in Job
      BY <2>0 DEF Job, Queued, Active
    <3>3. job' = [job EXCEPT ![j] = asked]
      BY <1>0, <3>1 DEF Ask
    <3> QED BY <1>0, <3>2, <3>3
  <2>6. CASE SkipUnreachable(j) \/ FailRecipient(j)
    BY <2>3, <2>6 DEF SkipUnreachable, FailRecipient
  <2>7. CASE CountSent(j)
    <3>1. "failing" \in Queued
      BY DEF Queued, Active
    <3> QED BY <2>1, <2>2, <2>7, <3>1 DEF CountSent
  <2>8. CASE Take(j) \/ StoreMessage(j) \/ MarkSent(j) \/ CheckDone(j) \/ Complete(j)
    <3>1. {"list", "stored", "marked", "failing", "complete"} \subseteq Queued
      BY DEF Queued, Active
    <3> QED BY <2>0, <2>1, <2>8, <3>1 DEF Take, StoreMessage, MarkSent, CheckDone, Complete
  <2>9. CASE AttemptFails(j) \/ CatchError(j)
    <3>1. "failing" \in Queued
      BY DEF Queued, Active
    <3> QED BY <2>0, <2>1, <2>9, <3>1 DEF AttemptFails, CatchError
  <2>10. CASE Crash(j)
    <3>1. GivenUp \in Job /\ Again(j, job[j].attempt, TRUE) \in Job
      BY JobShapes
    <3> QED BY <1>0, <2>10, <3>1 DEF Crash
  <2> QED BY <1>2, <2>4, <2>5, <2>6, <2>7, <2>8, <2>9, <2>10 DEF Work
<1> QED BY <1>1, <1>2 DEF Next

LEMMA RowsType ==
  ASSUME TypeOK, [Next]_vars
  PROVE  /\ status' \in Statuses
         /\ recipient' \in [Recipients -> {"none", "PENDING", "SENT", "FAILED"}]
         /\ stored' \in [Recipients -> Nat]
         /\ accepted' \in [Recipients -> Nat]
         /\ deliveries' \in [Recipients -> Nat]
         /\ faults' \in 0..MaxFaults
<1> DEFINE Rows == /\ status' \in Statuses
                   /\ recipient' \in [Recipients -> {"none", "PENDING", "SENT", "FAILED"}]
                   /\ stored' \in [Recipients -> Nat]
                   /\ accepted' \in [Recipients -> Nat]
                   /\ deliveries' \in [Recipients -> Nat]
                   /\ faults' \in 0..MaxFaults
<1> USE DEF TypeOK, database, environment, Statuses
<1>1. ASSUME NEW q \in Requests, Begin(q) \/ Proceed(q) PROVE Rows
  <2>1. CASE Begin(q)
    BY <2>1 DEF Begin, Create, ReadForLaunch, ReadForPause, ReadForResume, ReadForDelete, ReadFor
  <2>2. CASE AddRecipients(q) \/ ListPending(q) \/ Enqueue(q) \/ DeleteRecipients(q)
               \/ DeleteCampaign(q)
    BY <2>2 DEF AddRecipients, ListPending, Enqueue, DeleteRecipients, DeleteCampaign
  <2>3. CASE Defer(q) \/ LaunchNow(q) \/ Resume(q) \/ Pause(q)
    BY <2>3 DEF Defer, LaunchNow, Resume, Pause, WriteStatus
  <2> QED BY <1>1, <2>1, <2>2, <2>3 DEF Proceed
<1>2. ASSUME NEW j \in Jobs, Work(j) PROVE Rows
  <2>1. CASE Take(j) \/ CountSent(j) \/ CheckDone(j) \/ Complete(j)
    BY <2>1 DEF Take, CountSent, CheckDone, Complete
  <2>2. CASE List(j)
    <3> DEFINE todo == Pending \cap job[j].recipients
               one(r) == IF r \in todo THEN 1 ELSE 0
    <3>1. deliveries' = [r \in Recipients |-> deliveries[r] + one(r)]
      BY <2>2 DEF List
    <3>2. \A r : one(r) \in Nat
      OBVIOUS
    <3>3. deliveries \in [Recipients -> Nat]
      OBVIOUS
    <3> HIDE DEF one, TypeOK
    <3>4. \A r \in Recipients : deliveries[r] + one(r) \in Nat
      BY <3>2, <3>3
    <3>5. deliveries' \in [Recipients -> Nat]
      BY <3>1, <3>4
    <3> USE DEF TypeOK
    <3> QED BY <2>2, <3>5 DEF List
  <2>3. CASE SkipUnreachable(j) \/ FailRecipient(j) \/ MarkSent(j)
    BY <2>3 DEF SkipUnreachable, FailRecipient, MarkSent, MarkFailed
  <2>4. CASE StoreMessage(j)
    <3>1. PICK r \in job[j].sending : stored' = [stored EXCEPT ![r] = @ + 1]
      BY <2>4 DEF StoreMessage
    <3>2. stored \in [Recipients -> Nat] /\ r \in Recipients
      OBVIOUS
    <3> HIDE DEF TypeOK
    <3>3. stored' \in [Recipients -> Nat]
      BY <3>1, <3>2
    <3> USE DEF TypeOK
    <3> QED BY <2>4, <3>3 DEF StoreMessage
  <2>5. CASE \E r \in Recipients : SendAccepted(j, r) \/ SendFails(j, r)
    <3>1. PICK r \in Recipients : SendAccepted(j, r) \/ SendFails(j, r)
      BY <2>5
    <3>2. accepted' = [accepted EXCEPT ![r] = @ + 1] \/ UNCHANGED accepted
      BY <3>1 DEF SendAccepted, SendFails
    <3>3. accepted \in [Recipients -> Nat]
      OBVIOUS
    <3> HIDE DEF TypeOK
    <3>4. accepted' \in [Recipients -> Nat]
      BY <3>2, <3>3
    <3> USE DEF TypeOK
    <3> QED BY <3>1, <3>4 DEF SendAccepted, SendFails, Ask
  <2> QED BY <1>2, <2>1, <2>2, <2>3, <2>4, <2>5 DEF Work
<1>3. ASSUME NEW j \in Jobs, AttemptFails(j) \/ CatchError(j) \/ Crash(j) PROVE Rows
  <2>1. Fault(j) /\ faults \in 0..MaxFaults /\ MaxFaults \in Nat
    BY <1>3, CampaignAssumption DEF AttemptFails, CatchError, Crash
  <2> HIDE DEF TypeOK
  <2>2. faults' \in 0..MaxFaults
    BY <2>1 DEF Fault
  <2> USE DEF TypeOK
  <2> QED BY <1>3, <2>2 DEF AttemptFails, CatchError, Crash
<1>4. CASE UNCHANGED vars
  BY <1>4 DEF vars
<1> QED BY <1>1, <1>2, <1>3, <1>4 DEF Next

LEMMA TypeInit == Init => TypeOK
  BY CampaignAssumption DEF Init, TypeOK, NoJob, Statuses, Queued, Active

LEMMA TypeStep == TypeOK /\ [Next]_vars => TypeOK'
<1> SUFFICES ASSUME TypeOK, [Next]_vars PROVE TypeOK'
  OBVIOUS
<1>1. job' \in [Jobs -> Job] /\ request' \in [Requests -> Request]
  BY JobType, RequestType
<1> QED BY <1>1, RowsType DEF TypeOK, Job, Request

\* Every variable keeps its type: in particular a job is retried at most Attempts times
\* and handles only recipients of the campaign.
THEOREM TypeCorrect == Spec => []TypeOK
  BY TypeInit, TypeStep, PTL DEF Spec

-----------------------------------------------------------------------------
(* Completion. *)

\* Nothing is queued for a campaign whose recipients are still to come.
NothingQueued ==
  /\ recipient = [r \in Recipients |-> "none"]
  /\ \A j \in Jobs : job[j].step = "none"
  /\ \A q \in Requests : request[q].pending = {}

Adding == {q \in Requests : At(q, "addRecipients")}

CompletionInv ==
  /\ status = "none" => Adding = {}
  /\ status = "none" \/ Adding # {} => NothingQueued
  /\ Adding # {} => status # "COMPLETED"
  /\ \A p, q \in Adding : p = q
  /\ (\E j \in Jobs : job[j].step = "complete") \/ status = "COMPLETED" => Pending = {}

\* The only step that makes recipients PENDING is the one that adds them.
LEMMA PendingShrinks ==
  ASSUME TypeOK, [Next]_vars, \A q \in Requests : ~AddRecipients(q)
  PROVE  Pending' \subseteq Pending
<1> USE DEF TypeOK, database, Pending
<1>1. ASSUME NEW q \in Requests, Begin(q) \/ Proceed(q) PROVE Pending' \subseteq Pending
  BY <1>1 DEF Begin, Create, ReadForLaunch, ReadForPause, ReadForResume, ReadForDelete, ReadFor,
              Proceed, Defer, LaunchNow, Resume, Pause, WriteStatus, ListPending, Enqueue,
              DeleteRecipients, DeleteCampaign
<1>2. ASSUME NEW j \in Jobs, Work(j) PROVE Pending' \subseteq Pending
  <2>1. CASE SkipUnreachable(j) \/ FailRecipient(j) \/ MarkSent(j)
    BY <2>1 DEF SkipUnreachable, FailRecipient, MarkSent, MarkFailed
  <2> QED BY <1>2, <2>1 DEF Work, Take, List, SendAccepted, SendFails, Ask, StoreMessage,
                            CountSent, CheckDone, Complete
<1>3. ASSUME NEW j \in Jobs, AttemptFails(j) \/ CatchError(j) \/ Crash(j)
      PROVE  Pending' \subseteq Pending
  BY <1>3 DEF AttemptFails, CatchError, Crash
<1>4. CASE UNCHANGED vars
  BY <1>4 DEF vars
<1> QED BY <1>1, <1>2, <1>3, <1>4 DEF Next

\* A request that goes on to a step other than addRecipients.
LEMMA GoesOn ==
  ASSUME TypeOK, NEW q \in Requests, NEW step, step # "addRecipients", Goto(q, step)
  PROVE  /\ Adding' = Adding \ {q}
         /\ \A p \in Requests : request'[p].pending = request[p].pending
<1> USE DEF TypeOK
<1>1. request' = [request EXCEPT ![q] = [request[q] EXCEPT !.step = step]]
  BY DEF Goto
<1>2. \A p \in Requests : p # q => request'[p] = request[p]
  BY <1>1
<1>3. request'[q].step = step /\ request'[q].pending = request[q].pending
  BY <1>1
<1> QED BY <1>2, <1>3 DEF Adding, At

LEMMA CompletionStep == TypeOK /\ CompletionInv /\ [Next]_vars => CompletionInv'
<1> SUFFICES ASSUME TypeOK, CompletionInv, [Next]_vars PROVE CompletionInv'
  OBVIOUS
<1>0. (\A q \in Requests : ~AddRecipients(q)) => Pending' \subseteq Pending
  BY PendingShrinks
<1>1. ASSUME NEW q \in Requests, AddRecipients(q) PROVE CompletionInv'
  <2>1. Adding' = Adding \ {q} /\ q \in Adding
    BY <1>1, GoesOn DEF AddRecipients, Adding
  <2>2. Adding' = {} /\ NothingQueued /\ status \notin {"none", "COMPLETED"}
    BY <2>1 DEF CompletionInv
  <2> QED BY <1>1, <2>2 DEF AddRecipients, CompletionInv, NothingQueued, environment
<1>2. ASSUME NEW q \in Requests, Create(q) PROVE CompletionInv'
  <2>1. Adding = {} /\ NothingQueued /\ status' \in {"DRAFT", "SCHEDULED"}
    BY <1>2 DEF Create, CompletionInv
  <2>2. CASE Goto(q, "addRecipients")
    <3>1. /\ Adding' = {q}
          /\ \A p \in Requests : request'[p].pending = request[p].pending
      BY <2>1, <2>2 DEF Goto, Adding, At, TypeOK
    <3> QED BY <1>2, <2>1, <3>1 DEF Create, CompletionInv, NothingQueued
  <2>3. CASE Goto(q, "done")
    <3>1. Adding' = {}
      BY <2>1, <2>3, GoesOn
    <3> QED BY <1>2, <2>1, <3>1 DEF Create, CompletionInv, NothingQueued
  <2> QED BY <1>2, <2>2, <2>3 DEF Create
<1>3. ASSUME NEW q \in Requests,
             \/ ReadForLaunch(q) \/ ReadForPause(q) \/ ReadForResume(q) \/ ReadForDelete(q)
             \/ Defer(q) \/ LaunchNow(q) \/ Resume(q) \/ Pause(q)
      PROVE  CompletionInv'
  <2>1. /\ Adding' = Adding \ {q}
        /\ \A p \in Requests : request'[p].pending = request[p].pending
    BY <1>3, GoesOn DEF ReadForLaunch, ReadForPause, ReadForResume, ReadForDelete, ReadFor,
                        Defer, LaunchNow, Resume, Pause, WriteStatus
  <2>2. UNCHANGED <<recipient, job>>
    BY <1>3 DEF ReadForLaunch, ReadForPause, ReadForResume, ReadForDelete, ReadFor,
                Defer, LaunchNow, Resume, Pause, WriteStatus, database
  <2>3. \/ UNCHANGED status
        \/ status # "none" /\ status' \in {"SCHEDULED", "RUNNING", "PAUSED"}
    BY <1>3 DEF ReadForLaunch, ReadForPause, ReadForResume, ReadForDelete, ReadFor,
                Defer, LaunchNow, Resume, Pause, WriteStatus, database, Exists
  <2> QED BY <2>1, <2>2, <2>3 DEF CompletionInv, NothingQueued, Pending
<1>4. ASSUME NEW q \in Requests, DeleteRecipients(q) \/ DeleteCampaign(q) PROVE CompletionInv'
  <2>1. /\ Adding' = Adding \ {q}
        /\ \A p \in Requests : request'[p].pending = request[p].pending
    BY <1>4, GoesOn DEF DeleteRecipients, DeleteCampaign
  <2>2. /\ UNCHANGED job
        /\ recipient' = [r \in Recipients |-> "none"]
        /\ status' \in {status, "deleted"}
    BY <1>4 DEF DeleteRecipients, DeleteCampaign
  <2> QED BY <2>1, <2>2 DEF CompletionInv, NothingQueued, Pending
<1>5. ASSUME NEW q \in Requests, ListPending(q) PROVE CompletionInv'
  <2>1. /\ Adding' = Adding
        /\ \A p \in Requests : p # q => request'[p].pending = request[p].pending
        /\ request'[q].pending = Pending
    BY <1>5 DEF ListPending, At, Adding, TypeOK
  <2>2. NothingQueued => Pending = {}
    BY DEF NothingQueued, Pending
  <2> QED BY <1>5, <2>1, <2>2 DEF ListPending, database, CompletionInv, NothingQueued, Pending
<1>6. ASSUME NEW q \in Requests, Enqueue(q) PROVE CompletionInv'
  <2>1. /\ Adding' = Adding
        /\ \A p \in Requests : request'[p].pending \in {request[p].pending, {}}
        /\ UNCHANGED <<status, recipient>>
    <3>1. /\ request' = [request EXCEPT ![q] = [step |-> "done", pending |-> {}]]
          /\ request[q].step = "enqueue"
          /\ UNCHANGED <<status, recipient>>
      BY <1>6 DEF Enqueue, At, database
    <3>2. /\ \A p \in Requests : p # q => request'[p] = request[p]
          /\ request'[q] = [step |-> "done", pending |-> {}]
      BY <3>1 DEF TypeOK
    <3> QED BY <3>1, <3>2 DEF Adding, At
  <2>2. \A j \in Jobs : job'[j].step \in {job[j].step, "waiting"}
    BY <1>6, EnqueuedJobs
  <2>3. NothingQueued => UNCHANGED job
    <3>1. job \in [Jobs -> Job] /\ job' \in [Jobs -> Job]
      BY <1>6, EnqueuedJobs DEF TypeOK, Job
    <3>2. NothingQueued => \A j \in Jobs : job'[j] = job[j]
      BY <1>6, EnqueuedJobs DEF NothingQueued
    <3> QED BY <3>1, <3>2
  <2> QED BY <2>1, <2>2, <2>3 DEF CompletionInv, NothingQueued, Pending
<1>7. ASSUME NEW j \in Jobs, Work(j) \/ AttemptFails(j) \/ CatchError(j) \/ Crash(j)
      PROVE  CompletionInv'
  <2>1. job[j].step # "none" /\ UNCHANGED request
    BY <1>7 DEF Work, Take, List, SkipUnreachable, SendAccepted, SendFails, Ask, StoreMessage,
                MarkSent, CountSent, FailRecipient, CheckDone, LoopIsOver, Complete, AttemptFails,
                CatchError, Crash, Active
  <2>2. Adding = {} /\ Adding' = {} /\ status # "none" /\ ~NothingQueued
    BY <2>1 DEF CompletionInv, NothingQueued, Adding, At
  <2>3. Pending' \subseteq Pending
    BY <1>0, <2>2 DEF AddRecipients, Adding
  <2>4. status' # "none"
    BY <1>7, <2>2 DEF Work, Take, List, SkipUnreachable, SendAccepted, SendFails, Ask, StoreMessage,
                MarkSent, CountSent, FailRecipient, CheckDone, Complete, AttemptFails,
                CatchError, Crash, database
  <2>5. ASSUME status' = "COMPLETED" PROVE Pending = {}
    <3>1. status = "COMPLETED" \/ job[j].step = "complete"
      BY <1>7, <2>5 DEF Work, Take, List, SkipUnreachable, SendAccepted, SendFails, Ask,
                StoreMessage, MarkSent, CountSent, FailRecipient, CheckDone, Complete,
                AttemptFails, CatchError, Crash, database
    <3> QED BY <3>1 DEF CompletionInv
  <2>6. ASSUME NEW k \in Jobs, job'[k].step = "complete" PROVE Pending = {}
    <3>1. k # j => job'[k] = job[k]
      BY <1>7, OneJob
    <3>2. k = j => CheckDone(j) /\ Pending = {}
      BY <1>7, <2>6, OneJob
    <3> QED BY <2>6, <3>1, <3>2 DEF CompletionInv
  <2> QED BY <2>2, <2>3, <2>4, <2>5, <2>6 DEF CompletionInv
<1>8. CASE UNCHANGED vars
  BY <1>8 DEF vars, database, CompletionInv, NothingQueued, Adding, At, Pending
<1> QED BY <1>1, <1>2, <1>3, <1>4, <1>5, <1>6, <1>7, <1>8 DEF Next, Begin, Proceed

LEMMA CompletionInit == Init => CompletionInv
  BY DEF Init, CompletionInv, NothingQueued, Adding, At, NoJob, Pending

\* A campaign is COMPLETED only with nobody left to send to, whatever batches, pauses and
\* resumes cross: the check that precedes the write stays true because the one step that
\* makes recipients PENDING comes before anything is queued.
THEOREM CompletedIsDone == Spec => []CompletedMeansDone
<1>1. TypeOK /\ CompletionInv /\ [Next]_vars => TypeOK' /\ CompletionInv'
  BY TypeStep, CompletionStep
<1>2. CompletionInv => CompletedMeansDone
  BY DEF CompletionInv, CompletedMeansDone
<1> QED BY <1>1, <1>2, TypeInit, CompletionInit, PTL DEF Spec

-----------------------------------------------------------------------------
(* Messages. *)

Asked == {"accepted", "stored", "marked", "failing"}

\* What a job has in hand, by the step it is at.
InHand(j) ==
  /\ job[j].step \in Asked => \E r \in job[j].todo : job[j].sending = {r}
  /\ job[j].step \notin Asked => job[j].sending = {}
  /\ job[j].step \notin Asked \cup {"loop"} => job[j].todo = {}
  /\ job[j].step \in {"stored", "marked"} => \A r \in job[j].sending : stored[r] > 0

\* The jobs whose message to r was accepted and is yet to be stored, and those that have
\* read r as PENDING and are yet to send.
Unstored(r) == {j \in Jobs : job[j].step = "accepted" /\ r \in job[j].sending}
Due(r) == {j \in Jobs : r \in job[j].todo \ job[j].sending}

MessageInv ==
  /\ \A j \in Jobs : InHand(j)
  /\ \A r \in Recipients :
       /\ recipient[r] = "SENT" => stored[r] > 0
       /\ stored[r] + Cardinality(Unstored(r)) <= accepted[r]
       /\ accepted[r] + Cardinality(Due(r)) <= deliveries[r]

LEMMA JobSetsAreFinite ==
  ASSUME NEW S \in SUBSET Jobs
  PROVE  IsFiniteSet(S) /\ Cardinality(S) \in Nat
<1>1. IsFiniteSet(Jobs)
  BY CampaignAssumption, FS_Interval DEF Jobs
<1> QED BY <1>1, FS_Subset, FS_CardinalityType

\* How the number of jobs changes when a set of jobs loses or gains one.
LEMMA Counting ==
  ASSUME NEW S \in SUBSET Jobs, NEW T \in SUBSET Jobs
  PROVE  /\ S \subseteq T => Cardinality(S) <= Cardinality(T)
         /\ \A j \in T : S = T \ {j} => Cardinality(S) = Cardinality(T) - 1
         /\ \A j \in Jobs : S = T \cup {j} => Cardinality(S) <= Cardinality(T) + 1
<1>1. IsFiniteSet(S) /\ IsFiniteSet(T) /\ Cardinality(S) \in Nat /\ Cardinality(T) \in Nat
  BY JobSetsAreFinite
<1>2. S \subseteq T => Cardinality(S) <= Cardinality(T)
  BY <1>1, FS_Subset
<1>3. \A j \in T : S = T \ {j} => Cardinality(S) = Cardinality(T) - 1
  BY <1>1, FS_RemoveElement
<1>4. \A j \in Jobs : S = T \cup {j} => Cardinality(S) <= Cardinality(T) + 1
  BY <1>1, FS_AddElement
<1> QED BY <1>2, <1>3, <1>4

\* A step of a job that sends nothing, stores nothing and lists nobody: the job takes up no
\* message and nobody comes back to its list.
LEMMA QuietStep ==
  ASSUME TypeOK, MessageInv, NEW j \in Jobs, job' \in [Jobs -> Job],
         \A k \in Jobs \ {j} : job'[k] = job[k],
         InHand(j)',
         UNCHANGED <<stored, accepted, deliveries>>,
         \A r \in Recipients : recipient'[r] = "SENT" => stored[r] > 0,
         job'[j].step = "accepted" => FALSE,
         job'[j].todo \ job'[j].sending \subseteq job[j].todo \ job[j].sending
  PROVE  MessageInv'
<1>1. ASSUME NEW k \in Jobs PROVE InHand(k)'
  BY DEF MessageInv, InHand
<1>2. ASSUME NEW r \in Recipients
      PROVE  /\ stored'[r] + Cardinality(Unstored(r)') <= accepted'[r]
             /\ accepted'[r] + Cardinality(Due(r)') <= deliveries'[r]
  <2>1. Unstored(r)' \subseteq Unstored(r) /\ Due(r)' \subseteq Due(r)
    BY DEF Unstored, Due
  <2>2. Unstored(r) \in SUBSET Jobs /\ Due(r) \in SUBSET Jobs
    BY DEF Unstored, Due
  <2>3. /\ Cardinality(Unstored(r)') <= Cardinality(Unstored(r))
        /\ Cardinality(Due(r)') <= Cardinality(Due(r))
    BY <2>1, <2>2, Counting
  <2>4. /\ Cardinality(Unstored(r)) \in Nat /\ Cardinality(Unstored(r)') \in Nat
        /\ Cardinality(Due(r)) \in Nat /\ Cardinality(Due(r)') \in Nat
    BY <2>1, <2>2, JobSetsAreFinite
  <2>5. stored[r] \in Nat /\ accepted[r] \in Nat /\ deliveries[r] \in Nat
    BY DEF TypeOK
  <2>6. /\ stored[r] + Cardinality(Unstored(r)) <= accepted[r]
        /\ accepted[r] + Cardinality(Due(r)) <= deliveries[r]
    BY DEF MessageInv
  <2> HIDE DEF Unstored, Due
  <2> QED BY <2>3, <2>4, <2>5, <2>6
<1> QED BY <1>1, <1>2 DEF MessageInv

\* The steps of a job that are quiet.
LEMMA QuietSteps ==
  ASSUME TypeOK, MessageInv, NEW j \in Jobs,
         \/ Take(j) \/ SkipUnreachable(j) \/ MarkSent(j) \/ CountSent(j) \/ FailRecipient(j)
         \/ CheckDone(j) \/ Complete(j) \/ AttemptFails(j) \/ CatchError(j) \/ Crash(j)
  PROVE  MessageInv'
<1>1. job \in [Jobs -> Job] /\ InHand(j)
  BY DEF TypeOK, Job, MessageInv
<1>2. Work(j) \/ AttemptFails(j) \/ CatchError(j) \/ Crash(j)
  BY DEF Work
<1>3. job' \in [Jobs -> Job]
  BY <1>2, JobType DEF Next
<1>4. \A k \in Jobs \ {j} : job'[k] = job[k]
  BY <1>2, OneJob
<1>5. UNCHANGED <<stored, accepted, deliveries>>
  BY DEF Take, SkipUnreachable, MarkSent, CountSent, FailRecipient, CheckDone, Complete,
         AttemptFails, CatchError, Crash, database, environment
<1>6. ASSUME NEW r \in Recipients, recipient'[r] = "SENT" PROVE stored[r] > 0
  <2>1. recipient[r] = "SENT" => stored[r] > 0
    BY DEF MessageInv
  <2>2. CASE MarkSent(j)
    BY <1>1, <1>6, <2>1, <2>2 DEF MarkSent, InHand, TypeOK
  <2>3. CASE SkipUnreachable(j) \/ FailRecipient(j)
    BY <1>6, <2>1, <2>3 DEF SkipUnreachable, FailRecipient, MarkFailed, TypeOK
  <2>4. CASE UNCHANGED recipient
    BY <1>6, <2>1, <2>4
  <2> QED BY <2>2, <2>3, <2>4 DEF Take, CountSent, CheckDone, Complete, AttemptFails,
                                  CatchError, Crash, database
<1> DEFINE Quiet == /\ InHand(j)'
                    /\ job'[j].step # "accepted"
                    /\ job'[j].todo \ job'[j].sending \subseteq job[j].todo \ job[j].sending
<1>7. ASSUME NEW step, Set(j, step)
      PROVE  job'[j] = [job[j] EXCEPT !.step = step]
  BY <1>1, <1>7 DEF Set
<1>8. Finish(j) \/ FailAttempt(j) \/ Crash(j) => Quiet
  <2>1. Finish(j) => job'[j].step = "completed" /\ job'[j].todo = {} /\ job'[j].sending = {}
    BY <1>1 DEF Finish, NoJob
  <2>2. FailAttempt(j) => /\ job'[j].step \in {"waiting", "given up"}
                          /\ job'[j].todo = {} /\ job'[j].sending = {}
    BY <1>1 DEF FailAttempt, Again, GivenUp, NoJob
  <2>3. Crash(j) => /\ job'[j].step \in {"waiting", "given up"}
                    /\ job'[j].todo = {} /\ job'[j].sending = {}
    BY <1>1 DEF Crash, Again, GivenUp, NoJob
  <2> QED BY <2>1, <2>2, <2>3 DEF InHand, Asked
<1>9. ASSUME NEW r, job[j].step = "loop" \/ r \in job[j].sending, Leave(j, r) PROVE Quiet
  <2>1. /\ job'[j].step = "loop" /\ job'[j].todo = job[j].todo \ {r} /\ job'[j].sending = {}
    BY <1>1, <1>9 DEF Leave, Job
  <2>2. job[j].sending \subseteq {r}
    BY <1>1, <1>9 DEF InHand, Asked
  <2> QED BY <2>1, <2>2 DEF InHand, Asked
<1>10. ASSUME NEW r, job[j].step = "loop" \/ r \in job[j].sending, MarkFailed(j, r) PROVE Quiet
  BY <1>8, <1>9, <1>10 DEF MarkFailed
<1>11. ASSUME NEW step \in {"marked", "failing"},
              job[j].step \in Asked, step = "marked" => job[j].step = "stored",
              Set(j, step), UNCHANGED stored
       PROVE  Quiet
  <2>1. job'[j].step = step /\ job'[j].todo = job[j].todo /\ job'[j].sending = job[j].sending
    <3>1. job'[j] = [job[j] EXCEPT !.step = step]
      BY <1>7, <1>11
    <3>2. job[j] \in Job
      BY <1>1
    <3> QED BY <3>1, <3>2 DEF Job
  <2> QED BY <1>1, <1>11, <2>1 DEF InHand, Asked
<1>12. ASSUME NEW step \in {"list", "complete"}, job[j].todo = {}, job[j].step \notin Asked,
              Set(j, step)
       PROVE  Quiet
  <2>1. job'[j].step = step /\ job'[j].todo = job[j].todo /\ job'[j].sending = job[j].sending
    <3>1. job'[j] = [job[j] EXCEPT !.step = step]
      BY <1>7, <1>12
    <3>2. job[j] \in Job
      BY <1>1
    <3> QED BY <3>1, <3>2 DEF Job
  <2> QED BY <1>1, <1>12, <2>1 DEF InHand, Asked
<1> HIDE DEF Quiet
<1>13. Quiet
  <2>1. CASE Take(j)
    BY <1>1, <1>8, <1>12, <2>1 DEF Take, InHand, Asked
  <2>2. CASE SkipUnreachable(j) \/ FailRecipient(j)
    BY <1>10, <2>2 DEF SkipUnreachable, FailRecipient
  <2>3. CASE MarkSent(j)
    BY <1>5, <1>11, <2>3 DEF MarkSent, Asked
  <2>4. CASE CountSent(j)
    BY <1>5, <1>9, <1>11, <2>4 DEF CountSent, Asked
  <2>5. CASE CheckDone(j)
    BY <1>8, <1>12, <2>5 DEF CheckDone, LoopIsOver, Asked
  <2>6. CASE Complete(j) \/ AttemptFails(j) \/ Crash(j)
    BY <1>8, <2>6 DEF Complete, AttemptFails
  <2>7. CASE CatchError(j)
    BY <1>5, <1>11, <2>7 DEF CatchError, Asked
  <2> QED BY <2>1, <2>2, <2>3, <2>4, <2>5, <2>6, <2>7
<1> QED BY <1>3, <1>4, <1>5, <1>6, <1>13, QuietStep DEF Quiet

LEMMA ListStep ==
  ASSUME TypeOK, MessageInv, NEW j \in Jobs, List(j)
  PROVE  MessageInv'
<1>1. job \in [Jobs -> Job] /\ InHand(j)
  BY DEF TypeOK, Job, MessageInv
<1>2. \A k \in Jobs \ {j} : job'[k] = job[k]
  BY OneJob DEF Work
<1> DEFINE todo == Pending \cap job[j].recipients
           one(r) == IF r \in todo THEN 1 ELSE 0
<1>3. /\ job[j].step = "list"
      /\ job'[j].step = "loop" /\ job'[j].todo = todo /\ job'[j].sending = job[j].sending
  <2>1. PICK skip \in SUBSET Recipients :
          job' = [job EXCEPT ![j].step = "loop", ![j].todo = todo, ![j].skip = skip]
    BY DEF List, Pending
  <2>2. job[j] \in Job
    BY <1>1
  <2> DEFINE listed == [job[j] EXCEPT !.step = "loop", !.todo = todo, !.skip = skip]
  <2>3. job' = [job EXCEPT ![j] = listed]
    BY <1>1, <2>1, <2>2 DEF Job
  <2>4. /\ listed.step = "loop" /\ listed.todo = todo
        /\ listed.sending = job[j].sending
    BY <2>2 DEF Job
  <2> HIDE DEF listed, todo
  <2>5. job'[j] = listed
    BY <1>1, <2>3
  <2> QED BY <2>4, <2>5 DEF List
<1>4. /\ deliveries' = [r \in Recipients |-> deliveries[r] + one(r)]
      /\ UNCHANGED <<recipient, stored, accepted>>
  BY DEF List, database
<1> HIDE DEF todo
<1>5. ASSUME NEW k \in Jobs PROVE InHand(k)'
  BY <1>1, <1>2, <1>3, <1>4 DEF InHand, Asked, MessageInv
<1>6. ASSUME NEW r \in Recipients
      PROVE  /\ stored'[r] + Cardinality(Unstored(r)') <= accepted'[r]
             /\ accepted'[r] + Cardinality(Due(r)') <= deliveries'[r]
  <2>1. Unstored(r)' = Unstored(r)
    BY <1>2, <1>3 DEF Unstored
  <2>2. Due(r)' = IF r \in todo THEN Due(r) \cup {j} ELSE Due(r)
    BY <1>1, <1>2, <1>3 DEF Due, InHand, Asked
  <2>3. Due(r) \in SUBSET Jobs /\ Due(r)' \in SUBSET Jobs
    BY <2>2 DEF Due
  <2>4. Cardinality(Due(r)') <= Cardinality(Due(r)) + one(r)
    <3>1. Cardinality(Due(r)) \in Nat
      BY <2>3, JobSetsAreFinite
    <3>2. CASE r \in todo
      <4>1. Due(r)' = Due(r) \cup {j}
        BY <2>2, <3>2
      <4>2. Cardinality(Due(r)') <= Cardinality(Due(r)) + 1
        BY <2>3, <4>1, Counting
      <4> QED BY <3>2, <4>2
    <3>3. CASE r \notin todo
      BY <2>2, <3>1, <3>3
    <3> QED BY <3>2, <3>3
  <2>5. /\ Cardinality(Due(r)) \in Nat /\ Cardinality(Due(r)') \in Nat /\ one(r) \in Nat
    BY <2>3, JobSetsAreFinite
  <2>6. stored[r] \in Nat /\ accepted[r] \in Nat /\ deliveries[r] \in Nat
    BY DEF TypeOK
  <2>7. /\ stored[r] + Cardinality(Unstored(r)) <= accepted[r]
        /\ accepted[r] + Cardinality(Due(r)) <= deliveries[r]
    BY DEF MessageInv
  <2> HIDE DEF Unstored, Due, one
  <2>8. deliveries'[r] = deliveries[r] + one(r)
    BY <1>4
  <2> QED BY <1>4, <2>1, <2>4, <2>5, <2>6, <2>7, <2>8
<1> QED BY <1>4, <1>5, <1>6 DEF MessageInv

\* A send: Meta accepts one message at most, and the recipient is no longer due.
LEMMA SendStep ==
  ASSUME TypeOK, MessageInv, NEW j \in Jobs, NEW s \in Recipients,
         SendAccepted(j, s) \/ SendFails(j, s)
  PROVE  MessageInv'
<1>1. job \in [Jobs -> Job] /\ InHand(j)
  BY DEF TypeOK, Job, MessageInv
<1>2. \A k \in Jobs \ {j} : job'[k] = job[k]
  BY OneJob DEF Work
<1>3. PICK answer \in {"accepted", "failing"} :
        /\ Ask(j, s, answer)
        /\ answer = "accepted" => accepted' = [accepted EXCEPT ![s] = @ + 1]
        /\ accepted' = accepted \/ accepted' = [accepted EXCEPT ![s] = @ + 1]
  BY DEF SendAccepted, SendFails
<1>4. /\ job[j].step = "loop" /\ s \in job[j].todo
      /\ job'[j].step = answer /\ job'[j].todo = job[j].todo /\ job'[j].sending = {s}
      /\ UNCHANGED <<recipient, stored, deliveries>>
  BY <1>1, <1>3 DEF Ask, Job, database
<1>5. job[j].sending = {}
  BY <1>1, <1>4 DEF InHand, Asked
<1>6. ASSUME NEW k \in Jobs PROVE InHand(k)'
  BY <1>2, <1>3, <1>4 DEF InHand, Asked, MessageInv
<1>7. ASSUME NEW r \in Recipients
      PROVE  /\ stored'[r] + Cardinality(Unstored(r)') <= accepted'[r]
             /\ accepted'[r] + Cardinality(Due(r)') <= deliveries'[r]
  <2>1. Unstored(r) \in SUBSET Jobs /\ Unstored(r)' \in SUBSET Jobs
        /\ Due(r) \in SUBSET Jobs /\ Due(r)' \in SUBSET Jobs
    BY DEF Unstored, Due
  <2>2. /\ Cardinality(Unstored(r)) \in Nat /\ Cardinality(Unstored(r)') \in Nat
        /\ Cardinality(Due(r)) \in Nat /\ Cardinality(Due(r)') \in Nat
    BY <2>1, JobSetsAreFinite
  <2>3. stored[r] \in Nat /\ accepted[r] \in Nat /\ deliveries[r] \in Nat
    BY DEF TypeOK
  <2>4. /\ stored[r] + Cardinality(Unstored(r)) <= accepted[r]
        /\ accepted[r] + Cardinality(Due(r)) <= deliveries[r]
    BY DEF MessageInv
  <2>5. CASE r = s
    <3>1. Due(r)' = Due(r) \ {j} /\ j \in Due(r)
      BY <1>2, <1>4, <1>5, <2>5 DEF Due
    <3>2. Cardinality(Due(r)') = Cardinality(Due(r)) - 1
      BY <2>1, <3>1, Counting
    <3>3. Unstored(r)' \subseteq Unstored(r) \cup {j}
      BY <1>2 DEF Unstored
    <3>4. answer # "accepted" => Unstored(r)' \subseteq Unstored(r)
      BY <1>2, <1>4 DEF Unstored
    <3>5. answer # "accepted" => Cardinality(Unstored(r)') <= Cardinality(Unstored(r))
      BY <2>1, <3>4, Counting
    <3>6. Cardinality(Unstored(r)') <= Cardinality(Unstored(r)) + 1
      <4> DEFINE U == Unstored(r) \cup {j}
      <4>1. U \in SUBSET Jobs /\ Cardinality(U) \in Nat
        BY <2>1, JobSetsAreFinite
      <4>2. Cardinality(U) <= Cardinality(Unstored(r)) + 1
        BY <2>1, <4>1, Counting
      <4>3. Cardinality(Unstored(r)') <= Cardinality(U)
        BY <2>1, <3>3, <4>1, Counting
      <4> HIDE DEF U
      <4> QED BY <2>2, <4>1, <4>2, <4>3
    <3>7. accepted'[r] \in {accepted[r], accepted[r] + 1}
      BY <1>3, <2>5 DEF TypeOK
    <3>8. answer = "accepted" => accepted'[r] = accepted[r] + 1
      BY <1>3, <2>5 DEF TypeOK
    <3> HIDE DEF Unstored, Due
    <3> QED BY <1>4, <2>2, <2>3, <2>4, <3>2, <3>5, <3>6, <3>7, <3>8
  <2>6. CASE r # s
    <3>1. Unstored(r)' \subseteq Unstored(r) /\ Due(r)' \subseteq Due(r)
      BY <1>2, <1>4, <1>5, <2>6 DEF Unstored, Due
    <3>2. /\ Cardinality(Unstored(r)') <= Cardinality(Unstored(r))
          /\ Cardinality(Due(r)') <= Cardinality(Due(r))
      BY <2>1, <3>1, Counting
    <3>3. accepted'[r] = accepted[r]
      BY <1>3, <2>6 DEF TypeOK
    <3> HIDE DEF Unstored, Due
    <3> QED BY <1>4, <2>2, <2>3, <2>4, <3>2, <3>3
  <2> QED BY <2>5, <2>6
<1> QED BY <1>4, <1>6, <1>7 DEF MessageInv

LEMMA StoreStep ==
  ASSUME TypeOK, MessageInv, NEW j \in Jobs, StoreMessage(j)
  PROVE  MessageInv'
<1>1. job \in [Jobs -> Job] /\ InHand(j)
  BY DEF TypeOK, Job, MessageInv
<1>2. \A k \in Jobs \ {j} : job'[k] = job[k]
  BY OneJob DEF Work
<1>3. PICK s \in job[j].sending : stored' = [stored EXCEPT ![s] = @ + 1]
  BY DEF StoreMessage
<1>4. s \in Recipients
  BY <1>1 DEF Job
<1>5. /\ job[j].step = "accepted" /\ job[j].sending = {s}
      /\ job'[j].step = "stored" /\ job'[j].todo = job[j].todo /\ job'[j].sending = {s}
      /\ UNCHANGED <<recipient, accepted, deliveries>>
  BY <1>1, <1>3 DEF StoreMessage, Set, Job, InHand, Asked, environment
<1>6. stored'[s] = stored[s] + 1 /\ \A r \in Recipients \ {s} : stored'[r] = stored[r]
  BY <1>3, <1>4 DEF TypeOK
<1>7. \A r \in Recipients : stored[r] \in Nat
  BY DEF TypeOK
<1>8. ASSUME NEW k \in Jobs PROVE InHand(k)'
  <2>1. CASE k = j
    BY <1>1, <1>4, <1>5, <1>6, <1>7, <2>1 DEF InHand, Asked
  <2>2. CASE k # j
    <3>1. job[k].sending \subseteq Recipients
      BY <1>1 DEF Job
    <3> QED BY <1>2, <1>6, <1>7, <2>2, <3>1 DEF InHand, Asked, MessageInv
  <2> QED BY <2>1, <2>2
<1>9. ASSUME NEW r \in Recipients
      PROVE  /\ stored'[r] + Cardinality(Unstored(r)') <= accepted'[r]
             /\ accepted'[r] + Cardinality(Due(r)') <= deliveries'[r]
  <2>1. Unstored(r) \in SUBSET Jobs /\ Unstored(r)' \in SUBSET Jobs
    BY DEF Unstored
  <2>2. Due(r)' = Due(r)
    BY <1>2, <1>5 DEF Due
  <2>3. Cardinality(Unstored(r)) \in Nat /\ Cardinality(Unstored(r)') \in Nat
    BY <2>1, JobSetsAreFinite
  <2>4. accepted[r] \in Nat
    BY DEF TypeOK
  <2>5. /\ stored[r] + Cardinality(Unstored(r)) <= accepted[r]
        /\ accepted[r] + Cardinality(Due(r)) <= deliveries[r]
    BY DEF MessageInv
  <2>6. CASE r = s
    <3>1. Unstored(r)' = Unstored(r) \ {j} /\ j \in Unstored(r)
      BY <1>2, <1>5, <2>6 DEF Unstored
    <3>2. Cardinality(Unstored(r)') = Cardinality(Unstored(r)) - 1
      BY <2>1, <3>1, Counting
    <3> HIDE DEF Unstored, Due
    <3> QED BY <1>5, <1>6, <1>7, <2>2, <2>3, <2>4, <2>5, <2>6, <3>2
  <2>7. CASE r # s
    <3>1. Unstored(r)' = Unstored(r)
      BY <1>2, <1>5, <2>7 DEF Unstored
    <3> HIDE DEF Unstored, Due
    <3> QED BY <1>5, <1>6, <2>2, <2>5, <2>7, <3>1
  <2> QED BY <2>6, <2>7
<1>10. ASSUME NEW r \in Recipients, recipient'[r] = "SENT" PROVE stored'[r] > 0
  BY <1>5, <1>6, <1>7, <1>10 DEF MessageInv
<1> QED BY <1>8, <1>9, <1>10 DEF MessageInv

\* What the backend does to jobs and rows does not touch messages.
LEMMA BackendStep ==
  ASSUME TypeOK, MessageInv, NEW q \in Requests, Begin(q) \/ Proceed(q)
  PROVE  MessageInv'
<1>1. UNCHANGED <<stored, accepted, deliveries>>
  BY DEF Begin, Create, ReadForLaunch, ReadForPause, ReadForResume, ReadForDelete, ReadFor,
         Proceed, AddRecipients, Defer, LaunchNow, Resume, Pause, WriteStatus, ListPending,
         Enqueue, DeleteRecipients, DeleteCampaign, database, environment
<1>2. ASSUME NEW r \in Recipients, recipient'[r] = "SENT" PROVE recipient[r] = "SENT"
  BY <1>2
     DEF Begin, Create, ReadForLaunch, ReadForPause, ReadForResume, ReadForDelete, ReadFor,
         Proceed, AddRecipients, Defer, LaunchNow, Resume, Pause, WriteStatus, ListPending,
         Enqueue, DeleteRecipients, DeleteCampaign, database, environment
<1>3. ASSUME NEW j \in Jobs
      PROVE  \/ job'[j] = job[j]
             \/ job'[j].step = "waiting" /\ job'[j].todo = {} /\ job'[j].sending = {}
  <2>1. CASE Enqueue(q)
    BY <2>1, EnqueuedJobs
  <2>2. CASE UNCHANGED job
    BY <2>2
  <2> QED BY <2>1, <2>2
     DEF Begin, Create, ReadForLaunch, ReadForPause, ReadForResume, ReadForDelete, ReadFor,
         Proceed, AddRecipients, Defer, LaunchNow, Resume, Pause, WriteStatus, ListPending,
         DeleteRecipients, DeleteCampaign
<1>4. ASSUME NEW j \in Jobs PROVE InHand(j)'
  BY <1>1, <1>3 DEF InHand, Asked, MessageInv
<1>5. ASSUME NEW r \in Recipients
      PROVE  /\ stored'[r] + Cardinality(Unstored(r)') <= accepted'[r]
             /\ accepted'[r] + Cardinality(Due(r)') <= deliveries'[r]
  <2>1. Unstored(r)' \subseteq Unstored(r) /\ Due(r)' \subseteq Due(r)
    BY <1>3 DEF Unstored, Due
  <2>2. Unstored(r) \in SUBSET Jobs /\ Due(r) \in SUBSET Jobs
    BY DEF Unstored, Due
  <2>3. /\ Cardinality(Unstored(r)') <= Cardinality(Unstored(r))
        /\ Cardinality(Due(r)') <= Cardinality(Due(r))
    BY <2>1, <2>2, Counting
  <2>4. /\ Cardinality(Unstored(r)) \in Nat /\ Cardinality(Unstored(r)') \in Nat
        /\ Cardinality(Due(r)) \in Nat /\ Cardinality(Due(r)') \in Nat
    BY <2>1, <2>2, JobSetsAreFinite
  <2>5. stored[r] \in Nat /\ accepted[r] \in Nat /\ deliveries[r] \in Nat
    BY DEF TypeOK
  <2>6. /\ stored[r] + Cardinality(Unstored(r)) <= accepted[r]
        /\ accepted[r] + Cardinality(Due(r)) <= deliveries[r]
    BY DEF MessageInv
  <2> HIDE DEF Unstored, Due
  <2> QED BY <1>1, <2>3, <2>4, <2>5, <2>6
<1> QED BY <1>1, <1>2, <1>4, <1>5 DEF MessageInv

LEMMA MessageStep == TypeOK /\ MessageInv /\ [Next]_vars => MessageInv'
<1> SUFFICES ASSUME TypeOK, MessageInv, [Next]_vars PROVE MessageInv'
  OBVIOUS
<1>1. ASSUME NEW q \in Requests, Begin(q) \/ Proceed(q) PROVE MessageInv'
  BY <1>1, BackendStep
<1>2. ASSUME NEW j \in Jobs, Work(j) \/ AttemptFails(j) \/ CatchError(j) \/ Crash(j)
      PROVE  MessageInv'
  BY <1>2, QuietSteps, ListStep, SendStep, StoreStep DEF Work
<1>3. CASE UNCHANGED vars
  BY <1>3 DEF vars, database, environment, MessageInv, InHand, Unstored, Due
<1> QED BY <1>1, <1>2, <1>3 DEF Next

LEMMA MessageInit == Init => MessageInv
<1> SUFFICES ASSUME Init PROVE MessageInv
  OBVIOUS
<1>1. \A r \in Recipients : Unstored(r) = {} /\ Due(r) = {}
  BY DEF Init, Unstored, Due, NoJob
<1>2. \A j \in Jobs : InHand(j)
  BY DEF Init, InHand, Asked, NoJob
<1>3. ASSUME NEW r \in Recipients
      PROVE  /\ recipient[r] # "SENT"
             /\ stored[r] + Cardinality(Unstored(r)) <= accepted[r]
             /\ accepted[r] + Cardinality(Due(r)) <= deliveries[r]
  <2>1. Cardinality(Unstored(r)) = 0 /\ Cardinality(Due(r)) = 0
    BY <1>1, FS_EmptySet
  <2> HIDE DEF Unstored, Due
  <2> QED BY <2>1 DEF Init
<1> QED BY <1>2, <1>3 DEF MessageInv

LEMMA MessagesAreInvariant == Spec => [](TypeOK /\ MessageInv)
  BY TypeInit, TypeStep, MessageInit, MessageStep, PTL DEF Spec

LEMMA MessagesSuffice ==
  ASSUME TypeOK, MessageInv
  PROVE  SentIsReal /\ OncePerDelivery
<1> SUFFICES ASSUME NEW r \in Recipients
             PROVE  /\ recipient[r] = "SENT" => stored[r] > 0
                    /\ stored[r] <= accepted[r]
                    /\ accepted[r] <= deliveries[r]
  BY DEF SentIsReal, OncePerDelivery
<1>1. Cardinality(Unstored(r)) \in Nat /\ Cardinality(Due(r)) \in Nat
  BY JobSetsAreFinite DEF Unstored, Due
<1>2. stored[r] \in Nat /\ accepted[r] \in Nat /\ deliveries[r] \in Nat
  BY DEF TypeOK
<1> QED BY <1>1, <1>2 DEF MessageInv

\* What a campaign reports as sent was sent, however many jobs work on a recipient and
\* wherever they fail.
THEOREM ReportsAreReal == Spec => []SentIsReal
  BY MessagesAreInvariant, MessagesSuffice, PTL

\* A recipient gets at most one message for each delivery of a job that found it PENDING.
THEOREM NoExtraMessages == Spec => []OncePerDelivery
  BY MessagesAreInvariant, MessagesSuffice, PTL
-----------------------------------------------------------------------------
(* Nobody is forgotten. *)

\* Whom a job that has read its batch still has to write to: all of the batch who are
\* PENDING.
Kept(j) ==
  /\ job[j].step \in Asked \cup {"loop", "complete"} =>
       Pending \cap job[j].recipients \subseteq job[j].todo
  /\ job[j].step = "marked" => \A r \in job[j].sending : recipient[r] # "PENDING"

\* Jobs are numbered as they come; a request that has read recipients has read all that
\* are PENDING; a deleted campaign has none.
KeepingInv ==
  /\ \E n \in 0..MaxJobs : \A j \in Jobs : job[j].step # "none" <=> j <= n
  /\ \A q \in Requests : request[q].pending # {} => Pending \subseteq request[q].pending
  /\ status = "deleted" => Pending = {}
  /\ \A j \in Jobs : Kept(j)

ForgetInv == TypeOK /\ CompletionInv /\ MessageInv /\ KeepingInv /\ PendingIsQueued

Works(j) == Work(j) \/ AttemptFails(j) \/ CatchError(j) \/ Crash(j)

\* What becomes of a job's batch: it stays in the queue, is given up, or leaves with
\* nobody PENDING or the campaign paused.
Settled(j) ==
  \/ job'[j].step \in Queued /\ job'[j].recipients = job[j].recipients
  \/ job'[j].step = "given up"
  \/ /\ job'[j].step = "completed"
     /\ \/ Pending \cap job[j].recipients = {}
        \/ job[j].step = "waiting" /\ status = "PAUSED"

\* While a job is queued nobody becomes PENDING.
LEMMA WorkAddsNobody ==
  ASSUME TypeOK, CompletionInv, NEW j \in Jobs, Works(j)
  PROVE  Pending' \subseteq Pending /\ job[j].step \in Queued /\ UNCHANGED request
<1>1. job[j].step \in Queued /\ UNCHANGED request
  BY DEF Works, Work, Take, List, SkipUnreachable, SendAccepted, SendFails, Ask, StoreMessage,
         MarkSent, CountSent, FailRecipient, CheckDone, LoopIsOver, Complete, AttemptFails,
         CatchError, Crash, Queued, Active
<1>2. job[j].step # "none"
  BY <1>1 DEF Queued, Active
<1>3. \A q \in Requests : ~AddRecipients(q)
  BY <1>2 DEF CompletionInv, NothingQueued, Adding, AddRecipients
<1>4. Next
  BY DEF Works, Next
<1> QED BY <1>1, <1>3, <1>4, PendingShrinks

\* A step of a job keeps its batch.
LEMMA JobKeepsItsBatch ==
  ASSUME TypeOK, CompletionInv, MessageInv, KeepingInv, NEW j \in Jobs, Works(j)
  PROVE  Kept(j)' /\ Settled(j)
<1>0. /\ job \in [Jobs -> Job] /\ job[j] \in Job /\ InHand(j) /\ Kept(j)
      /\ Pending' \subseteq Pending /\ job[j].step \in Queued
      /\ status = "deleted" => Pending = {}
      /\ Pending \subseteq Recipients
  BY WorkAddsNobody DEF TypeOK, Job, MessageInv, KeepingInv, Pending
<1> DEFINE Goal == Kept(j)' /\ Settled(j)
<1>1. ASSUME Finish(j),
             \/ Pending \cap job[j].recipients = {}
             \/ job[j].step = "waiting" /\ status = "PAUSED"
      PROVE  Goal
  <2>1. job'[j].step = "completed"
    BY <1>0, <1>1 DEF Finish, NoJob
  <2> QED BY <1>1, <2>1 DEF Kept, Settled, Asked
<1>2. FailAttempt(j) \/ Crash(j) => Goal
  <2>1. FailAttempt(j) \/ Crash(j) =>
          \/ job'[j].step = "waiting" /\ job'[j].recipients = job[j].recipients
          \/ job'[j].step = "given up"
    <3>1. ASSUME NEW attempt, NEW stalled
          PROVE  /\ Again(j, attempt, stalled).step = "waiting"
                 /\ Again(j, attempt, stalled).recipients = job[j].recipients
                 /\ GivenUp.step = "given up"
      BY DEF Again, GivenUp, NoJob
    <3>2. FailAttempt(j) \/ Crash(j) =>
            job'[j] = GivenUp \/ \E attempt, stalled : job'[j] = Again(j, attempt, stalled)
      <4>1. FailAttempt(j) => job'[j] = GivenUp \/ job'[j] = Again(j, job[j].attempt + 1, job[j].stalled)
        BY <1>0 DEF FailAttempt
      <4>2. Crash(j) => job'[j] = GivenUp \/ job'[j] = Again(j, job[j].attempt, TRUE)
        BY <1>0 DEF Crash
      <4> QED BY <4>1, <4>2
    <3> QED BY <3>1, <3>2
  <2> QED BY <2>1 DEF Kept, Settled, Asked, Queued
<1>3. ASSUME NEW step \in Queued, Set(j, step)
      PROVE  /\ job'[j].step = step /\ job'[j].recipients = job[j].recipients
             /\ job'[j].todo = job[j].todo /\ job'[j].sending = job[j].sending
  BY <1>0, <1>3 DEF Set, Job
<1>4. ASSUME NEW r \in Recipients, Leave(j, r), recipient'[r] # "PENDING",
             job[j].step \in Asked \cup {"loop", "complete"}
      PROVE  Goal
  <2>1. /\ job'[j].step = "loop" /\ job'[j].recipients = job[j].recipients
        /\ job'[j].todo = job[j].todo \ {r}
    BY <1>0, <1>4 DEF Leave, Job
  <2>2. r \notin Pending'
    BY <1>4 DEF Pending
  <2> QED BY <1>0, <1>4, <2>1, <2>2 DEF Kept, Settled, Asked, Queued, Active
<1>5. ASSUME NEW r \in Recipients, MarkFailed(j, r), job[j].step \in Asked \cup {"loop", "complete"}
      PROVE  Goal
  <2>1. CASE recipient[r] # "none"
    <3>1. recipient'[r] # "PENDING" /\ Leave(j, r)
      BY <1>5, <2>1 DEF MarkFailed, TypeOK
    <3> QED BY <1>4, <1>5, <3>1
  <2>2. CASE recipient[r] = "none"
    BY <1>2, <1>5, <2>2 DEF MarkFailed
  <2> QED BY <2>1, <2>2
\* From one step of the loop to another, with everybody still on the list.
<1>6. ASSUME NEW step \in Asked \cup {"complete"}, Set(j, step), UNCHANGED recipient,
             job[j].step \in Asked \cup {"loop"}, step = "marked" => FALSE
      PROVE  Goal
  <2>1. /\ job'[j].step = step /\ job'[j].recipients = job[j].recipients
        /\ job'[j].todo = job[j].todo
    BY <1>3, <1>6 DEF Asked, Queued, Active
  <2> QED BY <1>0, <1>6, <2>1 DEF Kept, Settled, Asked, Queued, Active
<1> SUFFICES Goal
  OBVIOUS
<1> HIDE DEF Goal
<1>7. CASE Take(j)
  <2>1. CASE Set(j, "list")
    <3>1. job'[j].step = "list" /\ job'[j].recipients = job[j].recipients
      BY <1>3, <2>1 DEF Queued, Active
    <3> QED BY <3>1 DEF Goal, Kept, Settled, Asked, Queued, Active
  <2>2. CASE Finish(j) /\ ~(Exists /\ status # "PAUSED")
    <3>1. status # "none"
      BY <1>0 DEF CompletionInv, NothingQueued, Queued, Active
    <3> QED BY <1>0, <1>1, <1>7, <2>2, <3>1 DEF Take, Exists
  <2> QED BY <1>7, <2>1, <2>2 DEF Take
<1>8. CASE List(j)
  <2> DEFINE todo == Pending \cap job[j].recipients
  <2>1. PICK skip : job' = [job EXCEPT ![j].step = "loop", ![j].todo = todo, ![j].skip = skip]
    BY <1>8 DEF List
  <2>2. /\ job'[j].step = "loop" /\ job'[j].todo = todo
        /\ job'[j].recipients = job[j].recipients
    BY <1>0, <2>1 DEF Job
  <2> QED BY <1>0, <2>2 DEF Goal, Kept, Settled, Asked, Queued, Active
<1>9. CASE SkipUnreachable(j) \/ FailRecipient(j)
  <2>1. PICK r \in Recipients : MarkFailed(j, r)
    BY <1>0, <1>9 DEF SkipUnreachable, FailRecipient, Job
  <2>2. job[j].step \in Asked \cup {"loop", "complete"}
    BY <1>9 DEF SkipUnreachable, FailRecipient, Asked
  <2> QED BY <1>5, <2>1, <2>2
<1>10. CASE \E r \in Recipients : SendAccepted(j, r) \/ SendFails(j, r)
  <2>1. PICK r \in Recipients, answer \in {"accepted", "failing"} : Ask(j, r, answer)
    BY <1>10 DEF SendAccepted, SendFails
  <2>2. /\ job'[j].step = answer /\ job'[j].todo = job[j].todo
        /\ job'[j].recipients = job[j].recipients
        /\ job[j].step = "loop"
    BY <1>0, <2>1 DEF Ask, Job
  <2> QED BY <1>0, <2>2 DEF Goal, Kept, Settled, Asked, Queued, Active
<1>11. CASE StoreMessage(j) \/ CatchError(j)
  BY <1>6, <1>11 DEF StoreMessage, CatchError, database, Asked
<1>12. CASE MarkSent(j)
  <2>1. PICK r \in job[j].sending :
          IF recipient[r] # "none"
          THEN /\ recipient' = [recipient EXCEPT ![r] = "SENT"]
               /\ Set(j, "marked")
          ELSE UNCHANGED recipient /\ Set(j, "failing")
    BY <1>12 DEF MarkSent
  <2>2. job[j].step = "stored" /\ job[j].sending = {r} /\ r \in Recipients
    BY <1>0, <1>12, <2>1 DEF MarkSent, InHand, Asked, Job
  <2>3. CASE recipient[r] # "none"
    <3>1. /\ job'[j].step = "marked" /\ job'[j].recipients = job[j].recipients
          /\ job'[j].todo = job[j].todo /\ job'[j].sending = {r}
      BY <1>3, <2>1, <2>2, <2>3 DEF Queued, Active
    <3>2. recipient'[r] = "SENT"
      BY <2>1, <2>2, <2>3 DEF TypeOK
    <3> QED BY <1>0, <2>2, <3>1, <3>2 DEF Goal, Kept, Settled, Asked, Queued, Active
  <2>4. CASE recipient[r] = "none"
    BY <1>6, <2>1, <2>2, <2>4 DEF Asked
  <2> QED BY <2>3, <2>4
<1>13. CASE CountSent(j)
  <2>1. CASE Set(j, "failing")
    BY <1>6, <1>13, <2>1 DEF CountSent, database, Asked
  <2>2. CASE \E r \in job[j].sending : Leave(j, r)
    <3>1. PICK r \in job[j].sending : Leave(j, r)
      BY <2>2
    <3>2. r \in Recipients /\ recipient'[r] # "PENDING" /\ job[j].step \in Asked
      BY <1>0, <1>13 DEF CountSent, Kept, Job, database, Asked
    <3> QED BY <1>4, <3>1, <3>2
  <2> QED BY <1>13, <2>1, <2>2 DEF CountSent
<1>14. CASE CheckDone(j)
  <2>1. CASE Set(j, "complete")
    BY <1>6, <1>14, <2>1 DEF CheckDone, LoopIsOver, database
  <2>2. CASE Finish(j)
    <3>1. Pending \cap job[j].recipients = {}
      BY <1>0, <1>14 DEF CheckDone, LoopIsOver, Kept
    <3> QED BY <1>1, <2>2, <3>1
  <2> QED BY <1>14, <2>1, <2>2 DEF CheckDone
<1>15. CASE Complete(j)
  <2>1. Pending = {}
    BY <1>15 DEF Complete, CompletionInv
  <2> QED BY <1>1, <1>2, <1>15, <2>1 DEF Complete
<1>16. CASE AttemptFails(j) \/ Crash(j)
  BY <1>2, <1>16 DEF AttemptFails
<1> QED BY <1>7, <1>8, <1>9, <1>10, <1>11, <1>12, <1>13, <1>14, <1>15, <1>16 DEF Works, Work

\* A request that queues its batches queues everybody it has read, after the jobs that are
\* there already.
LEMMA EnqueueKeepsAll ==
  ASSUME TypeOK, NEW q \in Requests, Enqueue(q), NEW n \in 0..MaxJobs,
         \A j \in Jobs : job[j].step # "none" <=> j <= n
  PROVE  /\ \A j \in Jobs : job[j].step # "none" => job'[j] = job[j]
         /\ \E last \in 0..MaxJobs : \A j \in Jobs : job'[j].step # "none" <=> j <= last
         /\ \A r \in request[q].pending :
              \E j \in Jobs : job'[j].step = "waiting" /\ r \in job'[j].recipients
<1>0. n \in Nat /\ MaxJobs \in Nat /\ n <= MaxJobs
  BY CampaignAssumption
<1>1. Cardinality({j \in Jobs : job[j].step # "none"}) = n
  <2>1. {j \in Jobs : job[j].step # "none"} = 1..n
    BY <1>0 DEF Jobs
  <2>2. Cardinality(1..n) = n
    BY <1>0, FS_Interval
  <2> QED BY <2>1, <2>2
<1> DEFINE first == Cardinality({j \in Jobs : job[j].step # "none"}) + 1
           Batched(batch, last) ==
             job' = [i \in Jobs |->
               IF i \in first..last
               THEN [NoJob EXCEPT !.step = "waiting",
                                  !.recipients = {r \in request[q].pending : batch[r] = i}]
               ELSE job[i]]
<1>2. PICK last \in (first - 1)..MaxJobs :
        \E batch \in [request[q].pending -> first..last] :
          IsBatching(batch, first, last) /\ Batched(batch, last)
  BY Zenon DEF Enqueue
<1>3. PICK batch \in [request[q].pending -> first..last] : Batched(batch, last)
  BY <1>2
<1>4. first = n + 1
  BY <1>1
<1> HIDE DEF first
<1>5. last \in Nat /\ n <= last /\ last <= MaxJobs
  <2>1. first - 1 = n
    BY <1>0, <1>4
  <2>2. last \in n..MaxJobs
    BY <2>1
  <2> QED BY <1>0, <2>2
<1>6. ASSUME NEW j \in Jobs, j \in first..last
      PROVE  /\ job'[j].step = "waiting"
             /\ job'[j].recipients = {r \in request[q].pending : batch[r] = j}
  BY <1>3, <1>6 DEF NoJob
<1>7. ASSUME NEW j \in Jobs, j \notin first..last PROVE job'[j] = job[j]
  BY <1>3, <1>7
<1>8. ASSUME NEW j \in Jobs, job[j].step # "none" PROVE job'[j] = job[j]
  BY <1>0, <1>4, <1>7, <1>8 DEF Jobs
<1>9. ASSUME NEW j \in Jobs PROVE job'[j].step # "none" <=> j <= last
  <2>1. j \in Nat
    BY DEF Jobs
  <2>2. CASE j \in first..last
    BY <1>6, <2>2
  <2>3. CASE j \notin first..last
    BY <1>0, <1>4, <1>5, <1>7, <2>1, <2>3
  <2> QED BY <2>2, <2>3
<1>10. ASSUME NEW r \in request[q].pending
       PROVE  \E j \in Jobs : job'[j].step = "waiting" /\ r \in job'[j].recipients
  <2>1. batch[r] \in first..last
    OBVIOUS
  <2>2. batch[r] \in Jobs
    BY <1>0, <1>4, <1>5, <2>1 DEF Jobs
  <2> QED BY <1>6, <2>1, <2>2
<1>11. last \in 0..MaxJobs
  BY <1>0, <1>5
<1> QED BY <1>8, <1>9, <1>10, <1>11

\* What a request does to the batches: it adds the recipients before anything is queued,
\* reads them, queues them, or leaves them as they are.
LEMMA RequestsAddNobody ==
  ASSUME TypeOK, NEW q \in Requests, Begin(q) \/ Proceed(q)
  PROVE  \/ AddRecipients(q) \/ ListPending(q) \/ Enqueue(q)
         \/ /\ UNCHANGED job
            /\ Pending' \subseteq Pending
            /\ \A p \in Requests : request'[p].pending = request[p].pending
            /\ \A p \in Requests : At(p, "listPending") => At(p, "listPending")'
            /\ status' = "deleted" => status = "deleted" \/ Pending' = {}
            /\ status' = "RUNNING" => status = "RUNNING" \/ At(q, "listPending")'
<1>1. ASSUME NEW step, Goto(q, step), ~At(q, "listPending")
      PROVE  /\ \A p \in Requests : request'[p].pending = request[p].pending
             /\ \A p \in Requests : At(p, "listPending") => At(p, "listPending")'
             /\ request'[q].step = step
  <2>1. request' = [request EXCEPT ![q] = [request[q] EXCEPT !.step = step]]
    BY <1>1 DEF Goto, TypeOK
  <2>2. \A p \in Requests : p # q => request'[p] = request[p]
    BY <2>1 DEF TypeOK
  <2>3. request'[q].step = step /\ request'[q].pending = request[q].pending
    BY <2>1 DEF TypeOK
  <2> QED BY <1>1, <2>2, <2>3 DEF At
<1>2. CASE ReadForLaunch(q) \/ ReadForPause(q) \/ ReadForResume(q) \/ ReadForDelete(q)
  <2>1. /\ ~At(q, "listPending") /\ UNCHANGED <<status, recipient, job>>
        /\ \/ Goto(q, "launch") \/ Goto(q, "pause") \/ Goto(q, "start")
           \/ Goto(q, "deleteRecipients")
    BY <1>2 DEF ReadForLaunch, ReadForPause, ReadForResume, ReadForDelete, ReadFor, Arrives, At,
                database
  <2>2. /\ \A p \in Requests : request'[p].pending = request[p].pending
        /\ \A p \in Requests : At(p, "listPending") => At(p, "listPending")'
    BY <1>1, <2>1
  <2> QED BY <2>1, <2>2 DEF Pending
<1>3. CASE Defer(q) \/ LaunchNow(q) \/ Resume(q) \/ Pause(q)
  <2>1. /\ ~At(q, "listPending") /\ UNCHANGED <<recipient, job>>
        /\ \/ status' \in {status, "SCHEDULED", "PAUSED"} /\ Goto(q, "done")
           \/ status' = "RUNNING" /\ Goto(q, "listPending")
    BY <1>3 DEF Defer, LaunchNow, Resume, Pause, WriteStatus, At
  <2>2. CASE status' \in {status, "SCHEDULED", "PAUSED"} /\ Goto(q, "done")
    BY <1>1, <2>1, <2>2 DEF Pending
  <2>3. CASE status' = "RUNNING" /\ Goto(q, "listPending")
    <3>1. At(q, "listPending")'
      BY <1>1, <2>1, <2>3 DEF At
    <3>2. /\ \A p \in Requests : request'[p].pending = request[p].pending
          /\ \A p \in Requests : At(p, "listPending") => At(p, "listPending")'
      BY <1>1, <2>1, <2>3
    <3> QED BY <2>1, <2>3, <3>1, <3>2 DEF Pending
  <2> QED BY <2>1, <2>2, <2>3
<1>4. CASE Create(q)
  <2>1. /\ ~At(q, "listPending") /\ UNCHANGED <<recipient, job>>
        /\ status' \in {"DRAFT", "SCHEDULED"}
        /\ Goto(q, "addRecipients") \/ Goto(q, "done")
    BY <1>4 DEF Create, Arrives, At
  <2> QED BY <1>1, <2>1 DEF Pending
<1>5. CASE DeleteRecipients(q) \/ DeleteCampaign(q)
  <2>1. /\ ~At(q, "listPending") /\ UNCHANGED job
        /\ recipient' = [r \in Recipients |-> "none"]
        /\ status' \in {status, "deleted"}
        /\ Goto(q, "deleteCampaign") \/ Goto(q, "done")
    BY <1>5 DEF DeleteRecipients, DeleteCampaign, At
  <2>2. Pending' = {}
    BY <2>1 DEF Pending
  <2> QED BY <1>1, <2>1, <2>2
<1> QED BY <1>2, <1>3, <1>4, <1>5 DEF Begin, Proceed

LEMMA RequestsForgetNobody ==
  ASSUME ForgetInv, NEW q \in Requests, Begin(q) \/ Proceed(q)
  PROVE  KeepingInv' /\ PendingIsQueued'
<1>0. TypeOK /\ CompletionInv /\ KeepingInv /\ PendingIsQueued
  BY DEF ForgetInv
<1>1. CASE AddRecipients(q)
  <2>1. \A p \in Requests : request'[p].pending = request[p].pending
    BY <1>0, <1>1, GoesOn DEF AddRecipients
  <2>2. NothingQueued /\ UNCHANGED <<status, job>>
    BY <1>0, <1>1 DEF AddRecipients, CompletionInv, Adding, environment
  <2>3. status = "deleted" => UNCHANGED recipient
    BY <1>1 DEF AddRecipients, Exists
  <2>4. \A j \in Jobs : job'[j].step = "none"
    BY <2>2 DEF NothingQueued
  <2>5. \A j \in Jobs : Kept(j)'
    BY <2>4 DEF Kept, Asked
  <2> QED BY <1>0, <2>1, <2>2, <2>3, <2>4, <2>5
          DEF KeepingInv, PendingIsQueued, NothingQueued, Pending
<1>2. CASE ListPending(q)
  <2>1. /\ At(q, "listPending") /\ UNCHANGED <<status, recipient, job>>
        /\ request'[q].pending = Pending
        /\ \A p \in Requests : p # q => request'[p] = request[p]
    BY <1>0, <1>2 DEF ListPending, database, TypeOK
  <2>2. Pending' = Pending /\ \A j \in Jobs : Kept(j)'
    BY <1>0, <2>1 DEF Pending, KeepingInv, Kept
  <2>3. KeepingInv'
    BY <1>0, <2>1, <2>2 DEF KeepingInv
  <2>4. PendingIsQueued'
    <3> SUFFICES ASSUME NEW r \in Pending PROVE \E p \in Requests : r \in request'[p].pending
      BY <2>2 DEF PendingIsQueued
    <3> QED BY <2>1
  <2> QED BY <2>3, <2>4
<1>3. CASE Enqueue(q)
  <2>1. PICK n \in 0..MaxJobs : \A j \in Jobs : job[j].step # "none" <=> j <= n
    BY <1>0 DEF KeepingInv
  <2>2. /\ \A j \in Jobs : job[j].step # "none" => job'[j] = job[j]
        /\ \E last \in 0..MaxJobs : \A j \in Jobs : job'[j].step # "none" <=> j <= last
        /\ \A r \in request[q].pending :
             \E j \in Jobs : job'[j].step = "waiting" /\ r \in job'[j].recipients
    BY <1>0, <1>3, <2>1, EnqueueKeepsAll
  <2>3. /\ request[q].step = "enqueue" /\ request'[q].pending = {}
        /\ \A p \in Requests : p # q => request'[p] = request[p]
        /\ UNCHANGED <<status, recipient>>
    BY <1>0, <1>3 DEF Enqueue, At, database, TypeOK
  <2>4. \A j \in Jobs : \/ job'[j] = job[j]
                        \/ job'[j].step = "waiting" /\ request[q].pending # {}
    BY <1>0, <1>3, EnqueuedJobs
  <2>5. Pending' = Pending
    BY <2>3 DEF Pending
  <2>6. \A j \in Jobs : Kept(j)'
    <3> SUFFICES ASSUME NEW j \in Jobs PROVE Kept(j)'
      OBVIOUS
    <3>1. CASE job'[j] = job[j]
      BY <1>0, <2>3, <2>5, <3>1 DEF KeepingInv, Kept
    <3>2. CASE job'[j].step = "waiting"
      BY <3>2 DEF Kept, Asked
    <3> QED BY <2>4, <3>1, <3>2
  <2>7. KeepingInv'
    BY <1>0, <2>2, <2>3, <2>5, <2>6 DEF KeepingInv
  <2>8. PendingIsQueued'
    <3> SUFFICES ASSUME NEW r \in Pending, status = "RUNNING"
                 PROVE  \/ \E j \in Jobs : job'[j].step \in Queued /\ r \in job'[j].recipients
                        \/ \E p \in Requests : At(p, "listPending")' \/ r \in request'[p].pending
                        \/ \E j \in Jobs : job'[j].step = "given up"
                        \/ \A j \in Jobs : job'[j].step = "none"
      BY <2>3, <2>5 DEF PendingIsQueued
    <3>1. CASE r \in request[q].pending
      BY <2>2, <3>1 DEF Queued
    <3>2. CASE r \notin request[q].pending
      <4>1. request[q].pending = {}
        BY <1>0, <3>2 DEF KeepingInv
      <4>2. \A j \in Jobs : job'[j] = job[j]
        BY <2>4, <4>1
      <4>3. \A p \in Requests : At(p, "listPending") => At(p, "listPending")'
        BY <2>3 DEF At
      <4> QED BY <1>0, <2>3, <3>2, <4>2, <4>3 DEF PendingIsQueued
    <3> QED BY <3>1, <3>2
  <2> QED BY <2>7, <2>8
<1>4. ASSUME UNCHANGED job,
             Pending' \subseteq Pending,
             \A p \in Requests : request'[p].pending = request[p].pending,
             \A p \in Requests : At(p, "listPending") => At(p, "listPending")',
             status' = "deleted" => status = "deleted" \/ Pending' = {},
             status' = "RUNNING" => status = "RUNNING" \/ At(q, "listPending")'
      PROVE  KeepingInv' /\ PendingIsQueued'
  <2>1. \A j \in Jobs : Kept(j)'
    <3>1. \A j \in Jobs : job[j].sending \subseteq Recipients
      BY <1>0 DEF TypeOK
    <3>2. \A r \in Recipients : recipient'[r] = "PENDING" => recipient[r] = "PENDING"
      BY <1>4 DEF Pending
    <3> QED BY <1>0, <1>4, <3>1, <3>2 DEF KeepingInv, Kept
  <2>2. KeepingInv'
    BY <1>0, <1>4, <2>1 DEF KeepingInv
  <2>3. PendingIsQueued'
    BY <1>0, <1>4 DEF PendingIsQueued
  <2> QED BY <2>2, <2>3
<1> QED BY <1>0, <1>1, <1>2, <1>3, <1>4, RequestsAddNobody

LEMMA WorkForgetsNobody ==
  ASSUME ForgetInv, NEW j \in Jobs, Works(j)
  PROVE  KeepingInv' /\ PendingIsQueued'
<1>0. TypeOK /\ CompletionInv /\ MessageInv /\ KeepingInv /\ PendingIsQueued
  BY DEF ForgetInv
<1>1. /\ \A k \in Jobs \ {j} : job'[k] = job[k]
      /\ Pending' \subseteq Pending /\ job[j].step \in Queued /\ UNCHANGED request
      /\ Kept(j)' /\ Settled(j)
  BY <1>0, OneJob, WorkAddsNobody, JobKeepsItsBatch DEF Works
<1>2. job[j].step # "none" /\ job'[j].step # "none"
  BY <1>1 DEF Settled, Queued, Active
<1>3. \A k \in Jobs : job'[k].step = "none" <=> job[k].step = "none"
  BY <1>1, <1>2
<1>4. ASSUME NEW k \in Jobs PROVE Kept(k)'
  <2>1. job[k].sending \subseteq Recipients
    BY <1>0 DEF TypeOK
  <2>2. \A r \in Recipients : recipient'[r] = "PENDING" => recipient[r] = "PENDING"
    BY <1>1 DEF Pending
  <2> QED BY <1>0, <1>1, <2>1, <2>2 DEF KeepingInv, Kept
<1>5. (status' = "deleted" => status = "deleted") /\ (status' = "RUNNING" => status = "RUNNING")
  BY DEF Works, Work, Take, List, SkipUnreachable, SendAccepted, SendFails, Ask, StoreMessage,
         MarkSent, CountSent, FailRecipient, CheckDone, Complete, AttemptFails, CatchError,
         Crash, database
<1>6. KeepingInv'
  BY <1>0, <1>1, <1>3, <1>4, <1>5 DEF KeepingInv
<1>7. PendingIsQueued'
  <2> SUFFICES ASSUME NEW r \in Pending', status' = "RUNNING"
               PROVE  \/ \E k \in Jobs : job'[k].step \in Queued /\ r \in job'[k].recipients
                      \/ \E p \in Requests : At(p, "listPending")' \/ r \in request'[p].pending
                      \/ \E k \in Jobs : job'[k].step = "given up"
                      \/ \A k \in Jobs : job'[k].step = "none"
    BY DEF PendingIsQueued
  <2>1. r \in Pending /\ status = "RUNNING"
    BY <1>1, <1>5
  <2>2. CASE \E k \in Jobs : job[k].step \in Queued /\ r \in job[k].recipients
    <3>1. PICK k \in Jobs : job[k].step \in Queued /\ r \in job[k].recipients
      BY <2>2
    <3>2. CASE k = j
      BY <1>1, <2>1, <3>1, <3>2 DEF Settled
    <3>3. CASE k # j
      BY <1>1, <3>1, <3>3
    <3> QED BY <3>2, <3>3
  <2>3. CASE \E p \in Requests : At(p, "listPending") \/ r \in request[p].pending
    BY <1>1, <2>3 DEF At
  <2>4. CASE \E k \in Jobs : job[k].step = "given up"
    BY <1>1, <2>4 DEF Queued, Active
  <2>5. CASE \A k \in Jobs : job[k].step = "none"
    BY <1>2, <2>5
  <2> QED BY <1>0, <2>1, <2>2, <2>3, <2>4, <2>5 DEF PendingIsQueued
<1> QED BY <1>6, <1>7

LEMMA ForgetInvariance == Spec => []ForgetInv
<1>1. Init => ForgetInv
  <2> SUFFICES ASSUME Init PROVE ForgetInv
    OBVIOUS
  <2>1. Pending = {} /\ \A j \in Jobs : job[j].step = "none"
    BY DEF Init, Pending, NoJob
  <2>2. KeepingInv
    <3>1. \A j \in Jobs : job[j].step # "none" <=> j <= 0
      BY <2>1 DEF Jobs
    <3>2. 0 \in 0..MaxJobs
      BY CampaignAssumption
    <3> QED BY <2>1, <3>1, <3>2 DEF KeepingInv, Kept, Asked
  <2> QED BY <2>1, <2>2, TypeInit, CompletionInit, MessageInit DEF ForgetInv, PendingIsQueued
<1>2. ForgetInv /\ [Next]_vars => ForgetInv'
  <2> SUFFICES ASSUME ForgetInv, [Next]_vars PROVE ForgetInv'
    OBVIOUS
  <2>1. TypeOK' /\ CompletionInv' /\ MessageInv'
    BY TypeStep, CompletionStep, MessageStep DEF ForgetInv
  <2>2. ASSUME UNCHANGED vars PROVE KeepingInv' /\ PendingIsQueued'
    <3>1. UNCHANGED <<status, recipient, job, request>> /\ KeepingInv /\ PendingIsQueued
      BY <2>2 DEF vars, database, ForgetInv
    <3>2. Pending' = Pending
      BY <3>1 DEF Pending
    <3>3. \A j \in Jobs : Kept(j)'
      BY <3>1, <3>2 DEF KeepingInv, Kept
    <3>4. KeepingInv'
      BY <3>1, <3>2, <3>3 DEF KeepingInv
    <3>5. PendingIsQueued'
      BY <3>1, <3>2 DEF PendingIsQueued, At
    <3> QED BY <3>4, <3>5
  <2>3. KeepingInv' /\ PendingIsQueued'
    BY <2>2, RequestsForgetNobody, WorkForgetsNobody DEF Next, Works, ForgetInv
  <2> QED BY <2>1, <2>3 DEF ForgetInv
<1> QED BY <1>1, <1>2, PTL DEF Spec

\* The safety half of LaunchedIsCompleted: while a campaign runs, whoever is PENDING is in
\* the queue or about to be, whatever starts, pauses, crashes and retries cross.
THEOREM NobodyIsForgotten == Spec => []PendingIsQueued
<1>1. ForgetInv => PendingIsQueued
  BY DEF ForgetInv
<1> QED BY <1>1, ForgetInvariance, PTL

\* A batch leaves the queue finished, given up, or because the campaign is paused.
THEOREM BatchesAreWorkedOff == Spec => NoBatchIsDropped
<1>1. ASSUME ForgetInv, [Next]_vars, NEW j \in Jobs,
             job[j].step \in Queued, job'[j].step = "completed"
      PROVE  \/ \A r \in job[j].recipients : recipient'[r] # "PENDING"
             \/ job[j].step = "waiting" /\ status = "PAUSED"
  <2>0. TypeOK /\ CompletionInv /\ MessageInv /\ KeepingInv
    BY <1>1 DEF ForgetInv
  <2>1. job'[j] # job[j] /\ job[j].step # "none"
    BY <1>1 DEF Queued, Active
  <2>2. Works(j)
    <3>1. ASSUME NEW q \in Requests, Begin(q) \/ Proceed(q) PROVE FALSE
      <4>1. Enqueue(q) => job'[j].step \in {job[j].step, "waiting"}
        BY <2>0, EnqueuedJobs
      <4>2. Enqueue(q) \/ UNCHANGED job
        BY <3>1 DEF Begin, Create, ReadForLaunch, ReadForPause, ReadForResume, ReadForDelete,
              ReadFor, Proceed, AddRecipients, Defer, LaunchNow, Resume, Pause, WriteStatus,
              ListPending, DeleteRecipients, DeleteCampaign
      <4> QED BY <1>1, <2>1, <4>1, <4>2 DEF Queued, Active
    <3>2. ASSUME NEW k \in Jobs, Works(k), k # j PROVE FALSE
      BY <2>0, <2>1, <3>2, OneJob DEF Works
    <3> QED BY <1>1, <2>1, <3>1, <3>2 DEF Next, Works, vars
  <2>3. Settled(j) /\ Pending' \subseteq Pending
    BY <2>0, <2>2, JobKeepsItsBatch, WorkAddsNobody
  <2>4. job[j].recipients \subseteq Recipients
    BY <2>0 DEF TypeOK
  <2> QED BY <1>1, <2>3, <2>4 DEF Settled, Pending, Queued, Active
<1>2. ForgetInv /\ [Next]_vars =>
        [\A j \in Jobs :
           job[j].step \in Queued /\ job'[j].step = "completed" =>
             \/ \A r \in job[j].recipients : recipient'[r] # "PENDING"
             \/ job[j].step = "waiting" /\ status = "PAUSED"]_vars
  BY <1>1
<1> QED BY <1>2, ForgetInvariance, PTL DEF Spec, NoBatchIsDropped
=============================================================================
