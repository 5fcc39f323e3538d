-------------------------- MODULE ConversationsProofs --------------------------
(***************************************************************************)
(* Proofs about a conversation, for any number of messages, deliveries,    *)
(* agents, requests, images and faults.                                    *)
(***************************************************************************)
EXTENDS Conversations, SequenceTheorems, TLAPS

-----------------------------------------------------------------------------
(* Type correctness. *)

Delivery ==
  [step: {"new", "done"}] \cup
  [step: {"find", "reopen", "askForHuman", "request", "store", "dispatch"},
   message: Messages, owner: Owners]

Request == [step: {"new", "intervene", "resolve", "release", "autoReopen", "done"}, owner: Owners]

\* The row, and what an agent who has it is sent late.
RowOK == status \in Statuses /\ assigned \in Owners /\ late \in Nat

LEMMA WriteOK ==
  ASSUME ConversationTypeOK, NEW newStatus \in Statuses, NEW owner \in Owners,
         Write(newStatus, owner)
  PROVE  RowOK'
  BY DEF ConversationTypeOK, RowOK, Write

\* What a delivery carries once it has read the row.
LEMMA DeliveryShape ==
  ASSUME ConversationTypeOK, NEW d \in Deliveries,
         delivery[d].step \in {"find", "reopen", "askForHuman", "request", "store", "dispatch"}
  PROVE  /\ delivery[d] = [step |-> delivery[d].step, message |-> delivery[d].message,
                           owner |-> delivery[d].owner]
         /\ delivery[d].message \in Messages /\ delivery[d].owner \in Owners
  BY DEF ConversationTypeOK

Steps == {"find", "reopen", "askForHuman", "request", "store", "dispatch"}

LEMMA StepOfDelivery ==
  ASSUME ConversationTypeOK, NEW d \in Deliveries, delivery[d].step \in Steps,
         NEW step \in Steps, NEW owner \in Owners
  PROVE  /\ Go(d, step) => delivery' \in [Deliveries -> Delivery]
         /\ delivery' = [delivery EXCEPT ![d].owner = owner, ![d].step = step] =>
              delivery' \in [Deliveries -> Delivery]
         /\ delivery' = [delivery EXCEPT ![d].step = step, ![d].owner = owner] =>
              delivery' \in [Deliveries -> Delivery]
<1>1. delivery \in [Deliveries -> Delivery]
  BY DEF ConversationTypeOK, Delivery
<1>2. delivery[d] \in [step: Steps, message: Messages, owner: Owners]
  BY DEF ConversationTypeOK, Steps
<1> DEFINE gone == [delivery[d] EXCEPT !.step = step]
           owned == [delivery[d] EXCEPT !.owner = owner, !.step = step]
<1>3. gone \in Delivery /\ owned \in Delivery
  BY <1>2 DEF Delivery, Steps
<1>4. Go(d, step) => delivery' = [delivery EXCEPT ![d] = gone]
  BY <1>1 DEF Go
<1>5. delivery' = [delivery EXCEPT ![d].owner = owner, ![d].step = step] =>
        delivery' = [delivery EXCEPT ![d] = owned]
  BY <1>1
<1>6. delivery' = [delivery EXCEPT ![d].step = step, ![d].owner = owner] =>
        delivery' = [delivery EXCEPT ![d] = owned]
  BY <1>1, <1>2
<1> HIDE DEF gone, owned
<1> QED BY <1>1, <1>3, <1>4, <1>5, <1>6

LEMMA DeliveryType ==
  ASSUME ConversationTypeOK, [Next]_vars
  PROVE  delivery' \in [Deliveries -> Delivery]
<1>0. delivery \in [Deliveries -> Delivery]
  BY DEF ConversationTypeOK, Delivery
<1>1. ASSUME NEW d \in Deliveries, Stop(d) PROVE delivery' \in [Deliveries -> Delivery]
  BY <1>0, <1>1 DEF Stop, Delivery
<1>2. ASSUME NEW d \in Deliveries, Arrive(d) PROVE delivery' \in [Deliveries -> Delivery]
  <2>1. PICK m \in Messages :
          \/ Stop(d)
          \/ delivery' = [delivery EXCEPT ![d] = [step |-> "find", message |-> m, owner |-> "none"]]
    BY <1>2 DEF Arrive
  <2>2. [step |-> "find", message |-> m, owner |-> "none"] \in Delivery
    BY DEF Delivery, Owners
  <2> QED BY <1>0, <1>1, <2>1, <2>2
<1>3. ASSUME NEW d \in Deliveries, Handle(d) PROVE delivery' \in [Deliveries -> Delivery]
  <2>0. assigned \in Owners /\ "none" \in Owners
    BY DEF ConversationTypeOK, Owners
  <2>1. CASE Find(d)
    <3>1. PICK step \in {"reopen", "askForHuman", "store"} :
            delivery' = [delivery EXCEPT ![d].owner = assigned, ![d].step = step]
      BY <2>1 DEF Find
    <3>2. delivery[d].step \in Steps /\ step \in Steps
      BY <2>1 DEF Find, Steps
    <3> QED BY <2>0, <3>1, <3>2, StepOfDelivery
  <2>2. CASE ReopenForCustomer(d)
    <3>1. delivery' = [delivery EXCEPT ![d].step = "store", ![d].owner = "none"]
      BY <2>2 DEF ReopenForCustomer
    <3>2. delivery[d].step \in Steps /\ "store" \in Steps
      BY <2>2 DEF ReopenForCustomer, Steps
    <3> QED BY <2>0, <3>1, <3>2, StepOfDelivery
  <2>3. CASE AskForHuman(d) \/ RequestForCustomer(d) \/ Store(d) \/ Dispatch(d)
    <3>1. delivery[d].step \in Steps
      BY <2>3 DEF AskForHuman, RequestForCustomer, Store, Dispatch, Steps
    <3>2. Stop(d) \/ \E step \in {"store", "request", "dispatch"} : Go(d, step)
      BY <2>3 DEF AskForHuman, RequestForCustomer, Store, Dispatch
    <3>3. {"store", "request", "dispatch"} \subseteq Steps
      BY DEF Steps
    <3> QED BY <1>1, <2>0, <3>1, <3>2, <3>3, StepOfDelivery
  <2> QED BY <1>3, <2>1, <2>2, <2>3 DEF Handle
<1>4. CASE AiStep
  BY <1>0, <1>4 DEF AiStep, CheckBeforeCall, Generate, CheckBeforeReply, Suggest, Handoff,
                    RequestForAi, CheckAfterHandoff, SendReply, CheckBeforeMedia, SendMedia,
                    SelfAssign, UnchangedByTurn
<1>5. ASSUME NEW q \in Requests, AgentStep(q) PROVE delivery' \in [Deliveries -> Delivery]
  BY <1>0, <1>5 DEF AgentStep, ReadForIntervene, ReadForResolve, ReadForRelease, ReadForSend, Read,
                    Intervene, TakeOver, Transfer, Resolve, Reopen, AutoReopen, Update, Release,
                    UnchangedByRequest
<1>6. CASE UNCHANGED vars
  BY <1>0, <1>6 DEF vars
<1> QED BY <1>2, <1>3, <1>4, <1>5, <1>6 DEF Next

LEMMA RequestType ==
  ASSUME ConversationTypeOK, [Next]_vars
  PROVE  request' \in [Requests -> Request]
<1>0. request \in [Requests -> Request] /\ assigned \in Owners /\ "none" \in Owners
  BY DEF ConversationTypeOK, Request, Owners
<1>1. ASSUME NEW q \in Requests, AgentStep(q) PROVE request' \in [Requests -> Request]
  <2>1. Finish(q) => request' \in [Requests -> Request]
    BY <1>0 DEF Finish, Request
  <2>2. ASSUME NEW step \in {"intervene", "resolve", "release", "autoReopen"},
               NEW owner \in {"none", assigned}, Read(q, step, owner)
        PROVE  request' \in [Requests -> Request]
    BY <1>0, <2>2 DEF Read, Request
  <2> QED BY <1>1, <2>1, <2>2 DEF AgentStep, ReadForIntervene, ReadForResolve, ReadForRelease,
                  ReadForSend, Intervene, TakeOver, Transfer, Resolve, Reopen, AutoReopen, Update, Release
<1>2. ASSUME NEW d \in Deliveries, Arrive(d) \/ Handle(d) PROVE UNCHANGED request
  BY <1>2 DEF Arrive, Handle, Find, ReopenForCustomer, AskForHuman, RequestForCustomer, Store,
              Dispatch, UnchangedByDelivery
<1>3. CASE AiStep
  BY <1>0, <1>3 DEF AiStep, CheckBeforeCall, Generate, CheckBeforeReply, Suggest, Handoff,
                    RequestForAi, CheckAfterHandoff, SendReply, CheckBeforeMedia, SendMedia,
                    SelfAssign, UnchangedByTurn
<1>4. CASE UNCHANGED vars
  BY <1>0, <1>4 DEF vars
<1> QED BY <1>0, <1>1, <1>2, <1>3, <1>4 DEF Next

\* The chain of turns: only the first one has begun, and an image that is to be sent is one
\* of those that are left.
TurnsOK ==
  \A i \in 1..Len(turns) :
    /\ i > 1 => turns[i].step = "check"
    /\ turns[i].step = "sendMedia" => turns[i].media > 0

\* The first turn goes on as t.
GoesOn(t) ==
  /\ turns' = [turns EXCEPT ![1] = t]
  /\ t.step = "sendMedia" => t.media > 0
  /\ t.step \in {"send", "sendMedia"} => assigned \notin Present

LEMMA FirstTurn ==
  ASSUME ConversationTypeOK, turns # <<>>
  PROVE  /\ turn = turns[1] /\ turn \in Turn
         /\ Len(turns) \in Nat /\ 1 \in 1..Len(turns)
         /\ turns \in [1..Len(turns) -> Turn]
  BY DEF turn, ConversationTypeOK

LEMMA ContinueTurn ==
  ASSUME ConversationTypeOK, turns # <<>>,
         NEW step \in {"check", "generate", "checked", "handoff", "request", "recheck", "send",
                       "media", "sendMedia", "assign"},
         Continue(step),
         step = "sendMedia" => turn.media > 0,
         step \in {"send", "sendMedia"} => assigned \notin Present
  PROVE  \E t \in Turn : GoesOn(t)
<1> DEFINE t == [turns[1] EXCEPT !.step = step]
<1>1. /\ turn = turns[1] /\ turns[1] \in Turn
      /\ Len(turns) \in Nat /\ 1 \in 1..Len(turns)
      /\ turns \in [1..Len(turns) -> Turn]
  BY FirstTurn
<1>2. t \in Turn /\ t.step = step /\ t.media = turns[1].media
  BY <1>1 DEF Turn
<1>3. turns' = [turns EXCEPT ![1] = t]
  BY <1>1 DEF Continue
<1> HIDE DEF t
<1> QED BY <1>1, <1>2, <1>3 DEF GoesOn

\* The turn that runs ends or goes on, and it comes to a send only by way of the check.
LEMMA RunningTurn ==
  ASSUME ConversationTypeOK, TurnsOK, AiStep
  PROVE  turns # <<>> /\ (EndTurn \/ \E t \in Turn : GoesOn(t))
<1> DEFINE Goal == EndTurn \/ \E t \in Turn : GoesOn(t)
<1>1. turns # <<>>
  BY DEF AiStep, CheckBeforeCall, Generate, CheckBeforeReply, Suggest, Handoff,
         RequestForAi, CheckAfterHandoff, SendReply, CheckBeforeMedia, SendMedia, SelfAssign,
         Running
<1>2. /\ turn = turns[1] /\ turns[1] \in Turn
      /\ Len(turns) \in Nat /\ 1 \in 1..Len(turns)
      /\ turns \in [1..Len(turns) -> Turn]
  BY <1>1, FirstTurn
<1>3. ASSUME NEW step \in {"generate", "checked", "handoff", "request", "recheck", "media", "assign"},
             Continue(step)
      PROVE  Goal
  BY <1>1, <1>3, ContinueTurn
<1>4. ASSUME NEW step \in {"send", "sendMedia"}, Continue(step), assigned \notin Present,
             step = "sendMedia" => turn.media > 0
      PROVE  Goal
  BY <1>1, <1>4, ContinueTurn
<1>5. ASSUME NEW escalated \in BOOLEAN, AfterHandoff(escalated) PROVE Goal
  <2> DEFINE step == IF turn.mode = "SUGGESTION" THEN "checked" ELSE "recheck"
             t == [turns[1] EXCEPT !.escalated = escalated, !.step = step]
  <2>1. CASE EndTurn
    BY <2>1
  <2>2. CASE turns' = [turns EXCEPT ![1].escalated = escalated, ![1].step = step]
    <3>1. step \in {"checked", "recheck"}
      OBVIOUS
    <3> HIDE DEF step
    <3>2. t \in Turn /\ t.step = step
      BY <1>2, <3>1 DEF Turn
    <3>3. turns' = [turns EXCEPT ![1] = t]
      BY <1>2, <2>2
    <3> HIDE DEF t
    <3> QED BY <3>1, <3>2, <3>3 DEF GoesOn
  <2> QED BY <1>5, <2>1, <2>2 DEF AfterHandoff
<1> SUFFICES Goal
  BY <1>1
<1>6. CASE CheckBeforeCall
  <2>1. EndTurn \/ Continue("generate")
    BY <1>6 DEF CheckBeforeCall, IfHumanHandled
  <2> QED BY <1>3, <2>1
<1>7. CASE Generate
  <2>1. PICK reply \in Replies, media \in 0..MaxMedia, step \in {"handoff", "checked"} :
          turns' = [turns EXCEPT ![1].reply = reply, ![1].media = media, ![1].step = step]
    BY <1>7 DEF Generate
  <2> DEFINE t == [turns[1] EXCEPT !.reply = reply, !.media = media, !.step = step]
  <2>2. t \in Turn /\ t.step = step
    BY <1>2 DEF Turn
  <2>3. turns' = [turns EXCEPT ![1] = t]
    BY <1>2, <2>1
  <2> HIDE DEF t
  <2> QED BY <2>2, <2>3 DEF GoesOn
<1>8. CASE CheckBeforeReply
  <2>1. CASE EndTurn
    BY <2>1
  <2>2. CASE IfHumanHandled(EndTurn, Continue(IF turn.reply = "answer" THEN "send" ELSE "handoff"))
    <3>1. EndTurn \/ (/\ Continue(IF turn.reply = "answer" THEN "send" ELSE "handoff")
                      /\ assigned \notin Present)
      BY <2>2 DEF IfHumanHandled, Handles, Present
    <3> QED BY <1>3, <1>4, <3>1
  <2> QED BY <1>8, <2>1, <2>2 DEF CheckBeforeReply
<1>9. CASE Suggest
  BY <1>9 DEF Suggest, IfHumanHandled
<1>10. CASE Handoff
  BY <1>3, <1>5, <1>10 DEF Handoff
<1>11. CASE RequestForAi
  BY <1>5, <1>11 DEF RequestForAi
<1>12. CASE CheckAfterHandoff
  <2>1. EndTurn \/ (Continue("send") /\ assigned \notin Present)
    BY <1>12 DEF CheckAfterHandoff, IfHumanHandled, Handles, Present
  <2> QED BY <1>4, <2>1
<1>13. CASE SendReply
  BY <1>3, <1>13 DEF SendReply
<1>14. CASE CheckBeforeMedia
  <2>1. \/ Continue("assign")
        \/ Continue("sendMedia") /\ assigned \notin Present /\ turn.media # 0
    BY <1>14 DEF CheckBeforeMedia, IfHumanHandled, Handles, Present
  <2>2. turn.media \in Nat
    BY <1>2, ConversationAssumption DEF Turn
  <2> QED BY <1>3, <1>4, <2>1, <2>2
<1>15. CASE SendMedia
  <2> DEFINE t == [turns[1] EXCEPT !.step = "media", !.media = @ - 1]
  <2>1. turns[1].media > 0 /\ turns[1].media \in 0..MaxMedia
    BY <1>2, <1>15 DEF SendMedia, Running, TurnsOK, Turn
  <2>2. turns[1].media - 1 \in 0..MaxMedia
    BY <2>1, ConversationAssumption
  <2>3. t \in Turn /\ t.step = "media"
    BY <1>2, <2>2 DEF Turn
  <2>4. turns' = [turns EXCEPT ![1] = t]
    BY <1>2, <1>15 DEF SendMedia
  <2> HIDE DEF t
  <2> QED BY <2>3, <2>4 DEF GoesOn
<1>16. CASE SelfAssign
  BY <1>16 DEF SelfAssign
<1> HIDE DEF Goal
<1> QED BY <1>6, <1>7, <1>8, <1>9, <1>10, <1>11, <1>12, <1>13, <1>14, <1>15, <1>16 DEF AiStep

\* What becomes of the chain: the first turn goes on or is taken off, or one is queued.
LEMMA ChainStep ==
  ASSUME ConversationTypeOK, TurnsOK
  PROVE  /\ EndTurn /\ turns # <<>> =>
              /\ turns' \in Seq(Turn) /\ TurnsOK'
              /\ turns' # <<>> => Head(turns').step = "check"
         /\ \A t \in Turn : turns # <<>> /\ GoesOn(t) =>
              turns' \in Seq(Turn) /\ TurnsOK' /\ turns' # <<>> /\ Head(turns') = t
         /\ \A t \in Turn : turns' = Append(turns, t) /\ t.step = "check" =>
              /\ turns' \in Seq(Turn) /\ TurnsOK'
              /\ IF turns = <<>> THEN Head(turns') = t ELSE Head(turns') = turn
<1>0. turns \in Seq(Turn)
  BY DEF ConversationTypeOK
<1>1. ASSUME EndTurn, turns # <<>>
      PROVE  /\ turns' \in Seq(Turn) /\ TurnsOK'
             /\ turns' # <<>> => Head(turns').step = "check"
  <2>1. turns' \in Seq(Turn) /\ Len(turns') = Len(turns) - 1 /\ Len(turns) \in Nat
    BY <1>0, <1>1 DEF EndTurn
  <2>2. \A i \in 1..Len(turns') : i + 1 \in 1..Len(turns) /\ turns'[i] = turns[i + 1]
    BY <1>0, <1>1, <2>1 DEF EndTurn
  <2>3. \A i \in 1..Len(turns') : turns'[i].step = "check"
    BY <2>1, <2>2 DEF TurnsOK
  <2>4. turns' # <<>> => 1 \in 1..Len(turns') /\ Head(turns') = turns'[1]
    BY <2>1
  <2> QED BY <2>1, <2>3, <2>4 DEF TurnsOK
<1>2. ASSUME NEW t \in Turn, turns # <<>>, GoesOn(t)
      PROVE  turns' \in Seq(Turn) /\ TurnsOK' /\ turns' # <<>> /\ Head(turns') = t
  <2>1. /\ turns' = [turns EXCEPT ![1] = t] /\ 1 \in 1..Len(turns)
        /\ turns \in [1..Len(turns) -> Turn] /\ Len(turns) \in Nat
    BY <1>2, FirstTurn DEF GoesOn
  <2>2. turns' \in [1..Len(turns) -> Turn]
    BY <2>1
  <2>3. turns' \in Seq(Turn)
    <3>1. turns' \in UNION {[1..n -> Turn] : n \in Nat}
      BY <2>1, <2>2
    <3> QED BY <3>1, SeqDef
  <2>4. Len(turns') = Len(turns)
    BY <2>1, <2>2, <2>3, LenProperties
  <2>5. turns'[1] = t /\ \A i \in 2..Len(turns) : turns'[i] = turns[i]
    BY <2>1
  <2>6. turns' # <<>> /\ Head(turns') = t
    BY <2>1, <2>3, <2>4, <2>5
  <2>7. TurnsOK'
    BY <1>2, <2>1, <2>4, <2>5 DEF TurnsOK, GoesOn
  <2> QED BY <2>3, <2>6, <2>7
<1>3. ASSUME NEW t \in Turn, turns' = Append(turns, t), t.step = "check"
      PROVE  /\ turns' \in Seq(Turn) /\ TurnsOK'
             /\ IF turns = <<>> THEN Head(turns') = t ELSE Head(turns') = turn
  <2>1. /\ turns' \in Seq(Turn) /\ Len(turns') = Len(turns) + 1 /\ Len(turns) \in Nat
        /\ turns'[Len(turns) + 1] = t
        /\ \A i \in 1..Len(turns) : turns'[i] = turns[i]
    BY <1>0, <1>3
  <2>2. TurnsOK'
    BY <1>3, <2>1 DEF TurnsOK
  <2>3. IF turns = <<>> THEN Head(turns') = t ELSE Head(turns') = turn
    BY <1>0, <2>1 DEF turn
  <2> QED BY <2>1, <2>2, <2>3
<1> QED BY <1>1, <1>2, <1>3

\* The steps that are not the AI's: a turn is queued, or the chain stays as it is.
LEMMA QueuedTurn ==
  ASSUME ConversationTypeOK, [Next]_vars, ~AiStep
  PROVE  \/ UNCHANGED turns
         \/ \E t \in Turn : turns' = Append(turns, t) /\ t.step = "check"
<1>1. ASSUME NEW d \in Deliveries, Dispatch(d)
      PROVE  \/ UNCHANGED turns
             \/ \E t \in Turn : turns' = Append(turns, t) /\ t.step = "check"
  <2>1. PICK mode \in Modes \cup {"OFF"} :
          \/ UNCHANGED turns
          \/ mode # "OFF" /\ turns' = Append(turns, NewTurn(d, mode))
    BY <1>1 DEF Dispatch
  <2>2. delivery[d].message \in Messages /\ delivery[d].owner \in Owners
    BY <1>1, DeliveryShape DEF Dispatch
  <2>3. mode # "OFF" => NewTurn(d, mode) \in Turn /\ NewTurn(d, mode).step = "check"
    BY <2>2, ConversationAssumption DEF NewTurn, Turn, Replies
  <2> QED BY <2>1, <2>3
<1>2. ASSUME NEW d \in Deliveries,
             \/ Arrive(d) \/ Find(d) \/ ReopenForCustomer(d) \/ AskForHuman(d)
             \/ RequestForCustomer(d) \/ Store(d)
      PROVE  UNCHANGED turns
  BY <1>2 DEF Arrive, Find, ReopenForCustomer, AskForHuman, RequestForCustomer, Store
<1>3. ASSUME NEW q \in Requests, AgentStep(q) PROVE UNCHANGED turns
  BY <1>3 DEF AgentStep, ReadForIntervene, ReadForResolve, ReadForRelease, ReadForSend, Read,
              Intervene, TakeOver, Transfer, Resolve, Reopen, AutoReopen, Update, Release,
              UnchangedByRequest
<1>4. CASE UNCHANGED vars
  BY <1>4 DEF vars
<1> QED BY <1>1, <1>2, <1>3, <1>4 DEF Next, Handle

LEMMA TurnsType ==
  ASSUME ConversationTypeOK, TurnsOK, [Next]_vars
  PROVE  turns' \in Seq(Turn) /\ TurnsOK'
<1>1. CASE AiStep
  BY <1>1, RunningTurn, ChainStep
<1>2. CASE ~AiStep
  <2>1. UNCHANGED turns => turns' \in Seq(Turn) /\ TurnsOK'
    BY DEF ConversationTypeOK, TurnsOK
  <2> QED BY <1>2, <2>1, QueuedTurn, ChainStep
<1> QED BY <1>1, <1>2

LEMMA RowType ==
  ASSUME ConversationTypeOK, [Next]_vars
  PROVE  RowOK'
<1>0. /\ RowOK /\ {"OPEN", "REQUESTED", "INTERVENED", "RESOLVED"} = Statuses
      /\ {"none", "ai"} \subseteq Owners /\ Agents \subseteq Owners
  BY DEF ConversationTypeOK, RowOK, Statuses, Owners
<1>1. ASSUME NEW new \in Statuses, NEW owner \in Owners, Write(new, owner) PROVE RowOK'
  BY <1>1, WriteOK
<1>2. ASSUME UNCHANGED <<row, late>> PROVE RowOK'
  BY <1>0, <1>2 DEF RowOK, row
<1>3. assigned \in Owners /\ status \in Statuses /\ late \in Nat
  BY DEF ConversationTypeOK
<1>4. ASSUME NEW d \in Deliveries, Arrive(d) \/ Handle(d) PROVE RowOK'
  BY <1>0, <1>1, <1>2, <1>3, <1>4
     DEF Arrive, Handle, Find, ReopenForCustomer, AskForHuman, RequestForCustomer, Store, Dispatch
<1>5. CASE AiStep
  <2>1. CASE RequestForAi \/ SelfAssign
    BY <1>0, <1>1, <1>2, <1>3, <2>1 DEF RequestForAi, SelfAssign
  <2>2. CASE SendReply \/ SendMedia
    <3>1. UNCHANGED row /\ late' \in Nat
      BY <1>3, <2>2 DEF SendReply, SendMedia, SendFails, CountSend
    <3> QED BY <1>0, <3>1 DEF RowOK, row
  <2> QED BY <1>2, <1>5, <2>1, <2>2
          DEF AiStep, CheckBeforeCall, Generate, CheckBeforeReply, Suggest, Handoff,
              CheckAfterHandoff, CheckBeforeMedia, history
<1>6. ASSUME NEW q \in Requests, AgentStep(q) PROVE RowOK'
  <2>1. CASE Update(q)
    <3>1. \E new \in Statuses, owner \in Owners : Write(new, owner)
      BY <2>1 DEF Update
    <3> QED BY <1>1, <3>1
  <2>2. CASE Intervene(q) \/ TakeOver(q) \/ Transfer(q)
    <3>1. \E user \in Owners : Write("INTERVENED", user)
      BY <1>0, <2>2 DEF Intervene, TakeOver, Transfer
    <3> QED BY <1>0, <1>1, <3>1
  <2> QED BY <1>0, <1>1, <1>2, <1>3, <1>6, <2>1, <2>2
          DEF AgentStep, ReadForIntervene, ReadForResolve, ReadForRelease, ReadForSend, Read,
              Resolve, Reopen, AutoReopen, Release
<1>7. CASE UNCHANGED vars
  BY <1>2, <1>7 DEF vars, history
<1> QED BY <1>4, <1>5, <1>6, <1>7 DEF Next

LEMMA HistoryType ==
  ASSUME ConversationTypeOK, [Next]_vars
  PROVE  /\ stored' \subseteq Messages
         /\ told' \in BOOLEAN
         /\ outcome' \in [Messages -> Outcomes \cup {"none"}]
         /\ queued' \in [Messages -> Nat]
         /\ faults' \in 0..MaxFaults
<1> DEFINE Goal == /\ stored' \subseteq Messages
                   /\ told' \in BOOLEAN
                   /\ outcome' \in [Messages -> Outcomes \cup {"none"}]
                   /\ queued' \in [Messages -> Nat]
                   /\ faults' \in 0..MaxFaults
<1>0. /\ stored \subseteq Messages /\ told \in BOOLEAN
      /\ outcome \in [Messages -> Outcomes \cup {"none"}]
      /\ queued \in [Messages -> Nat] /\ faults \in 0..MaxFaults
  BY DEF ConversationTypeOK
<1>1. Fault => faults' \in 0..MaxFaults
  BY <1>0, ConversationAssumption DEF Fault
<1>2. turns # <<>> => turn.message \in Messages
  BY FirstTurn DEF Turn
<1>3. ASSUME NEW d \in Deliveries, Arrive(d) \/ Handle(d) PROVE Goal
  <2>1. CASE Store(d)
    <3>1. delivery[d].message \in Messages
      BY <2>1, DeliveryShape DEF Store
    <3> QED BY <1>0, <2>1, <3>1 DEF Store, UnchangedByDelivery
  <2>2. CASE Dispatch(d)
    <3>1. delivery[d].message \in Messages
      BY <2>2, DeliveryShape DEF Dispatch
    <3>2. UNCHANGED queued \/ queued' = [queued EXCEPT ![delivery[d].message] = @ + 1]
      BY <2>2 DEF Dispatch
    <3>3. queued' \in [Messages -> Nat]
      BY <1>0, <3>1, <3>2
    <3> QED BY <1>0, <2>2, <3>3 DEF Dispatch, UnchangedByDelivery
  <2> QED BY <1>0, <1>3, <2>1, <2>2
          DEF Arrive, Handle, Find, ReopenForCustomer, AskForHuman, RequestForCustomer,
              UnchangedByDelivery
<1>4. CASE AiStep
  <2>1. turn.message \in Messages
    BY <1>2, <1>4, RunningTurn DEF AiStep, CheckBeforeCall, Generate, CheckBeforeReply, Suggest,
           Handoff, RequestForAi, CheckAfterHandoff, SendReply, CheckBeforeMedia, SendMedia,
           SelfAssign, Running
  <2>2. stored' \subseteq Messages
    BY <1>0, <1>4 DEF AiStep, CheckBeforeCall, Generate, CheckBeforeReply, Suggest, Handoff,
                      RequestForAi, CheckAfterHandoff, SendReply, CheckBeforeMedia, SendMedia,
                      SelfAssign, UnchangedByTurn
  <2>3. UNCHANGED queued
    BY <1>4 DEF AiStep, CheckBeforeCall, Generate, CheckBeforeReply, Suggest, Handoff,
                RequestForAi, CheckAfterHandoff, SendReply, CheckBeforeMedia, SendMedia,
                SelfAssign, history
  <2>4. told' \in BOOLEAN
    <3>1. CASE SendReply
      BY <1>0, <3>1 DEF SendReply, Failed
    <3> QED BY <1>0, <1>4, <3>1 DEF AiStep, CheckBeforeCall, Generate, CheckBeforeReply, Suggest,
                Handoff, RequestForAi, CheckAfterHandoff, CheckBeforeMedia, SendMedia, SelfAssign
  <2>5. outcome' \in [Messages -> Outcomes \cup {"none"}]
    <3>1. UNCHANGED outcome \/ \E result \in Outcomes : ComesTo(result)
      BY <1>4 DEF AiStep, CheckBeforeCall, Generate, CheckBeforeReply, Suggest, Handoff,
                  RequestForAi, CheckAfterHandoff, SendReply, CheckBeforeMedia, SendMedia,
                  SelfAssign, AfterHandoff, Outcomes, history
    <3> QED BY <1>0, <2>1, <3>1 DEF ComesTo
  <2>6. UNCHANGED faults \/ Fault
    BY <1>4 DEF AiStep, CheckBeforeCall, Generate, CheckBeforeReply, Suggest, Handoff,
                RequestForAi, CheckAfterHandoff, SendReply, CheckBeforeMedia, SendMedia,
                SelfAssign, IfHumanHandled, history
  <2> QED BY <1>0, <1>1, <2>1, <2>2, <2>3, <2>4, <2>5, <2>6
<1>5. ASSUME NEW q \in Requests, AgentStep(q) PROVE Goal
  BY <1>0, <1>5 DEF AgentStep, ReadForIntervene, ReadForResolve, ReadForRelease, ReadForSend, Read,
              Intervene, TakeOver, Transfer, Resolve, Reopen, AutoReopen, Update, Release,
              UnchangedByRequest
<1>6. CASE UNCHANGED vars
  BY <1>0, <1>6 DEF vars, history
<1> QED BY <1>3, <1>4, <1>5, <1>6 DEF Next

TypeInv == ConversationTypeOK /\ TurnsOK

LEMMA TypeInit == Init => TypeInv
<1> SUFFICES ASSUME Init PROVE TypeInv
  OBVIOUS
<1>1. turns = <<>> /\ turns \in Seq(Turn) /\ Len(turns) = 0
  BY DEF Init
<1>2. TurnsOK
  BY <1>1 DEF TurnsOK
<1>3. /\ delivery \in [Deliveries -> Delivery] /\ request \in [Requests -> Request]
      /\ queued \in [Messages -> Nat] /\ outcome \in [Messages -> Outcomes \cup {"none"}]
  BY DEF Init, Delivery, Request, Owners
<1>4. faults \in 0..MaxFaults /\ late \in Nat
  BY ConversationAssumption DEF Init
<1>5. /\ status \in Statuses /\ assigned \in Owners /\ told \in BOOLEAN
      /\ stored \subseteq Messages
  BY DEF Init, Statuses, Owners
<1> QED BY <1>1, <1>2, <1>3, <1>4, <1>5 DEF TypeInv, ConversationTypeOK, Delivery, Request

LEMMA TypeStep == TypeInv /\ [Next]_vars => TypeInv'
<1> SUFFICES ASSUME TypeInv, [Next]_vars PROVE TypeInv'
  OBVIOUS
<1>1. delivery' \in [Deliveries -> Delivery] /\ request' \in [Requests -> Request]
  BY DeliveryType, RequestType DEF TypeInv
<1>2. turns' \in Seq(Turn) /\ TurnsOK' /\ RowOK'
  BY TurnsType, RowType DEF TypeInv
<1> QED BY <1>1, <1>2, HistoryType DEF TypeInv, ConversationTypeOK, Delivery, Request, RowOK

LEMMA TypesAreInvariant == Spec => []TypeInv
  BY TypeInit, TypeStep, PTL DEF Spec

\* Every variable keeps its type; in particular no more images are sent than there are.
THEOREM TypeCorrect == Spec => []ConversationTypeOK
  BY TypesAreInvariant, PTL DEF TypeInv

-----------------------------------------------------------------------------
(* One turn for each message. *)

AtDispatch(m) == {d \in Deliveries : delivery[d].step = "dispatch" /\ delivery[d].message = m}

\* A delivery comes to the dispatch only with the row it has created itself.
TurnInv ==
  \A m \in Messages :
    /\ queued[m] <= 1
    /\ m \notin stored => queued[m] = 0 /\ AtDispatch(m) = {}
    /\ AtDispatch(m) # {} => queued[m] = 0
    /\ \A c, d \in AtDispatch(m) : c = d

LEMMA TurnInvStep ==
  ASSUME ConversationTypeOK, TurnInv, [Next]_vars
  PROVE  TurnInv'
<1>0. /\ delivery \in [Deliveries -> Delivery] /\ queued \in [Messages -> Nat]
      /\ delivery' \in [Deliveries -> Delivery]
  BY DeliveryType DEF ConversationTypeOK, Delivery
<1>1. ASSUME NEW d \in Deliveries, delivery'[d].step # "dispatch", UNCHANGED <<stored, queued>>,
             \A c \in Deliveries \ {d} : delivery'[c] = delivery[c]
      PROVE  TurnInv'
  BY <1>1 DEF TurnInv, AtDispatch
<1>2. ASSUME NEW d \in Deliveries, Stop(d)
      PROVE  /\ delivery'[d].step = "done"
             /\ \A c \in Deliveries \ {d} : delivery'[c] = delivery[c]
  BY <1>0, <1>2 DEF Stop
<1>3. ASSUME NEW d \in Deliveries, NEW step, Go(d, step)
      PROVE  /\ delivery[d].step \in Steps =>
                  delivery'[d].step = step /\ delivery'[d].message = delivery[d].message
             /\ \A c \in Deliveries \ {d} : delivery'[c] = delivery[c]
  BY <1>0, <1>3 DEF Go, Delivery, Steps
<1>4. ASSUME NEW d \in Deliveries, Arrive(d) PROVE TurnInv'
  <2>1. UNCHANGED <<stored, queued>>
    BY <1>4 DEF Arrive
  <2>2. /\ delivery'[d].step # "dispatch"
        /\ \A c \in Deliveries \ {d} : delivery'[c] = delivery[c]
    <3>1. PICK m \in Messages :
            \/ Stop(d)
            \/ delivery' = [delivery EXCEPT ![d] = [step |-> "find", message |-> m, owner |-> "none"]]
      BY <1>4 DEF Arrive
    <3> QED BY <1>0, <1>2, <3>1
  <2> QED BY <1>1, <2>1, <2>2
<1>5. ASSUME NEW d \in Deliveries, Find(d) \/ ReopenForCustomer(d) \/ AskForHuman(d)
                                     \/ RequestForCustomer(d)
      PROVE  TurnInv'
  <2>1. UNCHANGED <<stored, queued>>
    BY <1>5 DEF Find, ReopenForCustomer, AskForHuman, RequestForCustomer
  <2>2. /\ delivery'[d].step # "dispatch"
        /\ \A c \in Deliveries \ {d} : delivery'[c] = delivery[c]
    <3>1. CASE AskForHuman(d) \/ RequestForCustomer(d)
      BY <1>3, <3>1 DEF AskForHuman, RequestForCustomer, Steps
    <3>2. CASE Find(d) \/ ReopenForCustomer(d)
      <4>0. assigned \in Owners /\ "none" \in Owners
        BY DEF ConversationTypeOK, Owners
      <4>1. PICK step \in {"reopen", "askForHuman", "store"}, owner \in Owners :
              \/ delivery' = [delivery EXCEPT ![d].owner = owner, ![d].step = step]
              \/ delivery' = [delivery EXCEPT ![d].step = step, ![d].owner = owner]
        BY <3>2, <4>0 DEF Find, ReopenForCustomer
      <4>2. delivery[d] \in [step: Steps, message: Messages, owner: Owners]
        BY <3>2, <1>0 DEF Find, ReopenForCustomer, Delivery, Steps
      <4> QED BY <1>0, <4>1, <4>2
    <3> QED BY <1>5, <3>1, <3>2
  <2> QED BY <1>1, <2>1, <2>2
<1>6. ASSUME NEW d \in Deliveries, Store(d) PROVE TurnInv'
  <2> DEFINE m == delivery[d].message
  <2>1. /\ delivery[d].step = "store" /\ stored' = stored \cup {m} /\ UNCHANGED queued
    BY <1>6 DEF Store
  <2>2. CASE m \in stored
    <3>1. Stop(d) /\ stored' = stored
      BY <1>6, <2>1, <2>2 DEF Store
    <3> QED BY <1>1, <1>2, <2>1, <3>1
  <2>3. CASE m \notin stored
    <3>1. Go(d, "dispatch")
      BY <1>6, <2>3 DEF Store
    <3>2. /\ delivery'[d].step = "dispatch" /\ delivery'[d].message = m
          /\ \A c \in Deliveries \ {d} : delivery'[c] = delivery[c]
      BY <1>3, <2>1, <3>1 DEF Steps
    <3>3. \A n \in Messages : AtDispatch(n)' = IF n = m THEN AtDispatch(n) \cup {d}
                                               ELSE AtDispatch(n)
      BY <2>1, <3>2 DEF AtDispatch
    <3>4. m \in Messages => AtDispatch(m) = {} /\ queued[m] = 0
      BY <2>3 DEF TurnInv
    <3> HIDE DEF m
    <3> QED BY <2>1, <3>3, <3>4 DEF TurnInv
  <2> QED BY <2>2, <2>3
<1>7. ASSUME NEW d \in Deliveries, Dispatch(d) PROVE TurnInv'
  <2> DEFINE m == delivery[d].message
  <2>1. m \in Messages /\ delivery[d].step = "dispatch"
    BY <1>7, DeliveryShape DEF Dispatch
  <2>2. /\ delivery'[d].step = "done"
        /\ \A c \in Deliveries \ {d} : delivery'[c] = delivery[c]
        /\ UNCHANGED stored
        /\ UNCHANGED queued \/ queued' = [queued EXCEPT ![m] = @ + 1]
    BY <1>2, <1>7 DEF Dispatch
  <2>3. d \in AtDispatch(m)
    BY <2>1 DEF AtDispatch
  <2>4. \A n \in Messages : AtDispatch(n)' = AtDispatch(n) \ {d}
    BY <2>2 DEF AtDispatch
  <2>5. queued[m] = 0 /\ m \in stored /\ AtDispatch(m) = {d}
    BY <2>1, <2>3 DEF TurnInv
  <2>6. queued'[m] \in {0, 1} /\ \A n \in Messages \ {m} : queued'[n] = queued[n]
    BY <1>0, <2>1, <2>2, <2>5
  <2> HIDE DEF m
  <2> QED BY <2>1, <2>2, <2>4, <2>5, <2>6 DEF TurnInv
<1>8. ASSUME UNCHANGED <<delivery, stored, queued>> PROVE TurnInv'
  BY <1>8 DEF TurnInv, AtDispatch
<1>9. AiStep => UNCHANGED <<delivery, stored, queued>>
  BY DEF AiStep, CheckBeforeCall, Generate, CheckBeforeReply, Suggest, Handoff,
         RequestForAi, CheckAfterHandoff, SendReply, CheckBeforeMedia, SendMedia,
         SelfAssign, UnchangedByTurn, history
<1>10. ASSUME NEW q \in Requests, AgentStep(q) PROVE UNCHANGED <<delivery, stored, queued>>
  BY <1>10 DEF AgentStep, ReadForIntervene, ReadForResolve, ReadForRelease, ReadForSend, Read,
               Intervene, TakeOver, Transfer, Resolve, Reopen, AutoReopen, Update, Release,
               UnchangedByRequest
<1>11. UNCHANGED vars => UNCHANGED <<delivery, stored, queued>>
  BY DEF vars, history
<1> QED BY <1>4, <1>5, <1>6, <1>7, <1>8, <1>9, <1>10, <1>11 DEF Next, Handle

LEMMA TurnInvInit == Init => TurnInv
<1> SUFFICES ASSUME Init PROVE TurnInv
  OBVIOUS
<1>1. \A m \in Messages : queued[m] = 0
  BY DEF Init
<1>2. \A d \in Deliveries : delivery[d].step = "new"
  BY DEF Init
<1>3. \A m \in Messages : AtDispatch(m) = {}
  BY <1>2 DEF AtDispatch
<1>4. ASSUME NEW m \in Messages
      PROVE  /\ queued[m] <= 1 /\ queued[m] = 0 /\ AtDispatch(m) = {}
             /\ \A c, d \in AtDispatch(m) : c = d
  <2>1. queued[m] = 0 /\ AtDispatch(m) = {}
    BY <1>1, <1>3
  <2> QED BY <2>1
<1> QED BY <1>4 DEF TurnInv

\* However the deliveries of a message overlap and repeat, the AI gets one turn for it: the
\* delivery that stores the message is the only one that goes on.
THEOREM OneTurn == Spec => []OneTurnPerMessage
<1>1. TypeInv /\ TurnInv /\ [Next]_vars => TypeInv' /\ TurnInv'
  BY TypeStep, TurnInvStep DEF TypeInv
<1>2. TurnInv => OneTurnPerMessage
  BY DEF TurnInv, OneTurnPerMessage
<1> QED BY <1>1, <1>2, TypeInit, TurnInvInit, PTL DEF Spec

-----------------------------------------------------------------------------
(* What the AI sends to an agent's customer. *)

\* Nothing is late without an agent who is present, and while a message that has passed
\* its check is on its way nothing has been sent.
LateInv ==
  /\ late <= 1
  /\ assigned \notin Present => late = 0
  /\ Running({"send", "sendMedia"}) => late = 0

LEMMA LateWrite ==
  ASSUME TypeInv, LateInv, NEW new, NEW owner, Write(new, owner),
         Running({"send", "sendMedia"})' => Running({"send", "sendMedia"})
  PROVE  LateInv'
<1> DEFINE sending == Running({"send", "sendMedia"})
<1>1. /\ assigned' = owner /\ late \in Nat
      /\ late' = IF owner \in Present
                 THEN IF assigned \in Present THEN late ELSE IF sending THEN 0 ELSE 1
                 ELSE 0
  BY DEF Write, TypeInv, ConversationTypeOK
<1>2. late <= 1 /\ (sending => late = 0) /\ (sending' => sending)
  BY DEF LateInv
<1>3. UNCHANGED Present
  BY DEF Present
<1> HIDE DEF sending
<1>4. CASE owner \notin Present
  <2>1. late' = 0
    BY <1>1, <1>4
  <2> QED BY <2>1 DEF LateInv
<1>5. CASE owner \in Present /\ assigned \in Present
  <2>1. late' = late /\ assigned' \in Present'
    BY <1>1, <1>3, <1>5
  <2> QED BY <1>2, <2>1 DEF LateInv, sending
<1>6. CASE owner \in Present /\ assigned \notin Present
  <2>1. late' = (IF sending THEN 0 ELSE 1) /\ assigned' \in Present'
    BY <1>1, <1>3, <1>6
  <2> QED BY <1>2, <2>1 DEF LateInv, sending
<1> QED BY <1>4, <1>5, <1>6

\* After a send and after a request the turn is not at another send.
LEMMA SentTurn ==
  ASSUME TypeInv, SendReply \/ SendMedia \/ RequestForAi
  PROVE  ~Running({"send", "sendMedia"})'
<1>1. turns # <<>>
  BY DEF SendReply, SendMedia, RequestForAi, Running
<1>2. /\ turns[1] \in Turn /\ Len(turns) \in Nat /\ 1 \in 1..Len(turns)
      /\ turns \in [1..Len(turns) -> Turn] /\ turns \in Seq(Turn)
  BY <1>1, FirstTurn DEF TypeInv, ConversationTypeOK
<1>3. EndTurn => ~Running({"send", "sendMedia"})'
  BY <1>1, ChainStep DEF TypeInv, Running, turn
<1>4. ASSUME NEW t \in Turn, t.step \notin {"send", "sendMedia"}, turns' = [turns EXCEPT ![1] = t]
      PROVE  ~Running({"send", "sendMedia"})'
  <2>1. GoesOn(t)
    BY <1>4 DEF GoesOn
  <2>2. turn' = t
    BY <1>1, <2>1, ChainStep DEF TypeInv, turn
  <2> QED BY <1>4, <2>2 DEF Running
<1>5. CASE SendReply \/ SendMedia
  <2>1. CASE Continue("media")
    <3>1. turns' = [turns EXCEPT ![1] = [turns[1] EXCEPT !.step = "media"]]
      BY <1>2, <2>1 DEF Continue
    <3>2. /\ [turns[1] EXCEPT !.step = "media"] \in Turn
          /\ [turns[1] EXCEPT !.step = "media"].step = "media"
      BY <1>2 DEF Turn
    <3> QED BY <1>4, <3>1, <3>2
  <2>2. CASE SendMedia
    <3>1. turns' = [turns EXCEPT ![1] = [turns[1] EXCEPT !.step = "media", !.media = @ - 1]]
      BY <1>2, <2>2 DEF SendMedia
    <3>2. turns[1].media - 1 \in 0..MaxMedia
      <4>1. turns[1].media > 0 /\ turns[1].media \in 0..MaxMedia
        BY <1>2, <2>2, FirstTurn DEF SendMedia, Running, TypeInv, TurnsOK, Turn
      <4> QED BY <4>1, ConversationAssumption
    <3>3. /\ [turns[1] EXCEPT !.step = "media", !.media = @ - 1] \in Turn
          /\ [turns[1] EXCEPT !.step = "media", !.media = @ - 1].step = "media"
      BY <1>2, <3>2 DEF Turn
    <3> QED BY <1>4, <3>1, <3>3
  <2> QED BY <1>3, <1>5, <2>1, <2>2 DEF SendReply
<1>6. CASE RequestForAi
  <2> DEFINE step == IF turn.mode = "SUGGESTION" THEN "checked" ELSE "recheck"
  <2>1. EndTurn \/ turns' = [turns EXCEPT ![1].escalated = TRUE, ![1].step = step]
    BY <1>6 DEF RequestForAi, AfterHandoff
  <2>2. step \in {"checked", "recheck"}
    OBVIOUS
  <2> HIDE DEF step
  <2>3. CASE turns' = [turns EXCEPT ![1].escalated = TRUE, ![1].step = step]
    <3>1. turns' = [turns EXCEPT ![1] = [turns[1] EXCEPT !.escalated = TRUE, !.step = step]]
      BY <1>2, <2>3
    <3>2. /\ [turns[1] EXCEPT !.escalated = TRUE, !.step = step] \in Turn
          /\ [turns[1] EXCEPT !.escalated = TRUE, !.step = step].step = step
      BY <1>2, <2>2 DEF Turn
    <3> QED BY <1>4, <2>2, <3>1, <3>2
  <2> QED BY <1>3, <2>1, <2>3
<1> QED BY <1>5, <1>6

LEMMA LateStep ==
  ASSUME TypeInv, LateInv, [Next]_vars
  PROVE  LateInv'
<1> DEFINE Sending == Running({"send", "sendMedia"})
<1>0. ASSUME UNCHANGED <<row, late>>, Sending' => Sending \/ assigned \notin Present
      PROVE  LateInv'
  BY <1>0 DEF LateInv, row
<1>1. CASE AiStep
  <2>1. turns # <<>> /\ turns' \in Seq(Turn)
        /\ \/ EndTurn
           \/ \E t \in Turn : GoesOn(t)
    BY <1>1, RunningTurn, TurnsType DEF TypeInv
  <2>2. Sending' => assigned \notin Present
    <3>1. CASE EndTurn
      BY <2>1, <3>1, ChainStep DEF TypeInv, Running, turn
    <3>2. ASSUME NEW t \in Turn, GoesOn(t) PROVE Sending' => assigned \notin Present
      <4>1. turn' = t
        BY <2>1, <3>2, ChainStep DEF TypeInv, turn
      <4> QED BY <3>2, <4>1 DEF GoesOn, Running
    <3> QED BY <2>1, <3>1, <3>2
  <2>3. CASE SendReply \/ SendMedia
    <3>1. Sending /\ late = 0
      BY <2>3 DEF SendReply, SendMedia, LateInv, Running
    <3>2. ~Sending'
      BY <2>3, SentTurn
    <3>3. UNCHANGED row /\ (late' = 0 \/ late' = 0 + IF assigned \in Present THEN 1 ELSE 0)
      BY <2>3, <3>1 DEF SendReply, SendMedia, SendFails, CountSend
    <3> QED BY <3>2, <3>3 DEF LateInv, row
  <2>4. CASE RequestForAi
    <3>1. ~Sending'
      BY <2>4, SentTurn
    <3>2. Write("REQUESTED", assigned)
      BY <2>4 DEF RequestForAi
    <3> QED BY <3>1, <3>2, LateWrite
  <2>5. CASE SelfAssign
    <3>1. ~Sending'
      BY <2>1, <2>5, ChainStep DEF SelfAssign, TypeInv, Running, turn
    <3>2. Write("OPEN", "ai") \/ UNCHANGED <<row, late>>
      BY <2>5 DEF SelfAssign
    <3> QED BY <1>0, <3>1, <3>2, LateWrite
  <2> QED BY <1>0, <1>1, <2>2, <2>3, <2>4, <2>5
          DEF AiStep, CheckBeforeCall, Generate, CheckBeforeReply, Suggest, Handoff,
              CheckAfterHandoff, CheckBeforeMedia, history
<1>2. CASE ~AiStep
  <2>1. Sending' => Sending
    <3>1. CASE UNCHANGED turns
      BY <3>1 DEF Running, turn
    <3>2. ASSUME NEW t \in Turn, turns' = Append(turns, t), t.step = "check"
          PROVE  Sending' => Sending
      <4>1. IF turns = <<>> THEN turn' = t ELSE turn' = turn
        BY <3>2, ChainStep DEF TypeInv, turn
      <4> QED BY <3>2, <4>1 DEF Running
    <3> QED BY <1>2, <3>1, <3>2, QueuedTurn DEF TypeInv
  <2>2. UNCHANGED <<row, late>> \/ \E new, owner : Write(new, owner)
    BY <1>2 DEF Next, Arrive, Handle, Find, ReopenForCustomer, AskForHuman, RequestForCustomer,
           Store, Dispatch, AgentStep, ReadForIntervene, ReadForResolve, ReadForRelease,
           ReadForSend, Read, Intervene, TakeOver, Transfer, Resolve, Reopen, AutoReopen, Update, Release,
           vars, history
  <2> QED BY <1>0, <2>1, <2>2, LateWrite
<1> QED BY <1>1, <1>2

LEMMA LateInit == Init => LateInv
  BY DEF Init, LateInv, Running

\* Once an agent who is present has the conversation, the AI sends at most the one message
\* that had passed its check by then.
THEOREM AgentsAreNotTalkedOver == Spec => []OnlyCheckedIsLate
<1>1. TypeInv /\ LateInv /\ [Next]_vars => TypeInv' /\ LateInv'
  BY TypeStep, LateStep
<1>2. LateInv => OnlyCheckedIsLate
  BY DEF LateInv, OnlyCheckedIsLate
<1> QED BY <1>1, <1>2, TypeInit, LateInit, PTL DEF Spec

-----------------------------------------------------------------------------
(* Whose conversation it is. *)

\* What may give the AI an agent's conversation.
GivenByRequest(q) ==
  /\ \/ request[q].step = "release" /\ request[q].owner = assigned
     \/ request[q].step = "new"
  /\ request'[q].step = "done"

LEMMA OwnerStep ==
  ASSUME TypeInv, [Next]_vars, assigned \in Agents, assigned' = "ai"
  PROVE  \E q \in Requests : GivenByRequest(q)
<1>0. "ai" \notin Agents /\ "none" \notin Agents
  BY ConversationAssumption
<1>1. ASSUME NEW new, Write(new, assigned) PROVE FALSE
  BY <1>0, <1>1 DEF Write
<1>2. ASSUME NEW new, NEW owner \in Agents \cup {"none"}, Write(new, owner) PROVE FALSE
  BY <1>0, <1>2 DEF Write
<1>3. ~UNCHANGED row
  BY <1>0 DEF row
<1>4. ASSUME NEW d \in Deliveries, Arrive(d) \/ Handle(d) PROVE FALSE
  BY <1>1, <1>2, <1>3, <1>4 DEF Arrive, Handle, Find, ReopenForCustomer, AskForHuman,
                                RequestForCustomer, Store, Dispatch
<1>5. ~AiStep
  BY <1>0, <1>1, <1>3 DEF AiStep, CheckBeforeCall, Generate, CheckBeforeReply, Suggest, Handoff,
         RequestForAi, CheckAfterHandoff, SendReply, CheckBeforeMedia, SendMedia, SelfAssign
<1>6. ASSUME NEW q \in Requests, AgentStep(q)
      PROVE  GivenByRequest(q)
  <2>1. /\ Release(q) \/ Transfer(q) \/ Update(q)
        /\ ~UNCHANGED row
    BY <1>1, <1>2, <1>3, <1>6 DEF AgentStep, ReadForIntervene, ReadForResolve, ReadForRelease,
           ReadForSend, Read, Intervene, TakeOver, Resolve, Reopen, AutoReopen
  <2>2. request' = [request EXCEPT ![q] = [step |-> "done", owner |-> "none"]]
    BY <2>1 DEF Release, Transfer, Update, Finish
  <2>3. request'[q].step = "done"
    BY <2>2 DEF TypeInv, ConversationTypeOK
  <2> QED BY <2>1, <2>3 DEF GivenByRequest, Release, Transfer, Update, Arrives
<1> QED BY <1>3, <1>4, <1>5, <1>6 DEF Next, vars

\* An agent's conversation comes to the AI only by a hand-back that was decided on while
\* this agent had it, or by a transfer or an update that names the AI.
THEOREM ConversationsAreKept == Spec => AgentsKeepTheirConversation
<1>1. TypeInv /\ [Next]_vars =>
        [(assigned \in Agents /\ assigned' = "ai") =>
           \E q \in Requests :
             /\ \/ request[q].step = "release" /\ request[q].owner = assigned
                \/ request[q].step = "new"
             /\ request'[q].step = "done"]_vars
  BY OwnerStep DEF GivenByRequest
<1> QED BY <1>1, TypesAreInvariant, PTL DEF Spec, AgentsKeepTheirConversation

-----------------------------------------------------------------------------
(* No turn is dropped. *)

\* What the AI's turn came to for the message of the turn that runs.
Settled == outcome[turn.message] \in Outcomes

\* A turn comes to its images, and to the assignment, only after its reply.
Delivered == Running({"media", "sendMedia", "assign"}) => Settled

\* Why a turn may end without having come to anything.
Excused == assigned \in Agents \/ faults' > faults \/ told

LEMMA CheckedEnd ==
  ASSUME ConversationTypeOK, NEW ACTION Then, NEW ACTION Else, IfHumanHandled(Then, Else)
  PROVE  (Then /\ Excused) \/ Else
<1>1. Fault => faults' > faults
  <2>1. faults \in Nat
    BY ConversationAssumption DEF ConversationTypeOK
  <2> QED BY <2>1 DEF Fault
<1> QED BY <1>1 DEF IfHumanHandled, Handles, Excused

\* A turn that goes on is still the first one, with its message.
LEMMA TurnGoesOn ==
  ASSUME ConversationTypeOK, turns # <<>>, NEW t \in Turn, turns' = [turns EXCEPT ![1] = t]
  PROVE  Len(turns') = Len(turns) /\ turns' # <<>> /\ turn' = t
<1>1. /\ 1 \in 1..Len(turns) /\ turns \in [1..Len(turns) -> Turn] /\ Len(turns) \in Nat
  BY FirstTurn
<1>2. turns' \in [1..Len(turns) -> Turn]
  BY <1>1
<1>3. turns' \in Seq(Turn)
  <2>1. turns' \in UNION {[1..n -> Turn] : n \in Nat}
    BY <1>1, <1>2
  <2> QED BY <2>1, SeqDef
<1>4. Len(turns') = Len(turns)
  BY <1>1, <1>2, <1>3, LenProperties
<1>5. turns'[1] = t
  BY <1>1
<1> QED BY <1>1, <1>3, <1>4, <1>5 DEF turn

LEMMA MessageGoesOn ==
  ASSUME ConversationTypeOK, turns # <<>>,
         NEW step \in {"check", "generate", "checked", "handoff", "request", "recheck", "send",
                       "media", "sendMedia", "assign"},
         Continue(step)
  PROVE  /\ Len(turns') = Len(turns) /\ turns' # <<>>
         /\ turn'.step = step /\ turn'.message = turn.message
<1> DEFINE t == [turns[1] EXCEPT !.step = step]
<1>1. turn = turns[1] /\ turns[1] \in Turn /\ 1 \in 1..Len(turns)
      /\ turns \in [1..Len(turns) -> Turn]
  BY FirstTurn
<1>2. t \in Turn /\ t.step = step /\ t.message = turns[1].message
  BY <1>1 DEF Turn
<1>3. turns' = [turns EXCEPT ![1] = t]
  BY <1>1 DEF Continue
<1> HIDE DEF t
<1> QED BY <1>1, <1>2, <1>3, TurnGoesOn

\* A result of the turn stands in the history.
LEMMA ResultStands ==
  ASSUME ConversationTypeOK, turns # <<>>, NEW result \in Outcomes, ComesTo(result)
  PROVE  outcome'[turn.message] \in Outcomes
  BY FirstTurn DEF ComesTo, ConversationTypeOK, Turn

\* A step of the AI ends the turn with a result or for an excuse, or goes on with it and
\* has replied before it comes to the images.
LEMMA TurnIsAccountedFor ==
  ASSUME ConversationTypeOK, TurnsOK, Delivered, AiStep
  PROVE  \/ EndTurn /\ (outcome'[turn.message] \in Outcomes \/ Excused)
         \/ /\ Len(turns') = Len(turns) /\ turns' # <<>>
            /\ turn'.step \in {"media", "sendMedia", "assign"} => Settled'
<1> DEFINE Result == outcome'[turn.message] \in Outcomes
           Ended == EndTurn /\ (Result \/ Excused)
           Gone == /\ Len(turns') = Len(turns) /\ turns' # <<>>
                   /\ turn'.step \in {"media", "sendMedia", "assign"} => Settled'
<1>1. /\ turns # <<>> /\ turn = turns[1] /\ turns[1] \in Turn
      /\ Len(turns) \in Nat /\ 1 \in 1..Len(turns)
      /\ turns \in [1..Len(turns) -> Turn]
  BY RunningTurn, FirstTurn
<1>2. ASSUME NEW step \in {"generate", "handoff", "request", "recheck", "send", "checked"},
             Continue(step)
      PROVE  Gone
  BY <1>1, <1>2, MessageGoesOn
<1>3. ASSUME NEW step \in {"media", "sendMedia", "assign"}, Continue(step),
             Result
      PROVE  Gone
  BY <1>1, <1>3, MessageGoesOn DEF Settled
<1>4. Fault => Excused
  <2>1. faults \in Nat
    BY ConversationAssumption DEF ConversationTypeOK
  <2> QED BY <2>1 DEF Fault, Excused
<1>5. ASSUME NEW escalated \in BOOLEAN, AfterHandoff(escalated), escalated \/ Excused
      PROVE  Ended \/ Gone
  <2> DEFINE step == IF turn.mode = "SUGGESTION" THEN "checked" ELSE "recheck"
             t == [turns[1] EXCEPT !.escalated = escalated, !.step = step]
  <2>1. CASE EndTurn /\ (ComesTo("referred") \/ ~escalated)
    <3>1. Result \/ Excused
      BY <1>1, <1>5, <2>1, ResultStands DEF Outcomes
    <3> QED BY <2>1, <3>1
  <2>2. CASE turns' = [turns EXCEPT ![1].escalated = escalated, ![1].step = step]
    <3>1. step \in {"checked", "recheck"}
      OBVIOUS
    <3> HIDE DEF step
    <3>2. t \in Turn /\ t.step = step
      BY <1>1, <3>1 DEF Turn
    <3>3. turns' = [turns EXCEPT ![1] = t]
      BY <1>1, <2>2
    <3> HIDE DEF t
    <3> QED BY <1>1, <3>1, <3>2, <3>3, TurnGoesOn
  <2> QED BY <1>5, <2>1, <2>2 DEF AfterHandoff
<1> HIDE DEF Result, Ended, Gone
<1> SUFFICES Ended \/ Gone
  BY DEF Result, Ended, Gone
<1>6. ASSUME EndTurn, Excused PROVE Ended
  BY <1>6 DEF Ended
<1>7. CASE CheckBeforeCall
  <2>1. IfHumanHandled(EndTurn, Continue("generate"))
    BY <1>7 DEF CheckBeforeCall
  <2>2. (EndTurn /\ Excused) \/ Continue("generate")
    BY <2>1, CheckedEnd
  <2> QED BY <1>2, <1>6, <2>2
<1>8. CASE Generate
  <2>1. PICK reply \in Replies, media \in 0..MaxMedia, step \in {"handoff", "checked"} :
          turns' = [turns EXCEPT ![1].reply = reply, ![1].media = media, ![1].step = step]
    BY <1>8 DEF Generate
  <2> DEFINE t == [turns[1] EXCEPT !.reply = reply, !.media = media, !.step = step]
  <2>2. t \in Turn /\ t.step = step
    BY <1>1 DEF Turn
  <2>3. turns' = [turns EXCEPT ![1] = t]
    BY <1>1, <2>1
  <2> HIDE DEF t
  <2> QED BY <1>1, <2>2, <2>3, TurnGoesOn DEF Gone
<1>9. CASE CheckBeforeReply
  <2>1. CASE told /\ EndTurn
    BY <1>6, <2>1 DEF Excused
  <2>2. CASE IfHumanHandled(EndTurn, Continue(IF turn.reply = "answer" THEN "send" ELSE "handoff"))
    <3>1. \/ EndTurn /\ Excused
          \/ Continue(IF turn.reply = "answer" THEN "send" ELSE "handoff")
      BY <2>2, CheckedEnd
    <3> QED BY <1>2, <1>6, <3>1
  <2> QED BY <1>9, <2>1, <2>2 DEF CheckBeforeReply
<1>10. CASE Suggest
  <2>1. CASE IfHumanHandled(EndTurn, FALSE)
    <3>1. (EndTurn /\ Excused) \/ FALSE
      BY <2>1, CheckedEnd
    <3> QED BY <1>6, <3>1
  <2>2. CASE IfHumanHandled(FALSE, EndTurn) /\ ComesTo("answered")
    <3>1. EndTurn
      BY <2>2 DEF IfHumanHandled
    <3>2. Result
      BY <1>1, <2>2, ResultStands DEF Outcomes, Result
    <3> QED BY <3>1, <3>2 DEF Ended
  <2>3. CASE Fault /\ EndTurn
    BY <1>4, <1>6, <2>3
  <2> QED BY <1>10, <2>1, <2>2, <2>3 DEF Suggest
<1>11. CASE Handoff
  BY <1>2, <1>4, <1>5, <1>11 DEF Handoff
<1>12. CASE RequestForAi
  BY <1>5, <1>12 DEF RequestForAi
<1>13. CASE CheckAfterHandoff
  <2>1. IfHumanHandled(EndTurn, Continue("send"))
    BY <1>13 DEF CheckAfterHandoff
  <2>2. (EndTurn /\ Excused) \/ Continue("send")
    BY <2>1, CheckedEnd
  <2> QED BY <1>2, <1>6, <2>2
<1>14. CASE SendReply
  <2>1. /\ ComesTo("answered") \/ ComesTo("undelivered")
        /\ EndTurn \/ Continue("media")
    BY <1>14 DEF SendReply
  <2>2. Result
    BY <1>1, <2>1, ResultStands DEF Outcomes, Result
  <2> QED BY <1>3, <2>1, <2>2 DEF Ended
<1>15. CASE CheckBeforeMedia
  <2>1. Result
    BY <1>15 DEF CheckBeforeMedia, Delivered, Settled, Running, Result
  <2>2. Continue("assign") \/ Continue("sendMedia")
    BY <1>15 DEF CheckBeforeMedia, IfHumanHandled
  <2> QED BY <1>3, <2>1, <2>2
<1>16. CASE SendMedia
  <2> DEFINE t == [turns[1] EXCEPT !.step = "media", !.media = @ - 1]
  <2>1. turns[1].media > 0 /\ turns[1].media \in 0..MaxMedia
    BY <1>1, <1>16 DEF SendMedia, Running, TurnsOK, Turn
  <2>2. turns[1].media - 1 \in 0..MaxMedia
    BY <2>1, ConversationAssumption
  <2>3. t \in Turn /\ t.message = turns[1].message
    BY <1>1, <2>2 DEF Turn
  <2>4. turns' = [turns EXCEPT ![1] = t]
    BY <1>1, <1>16 DEF SendMedia
  <2>5. Result
    BY <1>16 DEF SendMedia, Delivered, Settled, Running, Result
  <2> HIDE DEF t
  <2> QED BY <1>1, <2>3, <2>4, <2>5, TurnGoesOn DEF Gone, Settled, Result
<1>17. CASE SelfAssign
  <2>1. Result /\ EndTurn
    BY <1>17 DEF SelfAssign, Delivered, Settled, Running, Result
  <2> QED BY <2>1 DEF Ended
<1> QED BY <1>7, <1>8, <1>9, <1>10, <1>11, <1>12, <1>13, <1>14, <1>15, <1>16, <1>17 DEF AiStep

\* Nobody but the AI answers.
LEMMA OthersDoNotAnswer ==
  ASSUME [Next]_vars, ~AiStep
  PROVE  UNCHANGED outcome
<1>1. ASSUME NEW d \in Deliveries, Arrive(d) \/ Handle(d) PROVE UNCHANGED outcome
  BY <1>1 DEF Arrive, Handle, Find, ReopenForCustomer, AskForHuman, RequestForCustomer, Store,
              Dispatch, UnchangedByDelivery
<1>2. ASSUME NEW q \in Requests, AgentStep(q) PROVE UNCHANGED outcome
  BY <1>2 DEF AgentStep, ReadForIntervene, ReadForResolve, ReadForRelease, ReadForSend, Read,
              Intervene, TakeOver, Transfer, Resolve, Reopen, AutoReopen, Update, Release,
              UnchangedByRequest
<1>3. CASE UNCHANGED vars
  BY <1>3 DEF vars, history
<1> QED BY <1>1, <1>2, <1>3 DEF Next

LEMMA DeliveredInvariance == Spec => [](TypeInv /\ Delivered)
<1>1. Init => Delivered
  BY DEF Init, Delivered, Running
<1>2. TypeInv /\ Delivered /\ [Next]_vars => Delivered'
  <2> SUFFICES ASSUME TypeInv, Delivered, [Next]_vars, turns' # <<>>,
                      turn'.step \in {"media", "sendMedia", "assign"}
               PROVE  Settled'
    BY DEF Delivered, Running
  <2>0. ConversationTypeOK /\ TurnsOK
    BY DEF TypeInv
  <2>1. CASE AiStep
    <3>1. CASE EndTurn
      <4>1. turns # <<>>
        BY <2>0, <2>1, RunningTurn
      <4>2. Head(turns').step = "check"
        BY <2>0, <3>1, <4>1, ChainStep
      <4> QED BY <4>2 DEF turn
    <3> QED BY <2>0, <2>1, <3>1, TurnIsAccountedFor
  <2>2. CASE ~AiStep
    <3>1. UNCHANGED outcome
      BY <2>2, OthersDoNotAnswer
    <3>2. CASE UNCHANGED turns
      BY <3>1, <3>2 DEF Delivered, Settled, Running, turn
    <3>3. CASE \E t \in Turn : turns' = Append(turns, t) /\ t.step = "check"
      <4>1. turns # <<>> /\ turn' = turn
        BY <2>0, <3>3, ChainStep DEF turn
      <4> QED BY <3>1, <4>1 DEF Delivered, Settled, Running
    <3> QED BY <2>0, <2>2, <3>2, <3>3, QueuedTurn
  <2> QED BY <2>1, <2>2
<1> QED BY <1>1, <1>2, TypeInit, TypeStep, PTL DEF Spec

\* The safety half of TurnsAreAnswered: the chain loses no turn, and a turn that ends has
\* answered its message, sent a reply that the channel did not take, or asked for a human
\* because it had nothing to suggest; or else an agent has the conversation, a query failed,
\* or the outage has been apologised for.
THEOREM EveryTurnIsAccountedFor == Spec => NoTurnIsDropped
<1>1. ASSUME TypeInv, Delivered, [Next]_vars, Len(turns') < Len(turns)
      PROVE  turns' = Tail(turns) /\ (outcome'[turn.message] \in Outcomes \/ Excused)
  <2>0. ConversationTypeOK /\ TurnsOK /\ turns \in Seq(Turn) /\ Len(turns) \in Nat
    BY <1>1 DEF TypeInv, ConversationTypeOK
  <2>1. AiStep
    <3>1. ASSUME ~AiStep PROVE FALSE
      <4>1. CASE UNCHANGED turns
        BY <1>1, <2>0, <4>1
      <4>2. CASE \E t \in Turn : turns' = Append(turns, t) /\ t.step = "check"
        <5>1. Len(turns') = Len(turns) + 1
          BY <2>0, <4>2
        <5> QED BY <1>1, <2>0, <5>1
      <4> QED BY <1>1, <2>0, <3>1, <4>1, <4>2, QueuedTurn
    <3> QED BY <3>1
  <2>2. EndTurn /\ (outcome'[turn.message] \in Outcomes \/ Excused)
    BY <1>1, <2>0, <2>1, TurnIsAccountedFor
  <2> QED BY <2>2 DEF EndTurn
<1>2. TypeInv /\ Delivered /\ [Next]_vars =>
        [Len(turns') < Len(turns) =>
           /\ turns' = Tail(turns)
           /\ \/ outcome'[turn.message] \in Outcomes
              \/ assigned \in Agents
              \/ faults' > faults
              \/ told]_vars
  BY <1>1 DEF Excused
<1> QED BY <1>2, DeliveredInvariance, PTL DEF Spec, NoTurnIsDropped
=============================================================================
