----------------------------- MODULE Conversations -----------------------------
(***************************************************************************)
(* One conversation between a customer, the AI and the agents of a tenant. *)
(* Webhook deliveries store the customer's messages and hand them to the   *)
(* AI; the turns of the AI run one after another (a chain of promises in   *)
(* the one backend process), each with a call of the provider in the       *)
(* middle; meanwhile agents take the conversation over, hand it back,      *)
(* close and reopen it.  Every check and the write or the send that it     *)
(* guards are two steps, unless the code makes them one statement.         *)
(***************************************************************************)
EXTENDS Naturals, Sequences

CONSTANTS
  MaxMessages,    \* text messages of the customer
  MaxDeliveries,  \* webhook deliveries, repeated ones included
  Agents,
  MayBeAway,      \* agents whose presence may lapse, if the tenant lets the AI step in
  MaxRequests,    \* requests of the agents, one operation each
  MaxMedia,       \* images the AI sends with a reply
  MaxFaults       \* failed queries

ASSUME ConversationAssumption ==
  /\ MayBeAway \subseteq Agents
  /\ Agents \cap {"none", "ai"} = {}
  /\ MaxMessages \in Nat /\ MaxDeliveries \in Nat /\ MaxRequests \in Nat
  /\ MaxMedia \in Nat /\ MaxFaults \in Nat

\* Messages are numbered as they come: delivery d brings one of the first d.
Messages == 1..MaxMessages
Deliveries == 1..MaxDeliveries
Requests == 1..MaxRequests

VARIABLES
  status,     \* Conversation.status
  assigned,   \* Conversation.assignedToId
  stored,     \* Message rows of the customer's messages
  delivery,   \* the local state of webhook handlers
  turns,      \* conversationAiLocks: the AI's turns in order, the first one runs
  request,    \* the local state of the agents' requests
  told,       \* the apology for an outage is stored, together with a handoff
  outcome,    \* history: what the AI's turn came to for each message
  queued,     \* history: turns queued for each message
  late,       \* history: AI messages since an agent who is present took over; from 1 if none was due
  faults

row == <<status, assigned>>
history == <<outcome, queued, late, faults>>
vars == <<row, stored, delivery, turns, request, told, history>>

Owners == Agents \cup {"none", "ai"}
Statuses == {"OPEN", "REQUESTED", "INTERVENED", "RESOLVED"}
Modes == {"AUTO_REPLY", "SUGGESTION"}
Replies == {"answer", "escalation", "apology", "nothing"}

\* A reply was delivered or a suggestion shown; a reply was sent but the channel did not
\* take it; no suggestion was made, and a human was asked for instead.
Outcomes == {"answered", "undelivered", "referred"}

\* A conversation that has just been created.
Init ==
  /\ status = "REQUESTED" /\ assigned = "none"
  /\ stored = {}
  /\ delivery = [d \in Deliveries |-> [step |-> "new"]]
  /\ turns = <<>>
  /\ request = [q \in Requests |-> [step |-> "new", owner |-> "none"]]
  /\ told = FALSE
  /\ outcome = [m \in Messages |-> "none"]
  /\ queued = [m \in Messages |-> 0] /\ late = 0 /\ faults = 0

Fault == faults < MaxFaults /\ faults' = faults + 1

Present == Agents \ MayBeAway

turn == Head(turns)
Running(steps) == turns # <<>> /\ turn.step \in steps

\* The row is written.  When an agent who is present gets the conversation, the AI may
\* still send one message, if that one has passed its last check; otherwise none is left.
Write(newStatus, owner) ==
  /\ status' = newStatus
  /\ assigned' = owner
  /\ late' = IF owner \in Present
              THEN IF assigned \in Present THEN late
                   ELSE IF Running({"send", "sendMedia"}) THEN 0 ELSE 1
              ELSE 0

-----------------------------------------------------------------------------
(* Deliveries of the webhook. *)

Go(d, step) == delivery' = [delivery EXCEPT ![d].step = step]
Stop(d) == delivery' = [delivery EXCEPT ![d] = [step |-> "done"]]
UnchangedByDelivery == UNCHANGED <<request, told, outcome, faults>>

\* A delivery of a message that is stored already stops here.
Arrive(d) ==
  /\ delivery[d].step = "new"
  /\ \A c \in 1..(d - 1) : delivery[c].step # "new"
  /\ \E m \in Messages :
       /\ m <= d
       /\ IF m \in stored
          THEN Stop(d)
          ELSE delivery' = [delivery EXCEPT ![d] = [step |-> "find", message |-> m, owner |-> "none"]]
  /\ UNCHANGED <<row, stored, turns, queued, late>> /\ UnchangedByDelivery

\* findOrCreate: the owner is what the row says now; OPEN has to become REQUESTED.
Find(d) ==
  /\ delivery[d].step = "find"
  /\ delivery' = [delivery EXCEPT ![d].owner = assigned,
                    ![d].step = CASE status = "RESOLVED" -> "reopen"
                                  [] status = "OPEN" -> "askForHuman"
                                  [] OTHER -> "store"]
  /\ UNCHANGED <<row, stored, turns, queued, late>> /\ UnchangedByDelivery

\* The resolved conversation is reopened, whatever has been done to it since.
ReopenForCustomer(d) ==
  /\ delivery[d].step = "reopen"
  /\ Write("REQUESTED", "none")
  /\ delivery' = [delivery EXCEPT ![d].step = "store", ![d].owner = "none"]
  /\ UNCHANGED <<stored, turns, queued>> /\ UnchangedByDelivery

\* request(): nothing to do when it is REQUESTED by now ...
AskForHuman(d) ==
  /\ delivery[d].step = "askForHuman"
  /\ Go(d, IF status = "REQUESTED" THEN "store" ELSE "request")
  /\ UNCHANGED <<row, stored, turns, queued, late>> /\ UnchangedByDelivery

\* ... and otherwise it becomes so, whatever it was.
RequestForCustomer(d) ==
  /\ delivery[d].step = "request"
  /\ Write("REQUESTED", assigned)
  /\ Go(d, "store")
  /\ UNCHANGED <<stored, turns, queued>> /\ UnchangedByDelivery

\* Mutant: the delivery that lost the race goes on with the row it found.
StoreOrFound(d) ==
  /\ delivery[d].step = "store"
  /\ stored' = stored \cup {delivery[d].message}
  /\ Go(d, "dispatch")
  /\ UNCHANGED <<row, turns, queued, late>> /\ UnchangedByDelivery

\* Message and unread count in one transaction; of two deliveries that both passed the
\* check the unique constraint lets one through, and the other one stops.
Store(d) ==
  /\ delivery[d].step = "store"
  /\ stored' = stored \cup {delivery[d].message}
  /\ IF delivery[d].message \in stored THEN Stop(d) ELSE Go(d, "dispatch")
  /\ UNCHANGED <<row, turns, queued, late>> /\ UnchangedByDelivery

\* A human who is not away keeps the AI out of the conversation.
Handles(owner, away) == owner \in Agents \ away

NewTurn(d, mode) ==
  [message |-> delivery[d].message, owner |-> delivery[d].owner, mode |-> mode,
   step |-> "check", reply |-> "answer", media |-> 0, escalated |-> FALSE]

\* dispatchAiAndChatbot: a turn in the conversation's chain, unless a flow answers, or the
\* AI is off.  It steps in for an agent who is away with a reply, never with a suggestion.
Dispatch(d) ==
  /\ delivery[d].step = "dispatch"
  /\ \E away \in SUBSET MayBeAway, mode \in Modes \cup {"OFF"} :
       IF \/ mode = "OFF"
          \/ Handles(delivery[d].owner, away)
          \/ (delivery[d].owner \in Agents /\ mode = "SUGGESTION")
       THEN UNCHANGED <<turns, queued>>
       ELSE /\ turns' = Append(turns, NewTurn(d, mode))
            /\ queued' = [queued EXCEPT ![delivery[d].message] = @ + 1]
  /\ Stop(d)
  /\ UNCHANGED <<row, stored, late>> /\ UnchangedByDelivery

-----------------------------------------------------------------------------
(* The turn of the AI that runs. *)

Continue(step) == turns' = [turns EXCEPT ![1].step = step]
EndTurn == turns' = Tail(turns)
ComesTo(result) == outcome' = [outcome EXCEPT ![turn.message] = result]
UnchangedByTurn == UNCHANGED <<stored, delivery, request>>

\* Mutant: whoever is assigned keeps the AI back, itself included.
IfAssigned(then, else) ==
  \/ /\ \E away \in SUBSET MayBeAway :
          IF Handles(assigned, away) \/ assigned = "ai" THEN then ELSE else
     /\ UNCHANGED faults
  \/ Fault /\ then

\* isConversationHumanHandled, from the row as it is now; a failed lookup counts as yes.
IfHumanHandled(then, else) ==
  \/ /\ \E away \in SUBSET MayBeAway : IF Handles(assigned, away) THEN then ELSE else
     /\ UNCHANGED faults
  \/ Fault /\ then

\* Before the provider is paid.
CheckBeforeCall ==
  /\ Running({"check"})
  /\ IfHumanHandled(EndTurn, Continue("generate"))
  /\ UNCHANGED <<row, told, outcome, queued, late>> /\ UnchangedByTurn

\* Mutant: without a response to suggest nobody is asked for, as the code once had it.
GenerateOrStop ==
  /\ Running({"generate"})
  /\ \E reply \in Replies :
       IF turn.mode = "SUGGESTION" /\ reply = "nothing"
       THEN EndTurn
       ELSE turns' = [turns EXCEPT ![1].reply = reply,
              ![1].step = IF turn.mode = "SUGGESTION" /\ reply # "answer" THEN "handoff" ELSE "checked"]
  /\ UNCHANGED <<row, told, history>> /\ UnchangedByTurn

\* The provider's answer, seconds later.  A suggestion asks for a human before it looks
\* at the owner again, a reply afterwards; images go with a reply only.
Generate ==
  /\ Running({"generate"})
  /\ \E reply \in Replies, media \in 0..MaxMedia :
       /\ (reply = "answer" /\ turn.mode = "AUTO_REPLY") \/ media = 0
       /\ turns' = [turns EXCEPT ![1].reply = reply, ![1].media = media,
            ![1].step = IF turn.mode = "SUGGESTION" /\ reply # "answer" THEN "handoff" ELSE "checked"]
  /\ UNCHANGED <<row, told, history>> /\ UnchangedByTurn

Failed == turn.reply \in {"apology", "nothing"}

\* Mutant: no second look at the owner.
DeliverReply ==
  /\ Running({"checked"}) /\ turn.mode = "AUTO_REPLY"
  /\ Continue(IF turn.reply = "answer" THEN "send" ELSE "handoff")
  /\ UNCHANGED <<row, told, outcome, queued, late, faults>> /\ UnchangedByTurn

\* Before the reply is delivered; an apology is not repeated within its cooldown.
CheckBeforeReply ==
  /\ Running({"checked"}) /\ turn.mode = "AUTO_REPLY"
  /\ \/ IfHumanHandled(EndTurn, Continue(IF turn.reply = "answer" THEN "send" ELSE "handoff"))
     \/ told /\ Failed /\ EndTurn /\ UNCHANGED faults
  /\ UNCHANGED <<row, told, outcome, queued, late>> /\ UnchangedByTurn

\* The suggestion is shown to the agents, unless its log cannot be stored.
Suggest ==
  /\ Running({"checked"}) /\ turn.mode = "SUGGESTION"
  /\ \/ IfHumanHandled(EndTurn, FALSE) /\ UNCHANGED outcome
     \/ IfHumanHandled(FALSE, EndTurn) /\ ComesTo("answered")
     \/ Fault /\ EndTurn /\ UNCHANGED outcome
  /\ UNCHANGED <<row, told, queued, late>> /\ UnchangedByTurn

\* Where the turn goes on after a human has been asked for, successfully or not.  Without
\* a response there is no suggestion to show.
AfterHandoff(escalated) ==
  IF turn.mode = "SUGGESTION" /\ turn.reply = "nothing"
  THEN EndTurn /\ IF escalated THEN ComesTo("referred") ELSE UNCHANGED outcome
  ELSE /\ turns' = [turns EXCEPT ![1].escalated = escalated,
            ![1].step = IF turn.mode = "SUGGESTION" THEN "checked" ELSE "recheck"]
       /\ UNCHANGED outcome

\* requestWithRetry: request() once more when it fails, and the answer is what happened.
Handoff ==
  /\ Running({"handoff"})
  /\ \/ status = "REQUESTED" /\ AfterHandoff(TRUE) /\ UNCHANGED faults
     \/ status # "REQUESTED" /\ Continue("request") /\ UNCHANGED <<outcome, faults>>
     \/ Fault /\ AfterHandoff(FALSE)
  /\ UNCHANGED <<row, told, queued, late>> /\ UnchangedByTurn

RequestForAi ==
  /\ Running({"request"})
  /\ Write("REQUESTED", assigned)
  /\ AfterHandoff(TRUE)
  /\ UNCHANGED <<told, queued, faults>> /\ UnchangedByTurn

CheckAfterHandoff ==
  /\ Running({"recheck"})
  /\ IfHumanHandled(EndTurn, Continue("send"))
  /\ UNCHANGED <<row, told, outcome, queued, late>> /\ UnchangedByTurn

CountSend == late' = late + IF assigned \in Present THEN 1 ELSE 0

\* What the channel refuses did not go out; when its answer is lost it may have.
SendFails == CountSend \/ UNCHANGED late

\* The text goes out, or the channel does not take it: its row is stored all the same, and
\* the turn goes on.  It is not taken back when its row cannot be stored.
SendReply ==
  /\ Running({"send"})
  /\ \/ CountSend /\ ComesTo("answered")
     \/ SendFails /\ ComesTo("undelivered")
  /\ \/ /\ IF turn.reply = "nothing" THEN EndTurn ELSE Continue("media")
        /\ told' = (told \/ (Failed /\ turn.escalated))
        /\ UNCHANGED faults
     \/ Fault /\ EndTurn /\ UNCHANGED told
  /\ UNCHANGED <<row, queued>> /\ UnchangedByTurn

\* Mutant: the list of images is left one too late.
MediaOffByOne ==
  /\ Running({"media"})
  /\ IfHumanHandled(Continue("assign"), Continue("sendMedia"))
  /\ UNCHANGED <<row, told, outcome, queued, late>> /\ UnchangedByTurn

CheckBeforeMedia ==
  /\ Running({"media"})
  /\ IF turn.media = 0
     THEN /\ Continue("assign")
          /\ UNCHANGED faults
     ELSE IfHumanHandled(Continue("assign"), Continue("sendMedia"))
  /\ UNCHANGED <<row, told, outcome, queued, late>> /\ UnchangedByTurn

SendMedia ==
  /\ Running({"sendMedia"})
  /\ CountSend \/ SendFails
  /\ turns' = [turns EXCEPT ![1].step = "media", ![1].media = @ - 1]
  /\ UNCHANGED <<row, told, outcome, queued, faults>> /\ UnchangedByTurn

\* Mutant: the owner is the one the message was dispatched with.
AssignStale ==
  /\ Running({"assign"})
  /\ IF turn.owner = "none" THEN Write("OPEN", "ai") ELSE UNCHANGED <<row, late>>
  /\ EndTurn
  /\ UNCHANGED <<told, outcome, queued, faults>> /\ UnchangedByTurn

\* The AI assigns itself a conversation that had no owner, in one statement that checks
\* that it still has none.
SelfAssign ==
  /\ Running({"assign"})
  /\ \/ /\ IF turn.owner = "none" /\ assigned = "none"
           THEN Write("OPEN", "ai")
           ELSE UNCHANGED <<row, late>>
        /\ UNCHANGED faults
     \/ Fault /\ UNCHANGED <<row, late>>
  /\ EndTurn
  /\ UNCHANGED <<told, outcome, queued>> /\ UnchangedByTurn

-----------------------------------------------------------------------------
(* Requests of the agents. *)

UnchangedByRequest == UNCHANGED <<stored, delivery, turns, told, outcome, queued, faults>>

Arrives(q) ==
  /\ request[q].step = "new"
  /\ \A p \in 1..(q - 1) : request[p].step # "new"

Finish(q) == request' = [request EXCEPT ![q] = [step |-> "done", owner |-> "none"]]

\* An agent reads the row and acts upon it later; the owner is kept where the act needs it.
Read(q, step, owner) ==
  /\ Arrives(q)
  /\ request' = [request EXCEPT ![q] = [step |-> step, owner |-> owner]]
  /\ UNCHANGED <<row, late>> /\ UnchangedByRequest

\* Only the owner or an admin may close or hand back an agent's conversation: one of them
\* can always do it.
ReadForIntervene(q) == status = "REQUESTED" /\ Read(q, "intervene", "none")
ReadForResolve(q) == status # "RESOLVED" /\ Read(q, "resolve", "none")
ReadForRelease(q) == status # "RESOLVED" /\ assigned # "ai" /\ Read(q, "release", assigned)
ReadForSend(q) == status = "RESOLVED" /\ Read(q, "autoReopen", "none")

Intervene(q) ==
  /\ request[q].step = "intervene"
  /\ \E agent \in Agents : Write("INTERVENED", agent)
  /\ Finish(q) /\ UnchangedByRequest

\* takeover and transfer look at nothing before they write.
TakeOver(q) ==
  /\ Arrives(q)
  /\ \E agent \in Agents : Write("INTERVENED", agent)
  /\ Finish(q) /\ UnchangedByRequest

\* To any user, the AI's own included.
Transfer(q) ==
  /\ Arrives(q)
  /\ \E user \in Agents \cup {"ai"} : Write("INTERVENED", user)
  /\ Finish(q) /\ UnchangedByRequest

Resolve(q) ==
  /\ request[q].step = "resolve"
  /\ Write("RESOLVED", assigned)
  /\ Finish(q) /\ UnchangedByRequest

Reopen(q) ==
  /\ Arrives(q)
  /\ Write("OPEN", assigned)
  /\ Finish(q) /\ UnchangedByRequest

\* An agent writes to a resolved conversation.
AutoReopen(q) ==
  /\ request[q].step = "autoReopen"
  /\ Write("REQUESTED", assigned)
  /\ Finish(q) /\ UnchangedByRequest

\* The general setter: any status and any assignee, each as it is or new.
Update(q) ==
  /\ Arrives(q)
  /\ \E new \in Statuses, owner \in Owners : Write(new, owner)
  /\ Finish(q) /\ UnchangedByRequest

\* The hand-back fails if the owner is not the one that was read.
Release(q) ==
  /\ request[q].step = "release"
  /\ IF assigned = request[q].owner THEN Write("OPEN", "ai") ELSE UNCHANGED <<row, late>>
  /\ Finish(q) /\ UnchangedByRequest

-----------------------------------------------------------------------------

Handle(d) ==
  \/ Find(d) \/ ReopenForCustomer(d) \/ AskForHuman(d) \/ RequestForCustomer(d)
  \/ Store(d) \/ Dispatch(d)

AiStep ==
  \/ CheckBeforeCall \/ Generate \/ CheckBeforeReply \/ Suggest
  \/ Handoff \/ RequestForAi \/ CheckAfterHandoff
  \/ SendReply \/ CheckBeforeMedia \/ SendMedia \/ SelfAssign

AgentStep(q) ==
  \/ ReadForIntervene(q) \/ ReadForResolve(q) \/ ReadForRelease(q) \/ ReadForSend(q)
  \/ Intervene(q) \/ TakeOver(q) \/ Transfer(q) \/ Resolve(q) \/ Reopen(q)
  \/ AutoReopen(q) \/ Update(q) \/ Release(q)

Next ==
  \/ \E d \in Deliveries : Arrive(d) \/ Handle(d)
  \/ AiStep
  \/ \E q \in Requests : AgentStep(q)

Spec == Init /\ [][Next]_vars

\* Handlers and the chain of turns run on; the provider answers or times out.
FairSpec ==
  /\ Spec
  /\ \A d \in Deliveries : WF_vars(Handle(d))
  /\ WF_vars(AiStep)

-----------------------------------------------------------------------------
(* Properties. *)

Turn == [message: Messages, owner: Owners, mode: Modes, reply: Replies, media: 0..MaxMedia,
         escalated: BOOLEAN,
         step: {"check", "generate", "checked", "handoff", "request", "recheck", "send",
                "media", "sendMedia", "assign"}]

\* Every variable has its type.
ConversationTypeOK ==
  /\ status \in Statuses
  /\ assigned \in Owners
  /\ stored \subseteq Messages
  /\ delivery \in [Deliveries ->
       [step: {"new", "done"}] \cup
       [step: {"find", "reopen", "askForHuman", "request", "store", "dispatch"},
        message: Messages, owner: Owners]]
  /\ turns \in Seq(Turn)
  /\ request \in [Requests ->
       [step: {"new", "intervene", "resolve", "release", "autoReopen", "done"}, owner: Owners]]
  /\ told \in BOOLEAN
  /\ outcome \in [Messages -> Outcomes \cup {"none"}]
  /\ queued \in [Messages -> Nat]
  /\ late \in Nat
  /\ faults \in 0..MaxFaults

\* isConversationHumanHandled is asked again before each thing the customer gets: once an
\* agent who is present has the conversation, however it came about, the AI sends nothing
\* any more, the one message excepted that had passed its check by then, whatever turns
\* are queued or under way.
OnlyCheckedIsLate == late <= 1

\* Deliveries of one message that overlap or repeat give the AI one turn, so that the
\* customer is not answered twice.
OneTurnPerMessage == \A m \in Messages : queued[m] <= 1

\* The AI gets an agent's conversation only from a hand-back that was decided on while
\* this agent had it, or from a transfer or an update that names the AI as the assignee
\* (these look at nothing before they write): neither its own assignment, made with the
\* owner of an older reading, nor a hand-back that crosses a takeover takes it away from
\* an agent.
AgentsKeepTheirConversation ==
  [][(assigned \in Agents /\ assigned' = "ai") =>
       \E q \in Requests :
         /\ \/ request[q].step = "release" /\ request[q].owner = assigned
            \/ request[q].step = "new"
         /\ request'[q].step = "done"]_vars

\* No turn is dropped: turns end in the order in which they were queued, and one that
\* ends has answered its message, or sent a reply that the channel did not take, or had no
\* suggestion to make and asked for a human instead.  It ends without any of these only
\* for an agent, for a failed query, or because an apology for the outage is stored.
NoTurnIsDropped ==
  [][Len(turns') < Len(turns) =>
       /\ turns' = Tail(turns)
       /\ \/ outcome'[turn.message] \in Outcomes
          \/ assigned \in Agents
          \/ faults' > faults
          \/ told]_vars

\* A message whose turn is queued gets a reply or a suggestion in the end.  Exceptions: the
\* channel does not take the reply; there is no suggestion to make, and a human is asked for
\* instead; an agent has the conversation by then; a query fails; an apology is stored.
TurnsAreAnswered ==
  \A m \in Messages :
    (\E i \in 1..Len(turns) : turns[i].message = m)
      ~> (outcome[m] \in Outcomes \/ assigned \in Agents \/ faults > 0 \/ told)
=============================================================================
