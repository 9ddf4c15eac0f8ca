-------------------------- MODULE QuestionDelivery --------------------------
(***************************************************************************)
(* A question of an agent and the way of its answer back: the question row *)
(* and its private delivery row (store.rs), the pump that writes what the  *)
(* agent asked and the execution of AnswerRuntime (orchestrator.rs), and   *)
(* the slot the agent's tool loop waits at (session_runtime.rs).           *)
(*                                                                         *)
(* One agent run in an HTTP session asks one question after another.  The  *)
(* answer is accepted in the store first, delivered to the slot, and only  *)
(* then confirmed; the slot and the ledger of the host live in memory.  A  *)
(* wait lasts six hours, so the model lets it end only after the pump has  *)
(* dealt with the question.                                                *)
(***************************************************************************)
EXTENDS Integers, Sequences

CONSTANTS
    Answers,        \* what may be answered
    MaxQuestions    \* bound: questions asked

ASSUME QuestionAssumption == MaxQuestions \in Nat \ {0} /\ 0 \notin Answers

Questions == 1..MaxQuestions
NoAnswer == 0
AnswerOrNone == Answers \cup {NoAnswer}

VARIABLES
    agent,      \* the tool loop: what it asked last and the channel it waits at
    slot,       \* HttpSession.pending: whose channel, and the question row bound to it
    asked,      \* the Question events on their way to the pump
    pumpAt,     \* how far the pump is with the head of them
    question,   \* step_questions.status
    answered,   \* step_questions.answer
    delivery,   \* question_answer_deliveries: status and answer
    outbox,     \* questions whose AnswerRuntime action is to be executed
    deliverer,  \* the execution of one, between the host's answer and the confirmation
    ledger,     \* SessionRegistry.question_deliveries
    stepNeeds, taskNeeds,  \* needs-input and needs-you
    received,   \* observer: what the agent was told for each question
    sent        \* observer: what went into the channel of each question

hostVars == <<agent, slot, ledger, received, sent>>
pumpVars == <<asked, pumpAt>>
rowVars == <<question, answered, delivery, outbox, stepNeeds, taskNeeds>>
questionVars == <<hostVars, pumpVars, rowVars, deliverer>>

NoSlot == [of |-> 0, bound |-> 0]
None0 == [status |-> "none", answer |-> NoAnswer]

\* Questions, deliveries and the slot keep their types; the plain text of an answer is kept
\* exactly as long as its delivery is pending.
QuestionTypeOK ==
    /\ agent \in [at : {"work", "wait", "gaveUp", "ended"}, of : 0..MaxQuestions,
                  box : AnswerOrNone]
    /\ slot \in [of : 0..MaxQuestions, bound : 0..MaxQuestions]
    /\ asked \in Seq(Questions) /\ pumpAt \in {"row", "bind", "step", "task"}
    /\ question \in [Questions -> {"none", "open", "answered"}]
    /\ answered \in [Questions -> AnswerOrNone]
    /\ delivery \in [Questions -> [status : {"none", "pending", "delivered"},
                                   answer : AnswerOrNone]]
    /\ \A q \in Questions : (delivery[q].status = "pending") = (delivery[q].answer # NoAnswer)
    /\ outbox \subseteq Questions /\ deliverer \in 0..MaxQuestions
    /\ ledger \in [Questions -> AnswerOrNone]
    /\ {stepNeeds, taskNeeds} \subseteq BOOLEAN
    /\ received \in [Questions -> AnswerOrNone] /\ sent \in [Questions -> AnswerOrNone]

QuestionInit ==
    /\ agent = [at |-> "work", of |-> 0, box |-> NoAnswer]
    /\ slot = NoSlot /\ asked = <<>> /\ pumpAt = "row"
    /\ question = [q \in Questions |-> "none"]
    /\ answered = [q \in Questions |-> NoAnswer]
    /\ delivery = [q \in Questions |-> None0]
    /\ outbox = {} /\ deliverer = 0
    /\ ledger = [q \in Questions |-> NoAnswer]
    /\ stepNeeds = FALSE /\ taskNeeds = FALSE
    /\ received = [q \in Questions |-> NoAnswer]
    /\ sent = [q \in Questions |-> NoAnswer]

-----------------------------------------------------------------------------
(* The agent's tool loop.                                                  *)

\* ask_human: a slot of its own, which replaces what a wait before left behind.
AskHuman ==
    /\ agent.at = "work" /\ agent.of < MaxQuestions
    /\ agent' = [at |-> "wait", of |-> agent.of + 1, box |-> NoAnswer]
    /\ slot' = [of |-> agent.of + 1, bound |-> 0]
    /\ asked' = Append(asked, agent.of + 1)
    /\ UNCHANGED <<ledger, received, sent, pumpAt, rowVars, deliverer>>

ReceiveAnswer ==
    /\ agent.at = "wait" /\ agent.box # NoAnswer
    /\ received' = [received EXCEPT ![agent.of] = agent.box]
    /\ agent' = [agent EXCEPT !.at = "work", !.box = NoAnswer]
    /\ UNCHANGED <<slot, ledger, sent, pumpVars, rowVars, deliverer>>

\* The six hours are over ...
WaitGivesUp ==
    /\ agent.at = "wait" /\ agent.box = NoAnswer /\ asked = <<>>
    /\ agent' = [agent EXCEPT !.at = "gaveUp"]
    /\ UNCHANGED <<slot, ledger, received, sent, pumpVars, rowVars, deliverer>>

\* ... and the receiver is dropped, with what came since.  The slot stays.
DropReceiver ==
    /\ agent.at = "gaveUp"
    /\ agent' = [agent EXCEPT !.at = "work", !.box = NoAnswer]
    /\ UNCHANGED <<slot, ledger, received, sent, pumpVars, rowVars, deliverer>>

\* The run is stopped, or the core dies: slot, channel and session are gone.  The recovery
\* at the next start interrupts the run, whose task then asks for its user.
HostLost ==
    /\ agent.at # "ended"
    /\ agent' = [agent EXCEPT !.at = "ended", !.box = NoAnswer]
    /\ slot' = NoSlot
    /\ \/ UNCHANGED <<ledger, pumpVars, taskNeeds, deliverer>>
       \/ /\ ledger' = [q \in Questions |-> NoAnswer]
          /\ asked' = <<>> /\ pumpAt' = "row" /\ deliverer' = 0
          /\ taskNeeds' = TRUE
    /\ UNCHANGED <<received, sent, question, answered, delivery, outbox, stepNeeds>>

-----------------------------------------------------------------------------
(* The pump: question row, slot, step and task, one after the other.       *)

Pumped == Head(asked)
Pumping(p) == asked # <<>> /\ pumpAt = p

PumpRow ==
    /\ Pumping("row") /\ pumpAt' = "bind"
    /\ question' = [question EXCEPT ![Pumped] = "open"]
    /\ UNCHANGED <<hostVars, asked, answered, delivery, outbox, stepNeeds, taskNeeds, deliverer>>

\* bind_pending_question looks at the run of the slot, not at the question.
PumpBind ==
    /\ Pumping("bind") /\ pumpAt' = "step"
    /\ slot' = IF slot = NoSlot THEN slot ELSE [slot EXCEPT !.bound = Pumped]
    /\ UNCHANGED <<agent, ledger, received, sent, asked, rowVars, deliverer>>

PumpStep ==
    /\ Pumping("step") /\ pumpAt' = "task"
    /\ stepNeeds' = TRUE
    /\ UNCHANGED <<hostVars, asked, question, answered, delivery, outbox, taskNeeds, deliverer>>

PumpTask ==
    /\ Pumping("task") /\ pumpAt' = "row"
    /\ asked' = Tail(asked)
    /\ taskNeeds' = TRUE
    /\ UNCHANGED <<hostVars, question, answered, delivery, outbox, stepNeeds, deliverer>>

-----------------------------------------------------------------------------
(* Respond, and the execution of its action.                               *)

\* Mutant of NothingOpen: the question being confirmed is the only one that matters.
NothingElse(q) == TRUE

NothingOpen(q) == \A p \in Questions \ {q} : question[p] # "open"

\* The kernel wants the step to need input and its only open question to be this one.
\* Accepting writes the delivery row; the same answer again only repeats the action, and
\* another one is refused, as is any answer to an answered question.
Respond(q, a) ==
    /\ question[q] = "open" /\ stepNeeds /\ NothingOpen(q)
    /\ delivery[q].status = "none" \/ delivery[q].answer = a
    /\ delivery' = [delivery EXCEPT ![q] =
                      IF @.status = "none" THEN [status |-> "pending", answer |-> a] ELSE @]
    /\ outbox' = outbox \cup {q}
    /\ UNCHANGED <<hostVars, pumpVars, question, answered, stepNeeds, taskNeeds, deliverer>>

\* Mutant of WaitsFor: any waiting question of the run will do.
WaitsForAny(q) == slot # NoSlot

\* Mutant of AlreadySent: the ledger is not asked.
NeverSent(q) == FALSE

WaitsFor(q) == slot # NoSlot /\ slot.bound = q
AlreadySent(q) == ledger[q] = delivery[q].answer
ChannelOpen == agent.at \in {"wait", "gaveUp"} /\ agent.of = slot.of /\ agent.box = NoAnswer

\* deliver_question_answer: a delivery that is confirmed needs nothing ...
DeliverAgain(q) ==
    /\ deliverer = 0 /\ q \in outbox /\ delivery[q].status = "delivered"
    /\ outbox' = outbox \ {q}
    /\ UNCHANGED <<hostVars, pumpVars, question, answered, delivery, stepNeeds, taskNeeds,
                   deliverer>>

\* ... a pending one goes to the host, which sends it to the slot that waits for exactly
\* this question, or knows that it has done so ...
AnswerBound(q) ==
    /\ deliverer = 0 /\ q \in outbox /\ delivery[q].status = "pending"
    /\ agent.at # "ended"
    /\ \/ AlreadySent(q) /\ UNCHANGED hostVars
       \/ /\ ~AlreadySent(q) /\ WaitsFor(q) /\ ChannelOpen
          /\ agent' = [agent EXCEPT !.box = delivery[q].answer]
          /\ sent' = [sent EXCEPT ![agent.of] = delivery[q].answer]
          /\ ledger' = [ledger EXCEPT ![q] = delivery[q].answer]
          /\ slot' = NoSlot
          /\ UNCHANGED received
    /\ deliverer' = q
    /\ UNCHANGED <<pumpVars, rowVars>>

\* Mutant of AnswerFails: the error of a closed channel is swallowed.
AnswerLost(q) ==
    /\ deliverer = 0 /\ q \in outbox /\ delivery[q].status = "pending"
    /\ ~AlreadySent(q) /\ WaitsFor(q) /\ ~ChannelOpen
    /\ slot' = NoSlot /\ deliverer' = q
    /\ UNCHANGED <<agent, ledger, received, sent, pumpVars, rowVars>>

\* ... or finds the channel closed: the slot is given up, the action stays in the outbox.
AnswerFails(q) ==
    /\ deliverer = 0 /\ q \in outbox /\ delivery[q].status = "pending"
    /\ ~AlreadySent(q) /\ WaitsFor(q) /\ ~ChannelOpen
    /\ slot' = NoSlot
    /\ UNCHANGED <<agent, ledger, received, sent, pumpVars, rowVars, deliverer>>

\* Mutant of ConfirmDelivery: the answer stays readable in the delivery row.
ConfirmKeepsText ==
    /\ deliverer # 0 /\ delivery[deliverer].status = "pending"
    /\ LET q == deliverer IN
          /\ delivery' = [delivery EXCEPT ![q].status = "delivered"]
          /\ question' = [question EXCEPT ![q] = "answered"]
          /\ answered' = [answered EXCEPT ![q] = delivery[q].answer]
          /\ taskNeeds' = IF NothingOpen(q) THEN FALSE ELSE taskNeeds
    /\ stepNeeds' = FALSE
    /\ UNCHANGED <<hostVars, pumpVars, outbox, deliverer>>

\* confirm_answer_delivery: question, step, task and the delivery's plain text together ...
ConfirmDelivery ==
    /\ deliverer # 0 /\ delivery[deliverer].status = "pending"
    /\ LET q == deliverer IN
          /\ delivery' = [delivery EXCEPT ![q] = [status |-> "delivered", answer |-> NoAnswer]]
          /\ question' = [question EXCEPT ![q] = "answered"]
          /\ answered' = [answered EXCEPT ![q] = delivery[q].answer]
          /\ taskNeeds' = IF NothingOpen(q) THEN FALSE ELSE taskNeeds
    /\ stepNeeds' = FALSE
    /\ UNCHANGED <<hostVars, pumpVars, outbox, deliverer>>

\* ... unless the transaction fails, which leaves the action to be executed once more ...
ConfirmFails ==
    /\ deliverer # 0 /\ delivery[deliverer].status = "pending"
    /\ deliverer' = 0
    /\ UNCHANGED <<hostVars, pumpVars, rowVars>>

\* ... and only then the drain deletes the row of the action.
DeliveryDone ==
    /\ deliverer # 0 /\ delivery[deliverer].status = "delivered"
    /\ outbox' = outbox \ {deliverer} /\ deliverer' = 0
    /\ UNCHANGED <<hostVars, pumpVars, question, answered, delivery, stepNeeds, taskNeeds>>

QuestionNext ==
    \/ AskHuman \/ ReceiveAnswer \/ WaitGivesUp \/ DropReceiver \/ HostLost
    \/ PumpRow \/ PumpBind \/ PumpStep \/ PumpTask
    \/ \E q \in Questions : \/ DeliverAgain(q) \/ AnswerBound(q) \/ AnswerFails(q)
                            \/ \E a \in Answers : Respond(q, a)
    \/ ConfirmDelivery \/ ConfirmFails \/ DeliveryDone

QuestionSpec == QuestionInit /\ [][QuestionNext]_questionVars

-----------------------------------------------------------------------------
(* Properties.                                                             *)

\* What the agent is told for a question is the answer that was accepted for this very
\* question: an answer never reaches the question after.
AnswerReachesItsQuestion ==
    \A q \in Questions : sent[q] # NoAnswer =>
        sent[q] = IF delivery[q].status = "delivered" THEN answered[q] ELSE delivery[q].answer

\* A question that is called answered was answered through its channel.
AnsweredWasSent ==
    \A q \in Questions : question[q] = "answered" => answered[q] # NoAnswer /\ sent[q] = answered[q]

\* While a question is open, and the pump has finished with it, the task asks for its user,
\* whatever answers to earlier questions are being confirmed.
OpenQuestionNeedsYou ==
    \A q \in Questions :
        question[q] = "open" /\ (asked = <<>> \/ pumpAt = "row" \/ Pumped # q) => taskNeeds

\* An answer that has been sent can always be confirmed: the action of an accepted answer
\* that the agent has, or will have, is not refused by the host.
SentCanBeConfirmed ==
    \A q \in Questions :
        delivery[q].status = "pending" /\ sent[q] # NoAnswer /\ agent.at # "ended"
            => deliverer = q \/ AlreadySent(q)

\* A question and its answer stay together, across timeouts, replays and the next question.
QuestionSafety ==
    /\ QuestionTypeOK /\ AnswerReachesItsQuestion /\ AnsweredWasSent
    /\ OpenQuestionNeedsYou /\ SentCanBeConfirmed
=============================================================================
