---------------------------- MODULE OperationSaga ----------------------------
(***************************************************************************)
(* The long operation behind the Start of a workflow run.                  *)
(*                                                                         *)
(* A Start is accepted at once and carried out later.  Accepting it        *)
(* freezes a plan of three steps in the service store and then writes an   *)
(* acceptance receipt in the project store; a worker materialises a draft  *)
(* task, activates it, and discards the draft when the activation failed   *)
(* for good (mf-kernel operation.rs, workflow_start.rs, kernel.rs).  Each  *)
(* step is a transaction of the project store, with a receipt, inside a    *)
(* transaction of the service store, and a crash may part the two.  The    *)
(* worker finds in the two stores everything it needs, so that it can go   *)
(* on after a crash, as the controller that sent the Start.                *)
(*                                                                         *)
(* One project, one workflow, Starts of it that clients send and resend.   *)
(***************************************************************************)
EXTENDS Integers, Sequences, SequencesExt

CONSTANTS
    Commands,      \* ids of Start commands
    Requests,      \* requests that clients send and resend
    CmdOf,         \* the command id of each request
    MaxLease,      \* bound: takeovers start no more controllers than this
    MaxCrashes,    \* bound: crashes of the Core
    MaxFaults      \* bound: transient errors of a store or a port

ASSUME RequestsAssumption ==
    /\ CmdOf \in [Requests -> Commands] /\ Requests \cap {"free", "worker"} = {}
    /\ IsFiniteSet(Commands)
ASSUME BoundsAssumption == MaxLease \in Nat \ {0} /\ MaxCrashes \in Nat /\ MaxFaults \in Nat

Forward == {"materialize", "activate"}
Phases == Forward \cup {"discard"}
NoLease == 0
MaxTries == 3

VARIABLES
    accepted,    \* acceptance receipts (command_receipt of the project store)
    done,        \* step receipts of the project store: <<command, phase>>
    task,        \* agent_tasks.status of the task of each Start
    outbox,      \* Starts whose DispatchReady waits in projection_outbox
    workflow,    \* is the workflow as the Starts quote it?
    intent,      \* command_intent.state of the service store
    op,          \* operation.state
    outcome,     \* the outcome in operation.progress_json
    step,        \* operation_step.state
    owner,       \* the controller (epoch and client) in command_intent
    lease,       \* the controller now
    project,     \* how far the project is open
    mutex,       \* who is in the publication critical section
    blocked,     \* is publication blocked by an undelivered DispatchReady?
    pc,          \* where each request is
    sent,        \* the controller that sent it
    queue,       \* the queue of the worker
    at,          \* where the worker is
    cmd,         \* the Start it is working on
    tries,       \* failed attempts at it
    seen,        \* had the Start ended when the worker looked?
    saved,       \* is the project store committed and the service store not?
    unqueued,    \* observer: accepted Starts that were not put in the queue
    late,        \* observer: Starts reserved when the project was no longer serving
    created,     \* observer: tasks created for a Start
    delivered,   \* observer: Starts whose DispatchReady was executed
    crashes, faults

store == <<accepted, done, task, outbox, workflow>>
service == <<intent, op, outcome, step, owner>>
barrier == <<mutex, blocked>>
requests == <<pc, sent>>
worker == <<at, cmd, tries, seen, saved>>
observers == <<late, unqueued, created, delivered>>
vars == <<store, service, lease, project, barrier, requests, queue, worker, observers, crashes, faults>>

OpOpen == {"accepted", "running", "compensating"}
OpEnded == {"completed", "needs_you"}

TypeOK ==
    /\ accepted \subseteq Commands
    /\ done \subseteq Commands \X Phases
    /\ task \in [Commands -> {"none", "draft", "running", "cancelled", "deleted"}]
    /\ outbox \subseteq Commands
    /\ workflow \in {"quoted", "edited", "deleted"}
    /\ intent \in [Commands -> {"none", "reserved", "applied", "failed", "revoked"}]
    /\ op \in [Commands -> {"none"} \cup OpOpen \cup OpEnded]
    /\ outcome \in [Commands -> {"none", "applied", "compensated", "needs_you", "not_accepted"}]
    /\ step \in [Commands -> [Phases -> {"pending", "succeeded", "failed", "revoked"}]]
    /\ owner \in [Commands -> Nat] /\ lease \in Nat \ {NoLease}
    /\ project \in {"closed", "registered", "lifecycle", "serving", "closing"}
    /\ mutex \in {"free", "worker"} \cup Requests /\ blocked \in BOOLEAN
    /\ pc \in [Requests -> {"idle", "prepared", "reserved", "accepted", "over"}]
    /\ sent \in [Requests -> Nat]
    /\ queue \in Seq(Commands)
    /\ at \in {"idle", "look", "ready", "decide", "deliver"} \cup Phases
    /\ cmd \in Commands /\ tries \in 0..MaxTries - 1 /\ seen \in BOOLEAN /\ saved \in BOOLEAN
    /\ late \subseteq Commands /\ unqueued \subseteq Commands
    /\ created \in [Commands -> Nat] /\ delivered \subseteq Commands
    /\ crashes \in 0..MaxCrashes /\ faults \in 0..MaxFaults

Ended(c) == op[c] \in OpEnded
Unfinished == {c \in Commands : op[c] \in OpOpen}

Init ==
    /\ accepted = {} /\ done = {} /\ outbox = {}
    /\ task = [c \in Commands |-> "none"]
    /\ workflow = "quoted"
    /\ intent = [c \in Commands |-> "none"]
    /\ op = [c \in Commands |-> "none"]
    /\ outcome = [c \in Commands |-> "none"]
    /\ step = [c \in Commands |-> [p \in Phases |-> "pending"]]
    /\ owner = [c \in Commands |-> NoLease]
    /\ lease = 1
    /\ project = "serving"
    /\ mutex = "free" /\ blocked = FALSE
    /\ pc = [r \in Requests |-> "idle"]
    /\ sent = [r \in Requests |-> NoLease]
    /\ queue = <<>>
    /\ at = "idle" /\ cmd \in Commands /\ tries = 0 /\ seen = FALSE /\ saved = FALSE
    /\ late = {} /\ unqueued = {} /\ created = [c \in Commands |-> 0] /\ delivered = {}
    /\ crashes = 0 /\ faults = 0

\* A transient error: at most MaxFaults of them.
Fault == faults < MaxFaults /\ faults' = faults + 1

-----------------------------------------------------------------------------
(* A request: the Start is checked and prepared, reserved, accepted.       *)

\* The critical section is closed, but for the worker and for commands that execute what
\* waits in the outbox, while a DispatchReady waits.
Enter == mutex = "free" /\ ~blocked

\* The checks and the preparation, which write nothing and hold no lock.
Send(r) ==
    /\ pc[r] = "idle" /\ project = "serving" /\ workflow = "quoted"
    /\ pc' = [pc EXCEPT ![r] = "prepared"]
    /\ sent' = [sent EXCEPT ![r] = lease]
    /\ UNCHANGED <<store, service, lease, project, barrier, queue, worker, observers, crashes, faults>>

\* The first transaction of accept: intent, operation and steps, unless they are there.
Reserve(r) ==
    LET c == CmdOf[r] new == op[c] = "none" IN
    /\ pc[r] = "prepared" /\ Enter
    /\ mutex' = r
    /\ pc' = [pc EXCEPT ![r] = "reserved"]
    /\ op' = IF new THEN [op EXCEPT ![c] = "accepted"] ELSE op
    /\ intent' = IF new THEN [intent EXCEPT ![c] = "reserved"] ELSE intent
    /\ late' = IF new /\ project # "serving" THEN late \cup {c} ELSE late
    /\ owner' = IF new THEN [owner EXCEPT ![c] = sent[r]] ELSE owner
    /\ UNCHANGED <<store, outcome, step, lease, project, blocked, sent, queue, worker,
                   unqueued, created, delivered, crashes, faults>>

\* The critical section is left without an acceptance.
Over(r) == pc' = [pc EXCEPT ![r] = "over"] /\ sent' = [sent EXCEPT ![r] = NoLease]
Refuse(r) ==
    /\ mutex' = "free"
    /\ Over(r)
    /\ UNCHANGED <<store, owner, lease, project, blocked, queue, worker, observers, crashes>>

TurnAway(r) ==
    /\ pc[r] = "prepared" /\ mutex = "free" /\ blocked
    /\ UNCHANGED <<intent, op, outcome, step>>
    /\ Refuse(r)
    /\ UNCHANGED faults

\* Mutant of Finish: the intent is left for later.
FinishAlone(c, how, state) ==
    /\ op' = [op EXCEPT ![c] = IF how = "needs_you" THEN "needs_you" ELSE "completed"]
    /\ outcome' = [outcome EXCEPT ![c] = how]
    /\ UNCHANGED intent

\* The end of an operation, written with the end of its intent.
Finish(c, how, state) ==
    /\ op' = [op EXCEPT ![c] = IF how = "needs_you" THEN "needs_you" ELSE "completed"]
    /\ outcome' = [outcome EXCEPT ![c] = how]
    /\ intent' = [intent EXCEPT ![c] = state]

\* Mutant of Reject: an operation that has ended is ended again.
RejectAnyway(c, state) == Finish(c, "not_accepted", state) /\ UNCHANGED step

\* An operation that was not accepted is ended; on one that needs you the transaction fails.
Reject(c, state) ==
    /\ step' = IF op[c] = "needs_you" THEN step
               ELSE [step EXCEPT ![c] = [p \in Phases |-> IF @[p] = "pending" THEN "revoked" ELSE @[p]]]
    /\ IF op[c] \in OpOpen THEN Finish(c, "not_accepted", state) ELSE UNCHANGED <<op, outcome, intent>>

\* The acceptance receipt, looked up after the controller is checked and before the rest.
Current(l) == l = lease
Acceptable(c) == c \in accepted \/ (intent[c] = "reserved" /\ workflow = "quoted")

Accept(r) ==
    /\ pc[r] = "reserved" /\ Current(sent[r]) /\ Acceptable(CmdOf[r])
    /\ accepted' = accepted \cup {CmdOf[r]}
    /\ pc' = [pc EXCEPT ![r] = "accepted"]
    /\ UNCHANGED <<done, task, outbox, workflow, service, lease, project, barrier, sent, queue, worker,
                   observers, crashes, faults>>

AcceptExpired(r) ==
    /\ pc[r] = "reserved" /\ ~Current(sent[r])
    /\ Reject(CmdOf[r], "revoked")
    /\ Refuse(r)
    /\ UNCHANGED faults

AcceptConflict(r) ==
    LET c == CmdOf[r] IN
    /\ pc[r] = "reserved" /\ Current(sent[r])
    /\ c \notin accepted /\ intent[c] = "reserved" /\ workflow = "edited"
    /\ Reject(c, "failed")
    /\ Refuse(r)
    /\ UNCHANGED faults

\* The command has ended otherwise, or the workflow is gone: no terminal problem, nothing is written.
AcceptFailed(r) ==
    LET c == CmdOf[r] IN
    /\ pc[r] = "reserved" /\ Current(sent[r])
    /\ c \notin accepted /\ (intent[c] # "reserved" \/ workflow = "deleted")
    /\ UNCHANGED <<intent, op, outcome, step>>
    /\ Refuse(r)
    /\ UNCHANGED faults

AcceptError(r) ==
    /\ pc[r] = "reserved" /\ Fault
    /\ UNCHANGED <<intent, op, outcome, step>>
    /\ Refuse(r)

\* Publication, the answer, the queue; a publication that fails answers with an error.
Answer(r) ==
    /\ pc[r] = "accepted"
    /\ mutex' = "free"
    /\ Over(r)
    /\ \/ queue' = Append(queue, CmdOf[r]) /\ UNCHANGED <<unqueued, faults>>
       \/ Fault /\ unqueued' = unqueued \cup {CmdOf[r]} /\ UNCHANGED queue
    /\ UNCHANGED <<store, service, lease, project, blocked, worker, late, created, delivered, crashes>>

-----------------------------------------------------------------------------
(* The worker.                                                             *)

Take ==
    /\ at = "idle" /\ queue # <<>>
    /\ queue' = Tail(queue)
    /\ cmd' = Head(queue) /\ tries' = 0
    /\ at' = "look"
    /\ UNCHANGED <<store, service, lease, project, barrier, requests, seen, saved, observers, crashes, faults>>

\* Mutant of Withheld: an error lets publication go on.
NotWithheld == FALSE
Withheld == outbox # {}

\* Mutant of MoreTries: one attempt too many.
OneMoreTry == tries < MaxTries
MoreTries == tries + 1 < MaxTries

\* An attempt has failed: three of them, then the Start is left to the next opening.
Retry ==
    /\ at' = IF MoreTries THEN "look" ELSE "idle"
    /\ tries' = IF MoreTries THEN tries + 1 ELSE 0
    /\ saved' = FALSE /\ seen' = FALSE
    /\ UNCHANGED cmd

\* An error in the critical section: what waits in the outbox blocks publication.
Leave ==
    /\ mutex' = "free"
    /\ blocked' = (blocked \/ Withheld)
    /\ Retry

\* Registration, ports and rows are read outside of the critical section.
Look ==
    /\ at = "look"
    /\ IF project = "serving"
       THEN at' = "ready" /\ seen' = Ended(cmd) /\ UNCHANGED <<cmd, tries, saved>>
       ELSE Retry
    /\ UNCHANGED <<store, service, lease, project, barrier, requests, queue, observers, crashes, faults>>

Begin ==
    /\ at = "ready" /\ mutex = "free"
    /\ mutex' = "worker"
    /\ at' = IF seen THEN "deliver" ELSE IF op[cmd] = "compensating" THEN "decide" ELSE "materialize"
    /\ UNCHANGED <<store, service, lease, project, blocked, requests, queue, cmd, tries, seen, saved, observers,
                   crashes, faults>>

\* Mutant of Runnable: the state of the operation is not checked again.
RunnableAnyway(c, p) == TRUE
Runnable(c, p) == op[c] \in (IF p = "discard" THEN {"compensating"} ELSE {"accepted", "running"})

Begun(c) == [op EXCEPT ![c] = IF @ = "accepted" THEN "running" ELSE @]
After(p) == IF p = "materialize" THEN "activate" ELSE "decide"
AtStep(p) == at = p /\ ~saved
StepTo(s) == step' = [step EXCEPT ![cmd][at] = s]

\* A step that has ended other than well, or an operation in another state, is an error.
StepBarred(p) ==
    /\ AtStep(p)
    /\ (~Runnable(cmd, p) \/ step[cmd][p] \in {"failed", "revoked"})
    /\ Leave
    /\ UNCHANGED <<store, service, lease, project, requests, queue, observers, crashes, faults>>

StepRecorded(p) ==
    /\ AtStep(p) /\ Runnable(cmd, p) /\ step[cmd][p] = "succeeded"
    /\ op' = Begun(cmd)
    /\ at' = After(p)
    /\ UNCHANGED <<store, intent, outcome, step, owner, lease, project, barrier, requests, queue,
                   cmd, tries, seen, saved, observers, crashes, faults>>

Pending(p) == AtStep(p) /\ Runnable(cmd, p) /\ step[cmd][p] = "pending"

\* Mutant of Authorized: the step runs under whoever is controller now.
AnyController(c) == TRUE
Authorized(c) == Current(owner[c])

\* The controller is checked first, before the receipt.
StepRevoked(p) ==
    /\ Pending(p) /\ ~Authorized(cmd)
    /\ StepTo("revoked")
    /\ op' = Begun(cmd)
    /\ at' = "decide"
    /\ UNCHANGED <<store, intent, outcome, owner, lease, project, barrier, requests, queue,
                   cmd, tries, seen, saved, observers, crashes, faults>>

\* Mutant of Receipt: the step does not look for its receipt.
NoReceipt(c, p) == FALSE
Receipt(c, p) == <<c, p>> \in done

\* A conflict ends the step; a workflow or a task that is gone is an error like any other.
Conflict(c, p) ==
    \/ p = "materialize" /\ workflow = "edited"
    \/ p = "discard" /\ c \in delivered
Gone(c, p) ==
    \/ p = "materialize" /\ workflow = "deleted"
    \/ p # "materialize" /\ task[c] \in {"none", "deleted"}

StepConflict(p) ==
    /\ Pending(p) /\ Authorized(cmd) /\ ~Receipt(cmd, p) /\ Conflict(cmd, p)
    /\ StepTo("failed")
    /\ op' = Begun(cmd)
    /\ at' = "decide"
    /\ UNCHANGED <<store, intent, outcome, owner, lease, project, barrier, requests, queue,
                   cmd, tries, seen, saved, observers, crashes, faults>>

StepError(p) ==
    /\ Pending(p) /\ Authorized(cmd)
    /\ \/ ~Receipt(cmd, p) /\ Gone(cmd, p) /\ op' = Begun(cmd) /\ UNCHANGED faults
       \/ Fault /\ op' \in {op, Begun(cmd)}
    /\ Leave
    /\ UNCHANGED <<store, intent, outcome, step, owner, lease, project, requests, queue, observers, crashes>>

TaskAfter == [materialize |-> "draft", activate |-> "running", discard |-> "deleted"]

\* The commit of the project store: the effect and its receipt, or nothing when the receipt is there.
StepEffect(p) ==
    /\ Pending(p) /\ Authorized(cmd)
    /\ IF Receipt(cmd, p)
       THEN UNCHANGED <<task, done, outbox, created>>
       ELSE /\ ~Conflict(cmd, p) /\ ~Gone(cmd, p)
            /\ done' = done \cup {<<cmd, p>>}
            /\ task' = [task EXCEPT ![cmd] = TaskAfter[p]]
            /\ outbox' = IF p = "activate" THEN outbox \cup {cmd} ELSE outbox
            /\ created' = IF p = "materialize" THEN [created EXCEPT ![cmd] = @ + 1] ELSE created
    /\ saved' = TRUE
    /\ UNCHANGED <<accepted, workflow, service, lease, project, barrier, requests, queue, at, cmd, tries, seen,
                   late, unqueued, delivered, crashes, faults>>

\* The commit of the service store.
StepSaved ==
    /\ saved
    /\ StepTo("succeeded")
    /\ op' = Begun(cmd)
    /\ at' = After(at)
    /\ saved' = FALSE
    /\ UNCHANGED <<store, intent, outcome, owner, lease, project, barrier, requests, queue,
                   cmd, tries, seen, observers, crashes, faults>>

StepUnsaved ==
    /\ saved /\ Fault
    /\ Leave
    /\ UNCHANGED <<store, service, lease, project, requests, queue, observers, crashes>>

ForwardDone(c) == \A p \in Forward : step[c][p] = "succeeded"
Owed(c) == step[c]["materialize"] = "succeeded"

\* decide_saga, and the transaction of the decision.
Decide ==
    /\ at = "decide"
    /\ IF ~ForwardDone(cmd) /\ Owed(cmd) /\ step[cmd]["discard"] = "pending"
       THEN /\ op' = [op EXCEPT ![cmd] = IF @ \in {"accepted", "running"} THEN "compensating" ELSE @]
            /\ at' = "discard"
            /\ UNCHANGED <<intent, outcome>>
       ELSE /\ \/ ForwardDone(cmd) /\ Finish(cmd, "applied", "applied")
               \/ /\ ~ForwardDone(cmd) /\ (Owed(cmd) => step[cmd]["discard"] = "succeeded")
                  /\ Finish(cmd, "compensated", "failed")
               \/ /\ ~ForwardDone(cmd) /\ Owed(cmd) /\ step[cmd]["discard"] \in {"failed", "revoked"}
                  /\ Finish(cmd, "needs_you", "failed")
            /\ at' = "deliver"
    /\ UNCHANGED <<store, step, owner, lease, project, barrier, requests, queue, cmd, tries, seen, saved,
                   observers, crashes, faults>>

DecideError ==
    /\ at = "decide" /\ Fault
    /\ Leave
    /\ UNCHANGED <<store, service, lease, project, requests, queue, observers, crashes>>

\* Every DispatchReady of the project is executed and taken out of the outbox; then publication.
Drain == outbox' = {} /\ delivered' = delivered \cup outbox /\ blocked' = FALSE
DrainError == Fault /\ blocked' = TRUE /\ UNCHANGED <<outbox, delivered>>

Deliver ==
    /\ at = "deliver"
    /\ Drain
    /\ mutex' = "free" /\ at' = "idle" /\ tries' = 0 /\ seen' = FALSE
    /\ UNCHANGED <<accepted, done, task, workflow, service, lease, project, requests, queue,
                   cmd, saved, late, unqueued, created, crashes, faults>>

DeliverError ==
    /\ at = "deliver"
    /\ DrainError \/ (Fault /\ Drain)
    /\ mutex' = "free" /\ Retry
    /\ UNCHANGED <<accepted, done, task, workflow, service, lease, project, requests, queue,
                   late, unqueued, created, crashes>>

Worker ==
    \/ Take \/ Look \/ Begin \/ StepSaved \/ StepUnsaved \/ Decide \/ DecideError \/ Deliver \/ DeliverError
    \/ \E p \in Phases : \/ StepBarred(p) \/ StepRecorded(p) \/ StepRevoked(p) \/ StepConflict(p)
                         \/ StepError(p) \/ StepEffect(p)

-----------------------------------------------------------------------------
(* The project, the controller, the users.                                 *)

\* The freeze of a closing project ends every Start that has not ended.
Close ==
    /\ Enter /\ project \in {"registered", "lifecycle", "serving"}
    /\ project' = "closing"
    /\ op' = [c \in Commands |-> IF c \in Unfinished THEN "needs_you" ELSE op[c]]
    /\ outcome' = [c \in Commands |-> IF c \in Unfinished THEN "needs_you" ELSE outcome[c]]
    /\ intent' = [c \in Commands |-> IF c \in Unfinished THEN "failed" ELSE intent[c]]
    /\ UNCHANGED <<store, step, owner, lease, barrier, requests, queue, worker, observers, crashes, faults>>

Closed ==
    /\ mutex = "free" /\ project = "closing"
    /\ project' = "closed"
    /\ UNCHANGED <<store, service, lease, barrier, requests, queue, worker, observers, crashes, faults>>

\* Mutant of Reconciled: every event of an earlier life is written off.
WriteOff(events) == {}
Reconciled(events) == events

\* Reconciliation leaves Starts and run actions alone.
Register ==
    /\ Enter /\ project = "closed"
    /\ project' = "registered"
    /\ outbox' = Reconciled(outbox)
    /\ blocked' = (outbox' # {})
    /\ UNCHANGED <<accepted, done, task, workflow, service, lease, mutex, requests, queue, worker, observers,
                   crashes, faults>>

RegisterLifecycle ==
    /\ mutex = "free" /\ project = "registered"
    /\ project' = "lifecycle"
    /\ Drain
    /\ UNCHANGED <<accepted, done, task, workflow, service, lease, mutex, requests, queue, worker, late, unqueued, created,
                   crashes, faults>>

\* Mutant of Resumed: an opened project resumes nothing.
ResumeNone == {}
Resumed == Unfinished

RegisterStart ==
    /\ project = "lifecycle"
    /\ project' = "serving"
    /\ queue' = queue \o SetToSeq(Resumed)
    /\ UNCHANGED <<store, service, lease, barrier, requests, worker, observers, crashes, faults>>

\* A controller cannot change while a step holds its permit.
Takeover ==
    /\ lease < MaxLease /\ ~saved
    /\ lease' = lease + 1
    /\ UNCHANGED <<store, service, project, barrier, requests, queue, worker, observers, crashes, faults>>

\* Nothing of a controller outlives the Core: the next one is a new client.
Crash ==
    /\ crashes < MaxCrashes
    /\ crashes' = crashes + 1
    /\ lease' = lease + 1
    /\ project' = "closed" /\ mutex' = "free" /\ blocked' = FALSE
    /\ pc' = [r \in Requests |-> IF pc[r] = "idle" THEN "idle" ELSE "over"]
    /\ sent' = [r \in Requests |-> NoLease]
    /\ queue' = <<>>
    /\ at' = "idle" /\ tries' = 0 /\ seen' = FALSE /\ saved' = FALSE
    /\ UNCHANGED <<store, service, cmd, observers, faults>>

\* Commands of users, each in the critical section.
ChangeWorkflow ==
    /\ Enter /\ project = "serving" /\ workflow = "quoted"
    /\ workflow' \in {"edited", "deleted"}
    /\ UNCHANGED <<accepted, done, task, outbox, service, lease, project, barrier, requests, queue, worker,
                   observers, crashes, faults>>

\* Cancel, in one step (CancelFence has its steps): a command that executes what waits
\* in the outbox, also when it is repeated.
CancelRun(c) ==
    /\ mutex = "free" /\ project = "serving" /\ task[c] \notin {"none", "deleted"}
    /\ task' = [task EXCEPT ![c] = "cancelled"]
    /\ (Drain /\ UNCHANGED faults) \/ DrainError
    /\ UNCHANGED <<accepted, done, workflow, service, lease, project, mutex, requests, queue, worker,
                   late, unqueued, created, crashes>>

Request(r) == TurnAway(r) \/ Reserve(r) \/ Accept(r) \/ AcceptExpired(r) \/ AcceptConflict(r) \/ AcceptFailed(r)
              \/ AcceptError(r) \/ Answer(r)
Opening == Closed \/ Register \/ RegisterLifecycle \/ RegisterStart

Next ==
    \/ \E r \in Requests : Send(r) \/ Request(r)
    \/ Worker \/ Opening \/ Close \/ Takeover \/ Crash \/ ChangeWorkflow
    \/ \E c \in Commands : CancelRun(c)

Spec == Init /\ [][Next]_vars

\* Threads go on, and a project that is closed is opened again.
Fairness == WF_vars(Worker) /\ WF_vars(Opening) /\ \A r \in Requests : WF_vars(Request(r))
FairSpec == Spec /\ Fairness

-----------------------------------------------------------------------------
(* Properties.                                                             *)

\* A Start creates at most one task, however often it is sent, resumed and retried:
\* the receipt of a step is found again after a crash between its two commits.
CreatedOnce == \A c \in Commands : created[c] <= 1

\* Nothing is done for a Start that was not accepted, though an operation that was only
\* reserved is resumed like any other: when the project is opened again its controller is gone,
\* unless it slipped past the freeze of a closing project.
EffectAfterAcceptance ==
    \A c \in Commands, p \in Phases : <<c, p>> \in done => c \in accepted \cup late

\* Operation, intent and outcome end together, and only an activated run is reported as applied.
EndsAgree ==
    \A c \in Commands :
        /\ Ended(c) <=> outcome[c] # "none"
        /\ Ended(c) <=> intent[c] \in {"applied", "failed", "revoked"}
        /\ intent[c] = "applied" <=> outcome[c] = "applied"
        /\ outcome[c] = "applied" => <<c, "activate">> \in done

\* The dispatch of an activated run is never lost.
DispatchNotLost == \A c \in Commands : <<c, "activate">> \in done => c \in outbox \cup delivered

\* While a dispatch waits, nothing is published past it and no command gets in that would not
\* execute it, whatever error or crash has left it there.
DispatchBlocks == outbox # {} /\ mutex = "free" /\ project # "closed" => blocked

\* An ended operation stays as it ended.
EndIsFinal ==
    [][\A c \in Commands : Ended(c) =>
          op'[c] = op[c] /\ outcome'[c] = outcome[c] /\ intent'[c] = intent[c]]_vars

\* Nothing is done for a Start that has ended, though the worker looks at it long before it
\* works on it and a project may be closed in between.
NoWorkAfterEnd == [][\A c \in Commands, p \in Phases : <<c, p>> \in done' \ done => ~Ended(c)]_vars

\* What keeps an accepted Start open for good: a recorded refusal that was not followed by a
\* decision, a workflow that is gone, an acceptance that was not put in the queue.
Stuck(c) ==
    \/ \E p \in Forward : step[c][p] \in {"failed", "revoked"}
    \/ workflow = "deleted"
    \/ c \in unqueued

\* Every other accepted Start ends.
StartEnds == \A c \in Commands : (c \in accepted) ~> (Ended(c) \/ Stuck(c))

=============================================================================
