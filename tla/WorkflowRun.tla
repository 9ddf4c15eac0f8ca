----------------------------- MODULE WorkflowRun -----------------------------
(***************************************************************************)
(* The execution core of MonkeyFence: one workflow run (a task with one    *)
(* frozen pipeline revision), the agent runs that attempt its steps, and   *)
(* the four actors that write them concurrently:                           *)
(*                                                                         *)
(*   - the kernel, which applies one run command at a time as a single     *)
(*     store transaction and then drains the durable actions it queued     *)
(*     (mf-agent store.rs apply_run_mutation_tx, mf-kernel kernel.rs       *)
(*     dispatch_workflow_run / drain_run_action_outbox);                   *)
(*   - the "mf-dispatch" thread (orchestrator.rs tick and dispatch);       *)
(*   - the "mf-runtime-pump" thread, which applies the exit of an agent    *)
(*     process (orchestrator.rs apply_runtime_event);                      *)
(*   - the agent processes, and the crash and restart of the Core.         *)
(*                                                                         *)
(* Every store transaction is one action; what a thread does between two   *)
(* transactions is a place where the other actors run.                     *)
(***************************************************************************)
EXTENDS Integers, Sequences, FiniteSets

CONSTANTS
    Steps,        \* the steps of the active pipeline revision
    Deps,         \* Deps[s]: the steps s waits for
    AutoRetry,    \* AutoRetry[s]: steps.auto_retry (0 in production)
    MaxRuns,      \* bound: how many agent runs the store may create
    Limit,        \* concurrency slots of the dispatcher
    MaxRestarts,  \* bound: how many times the Core may crash and restart
    MaxWork       \* bound: how many runs and restarts there may be together

Runs == 1..MaxRuns    \* agent_runs.id, handed out in order
NoRun == 0

ASSUME DepsAssumption == Steps # {} /\ Deps \in [Steps -> SUBSET Steps]
ASSUME AutoRetryAssumption == AutoRetry \in [Steps -> Nat]
ASSUME BoundsAssumption == MaxRuns \in Nat /\ Limit \in Nat /\ MaxRestarts \in Nat

-----------------------------------------------------------------------------
(* Statuses, as the store spells them (model.rs).                          *)

TaskStatus == {"running", "needs-you", "succeeded", "failed", "cancelled"}
TaskTerminal == {"succeeded", "failed", "cancelled"}

StepStatus == {"pending", "ready", "running", "awaiting-outcome",
               "succeeded", "failed", "blocked", "skipped", "cancelled"}
StepTerminal == {"succeeded", "failed", "skipped", "cancelled"}
StepDone == {"succeeded", "skipped"}

RunStatus == {"unborn", "running", "awaiting-outcome", "interrupted",
              "succeeded", "failed", "cancelled"}
RunActive == {"running", "awaiting-outcome"}

Outcome == {"none", "complete", "fail"}

(* Durable actions: what the outbox row of a command makes the drain do,   *)
(* AfterSettlement already split into the four things it does in order.    *)
RunOp == {"slot", "resources", "promote", "attention", "converge"}
TaskOp == {"task-resources", "after-skip"}
Action == [op : RunOp, run : Runs] \cup [op : TaskOp, run : {NoRun}]
Act(op, r) == [op |-> op, run |-> r]

VARIABLES
    task,        \* agent_tasks.status; the active revision is set throughout
    step,        \* steps.status
    attempts,    \* steps.attempts
    run,         \* agent_runs.status
    stepOf,      \* agent_runs.step_id
    outcome,     \* agent_runs.outcome
    leaseOwner,  \* execution_leases: run_id of the step's held row
    row,         \* run_actions of the unpublished projection_outbox row
    todo,        \* actions of that row the drain has still to execute
    verdict,     \* task status the drain has decided on but not yet written
    holds,       \* runs with an entry in Orchestrator.held_leases (memory)
    active,      \* Orchestrator.active_dispatches (memory)
    disp,        \* the dispatch thread
    pump,        \* the runtime-event thread
    proc,        \* agent process: not launched, launched, or lost with its events in a crash
    restarts,    \* crashes so far
    adopted,     \* observer: runs re-attached by a restart
    reopened     \* observer: terminal steps overwritten by the exit handler

store == <<task, step, attempts, run, stepOf, outcome, leaseOwner>>
outbox == <<row, todo, verdict>>
memory == <<holds, active>>
observers == <<restarts, adopted, reopened>>
vars == <<store, outbox, memory, disp, pump, proc, observers>>

Idle == [pc |-> "idle", run |-> NoRun]
At(pc, r) == [pc |-> pc, run |-> r]
Thread(pcs) == {Idle} \cup [pc : pcs, run : Runs]
DispatchPC == {"slot", "lease", "launch", "unwind"}
PumpPC == {"run", "step", "read", "task"}

TypeOK ==
    /\ task \in TaskStatus
    /\ step \in [Steps -> StepStatus]
    /\ attempts \in [Steps -> Nat]
    /\ run \in [Runs -> RunStatus]
    /\ stepOf \in [Runs -> Steps]
    /\ outcome \in [Runs -> Outcome]
    /\ leaseOwner \in [Steps -> Runs \cup {NoRun}]
    /\ row \in Seq(Action) /\ todo \in Seq(Action)
    /\ verdict \in {"none", "running", "succeeded", "failed"}
    /\ holds \subseteq Runs /\ active \subseteq Runs
    /\ disp \in Thread(DispatchPC)
    /\ pump \in Thread(PumpPC)
    /\ proc \in [Runs -> {"none", "live", "lost"}]
    /\ restarts \in 0..MaxRestarts
    /\ adopted \subseteq Runs /\ reopened \subseteq Steps

-----------------------------------------------------------------------------
(* Queries over the store.                                                 *)

RunsOf(s) == {r \in Runs : run[r] # "unborn" /\ stepOf[r] = s}
ActiveRuns == {r \in Runs : run[r] \in RunActive}
ActiveRunsOf(s) == ActiveRuns \cap RunsOf(s)
\* Mutant of DepsDone: a dependency that merely ended lets the step go.
DepsEnded(st, s) == \A d \in Deps[s] : st[d] \in StepTerminal
DepsDone(st, s) == \A d \in Deps[s] : st[d] \in StepDone
AllIn(st, S) == \A s \in Steps : st[s] \in S

\* Promote: waiting steps whose dependencies are all done become ready.
Promote(st) ==
    [s \in Steps |-> IF st[s] \in {"pending", "blocked"} /\ DepsDone(st, s)
                      THEN "ready" ELSE st[s]]

\* Everything reachable from s along the dependency edges, s itself only if cyclic.
Descendants(s) ==
    {t \in Steps : \A S \in SUBSET Steps :
        (\A u \in Steps : Deps[u] \cap (S \cup {s}) # {} => u \in S) => t \in S}

\* Block: a failed step blocks its waiting descendants, and nothing else.
Block(st, s) ==
    [t \in Steps |-> IF t \in Descendants(s) /\ st[t] \in {"pending", "ready"}
                      THEN "blocked" ELSE st[t]]

\* The status update guarded by "status NOT IN (terminal)".
Attend(t) == IF t \in TaskTerminal THEN t ELSE "needs-you"
UnlessTerminal(st, s, new) == IF st[s] \in StepTerminal THEN st ELSE [st EXCEPT ![s] = new]

-----------------------------------------------------------------------------
Init ==
    /\ task = "running"
    /\ step = Promote([s \in Steps |-> "pending"])
    /\ attempts = [s \in Steps |-> 0]
    /\ run = [r \in Runs |-> "unborn"]
    /\ stepOf = [r \in Runs |-> CHOOSE s \in Steps : TRUE]
    /\ outcome = [r \in Runs |-> "none"]
    /\ leaseOwner = [s \in Steps |-> NoRun]
    /\ row = <<>> /\ todo = <<>> /\ verdict = "none"
    /\ holds = {} /\ active = {}
    /\ disp = Idle /\ pump = Idle
    /\ proc = [r \in Runs |-> "none"]
    /\ restarts = 0 /\ adopted = {} /\ reopened = {}

-----------------------------------------------------------------------------
(* Kernel commands.  The publication mutex of linearize_run_actions covers *)
(* the commit and the drain, and after a crash the row left behind is      *)
(* drained before the port accepts commands: a command finds no row.       *)

Command(acts) == row = <<>> /\ row' = acts /\ todo' = acts /\ UNCHANGED verdict

\* Cancel, at the transaction that finalises its fence: the host has confirmed
\* the stop of the runs in confirmed and could not confirm the others.  Actions
\* are queued in the order of the run ids.
CancelRelease(confirmed, r) == Act(IF r \in confirmed THEN "resources" ELSE "slot", r)

Cancel(confirmed) ==
    /\ confirmed \subseteq ActiveRuns
    /\ run' = [r \in Runs |-> IF r \in confirmed THEN "cancelled"
                              ELSE IF r \in ActiveRuns THEN "interrupted" ELSE run[r]]
    /\ \E order \in [1..Cardinality(ActiveRuns) -> ActiveRuns] :
          /\ \A i, j \in DOMAIN order : i < j => order[i] < order[j]
          /\ LET released == [i \in DOMAIN order |-> CancelRelease(confirmed, order[i])]
             IN \/ /\ confirmed = ActiveRuns
                   /\ Command(Append(released, Act("task-resources", NoRun)))
                   /\ step' = [s \in Steps |-> IF step[s] \in StepTerminal
                                               THEN step[s] ELSE "cancelled"]
                   /\ task' = "cancelled"
                \/ /\ confirmed # ActiveRuns
                   /\ Command(released)
                   /\ task' = Attend(task)
                   /\ UNCHANGED step
    /\ UNCHANGED <<attempts, stepOf, outcome, leaseOwner, memory, disp, pump, proc, observers>>

\* Retry: the active attempts of the step are given up, and it is ready again.
\* Only the newest of them has its slot released.
NewestSlot(S) ==
    IF S = {} THEN <<>>
    ELSE <<Act("slot", CHOOSE r \in S : \A q \in S : q <= r)>>

Retry(s) ==
    /\ step[s] \in {"failed", "blocked", "cancelled", "awaiting-outcome"}
    /\ DepsDone(step, s)
    /\ Command(NewestSlot(ActiveRunsOf(s)))
    /\ run' = [r \in Runs |-> IF r \in ActiveRunsOf(s) THEN "cancelled" ELSE run[r]]
    /\ step' = [step EXCEPT ![s] = "ready"]
    /\ task' = IF task \in {"failed", "needs-you"} THEN "running" ELSE task
    /\ UNCHANGED <<attempts, stepOf, outcome, leaseOwner,
                   memory, disp, pump, proc, observers>>

\* Mutant of Converged: a failed step counts as an ended one.
ConvergedWhenEnded(st) == IF AllIn(st, StepTerminal) THEN "succeeded" ELSE "running"

Converged(st) ==
    IF AllIn(st, StepDone) THEN "succeeded"
    ELSE IF AllIn(st, StepTerminal) THEN "failed" ELSE "running"

\* Skip: converges the task in the same transaction, whatever its status was.
Skip(s) ==
    /\ step[s] \in {"failed", "blocked"}
    /\ ActiveRunsOf(s) = {}
    /\ Command(<<Act("after-skip", NoRun)>>)
    /\ step' = Promote([step EXCEPT ![s] = "skipped"])
    /\ task' = IF \E t \in Steps : leaseOwner[t] # NoRun THEN "needs-you" ELSE Converged(step')
    /\ UNCHANGED <<attempts, run, stepOf, outcome, leaseOwner,
                   memory, disp, pump, proc, observers>>

\* Mutant of Settleable: the recorded outcome is not looked at.
SettleableAgain(r) == run[r] \in RunActive \cup {"interrupted"}

Settleable(r) == run[r] \in RunActive \cup {"interrupted"} /\ outcome[r] = "none"
StepResult(o) == IF o = "complete" THEN "succeeded" ELSE "failed"
WillRetry(r) == attempts[stepOf[r]] <= AutoRetry[stepOf[r]]

\* Settle: the explicit end of an attempt.  The step takes the result only if it is
\* not terminal yet; a failure within the retry budget makes it ready again, any
\* other failure blocks its descendants and asks for the user.
SettleTx(r, o) ==
    /\ Settleable(r)
    /\ run' = [run EXCEPT ![r] = StepResult(o)]
    /\ outcome' = [outcome EXCEPT ![r] = o]
    /\ LET s == stepOf[r]
           settled == UnlessTerminal(step, s, StepResult(o))
       IN \/ o = "complete" /\ step' = settled /\ UNCHANGED task
          \/ /\ o = "fail" /\ WillRetry(r)
             /\ step' = IF settled[s] = "failed" THEN [settled EXCEPT ![s] = "ready"] ELSE settled
             /\ task' = IF task \in {"failed", "needs-you"} THEN "running" ELSE task
          \/ /\ o = "fail" /\ ~WillRetry(r)
             /\ step' = Block(settled, s)
             /\ task' = Attend(task)
    /\ UNCHANGED <<attempts, stepOf, leaseOwner>>

\* Mutant of SettleActions: only a task that is running is checked for convergence.
SettleActionsIfRunning(r, o) ==
    IF o = "complete"
    THEN <<Act("resources", r), Act("promote", r), Act("attention", r)>>
         \o (IF task = "running" THEN <<Act("converge", r)>> ELSE <<>>)
    ELSE IF WillRetry(r) THEN <<Act("slot", r)>> ELSE <<Act("resources", r)>>

SettleActions(r, o) ==
    IF o = "complete"
    THEN <<Act("resources", r), Act("promote", r), Act("attention", r), Act("converge", r)>>
    ELSE IF WillRetry(r) THEN <<Act("slot", r)>> ELSE <<Act("resources", r)>>

Settle(r, o) ==
    /\ SettleTx(r, o)
    /\ Command(SettleActions(r, o))
    /\ UNCHANGED <<memory, disp, pump, proc, observers>>

\* ReportState(done | dead), sent by the agent with the token it was launched with.
ReportDone(r) ==
    /\ proc[r] # "none"
    /\ Settleable(r)
    /\ Command(<<Act("slot", r)>>)
    /\ run' = [run EXCEPT ![r] = "awaiting-outcome"]
    /\ step' = UnlessTerminal(step, stepOf[r], "awaiting-outcome")
    /\ task' = Attend(task)
    /\ UNCHANGED <<attempts, stepOf, outcome, leaseOwner,
                   memory, disp, pump, proc, observers>>

KernelCommand ==
    \/ \E confirmed \in SUBSET Runs : Cancel(confirmed)
    \/ \E s \in Steps : Retry(s) \/ Skip(s)
    \/ \E r \in Runs : ReportDone(r) \/ \E o \in {"complete", "fail"} : Settle(r, o)

-----------------------------------------------------------------------------
(* Resources of a run: its slot in memory, and its step's execution lease, *)
(* found by the memory entry of the run or else by the row it owns.        *)

LeaseOf(r) == r \in holds \/ leaseOwner[stepOf[r]] = r

ReleaseLease(r) ==
    /\ leaseOwner' = IF LeaseOf(r) THEN [leaseOwner EXCEPT ![stepOf[r]] = NoRun] ELSE leaseOwner
    /\ holds' = IF LeaseOf(r) THEN holds \ RunsOf(stepOf[r]) ELSE holds

\* Mutant of ReleaseSlot: the slots are kept per step.
ReleaseStepSlot(r) == active' = active \ RunsOf(stepOf[r])
ReleaseSlot(r) == active' = active \ {r}

\* drain_run_action_outbox: the actions of the row one by one.
Draining(op) == todo # <<>> /\ Head(todo).op = op
Executed == todo' = Tail(todo)

DrainSlot ==
    /\ Draining("slot") /\ Executed
    /\ ReleaseSlot(Head(todo).run)
    /\ UNCHANGED <<store, row, verdict, holds, disp, pump, proc, observers>>

DrainResources ==
    /\ Draining("resources") /\ Executed
    /\ ReleaseSlot(Head(todo).run)
    /\ ReleaseLease(Head(todo).run)
    /\ UNCHANGED <<task, step, attempts, run, stepOf, outcome,
                   row, verdict, disp, pump, proc, observers>>

ReleaseAllLeases == leaseOwner' = [s \in Steps |-> NoRun] /\ holds' = {}

DrainTaskResources ==
    /\ Draining("task-resources") /\ Executed
    /\ ReleaseAllLeases
    /\ UNCHANGED <<task, step, attempts, run, stepOf, outcome,
                   row, verdict, active, disp, pump, proc, observers>>

DrainAfterSkip ==
    /\ Draining("after-skip") /\ Executed
    /\ IF task = "succeeded" THEN ReleaseAllLeases ELSE UNCHANGED <<leaseOwner, holds>>
    /\ UNCHANGED <<task, step, attempts, run, stepOf, outcome,
                   row, verdict, active, disp, pump, proc, observers>>

DrainPromote ==
    /\ Draining("promote") /\ Executed
    /\ step' = Promote(step)
    /\ UNCHANGED <<task, attempts, run, stepOf, outcome, leaseOwner,
                   row, verdict, memory, disp, pump, proc, observers>>

\* The two decisions after a settlement read the store and write the task status in
\* another transaction: the verdict is what was decided, to be written unconditionally.
AttentionCleared ==
    /\ \A s \in Steps : step[s] \notin {"failed", "blocked", "awaiting-outcome"}
    /\ \A r \in Runs : run[r] \notin {"interrupted", "awaiting-outcome"}

\* Mutants of Decision: the status is written back even when nothing is decided; a
\* cancelled task converges like any other.
DecisionRewrites(op) ==
    IF op = "attention" THEN IF AttentionCleared THEN "running" ELSE task ELSE Converged(step)
DecisionOnCancelled(op) ==
    IF op = "attention"
    THEN IF task = "needs-you" /\ AttentionCleared THEN "running" ELSE "none"
    ELSE IF Converged(step) = "running" THEN "none" ELSE Converged(step)

Decision(op) ==
    IF op = "attention"
    THEN IF task = "needs-you" /\ AttentionCleared THEN "running" ELSE "none"
    ELSE IF task = "cancelled" \/ Converged(step) = "running" THEN "none" ELSE Converged(step)

DrainDecide ==
    /\ verdict = "none"
    /\ Draining("attention") \/ Draining("converge")
    /\ verdict' = Decision(Head(todo).op)
    /\ todo' = IF verdict' = "none" THEN Tail(todo) ELSE todo
    /\ UNCHANGED <<store, row, memory, disp, pump, proc, observers>>

DrainWrite ==
    /\ verdict # "none" /\ todo # <<>> /\ Executed
    /\ task' = verdict
    /\ verdict' = "none"
    /\ UNCHANGED <<step, attempts, run, stepOf, outcome, leaseOwner,
                   row, memory, disp, pump, proc, observers>>

\* Mutant of CleanRow: the row is published before its actions are executed.
PublishFirst ==
    /\ row # <<>> /\ row' = <<>>
    /\ UNCHANGED <<store, todo, verdict, memory, disp, pump, proc, observers>>

\* The row is cleaned only when all its actions have been executed.
CleanRow ==
    /\ todo = <<>> /\ row # <<>> /\ row' = <<>>
    /\ UNCHANGED <<store, todo, verdict, memory, disp, pump, proc, observers>>

Drain ==
    \/ DrainSlot \/ DrainResources \/ DrainTaskResources \/ DrainAfterSkip
    \/ DrainPromote \/ DrainDecide \/ DrainWrite \/ CleanRow

-----------------------------------------------------------------------------
(* The dispatch thread: one step at a time, from the transaction that      *)
(* creates the run to the launch of its agent.                             *)

SlotFree == Cardinality(active) < Limit

\* Mutant of Dispatchable: the task's status is not looked at.
DispatchableInAnyTask(s) ==
    step[s] = "ready" /\ \A d \in Deps[s] : leaseOwner[d] = NoRun

\* The bound on the work a behaviour may hold: runs created and restarts.
Work == Cardinality({r \in Runs : run[r] # "unborn"}) + restarts

\* tick's gates and the transaction: a ready step of a running task, a free slot, and no
\* dependency whose lease is still waiting to be merged.
Dispatchable(s) ==
    /\ step[s] = "ready"
    /\ task \in {"running", "needs-you"}
    /\ \A d \in Deps[s] : leaseOwner[d] = NoRun

DispatchTx(s) ==
    /\ disp = Idle
    /\ SlotFree
    /\ Dispatchable(s)
    /\ Work < MaxWork
    /\ \E r \in Runs :
          /\ run[r] = "unborn"
          /\ \A q \in Runs : q < r => run[q] # "unborn"
          /\ run' = [run EXCEPT ![r] = "running"]
          /\ stepOf' = [stepOf EXCEPT ![r] = s]
          /\ disp' = At("slot", r)
    /\ step' = [step EXCEPT ![s] = "running"]
    /\ attempts' = [attempts EXCEPT ![s] = @ + 1]
    /\ UNCHANGED <<task, outcome, leaseOwner, outbox, memory, pump, proc, observers>>

RegisterSlot ==
    /\ disp.pc = "slot"
    /\ active' = active \cup {disp.run}
    /\ disp' = At("lease", disp.run)
    /\ UNCHANGED <<store, outbox, holds, pump, proc, observers>>

\* A new lease, or the one an earlier attempt of the step left held.
AcquireLease ==
    /\ disp.pc = "lease"
    /\ leaseOwner' = [leaseOwner EXCEPT ![stepOf[disp.run]] = disp.run]
    /\ holds' = holds \cup {disp.run}
    /\ disp' = At("launch", disp.run)
    /\ UNCHANGED <<task, step, attempts, run, stepOf, outcome,
                   outbox, active, pump, proc, observers>>

Launch ==
    /\ disp.pc = "launch"
    /\ proc' = [proc EXCEPT ![disp.run] = "live"]
    /\ disp' = Idle
    /\ UNCHANGED <<store, outbox, memory, pump, observers>>

\* settle_dispatch_failure: pin, lease or launch failed.  The settlement transaction
\* is followed by its actions on this thread, not through the outbox; a run that can
\* no longer be settled is left alone.
DispatchFail ==
    /\ disp.pc \in {"lease", "launch"}
    /\ \/ SettleTx(disp.run, "fail") /\ disp' = At("unwind", disp.run)
       \/ ~Settleable(disp.run) /\ disp' = Idle /\ UNCHANGED store
    /\ UNCHANGED <<outbox, memory, pump, proc, observers>>

\* The slot and, unless the step retries itself, the lease of the failed run.
DispatchUnwind ==
    /\ disp.pc = "unwind"
    /\ ReleaseSlot(disp.run)
    /\ IF WillRetry(disp.run) THEN UNCHANGED <<leaseOwner, holds>> ELSE ReleaseLease(disp.run)
    /\ disp' = Idle
    /\ UNCHANGED <<task, step, attempts, run, stepOf, outcome,
                   outbox, pump, proc, observers>>

Dispatcher ==
    \/ \E s \in Steps : DispatchTx(s)
    \/ RegisterSlot \/ AcquireLease \/ Launch \/ DispatchFail \/ DispatchUnwind

-----------------------------------------------------------------------------
(* The end of an agent, any time after the launch, also when a cancel      *)
(* killed it, is reported by Exited, by the Dead state that follows it and *)
(* by the states its hooks send: any number of events, of which the ones   *)
(* that find the run inactive do nothing.  For the others                  *)
(* enter_awaiting_outcome on the pump thread is a check and then one       *)
(* unguarded write after the other.                                        *)

ExitCheck(r) ==
    /\ pump = Idle
    /\ proc[r] = "live" /\ run[r] \in RunActive /\ outcome[r] = "none"
    /\ pump' = At("run", r)
    /\ UNCHANGED <<store, outbox, memory, disp, proc, observers>>

ExitWriteRun ==
    /\ pump.pc = "run"
    /\ run' = [run EXCEPT ![pump.run] = "awaiting-outcome"]
    /\ ReleaseSlot(pump.run)
    /\ pump' = At("step", pump.run)
    /\ UNCHANGED <<task, step, attempts, stepOf, outcome, leaseOwner,
                   outbox, holds, disp, proc, observers>>

ExitWriteStep ==
    /\ pump.pc = "step"
    /\ LET s == stepOf[pump.run]
       IN /\ step' = [step EXCEPT ![s] = "awaiting-outcome"]
          /\ reopened' = IF step[s] \in StepTerminal THEN reopened \cup {s} ELSE reopened
    /\ pump' = At("read", pump.run)
    /\ UNCHANGED <<task, attempts, run, stepOf, outcome, leaseOwner,
                   outbox, memory, disp, proc, restarts, adopted>>

ExitReadTask ==
    /\ pump.pc = "read"
    /\ pump' = IF task \in TaskTerminal THEN Idle ELSE At("task", pump.run)
    /\ UNCHANGED <<store, outbox, memory, disp, proc, observers>>

ExitWriteTask ==
    /\ pump.pc = "task"
    /\ task' = "needs-you"
    /\ pump' = Idle
    /\ UNCHANGED <<step, attempts, run, stepOf, outcome, leaseOwner,
                   outbox, memory, disp, proc, observers>>

Pump ==
    \/ \E r \in Runs : ExitCheck(r)
    \/ ExitWriteRun \/ ExitWriteStep \/ ExitReadTask \/ ExitWriteTask

-----------------------------------------------------------------------------
(* A crash at any point and the restart: threads and memory are lost, the  *)
(* row is drained again from its first action.  A run whose session the    *)
(* host still finds alive is re-attached; the others are interrupted; a    *)
(* running step without an active run is an orphan and fails.              *)

Restart(alive) ==
    /\ restarts < MaxRestarts /\ Work < MaxWork
    /\ alive \subseteq {r \in Runs : run[r] = "running" /\ proc[r] = "live"}
    /\ LET unknown == {r \in Runs : run[r] = "running"} \ alive
           waiting == {r \in Runs : run[r] = "awaiting-outcome"}
           recovered == [s \in Steps |->
               IF (\E r \in unknown : stepOf[r] = s) /\ step[s] \notin StepTerminal
               THEN "awaiting-outcome" ELSE step[s]]
           orphans == {s \in Steps : recovered[s] = "running"
                                     /\ \A r \in alive \cup waiting : stepOf[r] # s}
       IN /\ run' = [r \in Runs |-> IF r \in unknown THEN "interrupted" ELSE run[r]]
          /\ step' = [s \in Steps |-> IF s \in orphans THEN "failed" ELSE recovered[s]]
          /\ task' = IF unknown \cup waiting # {} \/ orphans # {} THEN Attend(task) ELSE task
    /\ proc' = [r \in Runs |-> IF proc[r] = "none" \/ r \in alive THEN proc[r] ELSE "lost"]
    /\ holds' = {r \in Runs : leaseOwner[stepOf[r]] = r}
    /\ active' = {} /\ disp' = Idle /\ pump' = Idle
    /\ todo' = row /\ verdict' = "none"
    /\ restarts' = restarts + 1 /\ adopted' = alive
    /\ UNCHANGED <<attempts, stepOf, outcome, leaseOwner, row, reopened>>

Next ==
    \/ KernelCommand
    \/ Drain
    \/ Dispatcher
    \/ Pump
    \/ \E alive \in SUBSET Runs : Restart(alive)

\* The kernel thread that committed a command, or the one that registers the port after
\* a restart, goes on draining: nothing else is promised to happen.
Spec == Init /\ [][Next]_vars /\ WF_vars(Drain)
-----------------------------------------------------------------------------
(* Safety.                                                                 *)

\* A step never has two running attempts, however retries, late settlements, late
\* exits and restarts interleave.  (Steps that retry themselves are excluded: the
\* late failure of an old attempt makes such a step ready under its running attempt.)
RunningAttempts(s) == {r \in RunsOf(s) : run[r] = "running"}
SingleRunningAttempt ==
    (\A s \in Steps : AutoRetry[s] = 0) =>
        \A q, r \in Runs : run[q] = "running" /\ run[r] = "running" /\ stepOf[q] = stepOf[r] => q = r

\* No step is attempted, or even made ready, before its dependencies succeeded or were
\* skipped; the only dependency that may have lost that status again is one the exit
\* handler overwrote after its step had been settled.
DependenciesRespected ==
    \A s \in Steps :
        (step[s] \in {"ready", "running"} \/ RunsOf(s) # {}) =>
            \A d \in Deps[s] : step[d] \in StepDone \/ d \in reopened

\* Every running attempt is accounted for: it holds a slot, or the dispatch thread is
\* about to give it one, or a restart re-attached it.
RunningAccounted ==
    \A r \in Runs : run[r] = "running" => r \in active \/ disp = At("slot", r) \/ r \in adopted

\* The concurrency limit bounds the running attempts that were dispatched since the
\* last restart, although slots are released by four different paths.
ConcurrencyBound ==
    Cardinality({r \in Runs : run[r] = "running" /\ r \notin adopted}) <= Limit

\* A cancelled task has no running attempt, also while its steps are being retried.
CancelledIsQuiet == task = "cancelled" => \A r \in Runs : run[r] # "running"

\* A task that is reported succeeded has every step succeeded or skipped, except one
\* that the exit handler overwrote.
SuccessIsComplete ==
    task = "succeeded" => \A s \in Steps : step[s] \in StepDone \/ s \in reopened

(* What a step may never do.                                               *)

\* A settlement is final and at most once: later settlements, retries, cancels,
\* late exits and restarts never change the recorded outcome.
OutcomeIsFinal ==
    [][\A r \in Runs : outcome[r] # "none" => outcome'[r] = outcome[r]]_vars

\* Only a Skip by the user, or an exit handler that had already read the
\* task, takes a task out of cancelled.
CancelledLeft ==
    [][task = "cancelled" /\ task' # "cancelled" =>
          \/ pump.pc = "task" /\ pump' = Idle
          \/ \E s \in Steps : step[s] # "skipped" /\ step'[s] = "skipped"]_vars

(* Liveness.                                                               *)

\* A step whose dependencies are done does not stay pending, although the promotion is
\* a post-commit action that a crash can lose and a replay must repeat.
PromotionHappens ==
    \A s \in Steps :
        (step[s] = "pending" /\ DepsDone(step, s))
            ~> (step[s] # "pending" \/ ~DepsDone(step, s))

\* A task whose steps are all done is not left running: the convergence check comes with
\* the last settlement, in the same lossy place.
ConvergenceHappens ==
    (task = "running" /\ AllIn(step, StepDone))
        ~> (task # "running" \/ ~AllIn(step, StepDone))

(* Claims of the source that the interleavings refute.                     *)

\* orchestrator.rs:3961 "a late exit must not revive a cancelled run".
CancelledRunStaysCancelled ==
    [][\A r \in Runs : run[r] = "cancelled" => run'[r] = "cancelled"]_vars

\* execution_directory.rs:128 "release after terminal settlement or cancel; unknown
\* keeps it": the lease of a running attempt with a live agent is held.
LeaseHeldWhileRunning ==
    \A r \in Runs : run[r] = "running" /\ proc[r] = "live" /\ r \notin adopted
        => leaseOwner[stepOf[r]] # NoRun
=============================================================================
