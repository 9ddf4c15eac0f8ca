------------------------------ MODULE RunProofs -----------------------------
(***************************************************************************)
(* Proofs about the steps of a run.  WorkflowRun, for every graph, retry   *)
(* budget and bound: type correctness, the inductive invariant and the     *)
(* safety theorems.                                                        *)
(*                                                                         *)
(* RunRevision, for any graphs and any number of revisions, attempts and   *)
(* edits: an attempt starts with the input that was agreed, its node stays *)
(* as it was when it started, what succeeded is found by the nodes behind  *)
(* it, and a paused run starts nothing.                                    *)
(***************************************************************************)
EXTENDS WorkflowRun, RunRevision, FiniteSetTheorems, SequenceTheorems, WellFoundedInduction,
        TLAPS

----
(* The run.                                                                *)

----
(* The operators the model is built from.                                   *)

\* Promote only ever makes a waiting step with finished dependencies ready.
LEMMA PromoteFacts ==
    ASSUME NEW st \in [Steps -> StepStatus]
    PROVE  /\ Promote(st) \in [Steps -> StepStatus]
           /\ \A s \in Steps : Promote(st)[s] # st[s] =>
                 st[s] \in {"pending", "blocked"} /\ Promote(st)[s] = "ready" /\ DepsDone(st, s)
BY DEF Promote, StepStatus

\* Block only ever blocks a waiting step.
LEMMA BlockFacts ==
    ASSUME NEW st \in [Steps -> StepStatus], NEW s \in Steps
    PROVE  /\ Block(st, s) \in [Steps -> StepStatus]
           /\ \A t \in Steps : Block(st, s)[t] # st[t] =>
                 st[t] \in {"pending", "ready"} /\ Block(st, s)[t] = "blocked"
BY DEF Block, StepStatus

\* Actions are queued and executed as sequences of actions.
LEMMA ActionTypes ==
    /\ \A op \in RunOp, r \in Runs : Act(op, r) \in Action
    /\ \A op \in TaskOp : Act(op, NoRun) \in Action
    /\ \A q \in Seq(Action) : q # <<>> => Head(q) \in Action /\ Tail(q) \in Seq(Action)
<1> QED  BY HeadTailProperties DEF Act, Action

\* A function on an interval is a sequence.
LEMMA FunctionIsSequence ==
    ASSUME NEW S, NEW n \in Nat, NEW f \in [1..n -> S]
    PROVE  f \in Seq(S)
BY SeqDef

\* Among some runs there is a newest one: their distance to MaxRuns has a least element.
LEMMA NewestRun ==
    ASSUME NEW S \in SUBSET Runs, S # {}
    PROVE  \E r \in S : \A q \in S : q <= r
<1> DEFINE T == {MaxRuns - r : r \in S}
<1>0. \A r \in S : r \in Int /\ MaxRuns - r \in Nat  BY BoundsAssumption DEF Runs
<1>1. T \subseteq Nat /\ T # {}  BY <1>0
<1>2. PICK x \in T : \A y \in T : ~(<<y, x>> \in OpToRel(<, Nat))
  <2> HIDE DEF T
  <2> QED  BY <1>1, NatLessThanWellFounded, WFMin
<1>3. \A y \in T : x <= y
  <2> SUFFICES ASSUME NEW y \in T PROVE x <= y  OBVIOUS
  <2>1. x \in Nat /\ y \in Nat /\ ~(<<y, x>> \in OpToRel(<, Nat))  BY <1>1, <1>2
  <2> HIDE DEF T
  <2> QED  BY <2>1 DEF OpToRel
<1>4. PICK r \in S : x = MaxRuns - r  OBVIOUS
<1>5. ASSUME NEW q \in S PROVE q <= r
  <2>1. MaxRuns - r <= MaxRuns - q  BY <1>3, <1>4
  <2> QED  BY <1>0, <2>1, BoundsAssumption
<1> QED  BY <1>5

\* The number of active runs is a number: there are finitely many runs.
LEMMA ActiveRunsFinite == Cardinality(ActiveRuns) \in Nat
<1>1. IsFiniteSet(Runs)  BY FS_Interval, BoundsAssumption DEF Runs
<1>2. ActiveRuns \subseteq Runs  BY DEF ActiveRuns
<1> QED  BY <1>1, <1>2, FS_Subset, FS_CardinalityType

----
(* The settlement transaction, shared by the command and by a failed dispatch. *)

\* What it writes: one run, its outcome, the status of its step, and blocked descendants.
LEMMA SettleTxFacts ==
    ASSUME TypeOK, NEW r \in Runs, NEW o \in {"complete", "fail"}, SettleTx(r, o)
    PROVE  /\ task' \in TaskStatus
           /\ step' \in [Steps -> StepStatus]
           /\ run' = [run EXCEPT ![r] = StepResult(o)]
           /\ outcome' = [outcome EXCEPT ![r] = o]
           /\ outcome[r] = "none" /\ run[r] # "unborn"
           /\ UNCHANGED <<attempts, stepOf, leaseOwner>>
           /\ task' = "cancelled" => task = "cancelled"
           /\ task' = "succeeded" => task = "succeeded"
<1> USE DEF TypeOK
<1> DEFINE s == stepOf[r]
           settled == UnlessTerminal(step, s, StepResult(o))
<1>1. s \in Steps /\ settled \in [Steps -> StepStatus]  BY DEF UnlessTerminal, StepResult, StepStatus
<1>2. step' = settled \/ step' = [settled EXCEPT ![s] = "ready"] \/ step' = Block(settled, s)  BY DEF SettleTx
<1>3. step' \in [Steps -> StepStatus]
  <2> HIDE DEF s, settled
  <2>1. Block(settled, s) \in [Steps -> StepStatus]  BY <1>1, BlockFacts
  <2>2. [settled EXCEPT ![s] = "ready"] \in [Steps -> StepStatus]  BY <1>1 DEF StepStatus
  <2> QED  BY <1>1, <1>2, <2>1, <2>2
<1> QED  BY <1>3 DEF SettleTx, Attend, TaskStatus, Settleable, RunActive

----
(* Type correctness, one step per action.                                   *)

\* A command queues a sequence of actions.
LEMMA CommandTypes ==
    ASSUME NEW acts \in Seq(Action), Command(acts),
           verdict \in {"none", "running", "succeeded", "failed"}
    PROVE  /\ row' \in Seq(Action) /\ todo' \in Seq(Action)
           /\ verdict' \in {"none", "running", "succeeded", "failed"}
BY DEF Command

\* The actions that the settlement of a run queues.
LEMMA SettleActionsTypes ==
    ASSUME NEW r \in Runs, NEW o \in {"complete", "fail"}
    PROVE  SettleActions(r, o) \in Seq(Action)
<1>1. \A op \in RunOp : Act(op, r) \in Action  BY ActionTypes
<1> QED  BY <1>1 DEF SettleActions, RunOp

\* Every command preserves the types.
LEMMA KernelTypes ==
    ASSUME TypeOK, KernelCommand
    PROVE  TypeOK'
<1> USE DEF TypeOK
<1>1. ASSUME NEW confirmed \in SUBSET Runs, Cancel(confirmed)
      PROVE  TypeOK'
  <2>1. run' \in [Runs -> RunStatus]  BY <1>1 DEF Cancel, RunStatus
  <2>2. PICK order \in [1..Cardinality(ActiveRuns) -> ActiveRuns] :
          LET released == [i \in DOMAIN order |-> CancelRelease(confirmed, order[i])]
          IN \/ /\ Command(Append(released, Act("task-resources", NoRun)))
                /\ step' = [s \in Steps |-> IF step[s] \in StepTerminal
                                            THEN step[s] ELSE "cancelled"]
                /\ task' = "cancelled"
             \/ /\ Command(released)
                /\ task' = Attend(task)
                /\ UNCHANGED step
    BY <1>1 DEF Cancel
  <2> DEFINE released == [i \in DOMAIN order |-> CancelRelease(confirmed, order[i])]
  <2>3. released \in Seq(Action)
    <3>1. released \in [1..Cardinality(ActiveRuns) -> Action]  BY ActionTypes DEF ActiveRuns, CancelRelease, RunOp
    <3> HIDE DEF released
    <3> QED  BY <3>1, ActiveRunsFinite, FunctionIsSequence
  <2>4. Append(released, Act("task-resources", NoRun)) \in Seq(Action)
    <3>1. Act("task-resources", NoRun) \in Action  BY ActionTypes DEF TaskOp
    <3> HIDE DEF released
    <3> QED  BY <2>3, <3>1, AppendProperties
  <2>5. /\ row' \in Seq(Action) /\ todo' \in Seq(Action)
        /\ verdict' \in {"none", "running", "succeeded", "failed"}
    <3> HIDE DEF released
    <3> QED  BY <2>3, <2>4, <2>2, CommandTypes DEF released
  <2> QED  BY <1>1, <2>1, <2>5, <2>2 DEF Cancel, memory, observers, Attend, TaskStatus, StepStatus
<1>2. ASSUME NEW s \in Steps, Retry(s)
      PROVE  TypeOK'
  <2>1. NewestSlot(ActiveRunsOf(s)) \in Seq(Action)
    <3>1. CASE ActiveRunsOf(s) = {}  BY <3>1 DEF NewestSlot
    <3>2. CASE ActiveRunsOf(s) # {}
      <4>1. ActiveRunsOf(s) \subseteq Runs  BY DEF ActiveRunsOf, ActiveRuns
      <4> DEFINE r == CHOOSE r \in ActiveRunsOf(s) : \A q \in ActiveRunsOf(s) : q <= r
      <4>2. r \in Runs  BY <3>2, <4>1, NewestRun
      <4>3. Act("slot", r) \in Action
        <5> HIDE DEF r
        <5> QED  BY <4>2, ActionTypes DEF RunOp
      <4> QED  BY <3>2, <4>3 DEF NewestSlot
    <3> QED  BY <3>1, <3>2
  <2> QED  BY <1>2, <2>1, CommandTypes DEF Retry, memory, observers, RunStatus, StepStatus, TaskStatus
<1>3. ASSUME NEW s \in Steps, Skip(s)
      PROVE  TypeOK'
  <2>1. <<Act("after-skip", NoRun)>> \in Seq(Action)
    <3>1. Act("after-skip", NoRun) \in Action  BY ActionTypes DEF TaskOp
    <3> QED  BY <3>1
  <2>2. step' \in [Steps -> StepStatus]  BY <1>3, PromoteFacts DEF Skip, StepStatus
  <2>3. task' \in TaskStatus  BY <1>3 DEF Skip, Converged, TaskStatus
  <2> QED  BY <1>3, <2>1, CommandTypes, <2>2, <2>3 DEF Skip, memory, observers
<1>4. ASSUME NEW r \in Runs, ReportDone(r)
      PROVE  TypeOK'
  <2>1. <<Act("slot", r)>> \in Seq(Action)
    <3>1. Act("slot", r) \in Action  BY ActionTypes DEF RunOp
    <3> QED  BY <3>1
  <2> QED  BY <1>4, <2>1, CommandTypes DEF ReportDone, memory, observers, UnlessTerminal, Attend, RunStatus, StepStatus,
      TaskStatus
<1>5. ASSUME NEW r \in Runs, NEW o \in {"complete", "fail"}, Settle(r, o)
      PROVE  TypeOK'
  <2>1. /\ row' \in Seq(Action) /\ todo' \in Seq(Action)
        /\ verdict' \in {"none", "running", "succeeded", "failed"}
    BY <1>5, SettleActionsTypes, CommandTypes DEF Settle
  <2>2. /\ task' \in TaskStatus /\ step' \in [Steps -> StepStatus]
        /\ run' \in [Runs -> RunStatus] /\ outcome' \in [Runs -> Outcome]
        /\ UNCHANGED <<attempts, stepOf, leaseOwner>>
    BY <1>5, SettleTxFacts DEF Settle, StepResult, RunStatus, Outcome
  <2> QED  BY <1>5, <2>1, <2>2 DEF Settle, memory, observers
<1> QED  BY <1>1, <1>2, <1>3, <1>4, <1>5 DEF KernelCommand

\* What the two ways of releasing a lease leave behind.
LEMMA ReleaseTypes ==
    ASSUME TypeOK
    PROVE  /\ \A r \in Runs : ReleaseLease(r) =>
                 leaseOwner' \in [Steps -> Runs \cup {NoRun}] /\ holds' \subseteq Runs
           /\ ReleaseAllLeases => leaseOwner' \in [Steps -> Runs \cup {NoRun}] /\ holds' \subseteq Runs
BY DEF TypeOK, ReleaseLease, ReleaseAllLeases

\* The action the drain is about to execute, and the ones left after it.
LEMMA HeadTypes ==
    ASSUME TypeOK, todo # <<>>
    PROVE  /\ Head(todo).op \in RunOp => Head(todo).run \in Runs
           /\ Tail(todo) \in Seq(Action)
<1> QED  BY ActionTypes DEF Action, RunOp, TaskOp, TypeOK

\* Every action of the drain preserves the types.
LEMMA DrainTypes ==
    ASSUME TypeOK, Drain
    PROVE  TypeOK'
<1> USE DEF TypeOK
<1>1. CASE DrainSlot  BY <1>1, HeadTypes DEF DrainSlot, Draining, Executed, ReleaseSlot, store, observers
<1>2. CASE DrainResources
  BY <1>2, HeadTypes, ReleaseTypes DEF DrainResources, Draining, Executed, ReleaseSlot, RunOp, observers
<1>3. CASE DrainTaskResources  BY <1>3, HeadTypes, ReleaseTypes DEF DrainTaskResources, Draining, Executed, observers
<1>4. CASE DrainAfterSkip  BY <1>4, HeadTypes, ReleaseTypes DEF DrainAfterSkip, Draining, Executed, observers
<1>5. CASE DrainPromote  BY <1>5, PromoteFacts, HeadTypes DEF DrainPromote, Draining, Executed, memory, observers
<1>6. CASE DrainDecide
  <2>1. todo' \in Seq(Action)  BY <1>6, HeadTypes DEF DrainDecide, Draining
  <2> QED  BY <1>6, <2>1 DEF DrainDecide, store, memory, observers, Decision, Converged
<1>7. CASE DrainWrite  BY <1>7, HeadTypes DEF DrainWrite, Executed, memory, observers, TaskStatus
<1>8. CASE CleanRow  BY <1>8 DEF CleanRow, store, memory, observers
<1> QED  BY <1>1, <1>2, <1>3, <1>4, <1>5, <1>6, <1>7, <1>8 DEF Drain

\* Every step of the dispatch thread preserves the types.
LEMMA DispatcherTypes ==
    ASSUME TypeOK, Dispatcher
    PROVE  TypeOK'
<1> USE DEF TypeOK
<1>0. /\ disp.pc \in DispatchPC => disp.run \in Runs
      /\ \A pc \in DispatchPC, r \in Runs : At(pc, r) \in Thread(DispatchPC)
      /\ Idle \in Thread(DispatchPC)
  BY DEF Thread, At, Idle, DispatchPC
<1>1. ASSUME NEW s \in Steps, DispatchTx(s) PROVE TypeOK'
  BY <1>1, <1>0 DEF DispatchTx, outbox, memory, observers, RunStatus, DispatchPC, StepStatus
<1>2. CASE RegisterSlot  BY <1>0, <1>2 DEF RegisterSlot, DispatchPC, store, outbox, observers
<1>3. CASE AcquireLease  BY <1>0, <1>3 DEF AcquireLease, DispatchPC, outbox, observers
<1>4. CASE Launch  BY <1>0, <1>4 DEF Launch, DispatchPC, store, outbox, memory, observers
<1>5. CASE DispatchFail
  <2>1. disp.run \in Runs  BY <1>0, <1>5 DEF DispatchFail, DispatchPC
  <2>2. CASE SettleTx(disp.run, "fail") /\ disp' = At("unwind", disp.run)
    <3>1. /\ task' \in TaskStatus /\ step' \in [Steps -> StepStatus]
          /\ run' \in [Runs -> RunStatus] /\ outcome' \in [Runs -> Outcome]
          /\ UNCHANGED <<attempts, stepOf, leaseOwner>>
      BY <2>1, <2>2, SettleTxFacts DEF StepResult, RunStatus, Outcome
    <3> QED  BY <1>0, <1>5, <2>1, <2>2, <3>1 DEF DispatchFail, DispatchPC, outbox, memory, observers
  <2>3. CASE disp' = Idle /\ UNCHANGED store  BY <1>0, <1>5, <2>3 DEF DispatchFail, store, outbox, memory, observers
  <2> QED  BY <1>5, <2>2, <2>3 DEF DispatchFail
<1>6. CASE DispatchUnwind  BY <1>0, <1>6, ReleaseTypes DEF DispatchUnwind, DispatchPC, ReleaseSlot, outbox, observers
<1> QED  BY <1>1, <1>2, <1>3, <1>4, <1>5, <1>6 DEF Dispatcher

\* Every step of the runtime-event thread preserves the types.
LEMMA PumpTypes ==
    ASSUME TypeOK, Pump
    PROVE  TypeOK'
<1> USE DEF TypeOK
<1>0. /\ pump.pc \in PumpPC => pump.run \in Runs
      /\ \A pc \in PumpPC, r \in Runs : At(pc, r) \in Thread(PumpPC)
      /\ Idle \in Thread(PumpPC)
  BY DEF Thread, At, Idle, PumpPC
<1>1. ASSUME NEW r \in Runs, ExitCheck(r) PROVE TypeOK'
  BY <1>0, <1>1 DEF ExitCheck, PumpPC, store, outbox, memory, observers
<1>2. CASE ExitWriteRun  BY <1>0, <1>2 DEF ExitWriteRun, ReleaseSlot, PumpPC, RunStatus, outbox, observers
<1>3. CASE ExitWriteStep  BY <1>0, <1>3 DEF ExitWriteStep, PumpPC, StepStatus, outbox, memory
<1>4. CASE ExitReadTask  BY <1>0, <1>4 DEF ExitReadTask, PumpPC, store, outbox, memory, observers
<1>5. CASE ExitWriteTask  BY <1>0, <1>5 DEF ExitWriteTask, TaskStatus, outbox, memory, observers
<1> QED  BY <1>1, <1>2, <1>3, <1>4, <1>5 DEF Pump

\* A crash and restart preserves the types.
LEMMA RestartTypes ==
    ASSUME TypeOK, NEW alive \in SUBSET Runs, Restart(alive)
    PROVE  TypeOK'
<1> USE DEF TypeOK
<1>1. restarts' \in 0..MaxRestarts  BY BoundsAssumption DEF Restart
<1> QED  BY <1>1 DEF Restart, Attend, RunStatus, StepStatus, TaskStatus, Thread

\* The state Start leaves behind is well typed.
LEMMA InitTypes == Init => TypeOK
<1> SUFFICES ASSUME Init PROVE TypeOK  OBVIOUS
<1>1. step \in [Steps -> StepStatus]  BY PromoteFacts DEF Init, StepStatus
<1>2. stepOf \in [Runs -> Steps]  BY DepsAssumption DEF Init
<1> QED  BY <1>1, <1>2, BoundsAssumption DEF Init, TypeOK, TaskStatus, RunStatus, Outcome, Thread

\* Every step of every actor preserves the types.
LEMMA TypeSteps == TypeOK /\ [Next]_vars => TypeOK'
<1> SUFFICES ASSUME TypeOK, [Next]_vars PROVE TypeOK'  OBVIOUS
<1>1. CASE UNCHANGED vars  BY <1>1 DEF vars, store, outbox, memory, observers, TypeOK
<1> QED  BY <1>1, KernelTypes, DrainTypes, DispatcherTypes, PumpTypes, RestartTypes DEF Next

\* Every variable keeps its type, in every graph, whatever the bounds.
THEOREM TypeCorrect == Spec => []TypeOK
BY InitTypes, TypeSteps, PTL DEF Spec

----
(* What any step may do to the runs, the steps and the task: one lemma      *)
(* each, on which every invariant below rests.                              *)

\* A run is created running, by the dispatch transaction only, on a ready step of a
\* live task, and never changes its step; a run that was left is not running again.
LEMMA RunSteps ==
    ASSUME TypeOK, [Next]_vars
    PROVE  \A r \in Runs :
             /\ run[r] # "unborn" => run'[r] # "unborn" /\ stepOf'[r] = stepOf[r]
             /\ run'[r] = "running" /\ run[r] # "running" =>
                   /\ run[r] = "unborn" /\ disp' = At("slot", r) /\ disp = Idle
                   /\ step[stepOf'[r]] = "ready" /\ step'[stepOf'[r]] = "running"
                   /\ attempts'[stepOf'[r]] >= 1
                   /\ task \notin TaskTerminal
                   /\ UNCHANGED <<task, active, adopted>>
                   /\ \A q \in Runs \ {r} : run'[q] = run[q] /\ stepOf'[q] = stepOf[q]
             /\ run'[r] # "unborn" /\ run[r] = "unborn" => run'[r] = "running" \/ pump = At("run", r)
<1> USE DEF TypeOK
<1> SUFFICES ASSUME NEW r \in Runs
             PROVE  /\ run[r] # "unborn" => run'[r] # "unborn" /\ stepOf'[r] = stepOf[r]
                    /\ run'[r] = "running" /\ run[r] # "running" =>
                          /\ run[r] = "unborn" /\ disp' = At("slot", r) /\ disp = Idle
                          /\ step[stepOf'[r]] = "ready" /\ step'[stepOf'[r]] = "running"
                          /\ attempts'[stepOf'[r]] >= 1
                          /\ task \notin TaskTerminal
                          /\ UNCHANGED <<task, active, adopted>>
                          /\ \A q \in Runs \ {r} : run'[q] = run[q] /\ stepOf'[q] = stepOf[q]
                    /\ run'[r] # "unborn" /\ run[r] = "unborn" =>
                          run'[r] = "running" \/ pump = At("run", r)
  OBVIOUS
<1>0. CASE UNCHANGED <<run, stepOf>>  BY <1>0
<1>1. CASE \E confirmed \in SUBSET Runs : Cancel(confirmed)  BY <1>1 DEF Cancel, ActiveRuns, RunActive
<1>2. CASE \E s \in Steps : Retry(s)  BY <1>2 DEF Retry, ActiveRunsOf, ActiveRuns, RunActive
<1>3. CASE \E q \in Runs : ReportDone(q)  BY <1>3 DEF ReportDone, Settleable, RunActive
<1>4. CASE \E q \in Runs, o \in {"complete", "fail"} : Settle(q, o)  BY <1>4, SettleTxFacts DEF Settle, StepResult
<1>5. CASE \E s \in Steps : DispatchTx(s)
  <2>1. PICK s \in Steps : DispatchTx(s)  BY <1>5
  <2>2. PICK q \in Runs : /\ run[q] = "unborn"
                          /\ run' = [run EXCEPT ![q] = "running"]
                          /\ stepOf' = [stepOf EXCEPT ![q] = s]
                          /\ disp' = At("slot", q)
    BY <2>1 DEF DispatchTx
  <2> QED  BY <2>2, <2>1 DEF DispatchTx, Dispatchable, TaskTerminal, memory, observers
<1>6. CASE DispatchFail
  <2>1. disp.run \in Runs  BY <1>6 DEF DispatchFail, Thread, Idle
  <2>2. SettleTx(disp.run, "fail") \/ UNCHANGED store  BY <1>6 DEF DispatchFail
  <2> QED  BY <2>1, <2>2, SettleTxFacts DEF StepResult, store
<1>7. CASE ExitWriteRun  BY <1>7 DEF ExitWriteRun, Thread, Idle, At
<1>8. CASE \E alive \in SUBSET Runs : Restart(alive)  BY <1>8 DEF Restart
<1> QED
  BY <1>0, <1>1, <1>2, <1>3, <1>4, <1>5, <1>6, <1>7, <1>8 DEF Next, KernelCommand, Skip, Drain, DrainSlot,
    DrainResources, DrainTaskResources, DrainAfterSkip, DrainPromote, DrainDecide, DrainWrite, CleanRow, Dispatcher,
    RegisterSlot, AcquireLease, Launch, DispatchUnwind, Pump, ExitCheck, ExitWriteStep, ExitReadTask, ExitWriteTask,
    vars, store

\* Done steps stay done unless the exit handler overwrote them; a step is made ready only
\* when its dependencies are done or when it retries itself, and goes back to waiting only
\* when no attempt of it is left running.
WaitingSteps == {"pending", "ready", "blocked"}
DoneOrReopened(s) == step[s] \in StepDone \/ s \in reopened

StepChange(s) ==
    /\ DoneOrReopened(s) => DoneOrReopened(s)'
    /\ step'[s] \in {"ready", "running"} /\ step[s] \notin {"ready", "running"} =>
          \/ DepsDone(step', s)
          \/ \E r \in Runs : run[r] # "unborn" /\ stepOf[r] = s
    /\ step'[s] \in WaitingSteps /\ step[s] \notin WaitingSteps =>
          \/ \A r \in Runs : run'[r] = "running" => stepOf'[r] # s
          \/ \E r \in Runs : run[r] # "unborn" /\ stepOf[r] = s /\ attempts[s] <= AutoRetry[s]

\* A settlement, whether by command or by a failed dispatch, changes steps only that way.
LEMMA SettleStepChange ==
    ASSUME TypeOK, NEW r \in Runs, NEW o \in {"complete", "fail"}, SettleTx(r, o),
           UNCHANGED reopened, NEW s \in Steps
    PROVE  StepChange(s)
<1> USE DEF TypeOK
<1> DEFINE u == stepOf[r]
           settled == UnlessTerminal(step, u, StepResult(o))
<1>1. u \in Steps /\ settled \in [Steps -> StepStatus]  BY DEF UnlessTerminal, StepResult, StepStatus
<1>2. \/ settled[s] = step[s]
      \/ s = u /\ step[s] \notin StepTerminal /\ settled[s] = StepResult(o)
  BY DEF UnlessTerminal
<1>3. run[r] # "unborn"  BY SettleTxFacts
<1>4. \/ step' = settled
      \/ step' = [settled EXCEPT ![u] = "ready"] /\ settled[u] = "failed" /\ WillRetry(r)
      \/ step' = Block(settled, u)
  BY DEF SettleTx
<1> HIDE DEF settled
<1>5. CASE step' = settled
  BY <1>2, <1>5 DEF StepChange, DoneOrReopened, StepResult, StepDone, StepTerminal, WaitingSteps
<1>6. CASE step' = [settled EXCEPT ![u] = "ready"] /\ settled[u] = "failed" /\ WillRetry(r)
  BY <1>1, <1>2, <1>3, <1>6 DEF StepChange, DoneOrReopened, StepResult, StepDone, StepTerminal, WaitingSteps, WillRetry
<1>7. CASE step' = Block(settled, u)
  <2>1. \/ step'[s] = settled[s]
        \/ settled[s] \in {"pending", "ready"} /\ step'[s] = "blocked"
    BY <1>1, <1>7, BlockFacts
  <2> QED  BY <1>2, <2>1 DEF StepChange, DoneOrReopened, StepResult, StepDone, StepTerminal, WaitingSteps
<1> QED  BY <1>4, <1>5, <1>6, <1>7

\* So does every other step of the system.
LEMMA StepSteps ==
    ASSUME TypeOK, [Next]_vars
    PROVE  \A s \in Steps : StepChange(s)
<1> USE DEF TypeOK
<1> SUFFICES ASSUME NEW s \in Steps PROVE StepChange(s)  OBVIOUS
<1>0. CASE UNCHANGED <<step, reopened>>  BY <1>0 DEF StepChange, DoneOrReopened
<1>1. CASE \E confirmed \in SUBSET Runs : Cancel(confirmed)
  BY <1>1 DEF Cancel, StepChange, DoneOrReopened, StepDone, StepTerminal, WaitingSteps, observers
<1>2. CASE \E u \in Steps : Retry(u)
  <2>1. PICK u \in Steps : Retry(u)  BY <1>2
  <2>2. /\ step[u] \in {"failed", "blocked", "cancelled", "awaiting-outcome"}
        /\ step' = [step EXCEPT ![u] = "ready"] /\ reopened' = reopened
        /\ DepsDone(step, u) /\ stepOf' = stepOf
        /\ run' = [r \in Runs |-> IF r \in ActiveRunsOf(u) THEN "cancelled" ELSE run[r]]
    BY <2>1 DEF Retry, observers
  <2>3. DepsDone(step', u)  BY <2>2, DepsAssumption DEF DepsDone, StepDone
  <2> QED  BY <2>2, <2>3 DEF StepChange, DoneOrReopened, StepDone, WaitingSteps, ActiveRunsOf, ActiveRuns, RunsOf,
      RunActive
<1>3. CASE \E u \in Steps : Skip(u)
  <2>1. PICK u \in Steps : Skip(u)  BY <1>3
  <2> DEFINE skipped == [step EXCEPT ![u] = "skipped"]
  <2>2. step' = Promote(skipped) /\ skipped \in [Steps -> StepStatus] /\ reopened' = reopened
    BY <2>1 DEF Skip, StepStatus, observers
  <2>3. /\ step[u] \in {"failed", "blocked"} /\ skipped[u] = "skipped"
        /\ \A t \in Steps \ {u} : skipped[t] = step[t]
    BY <2>1 DEF Skip
  <2> HIDE DEF skipped
  <2>4. \A t \in Steps : step'[t] # skipped[t] =>
            skipped[t] \in {"pending", "blocked"} /\ step'[t] = "ready" /\ DepsDone(skipped, t)
    BY <2>2, PromoteFacts
  <2>5. \A t \in Steps : DepsDone(skipped, t) => DepsDone(step', t)  BY <2>4, DepsAssumption DEF DepsDone, StepDone
  <2> QED  BY <2>2, <2>3, <2>4, <2>5 DEF StepChange, DoneOrReopened, StepDone, WaitingSteps
<1>4. CASE \E r \in Runs : ReportDone(r)
  BY <1>4 DEF ReportDone, UnlessTerminal, StepChange, DoneOrReopened, StepDone, StepTerminal, WaitingSteps, observers
<1>5. CASE \E r \in Runs, o \in {"complete", "fail"} : Settle(r, o)  BY <1>5, SettleStepChange DEF Settle, observers
<1>6. CASE DrainPromote
  <2>1. \A t \in Steps : step'[t] # step[t] =>
            step[t] \in {"pending", "blocked"} /\ step'[t] = "ready" /\ DepsDone(step, t)
    BY <1>6, PromoteFacts DEF DrainPromote
  <2> QED  BY <1>6, <2>1, DepsAssumption DEF DrainPromote, StepChange, DoneOrReopened, StepDone, WaitingSteps,
      observers, DepsDone
<1>7. CASE \E u \in Steps : DispatchTx(u)
  BY <1>7 DEF DispatchTx, Dispatchable, StepChange, DoneOrReopened, StepDone, WaitingSteps, observers
<1>8. CASE DispatchFail
  <2>1. disp.run \in Runs  BY <1>8 DEF DispatchFail, Thread, Idle
  <2> QED  BY <1>0, <1>8, <2>1, SettleStepChange DEF DispatchFail, observers, store
<1>9. CASE ExitWriteStep  BY <1>9 DEF ExitWriteStep, StepChange, DoneOrReopened, StepDone, StepTerminal, WaitingSteps
<1>10. CASE \E alive \in SUBSET Runs : Restart(alive)
  BY <1>10 DEF Restart, StepChange, DoneOrReopened, StepDone, StepTerminal, WaitingSteps
<1> QED
  BY <1>0, <1>1, <1>2, <1>3, <1>4, <1>5, <1>6, <1>7, <1>8, <1>9, <1>10 DEF Next, KernelCommand, Drain, DrainSlot,
    DrainResources, DrainTaskResources, DrainAfterSkip, DrainDecide, DrainWrite, CleanRow, Dispatcher, RegisterSlot,
    AcquireLease, Launch, DispatchUnwind, Pump, ExitCheck, ExitWriteRun, ExitReadTask, ExitWriteTask, vars, store,
    observers

\* The task becomes cancelled only with every running attempt stopped, and succeeded only
\* when its steps were all found done or on a verdict that found them so.
LEMMA TaskSteps ==
    ASSUME TypeOK, [Next]_vars
    PROVE  /\ task' = "cancelled" =>
                 \/ task = "cancelled"
                 \/ row = <<>> /\ verdict' = verdict /\ \A r \in Runs : run'[r] # "running"
           /\ task' = "succeeded" =>
                 \/ task = "succeeded" \/ AllIn(step', StepDone)
                 \/ verdict = "succeeded" /\ UNCHANGED step
           /\ verdict' = "succeeded" =>
                 \/ verdict = "succeeded"
                 \/ AllIn(step, StepDone) /\ UNCHANGED step
<1> USE DEF TypeOK
<1>0. CASE UNCHANGED <<task, verdict>>  BY <1>0
<1>1. CASE \E confirmed \in SUBSET Runs : Cancel(confirmed)  BY <1>1 DEF Cancel, Command, Attend, ActiveRuns, RunActive
<1>2. CASE \E s \in Steps : Retry(s)  BY <1>2 DEF Retry, Command
<1>3. CASE \E s \in Steps : Skip(s)  BY <1>3 DEF Skip, Command, Converged
<1>4. CASE \E r \in Runs : ReportDone(r)  BY <1>4 DEF ReportDone, Command, Attend
<1>5. CASE \E r \in Runs, o \in {"complete", "fail"} : Settle(r, o)  BY <1>5, SettleTxFacts DEF Settle, Command
<1>6. CASE DrainDecide  BY <1>6 DEF DrainDecide, Decision, Converged, store
<1>7. CASE DrainWrite  BY <1>7 DEF DrainWrite
<1>8. CASE DispatchFail
  <2>1. disp.run \in Runs  BY <1>8 DEF DispatchFail, Thread, Idle
  <2> QED  BY <1>8, <2>1, SettleTxFacts DEF DispatchFail, store, outbox
<1>9. CASE ExitWriteTask  BY <1>9 DEF ExitWriteTask, outbox
<1>10. CASE \E alive \in SUBSET Runs : Restart(alive)  BY <1>10 DEF Restart, Attend
<1> QED
  BY <1>0, <1>1, <1>2, <1>3, <1>4, <1>5, <1>6, <1>7, <1>8, <1>9, <1>10 DEF Next, KernelCommand, Drain, DrainSlot,
    DrainResources, DrainTaskResources, DrainAfterSkip, DrainPromote, CleanRow, Dispatcher, DispatchTx, RegisterSlot,
    AcquireLease, Launch, DispatchUnwind, Pump, ExitCheck, ExitWriteRun, ExitWriteStep, ExitReadTask, vars, store,
    outbox

----
(* The outbox: what a queued action may release, and what a verdict relies  *)
(* on.                                                                      *)

\* A run that was running once and is not any more.
Left(r) == run[r] \notin {"unborn", "running"}
Releases(queue) ==
    \A i \in 1..Len(queue) : queue[i].op \in {"slot", "resources"} => Left(queue[i].run)

\* Slots are only ever released for runs that have left.
QueuedReleases ==
    /\ Releases(row) /\ Releases(todo)
    /\ disp.pc = "unwind" => Left(disp.run)

\* A verdict belongs to an action of an undrained row, and the task is not cancelled.
VerdictQueued ==
    /\ todo # <<>> => row # <<>>
    /\ verdict # "none" =>
          todo # <<>> /\ Head(todo).op \in {"attention", "converge"} /\ task # "cancelled"

\* A run that has left never comes back.
LEMMA LeftIsStable ==
    ASSUME TypeOK, [Next]_vars
    PROVE  \A r \in Runs : Left(r) => Left(r)'
BY RunSteps DEF Left

\* The command's own queue: what it releases has left when it commits.
LEMMA CommandReleases ==
    ASSUME NEW acts \in Seq(Action), Command(acts),
           \A i \in 1..Len(acts) : acts[i].op \in {"slot", "resources"} => Left(acts[i].run)'
    PROVE  Releases(row)' /\ Releases(todo)'
BY DEF Command, Releases

\* The same for a command that queues a single action.
LEMMA CommandReleasesOne ==
    ASSUME NEW act \in Action, Command(<<act>>),
           act.op \in {"slot", "resources"} => Left(act.run)'
    PROVE  Releases(row)' /\ Releases(todo)'
<1> DEFINE acts == <<act>>
<1>1. acts \in Seq(Action) /\ Command(acts)  OBVIOUS
<1>2. ASSUME NEW i \in 1..Len(acts), acts[i].op \in {"slot", "resources"}
      PROVE  Left(acts[i].run)'
  <2>1. acts[i] = act  OBVIOUS
  <2> HIDE DEF acts
  <2> QED  BY <1>2, <2>1
<1> HIDE DEF acts
<1> QED  BY <1>1, <1>2, CommandReleases

\* Every command of the kernel queues releases only for runs it has taken out of running.
LEMMA KernelReleases ==
    ASSUME TypeOK, KernelCommand
    PROVE  Releases(row)' /\ Releases(todo)'
<1> USE DEF TypeOK
<1>1. ASSUME NEW confirmed \in SUBSET Runs, Cancel(confirmed)
      PROVE  Releases(row)' /\ Releases(todo)'
  <2>1. PICK order \in [1..Cardinality(ActiveRuns) -> ActiveRuns] :
          LET released == [i \in DOMAIN order |-> CancelRelease(confirmed, order[i])]
          IN Command(Append(released, Act("task-resources", NoRun))) \/ Command(released)
    BY <1>1 DEF Cancel
  <2> DEFINE n == Cardinality(ActiveRuns)
             released == [i \in DOMAIN order |-> CancelRelease(confirmed, order[i])]
             last == Act("task-resources", NoRun)
  <2>2. \A r \in ActiveRuns : Left(r)' /\ r \in Runs  BY <1>1 DEF Cancel, ActiveRuns, RunActive, Left
  <2>3. \A r \in ActiveRuns : CancelRelease(confirmed, r) \in Action /\ CancelRelease(confirmed, r).run = r
    BY <2>2, ActionTypes DEF CancelRelease, RunOp, Act
  <2>4. n \in Nat /\ released \in [1..n -> Action]  BY <2>3, ActiveRunsFinite
  <2>5. \A i \in 1..n : Left(released[i].run)'  BY <2>2, <2>3
  <2>6. last \in Action /\ last.op \notin {"slot", "resources"}  BY ActionTypes DEF Act, TaskOp
  <2>7. Command(Append(released, last)) \/ Command(released)  BY <2>1
  <2> HIDE DEF released, last, n
  <2>8. released \in Seq(Action) /\ Len(released) = n  BY <2>4, FunctionIsSequence, LenProperties
  <2>9. CASE Command(released)  BY <2>5, <2>8, <2>9, CommandReleases
  <2>10. CASE Command(Append(released, last))
    <3>1. /\ Append(released, last) \in Seq(Action) /\ Len(Append(released, last)) = n + 1
          /\ \A i \in 1..n : Append(released, last)[i] = released[i]
          /\ Append(released, last)[n + 1] = last
      BY <2>6, <2>8, AppendProperties
    <3> DEFINE acts == Append(released, last)
    <3>2. ASSUME NEW i \in 1..(n + 1), acts[i].op \in {"slot", "resources"}
          PROVE  Left(acts[i].run)'
      <4>1. i \in 1..n  BY <2>4, <2>6, <3>1, <3>2
      <4> QED  BY <2>5, <3>1, <4>1
    <3> HIDE DEF acts
    <3> QED  BY <3>2, <2>10, <3>1, CommandReleases DEF acts
  <2> QED  BY <2>7, <2>9, <2>10
<1>2. ASSUME NEW s \in Steps, Retry(s)
      PROVE  Releases(row)' /\ Releases(todo)'
  <2> DEFINE S == ActiveRunsOf(s)
             newest == CHOOSE r \in S : \A q \in S : q <= r
  <2>1. S \subseteq Runs /\ \A r \in S : Left(r)'  BY <1>2 DEF Retry, ActiveRunsOf, ActiveRuns, Left
  <2>2. Command(NewestSlot(S))  BY <1>2 DEF Retry
  <2>3. CASE S = {}  BY <2>2, <2>3 DEF NewestSlot, Command, Releases
  <2>4. CASE S # {}
    <3>1. newest \in S
      <4> HIDE DEF S
      <4> QED  BY <2>1, <2>4, NewestRun
    <3>2. NewestSlot(S) = <<Act("slot", newest)>>  BY <2>4 DEF NewestSlot
    <3> HIDE DEF newest, S
    <3> QED  BY <2>1, <2>2, <3>1, <3>2, ActionTypes, CommandReleasesOne DEF RunOp, Act
  <2> QED  BY <2>3, <2>4
<1>3. ASSUME NEW s \in Steps, Skip(s)
      PROVE  Releases(row)' /\ Releases(todo)'
  <2>1. Command(<<Act("after-skip", NoRun)>>)  BY <1>3 DEF Skip
  <2> QED  BY ActionTypes, <2>1, CommandReleasesOne DEF TaskOp, Act
<1>4. ASSUME NEW r \in Runs, ReportDone(r)
      PROVE  Releases(row)' /\ Releases(todo)'
  <2>1. Command(<<Act("slot", r)>>) /\ Left(r)'  BY <1>4 DEF ReportDone, Left
  <2> QED  BY ActionTypes, <2>1, CommandReleasesOne DEF RunOp, Act
<1>5. ASSUME NEW r \in Runs, NEW o \in {"complete", "fail"}, Settle(r, o)
      PROVE  Releases(row)' /\ Releases(todo)'
  <2>1. PICK acts : acts = SettleActions(r, o)  OBVIOUS
  <2>2. Command(acts) /\ acts \in Seq(Action)  BY <1>5, <2>1, SettleActionsTypes DEF Settle
  <2>3. \A i \in 1..Len(acts) : acts[i].run = r  BY <2>1 DEF SettleActions, Act
  <2>4. Left(r)'  BY <1>5, SettleTxFacts DEF Settle, StepResult, Left
  <2> HIDE DEF Left, TypeOK
  <2>5. \A i \in 1..Len(acts) : Left(acts[i].run)'  BY <2>3, <2>4
  <2> QED  BY <2>2, <2>5, CommandReleases
<1> QED  BY <1>1, <1>2, <1>3, <1>4, <1>5 DEF KernelCommand

\* The drain executes the queue front to back; a restart starts it again.
LEMMA OutboxSteps ==
    ASSUME TypeOK, QueuedReleases, VerdictQueued, [Next]_vars
    PROVE  QueuedReleases' /\ VerdictQueued'
<1> USE DEF TypeOK
<1>a. \A r \in Runs : Left(r) => Left(r)'  BY LeftIsStable
<1>b. \A i \in 1..Len(row) : row[i].op \in RunOp => row[i].run \in Runs
  <2>1. \A i \in 1..Len(row) : row[i] \in Action  BY ElementOfSeq
  <2> QED  BY <2>1 DEF Action, RunOp, TaskOp
<1>c. \A i \in 1..Len(todo) : todo[i].op \in RunOp => todo[i].run \in Runs
  <2>1. \A i \in 1..Len(todo) : todo[i] \in Action  BY ElementOfSeq
  <2> QED  BY <2>1 DEF Action, RunOp, TaskOp
<1>d. /\ UNCHANGED row => Releases(row)'
      /\ UNCHANGED todo => Releases(todo)'
      /\ todo' = row => Releases(todo)'
  BY <1>a, <1>b, <1>c DEF QueuedReleases, Releases, RunOp
<1>e. todo # <<>> /\ todo' = Tail(todo) => Releases(todo)'
  <2> SUFFICES ASSUME todo # <<>>, todo' = Tail(todo) PROVE Releases(todo)'  OBVIOUS
  <2>1. ASSUME NEW i \in 1..Len(todo'), (todo[i].op \in {"slot", "resources"})'
        PROVE  Left(todo[i].run)'
    <3>1. i + 1 \in 1..Len(todo) /\ todo'[i] = todo[i + 1]  BY HeadTailProperties, LenProperties
    <3>2. PICK r \in Runs : r = todo[i + 1].run  BY <1>c, <2>1, <3>1 DEF RunOp
    <3>3. Left(r)  BY <2>1, <3>1, <3>2 DEF QueuedReleases, Releases
    <3>4. Left(r)' /\ r = todo[i].run'  BY <1>a, <3>1, <3>2, <3>3
    <3> QED  BY <3>4 DEF Left
  <2> QED  BY <2>1 DEF Releases
<1>1. Releases(row)' /\ Releases(todo)'
  <2>1. CASE UNCHANGED <<row, todo>>  BY <1>d, <2>1
  <2>2. CASE KernelCommand  BY <2>2, KernelReleases
  <2>3. CASE Drain
    <3>1. CASE CleanRow  BY <1>d, <3>1 DEF CleanRow, Releases
    <3>2. CASE ~CleanRow
      BY <1>d, <1>e, <2>3, <3>2 DEF Drain, DrainSlot, DrainResources, DrainTaskResources, DrainAfterSkip, DrainPromote,
        DrainDecide, DrainWrite, Draining, Executed
    <3> QED  BY <3>1, <3>2
  <2>4. CASE \E alive \in SUBSET Runs : Restart(alive)  BY <1>d, <2>4 DEF Restart
  <2> QED
    BY <2>1, <2>2, <2>3, <2>4 DEF Next, Dispatcher, DispatchTx, RegisterSlot, AcquireLease, Launch, DispatchFail,
      DispatchUnwind, Pump, ExitCheck, ExitWriteRun, ExitWriteStep, ExitReadTask, ExitWriteTask, vars, outbox
<1>2. (disp.pc = "unwind" => Left(disp.run))'
  <2>1. CASE UNCHANGED disp  BY <1>a, <2>1 DEF QueuedReleases, Thread, Idle, Left
  <2>2. CASE DispatchFail
    <3>1. disp.run \in Runs  BY <2>2 DEF DispatchFail, Thread, Idle
    <3> QED  BY <2>2, <3>1, SettleTxFacts DEF DispatchFail, At, Idle, StepResult, Left
  <2>3. CASE disp'.pc # "unwind"  BY <2>3
  <2>4. CASE KernelCommand \/ Drain \/ Pump
    BY <2>1, <2>4 DEF KernelCommand, Cancel, Retry, Skip, ReportDone, Settle, Drain, DrainSlot, DrainResources,
      DrainTaskResources, DrainAfterSkip, DrainPromote, DrainDecide, DrainWrite, CleanRow, Pump, ExitCheck,
      ExitWriteRun, ExitWriteStep, ExitReadTask, ExitWriteTask
  <2>5. CASE Dispatcher
    BY <2>2, <2>3, <2>5 DEF Dispatcher, DispatchTx, RegisterSlot, AcquireLease, Launch, DispatchUnwind, At, Idle
  <2>6. CASE \E alive \in SUBSET Runs : Restart(alive)  BY <2>3, <2>6 DEF Restart, Idle
  <2> QED  BY <2>1, <2>4, <2>5, <2>6 DEF Next, vars
<1>3. VerdictQueued'
  <2>1. CASE UNCHANGED outbox  BY TaskSteps, <2>1 DEF VerdictQueued, outbox
  <2>2. CASE KernelCommand  BY <2>2 DEF KernelCommand, Cancel, Retry, Skip, ReportDone, Settle, Command, VerdictQueued
  <2>3. CASE Drain
    <3>1. CASE DrainDecide  BY <3>1 DEF DrainDecide, Decision, Draining, VerdictQueued, store
    <3>2. CASE DrainWrite  BY <3>2 DEF DrainWrite, Executed, VerdictQueued
    <3>3. CASE CleanRow  BY <3>3 DEF CleanRow, VerdictQueued, store
    <3>4. CASE todo # <<>> /\ todo' = Tail(todo) /\ UNCHANGED <<row, verdict, task>>
               /\ verdict = "none"
      BY <3>4 DEF VerdictQueued
    <3> QED
      BY <2>3, <3>1, <3>2, <3>3, <3>4 DEF Drain, DrainSlot, DrainResources, DrainTaskResources, DrainAfterSkip,
        DrainPromote, Draining, Executed, VerdictQueued, store
  <2>4. CASE \E alive \in SUBSET Runs : Restart(alive)  BY <2>4 DEF Restart, VerdictQueued
  <2> QED
    BY <2>1, <2>2, <2>3, <2>4 DEF Next, Dispatcher, DispatchTx, RegisterSlot, AcquireLease, Launch, DispatchFail,
      DispatchUnwind, Pump, ExitCheck, ExitWriteRun, ExitWriteStep, ExitReadTask, ExitWriteTask, vars
<1> QED  BY <1>1, <1>2, <1>3 DEF QueuedReleases

----
(* The inductive invariant.                                                 *)

\* No step retries itself: what start_with_routing gives every step today.
NoOwnRetry == \A s \in Steps : AutoRetry[s] = 0

\* The exit handler works on a run that exists.
PumpRunBorn == pump.pc \in PumpPC => run[pump.run] # "unborn"

\* A step with a run has been attempted.
AttemptsCounted == \A r \in Runs : run[r] # "unborn" => attempts[stepOf[r]] >= 1

\* The step of a running attempt is not offered for dispatch.
RunningShown ==
    NoOwnRetry => \A r \in Runs : run[r] = "running" => step[stepOf[r]] \notin WaitingSteps

\* The drain decides "succeeded" only for complete tasks, and they stay complete.
VerdictSound == verdict = "succeeded" => \A s \in Steps : DoneOrReopened(s)

\* The inductive invariant: types, what queued actions and verdicts rely on, and the
\* safety properties, which support one another.
SafetyInv ==
    /\ TypeOK
    /\ QueuedReleases
    /\ VerdictQueued
    /\ VerdictSound
    /\ PumpRunBorn
    /\ AttemptsCounted
    /\ RunningShown
    /\ SingleRunningAttempt
    /\ DependenciesRespected
    /\ RunningAccounted
    /\ CancelledIsQuiet
    /\ SuccessIsComplete

\* It holds after Start.
LEMMA InitSafety == Init => SafetyInv
<1> SUFFICES ASSUME Init PROVE SafetyInv  OBVIOUS
<1>1. TypeOK  BY InitTypes
<1>2. /\ \A r \in Runs : run[r] = "unborn"
      /\ row = <<>> /\ todo = <<>> /\ verdict = "none" /\ task = "running"
      /\ disp = Idle /\ pump = Idle
  BY DEF Init
<1>3. DependenciesRespected
  BY <1>2, DepsAssumption DEF DependenciesRespected, RunsOf, DepsDone, StepDone, Init, Promote
<1> QED
  BY <1>1, <1>2, <1>3 DEF SafetyInv, QueuedReleases, Releases, VerdictQueued, VerdictSound, PumpRunBorn,
    AttemptsCounted, RunningShown, SingleRunningAttempt, RunningAccounted, CancelledIsQuiet, SuccessIsComplete, Idle,
    PumpPC

\* The two bookkeeping facts about runs and attempts survive every step.
LEMMA BookkeepingSteps ==
    ASSUME SafetyInv, [Next]_vars
    PROVE  PumpRunBorn' /\ AttemptsCounted'
<1> USE DEF SafetyInv, TypeOK
<1>0. \A r \in Runs : run[r] # "unborn" => run'[r] # "unborn" /\ stepOf'[r] = stepOf[r]  BY RunSteps
<1>1. PumpRunBorn'
  <2>0. pump.pc \in PumpPC => pump.run \in Runs  BY DEF Thread, Idle, PumpPC
  <2>1. CASE UNCHANGED pump  BY <1>0, <2>0, <2>1 DEF PumpRunBorn, PumpPC
  <2>2. CASE Pump
    <3>1. CASE \E r \in Runs : ExitCheck(r)  BY <3>1, <1>0 DEF ExitCheck, PumpRunBorn, RunActive, At, Idle, PumpPC
    <3>2. CASE ExitWriteRun \/ ExitWriteStep \/ ExitReadTask \/ ExitWriteTask
      BY <3>2, <2>0, <1>0 DEF ExitWriteRun, ExitWriteStep, ExitReadTask, ExitWriteTask, PumpRunBorn, At, Idle, PumpPC
    <3> QED  BY <2>2, <3>1, <3>2 DEF Pump
  <2>3. CASE \E alive \in SUBSET Runs : Restart(alive)  BY <2>3 DEF Restart, PumpRunBorn, Idle, PumpPC
  <2>4. CASE KernelCommand \/ Drain
    BY <2>1, <2>4 DEF KernelCommand, Cancel, Retry, Skip, ReportDone, Settle, Drain, DrainSlot, DrainResources,
      DrainTaskResources, DrainAfterSkip, DrainPromote, DrainDecide, DrainWrite, CleanRow
  <2>5. CASE Dispatcher
    BY <2>1, <2>5 DEF Dispatcher, DispatchTx, RegisterSlot, AcquireLease, Launch, DispatchFail, DispatchUnwind
  <2> QED  BY <2>1, <2>2, <2>3, <2>4, <2>5 DEF Next, vars
<1>2. \A s \in Steps : attempts'[s] >= attempts[s]
  <2>1. CASE UNCHANGED attempts  BY <2>1
  <2>2. CASE \E s \in Steps : DispatchTx(s)  BY <2>2 DEF DispatchTx
  <2>3. CASE DispatchFail  BY <2>1, <2>3, SettleTxFacts DEF DispatchFail, SettleTx, store
  <2> QED
    BY <2>1, <2>2, <2>3 DEF Next, KernelCommand, Cancel, Retry, Skip, ReportDone, Settle, SettleTx, Drain, DrainSlot,
      DrainResources, DrainTaskResources, DrainAfterSkip, DrainPromote, DrainDecide, DrainWrite, CleanRow, Dispatcher,
      RegisterSlot, AcquireLease, Launch, DispatchUnwind, Pump, ExitCheck, ExitWriteRun, ExitWriteStep, ExitReadTask,
      ExitWriteTask, Restart, vars, store
<1>3. AttemptsCounted'
  <2> SUFFICES ASSUME NEW r \in Runs, run'[r] # "unborn" PROVE attempts'[stepOf'[r]] >= 1  BY DEF AttemptsCounted
  <2>1. TypeOK'  BY TypeSteps
  <2>2. CASE run[r] # "unborn"  BY <1>0, <1>2, <2>1, <2>2 DEF AttemptsCounted
  <2>3. CASE run[r] = "unborn"
    <3>1. pump # At("run", r)  BY <2>3 DEF PumpRunBorn, At, PumpPC
    <3> QED  BY <2>3, <3>1, RunSteps
  <2> QED  BY <2>2, <2>3
<1> QED  BY <1>1, <1>3

\* One attempt at a time: a step is dispatched only while ready, and a step that is ready
\* has no running attempt.
LEMMA AttemptSteps ==
    ASSUME SafetyInv, [Next]_vars
    PROVE  RunningShown' /\ SingleRunningAttempt'
<1> USE DEF SafetyInv
<1>0. TypeOK /\ TypeOK'  BY TypeSteps
<1>1. ASSUME NoOwnRetry, NEW r \in Runs, run'[r] = "running"
      PROVE  step'[stepOf'[r]] \notin WaitingSteps
  <2>1. stepOf'[r] \in Steps  BY <1>0 DEF TypeOK
  <2>2. CASE run[r] # "running"  BY <1>0, <1>1, <2>2, RunSteps DEF WaitingSteps
  <2>3. CASE run[r] = "running"
    <3>1. stepOf'[r] = stepOf[r] /\ step[stepOf[r]] \notin WaitingSteps  BY <1>0, <1>1, <2>3, RunSteps DEF RunningShown
    <3>2. StepChange(stepOf[r])  BY <1>0, <2>1, <3>1, StepSteps
    <3> QED  BY <1>0, <1>1, <2>1, <3>1, <3>2, AutoRetryAssumption DEF StepChange, TypeOK, AttemptsCounted, NoOwnRetry
  <2> QED  BY <2>2, <2>3
<1>2. ASSUME NoOwnRetry, NEW q \in Runs, NEW r \in Runs,
             run'[q] = "running", run'[r] = "running", stepOf'[q] = stepOf'[r], q # r
      PROVE  FALSE
  <2>1. CASE run[q] = "running" /\ run[r] = "running"
    BY <1>0, <1>2, <2>1, RunSteps DEF SingleRunningAttempt, NoOwnRetry
  <2>2. CASE run[q] # "running"  BY <1>2, <1>0, <2>2, RunSteps DEF RunningShown, WaitingSteps
  <2>3. CASE run[r] # "running"  BY <1>2, <1>0, <2>3, RunSteps DEF RunningShown, WaitingSteps
  <2> QED  BY <2>1, <2>2, <2>3
<1> QED  BY <1>1, <1>2 DEF RunningShown, SingleRunningAttempt, NoOwnRetry

\* Dependencies stay done, and only a step with done dependencies is started.
LEMMA DependencySteps ==
    ASSUME SafetyInv, [Next]_vars
    PROVE  DependenciesRespected'
<1> USE DEF SafetyInv
<1>0. TypeOK /\ TypeOK'  BY TypeSteps
<1> SUFFICES ASSUME NEW s \in Steps, NEW d \in Deps[s],
                    step'[s] \in {"ready", "running"}
                    \/ \E r \in Runs : run'[r] # "unborn" /\ stepOf'[r] = s
             PROVE  DoneOrReopened(d)'
  BY DEF DependenciesRespected, DoneOrReopened, RunsOf
<1>1. d \in Steps  BY DepsAssumption
<1>2. DoneOrReopened(d) => DoneOrReopened(d)'  BY <1>0, <1>1, StepSteps DEF StepChange
<1>3. (step[s] \in {"ready", "running"} \/ \E r \in Runs : run[r] # "unborn" /\ stepOf[r] = s)
         => DoneOrReopened(d)
  BY DEF DependenciesRespected, DoneOrReopened, RunsOf
<1>4. CASE step'[s] \in {"ready", "running"}
  <2>1. CASE step[s] \in {"ready", "running"}  BY <1>2, <1>3, <2>1
  <2>2. CASE step[s] \notin {"ready", "running"}
    BY <1>2, <1>3, <1>0, <1>4, <2>2, StepSteps DEF DepsDone, DoneOrReopened, StepChange
  <2> QED  BY <2>1, <2>2
<1>5. CASE \E r \in Runs : run'[r] # "unborn" /\ stepOf'[r] = s
  <2>1. PICK r \in Runs : run'[r] # "unborn" /\ stepOf'[r] = s  BY <1>5
  <2>2. CASE run[r] # "unborn"  BY <1>0, <1>2, <1>3, <2>1, <2>2, RunSteps
  <2>3. CASE run[r] = "unborn"
    <3>1. pump # At("run", r)  BY <2>3 DEF PumpRunBorn, At, PumpPC
    <3>2. step[s] = "ready"  BY <1>0, <2>1, <2>3, <3>1, RunSteps
    <3> QED  BY <1>2, <1>3, <3>2
  <2> QED  BY <2>2, <2>3
<1> QED  BY <1>4, <1>5

\* A cancelled task stays quiet, a succeeded one complete.
LEMMA TaskStatusSteps ==
    ASSUME SafetyInv, [Next]_vars
    PROVE  CancelledIsQuiet' /\ VerdictSound' /\ SuccessIsComplete'
<1> USE DEF SafetyInv
<1>1. CancelledIsQuiet'
  <2> SUFFICES ASSUME task' = "cancelled", NEW r \in Runs, run'[r] = "running"
               PROVE  FALSE
    BY DEF CancelledIsQuiet
  <2>1. task = "cancelled"  BY TaskSteps
  <2>2. run[r] # "running"  BY <2>1 DEF CancelledIsQuiet
  <2> QED  BY <2>1, <2>2, RunSteps DEF TaskTerminal
<1>2. \A s \in Steps : DoneOrReopened(s) => DoneOrReopened(s)'  BY StepSteps DEF StepChange
<1>3. VerdictSound'  BY <1>2, TaskSteps DEF VerdictSound, DoneOrReopened, AllIn
<1>4. SuccessIsComplete'
  <2> SUFFICES ASSUME task' = "succeeded", NEW s \in Steps PROVE DoneOrReopened(s)'
    BY DEF SuccessIsComplete, DoneOrReopened
  <2>1. CASE task = "succeeded"  BY <1>2, <2>1 DEF SuccessIsComplete, DoneOrReopened
  <2>2. CASE AllIn(step', StepDone)  BY <2>2 DEF AllIn, DoneOrReopened
  <2>3. CASE verdict = "succeeded"  BY <1>2, <2>3 DEF VerdictSound
  <2> QED  BY <2>1, <2>2, <2>3, TaskSteps
<1> QED  BY <1>1, <1>3, <1>4

\* A running attempt loses its slot, or the thread that is to register it, only in a crash.
LEMMA AccountingSteps ==
    ASSUME SafetyInv, [Next]_vars
    PROVE  RunningAccounted'
<1> USE DEF SafetyInv
<1> SUFFICES ASSUME NEW r \in Runs, run'[r] = "running"
             PROVE  r \in active' \/ disp' = At("slot", r) \/ r \in adopted'
  BY DEF RunningAccounted
<1>1. CASE run[r] # "running"  BY <1>1, RunSteps
<1>2. CASE run[r] = "running"
  <2>0. /\ r \in active \/ disp = At("slot", r) \/ r \in adopted
        /\ ~Left(r)
    BY <1>2 DEF RunningAccounted, Left
  <2>1. CASE UNCHANGED <<active, disp, adopted>>  BY <2>0, <2>1
  <2>2. CASE Drain
    <3>1. todo # <<>> /\ Head(todo).op \in {"slot", "resources"} => Left(Head(todo).run)
      <4> SUFFICES ASSUME todo # <<>> PROVE Head(todo) = todo[1] /\ 1 \in 1..Len(todo)  BY DEF QueuedReleases, Releases
      <4> QED  BY EmptySeq DEF TypeOK
    <3> QED
      BY <2>0, <2>1, <2>2, <3>1 DEF Drain, DrainSlot, DrainResources, DrainTaskResources, DrainAfterSkip, DrainPromote,
        DrainDecide, DrainWrite, CleanRow, Draining, ReleaseSlot, memory, observers
  <2>3. CASE Dispatcher
    <3>1. CASE DispatchUnwind  BY <2>0, <3>1 DEF DispatchUnwind, ReleaseSlot, QueuedReleases, At, observers
    <3>2. CASE ~DispatchUnwind
      BY <2>0, <2>3, <3>2 DEF Dispatcher, DispatchTx, RegisterSlot, AcquireLease, Launch, DispatchFail, At, Idle,
        memory, observers
    <3> QED  BY <3>1, <3>2
  <2>4. CASE Pump
    <3>1. CASE ExitWriteRun
      <4>1. pump.run # r  BY <1>2, <3>1 DEF ExitWriteRun, TypeOK, RunStatus
      <4> QED  BY <2>0, <3>1, <4>1 DEF ExitWriteRun, ReleaseSlot, observers
    <3>2. CASE ~ExitWriteRun
      BY <2>0, <2>4, <3>2 DEF Pump, ExitCheck, ExitWriteStep, ExitReadTask, ExitWriteTask, memory, observers
    <3> QED  BY <3>1, <3>2
  <2>5. CASE \E alive \in SUBSET Runs : Restart(alive)  BY <1>2, <2>5 DEF Restart, TypeOK
  <2>6. CASE KernelCommand  BY <2>1, <2>6 DEF KernelCommand, Cancel, Retry, Skip, ReportDone, Settle, memory, observers
  <2> QED  BY <2>1, <2>2, <2>3, <2>4, <2>5, <2>6 DEF Next, vars, memory, observers
<1> QED  BY <1>1, <1>2

\* The invariant is inductive.
THEOREM SafetyInductive == Spec => []SafetyInv
<1>1. SafetyInv /\ [Next]_vars => SafetyInv'
  BY TypeSteps, OutboxSteps, TaskStatusSteps, BookkeepingSteps, AttemptSteps, DependencySteps, AccountingSteps DEF
    SafetyInv
<1> QED  BY <1>1, InitSafety, PTL DEF Spec

----
(* The properties the runs check on small instances.                        *)

\* At no time has a step two running attempts (where no step retries itself).
THEOREM OneAttemptAtATime == Spec => []SingleRunningAttempt
<1>1. SafetyInv => SingleRunningAttempt  BY DEF SafetyInv
<1> QED  BY <1>1, SafetyInductive, PTL

\* No step starts before its dependencies are done.
THEOREM OrderedByDependencies == Spec => []DependenciesRespected
<1>1. SafetyInv => DependenciesRespected  BY DEF SafetyInv
<1> QED  BY <1>1, SafetyInductive, PTL

\* Every running attempt is counted against the limit, unless a restart re-attached it.
THEOREM AttemptsAccounted == Spec => []RunningAccounted
<1>1. SafetyInv => RunningAccounted  BY DEF SafetyInv
<1> QED  BY <1>1, SafetyInductive, PTL

\* The limit holds of the slots taken, and the dispatcher is about to take one only below it.
SlotsBounded ==
    /\ Cardinality(active) <= Limit
    /\ disp.pc = "slot" => Cardinality(active) < Limit

\* What is released makes room; what is taken fits, because nobody else takes slots.
LEMMA SlotSteps ==
    ASSUME TypeOK, SlotsBounded, [Next]_vars
    PROVE  SlotsBounded'
<1> USE DEF TypeOK
<1>0. /\ IsFiniteSet(active) /\ Cardinality(active) \in Nat /\ Limit \in Nat
      /\ \A S \in SUBSET active : Cardinality(S) \in Nat /\ Cardinality(S) <= Cardinality(active)
  <2>1. IsFiniteSet(Runs)  BY FS_Interval, BoundsAssumption DEF Runs
  <2> QED  BY <2>1, FS_Subset, FS_CardinalityType, BoundsAssumption
<1>1. CASE active' \subseteq active /\ (disp' = disp \/ disp'.pc # "slot")
  <2>1. Cardinality(active') \in Nat /\ Cardinality(active') <= Cardinality(active)  BY <1>0, <1>1
  <2> QED  BY <1>0, <1>1, <2>1 DEF SlotsBounded
<1>2. CASE RegisterSlot
  <2>1. Cardinality(active') <= Cardinality(active) + 1 /\ Cardinality(active') \in Nat
    <3>1. active' = active \cup {disp.run}  BY <1>2 DEF RegisterSlot
    <3>2. /\ IsFiniteSet(active \cup {disp.run})
          /\ Cardinality(active \cup {disp.run}) =
                IF disp.run \in active THEN Cardinality(active) ELSE Cardinality(active) + 1
      BY <1>0, FS_AddElement
    <3> QED  BY <1>0, <3>1, <3>2, FS_CardinalityType
  <2> QED  BY <1>0, <2>1, <1>2 DEF SlotsBounded, RegisterSlot, At
<1>3. CASE \E s \in Steps : DispatchTx(s)
  <2>1. Cardinality(active) < Limit /\ active' = active  BY <1>3 DEF DispatchTx, SlotFree, memory
  <2> QED  BY <1>0, <2>1 DEF SlotsBounded
<1>4. CASE KernelCommand  BY <1>1, <1>4 DEF KernelCommand, Cancel, Retry, Skip, ReportDone, Settle, memory
<1>5. CASE Drain
  BY <1>1, <1>5 DEF Drain, DrainSlot, DrainResources, DrainTaskResources, DrainAfterSkip, DrainPromote, DrainDecide,
    DrainWrite, CleanRow, ReleaseSlot, memory
<1>6. CASE Dispatcher
  BY <1>1, <1>2, <1>3, <1>6 DEF Dispatcher, AcquireLease, Launch, DispatchFail, DispatchUnwind, ReleaseSlot, At, Idle,
    memory
<1>7. CASE Pump
  BY <1>1, <1>7 DEF Pump, ExitCheck, ExitWriteRun, ExitWriteStep, ExitReadTask, ExitWriteTask, ReleaseSlot, memory
<1>8. CASE \E alive \in SUBSET Runs : Restart(alive)  BY <1>1, <1>8 DEF Restart, Idle
<1>9. CASE UNCHANGED vars  BY <1>1, <1>9 DEF vars, memory
<1> QED  BY <1>4, <1>5, <1>6, <1>7, <1>8, <1>9 DEF Next

\* The limit bounds the running attempts themselves: every one of them holds a slot, or is
\* the one the dispatcher is about to register, or was re-attached by a restart.
THEOREM LimitRespected == Spec => []ConcurrencyBound
<1>1. Init => SlotsBounded
  <2> SUFFICES ASSUME Init PROVE SlotsBounded  OBVIOUS
  <2>1. active = {} /\ disp.pc # "slot"  BY DEF Init, Idle
  <2> QED  BY <2>1, FS_EmptySet, BoundsAssumption DEF SlotsBounded
<1>2. SafetyInv /\ SlotsBounded => ConcurrencyBound
  <2> SUFFICES ASSUME SafetyInv, SlotsBounded PROVE ConcurrencyBound  OBVIOUS
  <2> DEFINE counted == {r \in Runs : run[r] = "running" /\ r \notin adopted}
  <2>0. IsFiniteSet(active) /\ Cardinality(active) \in Nat /\ Limit \in Nat
    <3>1. IsFiniteSet(Runs) /\ active \subseteq Runs  BY FS_Interval, BoundsAssumption DEF Runs, SafetyInv, TypeOK
    <3> QED  BY <3>1, FS_Subset, FS_CardinalityType, BoundsAssumption
  <2>1. CASE disp.pc = "slot"
    <3>1. counted \subseteq active \cup {disp.run}  BY DEF SafetyInv, RunningAccounted, At
    <3>2. /\ IsFiniteSet(active \cup {disp.run})
          /\ Cardinality(active \cup {disp.run}) =
                IF disp.run \in active THEN Cardinality(active) ELSE Cardinality(active) + 1
      BY <2>0, FS_AddElement
    <3>3. Cardinality(active) < Limit  BY <2>1 DEF SlotsBounded
    <3>4. Cardinality(counted) <= Limit  BY <2>0, <3>2, <3>1, FS_Subset, FS_CardinalityType, <3>3
    <3> QED  BY <3>4 DEF ConcurrencyBound
  <2>2. CASE disp.pc # "slot"
    <3>1. counted \subseteq active  BY <2>2 DEF SafetyInv, RunningAccounted, At
    <3>2. Cardinality(counted) <= Limit  BY <2>0, <3>1, FS_Subset, FS_CardinalityType DEF SlotsBounded
    <3> QED  BY <3>2 DEF ConcurrencyBound
  <2> QED  BY <2>1, <2>2
<1>3. SafetyInv /\ SlotsBounded /\ [Next]_vars => SlotsBounded'  BY SlotSteps DEF SafetyInv
<1>4. Spec => []SlotsBounded  BY <1>1, <1>3, SafetyInductive, PTL DEF Spec
<1> QED  BY <1>2, <1>4, SafetyInductive, PTL

\* A cancelled task runs nothing.
THEOREM CancelStopsEverything == Spec => []CancelledIsQuiet
<1>1. SafetyInv => CancelledIsQuiet  BY DEF SafetyInv
<1> QED  BY <1>1, SafetyInductive, PTL

\* A succeeded task is complete.
THEOREM SuccessMeansDone == Spec => []SuccessIsComplete
<1>1. SafetyInv => SuccessIsComplete  BY DEF SafetyInv
<1> QED  BY <1>1, SafetyInductive, PTL

\* An outcome, once recorded, is never changed.
THEOREM OutcomesAreFinal == Spec => OutcomeIsFinal
<1>1. TypeOK /\ [Next]_vars =>
        [\A r \in Runs : outcome[r] # "none" => outcome'[r] = outcome[r]]_vars
  <2> SUFFICES ASSUME TypeOK, [Next]_vars, NEW r \in Runs, outcome[r] # "none"
               PROVE  outcome'[r] = outcome[r]
    OBVIOUS
  <2>1. CASE UNCHANGED outcome  BY <2>1
  <2>2. CASE \E q \in Runs, o \in {"complete", "fail"} : SettleTx(q, o)  BY <2>2, SettleTxFacts DEF TypeOK
  <2>3. CASE DispatchFail
    <3>1. disp.run \in Runs  BY <2>3 DEF DispatchFail, TypeOK, Thread, Idle
    <3> QED  BY <2>1, <2>2, <2>3, <3>1 DEF DispatchFail, store
  <2> QED
    BY <2>1, <2>2, <2>3 DEF Next, KernelCommand, Cancel, Retry, Skip, ReportDone, Settle, Drain, DrainSlot,
      DrainResources, DrainTaskResources, DrainAfterSkip, DrainPromote, DrainDecide, DrainWrite, CleanRow, Dispatcher,
      DispatchTx, RegisterSlot, AcquireLease, Launch, DispatchUnwind, Pump, ExitCheck, ExitWriteRun, ExitWriteStep,
      ExitReadTask, ExitWriteTask, Restart, vars, store
<1> QED  BY <1>1, TypeCorrect, PTL DEF Spec, OutcomeIsFinal

\* Nothing but a Skip or an exit handler past its read takes a task out of cancelled: in
\* particular no convergence decided before the cancel is written after it.
THEOREM CancelledIsLeftOnPurpose == Spec => CancelledLeft
<1>1. SafetyInv /\ [Next]_vars =>
        [task = "cancelled" /\ task' # "cancelled" =>
            \/ pump.pc = "task" /\ pump' = Idle
            \/ \E s \in Steps : step[s] # "skipped" /\ step'[s] = "skipped"]_vars
  <2> SUFFICES ASSUME SafetyInv, [Next]_vars, task = "cancelled", task' # "cancelled",
                      ~(pump.pc = "task" /\ pump' = Idle)
               PROVE  \E s \in Steps : step[s] # "skipped" /\ step'[s] = "skipped"
    OBVIOUS
  <2> USE DEF SafetyInv
  <2>1. PICK s \in Steps : Skip(s)
    <3>1. CASE \E r \in Runs, o \in {"complete", "fail"} : SettleTx(r, o)  BY <3>1 DEF SettleTx, Attend, TaskTerminal
    <3>2. CASE DispatchFail  BY <3>2 DEF DispatchFail, SettleTx, Attend, TaskTerminal, store
    <3>3. CASE DrainWrite  BY <3>3 DEF DrainWrite, VerdictQueued
    <3>4. CASE \E alive \in SUBSET Runs : Restart(alive)  BY <3>4 DEF Restart, Attend, TaskTerminal
    <3>5. CASE KernelCommand  BY <3>1, <3>5 DEF KernelCommand, Cancel, Retry, ReportDone, Settle, Attend, TaskTerminal
    <3> QED
      BY <3>2, <3>3, <3>4, <3>5 DEF Next, Drain, DrainSlot, DrainResources, DrainTaskResources, DrainAfterSkip,
        DrainPromote, DrainDecide, CleanRow, Dispatcher, DispatchTx, RegisterSlot, AcquireLease, Launch, DispatchUnwind,
        Pump, ExitCheck, ExitWriteRun, ExitWriteStep, ExitReadTask, ExitWriteTask, vars, store
  <2>2. step[s] # "skipped" /\ step' = Promote([step EXCEPT ![s] = "skipped"])  BY <2>1 DEF Skip
  <2>3. step'[s] = "skipped"  BY <2>2 DEF Promote, TypeOK
  <2> QED  BY <2>2, <2>3
<1> QED  BY <1>1, SafetyInductive, PTL DEF Spec, CancelledLeft

----
(* Revisions, attempts and inputs.                                         *)

Nodes == UNION {DOMAIN g : g \in Graphs}
Statuses == {"pending", "ready", "running", "awaiting", "succeeded", "failed", "blocked", "skipped"}
Choices == {"policy", "fresh", "continue"}
RowType == [status : Statuses, attempts : 0..MaxTries, next : Choices]
TryType ==
    [at : Nat \X Nodes, status : {"running", "awaiting", "succeeded", "failed", "cancelled"},
     input : Nat, saved : Nat, mode : Choices]
InputType ==
    [at : Nat \X Nodes, sees : SUBSET Nat, saved : 0..MaxSaves, filled : BOOLEAN,
     review : {"none", "awaiting", "confirmed"}, run : Nat, agreed : Int]
HandoffType == [at : Nat \X Nodes, run : Nat]

\* A table of rows for each revision.
Tables == UNION {[DOMAIN g -> RowType] : g \in Graphs}
IsRows(rs) ==
    /\ rs \in Seq(Tables) /\ Len(rs) = Newest
    /\ \A v \in 1..Newest : rs[v] \in [DOMAIN graphs[v] -> RowType]

\* The types of the variables, one by one.
TableInv == graphs \in Seq(Graphs) /\ Newest >= 1 /\ IsRows(rows)
TriesInv == tries \in Seq(TryType) /\ Len(tries) <= MaxTries
InputsInv == inputs \in Seq(InputType)
HandoffsInv == handoffs \in Seq(HandoffType)
DispatcherInv ==
    /\ suspended \in BOOLEAN
    /\ dispatcher.pc \in {"off", "prepare", "commit"}
    /\ dispatcher.pc = "off" => dispatcher = Resting
    /\ dispatcher.pc # "off" =>
          dispatcher \in [pc : {"prepare", "commit"}, at : Places, input : Nat, saved : 0..MaxSaves,
                          next : Choices]
TypeInv == TableInv /\ TriesInv /\ InputsInv /\ HandoffsInv /\ DispatcherInv

\* What a row refers to is there.
RefersInv ==
    /\ \A r \in DOMAIN tries : tries[r].at \in Places /\ tries[r].input \in DOMAIN inputs
    /\ \A i \in DOMAIN inputs : /\ inputs[i].at \in Places /\ inputs[i].sees \subseteq DOMAIN tries
                                /\ inputs[i].run \in 0..Len(tries)
    /\ \A h \in DOMAIN handoffs : handoffs[h].at \in Places /\ handoffs[h].run \in DOMAIN tries
    /\ dispatcher.pc = "commit" => /\ dispatcher.input \in DOMAIN inputs
                                   /\ inputs[dispatcher.input].at = dispatcher.at

\* A node that an attempt was started of counts it in each of its rows since.
CountInv ==
    /\ \A v \in 1..Newest : \A n \in DOMAIN graphs[v] : rows[v][n].attempts <= Len(tries)
    /\ \A r \in DOMAIN tries : \A v \in tries[r].at[1]..Newest :
          tries[r].at[2] \in DOMAIN graphs[v] /\ rows[v][tries[r].at[2]].attempts > 0

\* Who is at work has a row that does not wait.
WorkInv ==
    \A r \in Working : RowAt(tries[r].at).status \notin {"pending", "ready", "blocked"}

\* What was handed over, and what an input was compiled from, comes from attempts that succeeded.
HandInv ==
    /\ \A h \in DOMAIN handoffs : tries[handoffs[h].run].status = "succeeded"
    /\ \A i \in DOMAIN inputs : \A r \in inputs[i].sees : tries[r].status = "succeeded"

\* An input that waits for nobody is complete, and as it was agreed or compiled.
InputInv ==
    \A i \in DOMAIN inputs :
       /\ inputs[i].review = "confirmed" => inputs[i].agreed = inputs[i].saved /\ ~Lacks(inputs[i])
       /\ inputs[i].review = "none" /\ (inputs[i].run # 0 \/ inputs[i].at[1] = Newest) =>
             ~graphs[inputs[i].at[1]][inputs[i].at[2]].review /\ inputs[i].saved = 0 /\ ~Lacks(inputs[i])
       /\ inputs[i].run # 0 => inputs[i].review # "awaiting"

RevisionInv ==
    /\ TypeInv /\ RefersInv /\ CountInv /\ WorkInv /\ HandInv /\ InputInv
    /\ GivenAsAgreed /\ StartedIsFrozen /\ ResultsFollow

----
(* Rows.                                                                   *)

\* The bounds are positive, and dependencies are nodes.
LEMMA RevisionBounds ==
    /\ FirstGraph \in Graphs /\ MaxRevision \in Nat \ {0} /\ MaxTries \in Nat \ {0} /\ MaxSaves \in Nat
    /\ \A g \in Graphs : \A n \in DOMAIN g : g[n].deps \subseteq DOMAIN g
  BY RevisionAssumption

\* The places are the nodes of the revisions.
LEMMA PlaceOf ==
    /\ \A p \in Places : /\ p = <<p[1], p[2]>> /\ p[1] \in 1..Newest /\ p[2] \in DOMAIN graphs[p[1]]
    /\ \A v \in 1..Newest : \A n \in DOMAIN graphs[v] : <<v, n>> \in Places
<1> QED  BY DEF Places

\* The tables are those of graphs.
LEMMA GraphsTyped ==
    ASSUME TableInv
    PROVE  /\ Newest \in Nat /\ Newest \in 1..Newest /\ DOMAIN graphs = 1..Newest /\ DOMAIN rows = 1..Newest
           /\ Graph \in Graphs /\ \A v \in 1..Newest : graphs[v] \in Graphs
           /\ \A p \in Places : p \in Nat \X Nodes /\ RowAt(p) \in RowType
<1>1. Newest \in Nat /\ Newest \in 1..Newest /\ DOMAIN graphs = 1..Newest /\ DOMAIN rows = 1..Newest
  BY LenProperties DEF TableInv, IsRows, Newest
<1>2. \A v \in 1..Newest : graphs[v] \in Graphs  BY ElementOfSeq DEF TableInv, Newest
<1>3. ASSUME NEW p \in Places
      PROVE  p \in Nat \X Nodes /\ RowAt(p) \in RowType
  <2>1. p = <<p[1], p[2]>> /\ p[1] \in 1..Newest /\ p[2] \in DOMAIN graphs[p[1]]  BY PlaceOf
  <2>2. p[2] \in Nodes  BY <2>1, <1>2 DEF Nodes
  <2> QED  BY <1>1, <2>1, <2>2 DEF RowAt, TableInv, IsRows
<1> QED  BY <1>1, <1>2, <1>3 DEF Graph

\* Writing one row.
WithRow(p, line) == [rows EXCEPT ![p[1]] = [rows[p[1]] EXCEPT ![p[2]] = line]]

\* A row is written, and every other one is what it was.
LEMMA RowWritten ==
    ASSUME TableInv, NEW p \in Places, NEW line \in RowType
    PROVE  /\ IsRows(WithRow(p, line))
           /\ \A v \in 1..Newest : \A n \in DOMAIN graphs[v] :
                 WithRow(p, line)[v][n] = IF <<v, n>> = p THEN line ELSE rows[v][n]
<1> DEFINE t == [rows[p[1]] EXCEPT ![p[2]] = line]
           rs == WithRow(p, line)
<1>1. p = <<p[1], p[2]>> /\ p[1] \in 1..Newest /\ p[2] \in DOMAIN graphs[p[1]]  BY PlaceOf
<1>2. t \in [DOMAIN graphs[p[1]] -> RowType] /\ \A n \in DOMAIN graphs[p[1]] : t[n] = IF n = p[2] THEN line ELSE rows[p[1]][n]
  BY <1>1 DEF TableInv, IsRows
<1>3. t \in Tables  BY <1>1, <1>2, GraphsTyped DEF Tables
<1> HIDE DEF t
<1>4. rs = [rows EXCEPT ![p[1]] = t]  BY DEF t, WithRow
<1> HIDE DEF rs
<1> QED  BY <1>3, <1>1, <1>4, ExceptSeq, <1>2 DEF IsRows, rs, TableInv

\* Writing the status of a row.
LEMMA StatusWritten ==
    ASSUME TableInv, NEW p \in Places, NEW st \in Statuses
    PROVE  /\ IsRows(SetStatus(p, st))
           /\ \A v \in 1..Newest : \A n \in DOMAIN graphs[v] :
                 SetStatus(p, st)[v][n] = IF <<v, n>> = p THEN [rows[v][n] EXCEPT !.status = st] ELSE rows[v][n]
<1>1. p = <<p[1], p[2]>> /\ p[1] \in 1..Newest /\ p[2] \in DOMAIN graphs[p[1]]  BY PlaceOf
<1>2. RowAt(p) \in RowType /\ RowAt(p) = rows[p[1]][p[2]]  BY GraphsTyped DEF RowAt
<1>3. [RowAt(p) EXCEPT !.status = st] \in RowType  BY <1>2 DEF RowType
<1>4. ASSUME NEW v \in 1..Newest, NEW n \in DOMAIN graphs[v], <<v, n>> = p
      PROVE  rows[v][n] = RowAt(p)
  BY <1>4 DEF RowAt
<1> QED  BY <1>3, <1>2, RowWritten, <1>4 DEF SetStatus, WithRow

\* Writing the rows of the active graph.
WithTable(rs, t) == [rs EXCEPT ![Newest] = t]

\* The newest table is written, and every other one is what it was.
LEMMA TableWritten ==
    ASSUME TableInv, NEW rs, IsRows(rs), NEW t \in [DOMAIN Graph -> RowType]
    PROVE  /\ IsRows(WithTable(rs, t))
           /\ \A v \in 1..Newest : \A n \in DOMAIN graphs[v] :
                 WithTable(rs, t)[v][n] = IF v = Newest THEN t[n] ELSE rs[v][n]
<1> DEFINE qs == WithTable(rs, t)
<1> QED  BY GraphsTyped, ExceptSeq DEF IsRows, WithTable, Tables, Graph

\* A table with other statuses: the count of a row stays.
Restated(rs, qs) ==
    \A v \in 1..Newest : \A n \in DOMAIN graphs[v] :
        qs[v][n].attempts = rs[v][n].attempts

\* Promotion makes rows that waited ready, ...
LEMMA PromotedRows ==
    ASSUME TableInv, NEW rs, IsRows(rs)
    PROVE  /\ IsRows(Promoted(rs)) /\ Restated(rs, Promoted(rs))
           /\ \A v \in 1..Newest : \A n \in DOMAIN graphs[v] :
                 \/ Promoted(rs)[v][n].status = rs[v][n].status
                 \/ v = Newest /\ rs[v][n].status \in {"pending", "blocked"} /\ Promoted(rs)[v][n].status = "ready"
<1> DEFINE due(n) == rs[Newest][n].status \in {"pending", "blocked"}
                     /\ \A d \in Graph[n].deps : rs[Newest][d].status \in Done
           t == [n \in DOMAIN Graph |-> IF due(n) THEN [rs[Newest][n] EXCEPT !.status = "ready"] ELSE rs[Newest][n]]
<1>1. Promoted(rs) = WithTable(rs, t)  BY DEF Promoted, WithTable
<1>2. Newest \in 1..Newest /\ Graph = graphs[Newest] /\ rs[Newest] \in [DOMAIN Graph -> RowType]
  BY GraphsTyped DEF IsRows, Graph
<1> HIDE DEF due
<1>3. \A n \in DOMAIN Graph : /\ t[n] \in RowType /\ t[n].attempts = rs[Newest][n].attempts /\ t[n].next = rs[Newest][n].next
                              /\ t[n].status = IF due(n) THEN "ready" ELSE rs[Newest][n].status
  BY <1>2 DEF RowType, Statuses
<1>4. t \in [DOMAIN Graph -> RowType]  BY <1>3
<1> HIDE DEF t
<1>5. /\ IsRows(Promoted(rs))
      /\ \A v \in 1..Newest : \A n \in DOMAIN graphs[v] :
            Promoted(rs)[v][n] = IF v = Newest THEN t[n] ELSE rs[v][n]
  BY <1>1, <1>4, TableWritten
<1>6. \A n : due(n) => rs[Newest][n].status \in {"pending", "blocked"}  BY DEF due
<1> QED  BY <1>2, <1>3, <1>5, <1>6 DEF Restated

\* ... and blocking blocks rows that waited.
LEMMA BlockedRows ==
    ASSUME TableInv, NEW rs, IsRows(rs), NEW m
    PROVE  /\ IsRows(BlockedBehind(m, rs)) /\ Restated(rs, BlockedBehind(m, rs))
           /\ \A v \in 1..Newest : \A n \in DOMAIN graphs[v] :
                 \/ BlockedBehind(m, rs)[v][n].status = rs[v][n].status
                 \/ v = Newest /\ rs[v][n].status \in {"pending", "ready"} /\ BlockedBehind(m, rs)[v][n].status = "blocked"
<1> DEFINE behind(n) == m \in Before(n) /\ rs[Newest][n].status \in {"pending", "ready"}
           t == [n \in DOMAIN Graph |-> IF behind(n) THEN [rs[Newest][n] EXCEPT !.status = "blocked"] ELSE rs[Newest][n]]
<1>1. BlockedBehind(m, rs) = WithTable(rs, t)  BY DEF BlockedBehind, WithTable
<1>2. Newest \in 1..Newest /\ Graph = graphs[Newest] /\ rs[Newest] \in [DOMAIN Graph -> RowType]
  BY GraphsTyped DEF IsRows, Graph
<1> HIDE DEF behind
<1>3. \A n \in DOMAIN Graph : /\ t[n] \in RowType /\ t[n].attempts = rs[Newest][n].attempts /\ t[n].next = rs[Newest][n].next
                              /\ t[n].status = IF behind(n) THEN "blocked" ELSE rs[Newest][n].status
  BY <1>2 DEF RowType, Statuses
<1>4. t \in [DOMAIN Graph -> RowType]  BY <1>3
<1> HIDE DEF t
<1>5. /\ IsRows(BlockedBehind(m, rs))
      /\ \A v \in 1..Newest : \A n \in DOMAIN graphs[v] :
            BlockedBehind(m, rs)[v][n] = IF v = Newest THEN t[n] ELSE rs[v][n]
  BY <1>1, <1>4, TableWritten
<1>6. \A n : behind(n) => rs[Newest][n].status \in {"pending", "ready"}  BY DEF behind
<1> QED  BY <1>2, <1>3, <1>5, <1>6 DEF Restated

\* A new table: what has started, or has ended, is left alone.
LEMMA RegatedRows ==
    ASSUME NEW g \in Graphs, NEW rs \in [DOMAIN g -> RowType]
    PROVE  /\ Regate(g, rs) \in [DOMAIN g -> RowType]
           /\ \A n \in DOMAIN g : /\ Regate(g, rs)[n].attempts = rs[n].attempts
                                  /\ \/ Regate(g, rs)[n].status = rs[n].status
                                     \/ Regate(g, rs)[n].status \in {"ready", "pending"}
<1> DEFINE kept(n) == rs[n].status \in Over \/ rs[n].attempts > 0
           gate(n) == IF \A d \in g[n].deps : rs[d].status \in Done THEN "ready" ELSE "pending"
<1>1. \A n : gate(n) \in {"ready", "pending"}  OBVIOUS
<1> HIDE DEF kept, gate
<1> QED  BY <1>1 DEF RowType, Statuses, Regate

----
(* What grows.                                                             *)

\* The greatest element.
LEMMA LatestOf ==
    ASSUME NEW n \in Nat, NEW S \in SUBSET (1..n), S # {}
    PROVE  Latest(S) \in S
<1> DEFINE T == {n - x : x \in S}
<1>0. \A x \in S : x \in Int /\ n - x \in Nat  OBVIOUS
<1>1. T \in SUBSET Nat /\ T # {}  BY <1>0
<1>2. PICK m \in T : \A k \in T : <<k, m>> \notin OpToRel(<, Nat)  BY <1>1, NatLessThanWellFounded, WFMin
<1>3. \A k \in T : ~(k < m)  BY <1>1, <1>2 DEF OpToRel
<1>4. PICK x \in S : m = n - x  OBVIOUS
<1>5. \A y \in S : y <= x
  <2> SUFFICES ASSUME NEW y \in S PROVE y <= x  OBVIOUS
  <2>1. n - y \in T  OBVIOUS
  <2> QED  BY <1>3, <1>4, <2>1
<1>6. \E z \in S : \A y \in S : y <= z  BY <1>5
<1> QED  BY <1>6 DEF Latest

\* The graphs of old revisions stay, attempts keep what they were started with and stay settled,
\* inputs keep what they were compiled from, and one that was used stays as it is.
Grown ==
    /\ Newest' \in {Newest, Newest + 1} /\ \A v \in 1..Newest : graphs'[v] = graphs[v]
    /\ \A r \in DOMAIN tries :
          /\ r \in DOMAIN tries' /\ tries'[r].at = tries[r].at /\ tries'[r].input = tries[r].input
          /\ tries'[r].saved = tries[r].saved
          /\ tries[r].status = "succeeded" => tries'[r].status = "succeeded"
    /\ \A i \in DOMAIN inputs :
          /\ i \in DOMAIN inputs' /\ inputs'[i].at = inputs[i].at /\ inputs'[i].sees = inputs[i].sees
          /\ inputs[i].run # 0 => inputs'[i] = inputs[i]

\* A place stays one.
LEMMA PlacesGrow ==
    ASSUME TableInv, Grown
    PROVE  Places \subseteq Places'
<1> SUFFICES ASSUME NEW p \in Places PROVE p \in Places'  OBVIOUS
<1> QED  BY PlaceOf, GraphsTyped DEF Places, Grown

\* What an input lacks depends on what stays, and on what the user has filled in.
LEMMA LacksStays ==
    ASSUME RefersInv, Grown, NEW i \in DOMAIN inputs, inputs'[i].filled = inputs[i].filled
    PROVE  Lacks(inputs[i])' = Lacks(inputs[i])
<1>1. inputs[i].at[1] \in 1..Newest /\ inputs[i].sees \subseteq DOMAIN tries  BY PlaceOf DEF RefersInv
<1>2. inputs'[i].at = inputs[i].at /\ inputs'[i].sees = inputs[i].sees  BY DEF Grown
<1>3. graphs'[inputs[i].at[1]] = graphs[inputs[i].at[1]]  BY <1>1 DEF Grown
<1>4. \A r \in inputs[i].sees : tries'[r].at = tries[r].at  BY <1>1 DEF Grown
<1> QED  BY <1>2, <1>3, <1>4 DEF Lacks

\* Attempts keep what was agreed.
Given(r) ==
    LET i == inputs[tries[r].input]
    IN  /\ i.run = r /\ i.at = tries[r].at /\ ~Lacks(i)
        /\ tries[r].saved = i.saved
        /\ graphs[i.at[1]][i.at[2]].review \/ i.saved > 0 => i.agreed = tries[r].saved

\* An input that was given to its attempt stays given.
LEMMA GivenStays ==
    ASSUME RefersInv, TriesInv, Grown, NEW r \in DOMAIN tries, Given(r)
    PROVE  Given(r)'
<1> DEFINE k == tries[r].input
<1>1. k \in DOMAIN inputs /\ inputs[k].run = r /\ r # 0  BY LenProperties DEF RefersInv, Given, TriesInv
<1>2. inputs'[k] = inputs[k] /\ tries'[r].input = k /\ tries'[r].at = tries[r].at /\ tries'[r].saved = tries[r].saved
  BY <1>1 DEF Grown
<1>3. Lacks(inputs[k])' = Lacks(inputs[k])  BY <1>1, <1>2, LacksStays
<1>4. graphs'[inputs[k].at[1]] = graphs[inputs[k].at[1]]  BY <1>1, PlaceOf DEF RefersInv, Grown
<1>5. Lacks(inputs[tries[r].input])' = Lacks(inputs[k])'  BY <1>2 DEF Lacks
<1> QED  BY <1>2, <1>3, <1>4, <1>5 DEF Given

----
(* Steps that change the statuses of rows and attempts.                    *)

Waits == {"pending", "ready", "blocked"}

\* Attempts that were at work get another status, and one of them may hand something over.
Turned ==
    /\ UNCHANGED <<graphs, inputs, suspended, dispatcher>>
    /\ IsRows(rows') /\ Restated(rows, rows')
    /\ tries' \in Seq(TryType) /\ Len(tries') = Len(tries)
    /\ \A r \in DOMAIN tries :
          /\ tries'[r].at = tries[r].at /\ tries'[r].input = tries[r].input /\ tries'[r].saved = tries[r].saved
          /\ r \notin Working => tries'[r] = tries[r]
    /\ \/ handoffs' = handoffs
       \/ \E r \in Working : /\ tries'[r].status = "succeeded"
                             /\ handoffs' = Append(handoffs, [at |-> <<Newest, tries[r].at[2]>>, run |-> r])

\* Apart from one row, the rows that wait are other ones at most.
OthersWait(p) ==
    \A v \in 1..Newest : \A n \in DOMAIN graphs[v] : <<v, n>> # p =>
        \/ rows'[v][n].status = rows[v][n].status
        \/ rows'[v][n].status \in Waits /\ rows[v][n].status \in Waits

\* An attempt has a row in the active graph.
LEMMA HasRow ==
    ASSUME TypeInv, RefersInv, CountInv, NEW r \in DOMAIN tries
    PROVE  /\ tries[r].at \in Places /\ tries[r] \in TryType
           /\ tries[r].at[2] \in DOMAIN Graph /\ <<Newest, tries[r].at[2]>> \in Places
           /\ Landing(tries[r].at) = <<Newest, tries[r].at[2]>>
<1>1. tries[r].at \in Places /\ tries[r] \in TryType  BY ElementOfSeq, LenProperties DEF RefersInv, TypeInv, TriesInv
<1>2. tries[r].at[1] \in 1..Newest /\ Newest \in Nat  BY <1>1, PlaceOf, GraphsTyped DEF TypeInv
<1>3. Newest \in tries[r].at[1]..Newest  BY <1>2
<1>4. tries[r].at[2] \in DOMAIN Graph  BY <1>3 DEF CountInv, Graph
<1>5. <<Newest, tries[r].at[2]>> \in Places  BY <1>4, PlaceOf, GraphsTyped DEF Graph, TypeInv
<1> QED  BY <1>1, <1>4, <1>5 DEF Landing

\* Attempts that get another status are no fewer, and where they were.
LEMMA TurnedGrows ==
    ASSUME TypeInv, Turned
    PROVE  /\ Grown /\ Newest' = Newest /\ Places' = Places /\ DOMAIN tries' = DOMAIN tries
           /\ \A p \in Places : RowAt(p)' = rows'[p[1]][p[2]]
<1>1. Newest' = Newest /\ Places' = Places  BY DEF Turned, Newest, Places
<1>2. DOMAIN tries' = DOMAIN tries  BY LenProperties DEF Turned, TypeInv, TriesInv
<1>3. Grown  BY <1>1, <1>2 DEF Turned, Grown, Working
<1> QED  BY <1>1, <1>2, <1>3 DEF RowAt

\* They keep their type.
LEMMA TurnedTypes ==
    ASSUME TypeInv, RefersInv, CountInv, Turned
    PROVE  TypeInv'
<1>1. Newest' = Newest /\ Places' = Places  BY TurnedGrows
<1>2. TableInv'  BY <1>1 DEF Turned, TypeInv, TableInv, IsRows
<1>3. TriesInv' /\ InputsInv'  BY DEF Turned, TypeInv, TriesInv, InputsInv
<1>4. HandoffsInv'
  <2>1. CASE handoffs' = handoffs  BY <2>1 DEF TypeInv, HandoffsInv
  <2>2. ASSUME NEW r \in Working, handoffs' = Append(handoffs, [at |-> <<Newest, tries[r].at[2]>>, run |-> r])
        PROVE  HandoffsInv'
    <3>1. r \in DOMAIN tries /\ r \in Nat  BY LenProperties DEF Working, TypeInv, TriesInv
    <3> QED  BY <2>2, <3>1, HasRow, GraphsTyped DEF TypeInv, HandoffsInv, HandoffType
  <2> QED  BY <2>1, <2>2 DEF Turned
<1>5. DispatcherInv'  BY <1>1 DEF Turned, TypeInv, DispatcherInv, Resting
<1> QED  BY <1>2, <1>3, <1>4, <1>5 DEF TypeInv

\* They keep what does not speak of the status.
LEMMA TurnedKeeps ==
    ASSUME RevisionInv, Turned
    PROVE  /\ TypeInv' /\ RefersInv' /\ CountInv' /\ HandInv' /\ InputInv' /\ GivenAsAgreed' /\ StartedIsFrozen'
           /\ \A h \in DOMAIN handoffs : h \in DOMAIN handoffs' /\ handoffs'[h] = handoffs[h]
<1> USE DEF RevisionInv
<1>1. /\ Grown /\ Newest' = Newest /\ Places' = Places /\ DOMAIN tries' = DOMAIN tries
      /\ UNCHANGED <<graphs, inputs, dispatcher>> /\ Len(tries') = Len(tries)
  BY TurnedGrows DEF Turned
<1>2. TypeInv'  BY TurnedTypes
<1>3. /\ \A h \in DOMAIN handoffs : h \in DOMAIN handoffs' /\ handoffs'[h] = handoffs[h]
      /\ \A h \in DOMAIN handoffs' : h \notin DOMAIN handoffs =>
            \E r \in Working : /\ handoffs'[h] = [at |-> <<Newest, tries[r].at[2]>>, run |-> r]
                               /\ tries'[r].status = "succeeded"
  <2>1. CASE handoffs' = handoffs  BY <2>1
  <2>2. ASSUME NEW r \in Working, tries'[r].status = "succeeded",
               handoffs' = Append(handoffs, [at |-> <<Newest, tries[r].at[2]>>, run |-> r])
        PROVE  <1>3
    <3>1. handoffs \in Seq(HandoffType)  BY DEF TypeInv, HandoffsInv
    <3>2. Len(handoffs') = Len(handoffs) + 1 /\ Len(handoffs) \in Nat /\ DOMAIN handoffs = 1..Len(handoffs)
          /\ DOMAIN handoffs' = 1..(Len(handoffs) + 1)
      BY <2>2, <3>1
    <3>3. \A h \in DOMAIN handoffs : handoffs'[h] = handoffs[h]  BY <2>2, <3>1
    <3>4. handoffs'[Len(handoffs) + 1] = [at |-> <<Newest, tries[r].at[2]>>, run |-> r]  BY <2>2, <3>1
    <3> QED  BY <2>2, <3>2, <3>3, <3>4
  <2> QED  BY <2>1, <2>2 DEF Turned
<1>4. RefersInv'
  <2>1. ASSUME NEW h \in DOMAIN handoffs'
        PROVE  handoffs'[h].at \in Places' /\ handoffs'[h].run \in DOMAIN tries'
    <3>1. CASE h \in DOMAIN handoffs  BY <3>1, <1>1, <1>3 DEF RefersInv
    <3>2. CASE h \notin DOMAIN handoffs
      <4>1. PICK r \in Working : handoffs'[h] = [at |-> <<Newest, tries[r].at[2]>>, run |-> r]  BY <3>2, <1>3
      <4>2. r \in DOMAIN tries  BY DEF Working
      <4> QED  BY <4>1, <4>2, <1>1, HasRow
    <3> QED  BY <3>1, <3>2
  <2> QED  BY <1>1, <2>1 DEF RefersInv, Turned
<1>5. CountInv'
  <2>1. \A v \in 1..Newest : \A n \in DOMAIN graphs[v] : rows'[v][n].attempts = rows[v][n].attempts
    BY DEF Turned, Restated
  <2>2. ASSUME NEW r \in DOMAIN tries, NEW v \in tries[r].at[1]..Newest
        PROVE  tries[r].at[2] \in DOMAIN graphs[v] /\ rows'[v][tries[r].at[2]].attempts > 0
    <3>0. tries[r].at \in Places /\ Newest \in Nat  BY HasRow, GraphsTyped DEF TypeInv
    <3>1. v \in 1..Newest  BY <3>0, PlaceOf
    <3> QED  BY <2>1, <3>1 DEF CountInv
  <2> QED  BY <1>1, <2>1, <2>2 DEF CountInv, Turned
<1>6. HandInv'  BY <1>3, <1>1 DEF HandInv, RefersInv, Grown
<1>7. \A i \in DOMAIN inputs : Lacks(inputs[i])' = Lacks(inputs[i])  BY <1>1, LacksStays
<1>8. InputInv'  BY <1>1, <1>7 DEF InputInv
<1>9. GivenAsAgreed'  BY <1>1, GivenStays DEF GivenAsAgreed, Given, TypeInv
<1>10. StartedIsFrozen'  BY <1>1 DEF StartedIsFrozen, Turned
<1> QED  BY <1>2, <1>3, <1>4, <1>5, <1>6, <1>8, <1>9, <1>10

\* Who is at work was.
LEMMA TurnedWorking ==
    ASSUME TypeInv, Turned
    PROVE  \A r \in Working' : r \in Working /\ r \in DOMAIN tries /\ tries'[r].at = tries[r].at
<1>1. DOMAIN tries' = DOMAIN tries  BY TurnedGrows
<1> QED  BY <1>1 DEF Turned, Working

\* A step of this kind preserves the invariant if it does so for who is at work and for the results.
LEMMA TurnedPreserves ==
    ASSUME RevisionInv, Turned, WorkInv', ResultsFollow'
    PROVE  RevisionInv'
  BY TurnedKeeps DEF RevisionInv

\* The statuses that count for the results.
LEMMA ResultsTurned ==
    ASSUME RevisionInv, Turned, NEW p \in Places, OthersWait(p),
           rows'[p[1]][p[2]].status # "running",
           p[1] = Newest /\ rows'[p[1]][p[2]].status = "succeeded" =>
              RowAt(p).status = "succeeded" \/ \E h \in DOMAIN handoffs' : handoffs'[h].at = p,
           \A r \in Working : \/ r \in Working'
                              \/ tries[r].at[2] = p[2] /\ p[1] = Newest
                              \/ tries[r].at = p /\ tries'[r].status = "cancelled"
    PROVE  ResultsFollow'
<1> USE DEF RevisionInv
<1>1. /\ UNCHANGED graphs /\ Newest' = Newest /\ Graph' = Graph /\ DOMAIN tries' = DOMAIN tries
      /\ Newest \in 1..Newest /\ graphs[Newest] = Graph
  BY TurnedGrows, GraphsTyped DEF Turned, Graph, TypeInv
<1>2. \A h \in DOMAIN handoffs : h \in DOMAIN handoffs' /\ handoffs'[h] = handoffs[h]  BY TurnedKeeps
<1>3. p = <<p[1], p[2]>> /\ p[1] \in 1..Newest  BY PlaceOf
<1>4. \A r \in DOMAIN tries : tries'[r].at = tries[r].at  BY DEF Turned
<1>5. ASSUME NEW n \in DOMAIN Graph, rows'[Newest][n].status = "succeeded"
      PROVE  \E h \in DOMAIN handoffs' : handoffs'[h].at = <<Newest, n>>
  <2>1. rows[Newest][n].status = "succeeded" \/ \E h \in DOMAIN handoffs' : handoffs'[h].at = <<Newest, n>>
    <3>1. CASE <<Newest, n>> = p  BY <3>1, <1>1, <1>5 DEF RowAt
    <3>2. CASE <<Newest, n>> # p  BY <3>2, <1>1, <1>5 DEF OthersWait, Waits
    <3> QED  BY <3>1, <3>2
  <2>2. rows[Newest][n].status = "succeeded" => \E h \in DOMAIN handoffs : handoffs[h].at = <<Newest, n>>
    BY DEF ResultsFollow, HandedBy
  <2> QED  BY <2>1, <2>2, <1>2
<1>6. ASSUME NEW n \in DOMAIN Graph, rows'[Newest][n].status = "running"
      PROVE  \E r \in DOMAIN tries' :
                /\ tries'[r].at[2] = n
                /\ r \in Working' \/ (tries'[r].status = "cancelled" /\ tries'[r].at[1] < Newest)
  <2>1. <<Newest, n>> # p  BY <1>1, <1>6
  <2>2. rows[Newest][n].status = "running"  BY <2>1, <1>1, <1>6 DEF OthersWait, Waits
  <2>3. PICK r \in DOMAIN tries : /\ tries[r].at[2] = n
                                  /\ r \in Working \/ (tries[r].status = "cancelled" /\ tries[r].at[1] < Newest)
    BY <2>2 DEF ResultsFollow
  <2>4. CASE r \in Working'  BY <2>3, <2>4, <1>1, <1>4
  <2>5. CASE r \notin Working  BY <2>3, <2>5, <1>1, <1>4 DEF Turned
  <2>6. CASE r \in Working /\ tries[r].at = p /\ tries'[r].status = "cancelled"
    <3>1. p[1] # Newest  BY <2>1, <2>3, <2>6, <1>3
    <3>2. p[1] < Newest  BY <3>1, <1>3, GraphsTyped DEF TypeInv
    <3> QED  BY <2>3, <2>6, <3>2, <1>1, <1>4
  <2>7. ~(tries[r].at[2] = p[2] /\ p[1] = Newest)  BY <2>1, <2>3, <1>3
  <2> QED  BY <2>4, <2>5, <2>6, <2>7
<1>7. \A n \in DOMAIN Graph' : rows'[Newest'][n].status = "succeeded" => HandedBy(<<Newest, n>>)' # {}
  BY <1>1, <1>5 DEF HandedBy
<1>8. \A n \in DOMAIN Graph' : rows'[Newest'][n].status = "running" =>
         \E r \in DOMAIN tries' :
            /\ tries'[r].at[2] = n
            /\ r \in Working' \/ (tries'[r].status = "cancelled" /\ tries'[r].at[1] < Newest')
  BY <1>1, <1>6
<1> QED  BY TurnedWorking, <1>7, <1>8 DEF ResultsFollow

\* Who is at work afterwards keeps a row that does not wait.
LEMMA WorkTurned ==
    ASSUME RevisionInv, Turned, NEW p \in Places, OthersWait(p),
           rows'[p[1]][p[2]].status \notin Waits \/ \A r \in Working' : tries[r].at # p
    PROVE  WorkInv'
<1> USE DEF RevisionInv
<1> SUFFICES ASSUME NEW r \in Working'
             PROVE  RowAt(tries[r].at)'.status \notin Waits
  BY DEF WorkInv, Waits
<1>1. r \in Working /\ r \in DOMAIN tries /\ tries'[r].at = tries[r].at  BY TurnedWorking
<1>2. tries[r].at \in Places /\ RowAt(tries[r].at).status \notin Waits  BY <1>1 DEF WorkInv, Waits, RefersInv
<1>3. RowAt(tries[r].at)' = rows'[tries[r].at[1]][tries[r].at[2]]  BY <1>1 DEF RowAt
<1>4. CASE tries[r].at = p  BY <1>3, <1>4
<1>5. CASE tries[r].at # p  BY <1>2, <1>3, <1>5, PlaceOf DEF OthersWait, RowAt
<1> QED  BY <1>4, <1>5

\* Attempts with other statuses.
Marked(S, st) == [r \in DOMAIN tries |-> IF r \in S THEN [tries[r] EXCEPT !.status = st] ELSE tries[r]]

\* Attempts that are marked get the status and nothing else.
LEMMA TriesTurned ==
    ASSUME TriesInv, NEW S \in SUBSET DOMAIN tries, NEW st \in {"awaiting", "succeeded", "failed", "cancelled"},
           tries' = Marked(S, st)
    PROVE  /\ tries' \in Seq(TryType) /\ Len(tries') = Len(tries)
           /\ \A r \in DOMAIN tries :
                 /\ tries'[r].at = tries[r].at /\ tries'[r].input = tries[r].input /\ tries'[r].saved = tries[r].saved
                 /\ tries'[r].status = IF r \in S THEN st ELSE tries[r].status
                 /\ r \notin S => tries'[r] = tries[r]
<1>1. tries \in Seq(TryType) /\ DOMAIN tries = 1..Len(tries) /\ Len(tries) \in Nat  BY LenProperties DEF TriesInv
<1>2. \A r \in DOMAIN tries : tries[r] \in TryType  BY <1>1, ElementOfSeq
<1>0. \A r \in DOMAIN tries : tries'[r] = IF r \in S THEN [tries[r] EXCEPT !.status = st] ELSE tries[r]  BY DEF Marked
<1>3. \A r \in DOMAIN tries : tries'[r] \in TryType  BY <1>0, <1>2 DEF TryType
<1>4. tries' \in [1..Len(tries) -> TryType]  BY <1>1, <1>3 DEF Marked
<1>5. tries' \in Seq(TryType)  BY <1>1, <1>4, SeqDef
<1>6. Len(tries') = Len(tries)  BY <1>1, <1>4, <1>5, LenProperties
<1>7. \A r \in DOMAIN tries :
         /\ tries'[r].at = tries[r].at /\ tries'[r].input = tries[r].input /\ tries'[r].saved = tries[r].saved
         /\ tries'[r].status = IF r \in S THEN st ELSE tries[r].status
         /\ r \notin S => tries'[r] = tries[r]
  BY <1>0, <1>2 DEF TryType
<1> QED  BY <1>5, <1>6, <1>7

\* An attempt is settled: its row, those behind it and what it hands over.
LEMMA SettleTryInv ==
    ASSUME RevisionInv, NEW r \in DOMAIN tries, NEW o \in {"succeeded", "failed"}, SettleTry(r, o)
    PROVE  RevisionInv'
<1> USE DEF RevisionInv
<1>0. PICK to : to = <<Newest, tries[r].at[2]>>  OBVIOUS
<1> DEFINE settled == IF RowAt(to).status \in Over THEN rows ELSE SetStatus(to, o)
<1>1. to \in Places /\ tries[r].at \in Places /\ tries[r] \in TryType /\ Landing(tries[r].at) = to  BY <1>0, HasRow
<1>2. r \in Working /\ TableInv /\ IsRows(rows) /\ TriesInv  BY DEF SettleTry, Working, TypeInv, TableInv
<1>3. /\ rows' = IF o = "succeeded" THEN Promoted(settled) ELSE BlockedBehind(to[2], settled)
      /\ handoffs' = IF o = "succeeded" THEN Append(handoffs, [at |-> to, run |-> r]) ELSE handoffs
      /\ UNCHANGED <<graphs, inputs, suspended, dispatcher>>
  BY <1>1 DEF SettleTry
<1>4. /\ IsRows(settled) /\ Restated(rows, settled)
      /\ \A v \in 1..Newest : \A n \in DOMAIN graphs[v] : <<v, n>> # to => settled[v][n].status = rows[v][n].status
      /\ settled[to[1]][to[2]].status \in Over
      /\ settled[to[1]][to[2]].status = "succeeded" => RowAt(to).status = "succeeded" \/ o = "succeeded"
  <2>1. to[1] \in 1..Newest /\ to[2] \in DOMAIN graphs[to[1]] /\ to = <<to[1], to[2]>> /\ RowAt(to) = rows[to[1]][to[2]]
    BY <1>1, PlaceOf DEF RowAt
  <2>2. CASE RowAt(to).status \in Over  BY <2>1, <2>2, <1>2 DEF Restated, Over, Done
  <2>3. CASE RowAt(to).status \notin Over
    <3>1. settled = SetStatus(to, o) /\ o \in Statuses  BY <2>3 DEF Statuses
    <3> HIDE DEF settled
    <3>2. \A v \in 1..Newest : \A n \in DOMAIN graphs[v] : rows[v][n] \in RowType  BY <1>2 DEF IsRows
    <3>3. /\ IsRows(settled)
          /\ \A v \in 1..Newest : \A n \in DOMAIN graphs[v] :
                settled[v][n] = IF <<v, n>> = to THEN [rows[v][n] EXCEPT !.status = o] ELSE rows[v][n]
      BY <3>1, <1>1, <1>2, StatusWritten
    <3>4. settled[to[1]][to[2]].status = o  BY <2>1, <3>2, <3>3 DEF RowType
    <3>5. Restated(rows, settled)  BY <3>2, <3>3 DEF Restated, RowType
    <3> QED  BY <3>3, <3>4, <3>5 DEF Over, Done
  <2> QED  BY <2>2, <2>3
<1> HIDE DEF settled
<1>5. /\ IsRows(rows') /\ Restated(settled, rows')
      /\ \A v \in 1..Newest : \A n \in DOMAIN graphs[v] :
            \/ rows'[v][n].status = settled[v][n].status
            \/ rows'[v][n].status \in Waits /\ settled[v][n].status \in Waits
  <2>1. CASE o = "succeeded"
    <3>1. rows' = Promoted(settled)  BY <1>3, <2>1
    <3> QED  BY <1>2, <1>4, <3>1, PromotedRows DEF Waits
  <2>2. CASE o = "failed"
    <3>1. rows' = BlockedBehind(to[2], settled)  BY <1>3, <2>2
    <3> QED  BY <1>2, <1>4, <3>1, BlockedRows DEF Waits
  <2> QED  BY <2>1, <2>2
<1>6. OthersWait(to)  BY <1>4, <1>5 DEF OthersWait
<1>7. /\ tries' \in Seq(TryType) /\ Len(tries') = Len(tries)
      /\ \A q \in DOMAIN tries :
            /\ tries'[q].at = tries[q].at /\ tries'[q].input = tries[q].input /\ tries'[q].saved = tries[q].saved
            /\ tries'[q].status = IF q = r THEN o ELSE tries[q].status
            /\ q # r => tries'[q] = tries[q]
  <2>0. PICK S : S = {r}  OBVIOUS
  <2>1. tries' = Marked(S, o)  BY <2>0 DEF SettleTry, Marked
  <2>2. S \in SUBSET DOMAIN tries /\ o \in {"awaiting", "succeeded", "failed", "cancelled"}  BY <2>0
  <2>3. /\ tries' \in Seq(TryType) /\ Len(tries') = Len(tries)
        /\ \A q \in DOMAIN tries :
              /\ tries'[q].at = tries[q].at /\ tries'[q].input = tries[q].input /\ tries'[q].saved = tries[q].saved
              /\ tries'[q].status = IF q \in S THEN o ELSE tries[q].status
              /\ q \notin S => tries'[q] = tries[q]
    BY <1>2, <2>1, <2>2, TriesTurned
  <2> QED  BY <2>0, <2>3
<1>8. Turned
  <2>1. Restated(rows, rows')  BY <1>4, <1>5 DEF Restated
  <2>2. \/ handoffs' = handoffs
        \/ \E q \in Working : /\ tries'[q].status = "succeeded"
                              /\ handoffs' = Append(handoffs, [at |-> <<Newest, tries[q].at[2]>>, run |-> q])
    <3>1. CASE o = "succeeded"  BY <3>1, <1>2, <1>3, <1>7, <1>0 DEF Working
    <3>2. CASE o = "failed"  BY <3>2, <1>3
    <3> QED  BY <3>1, <3>2
  <2> QED  BY <1>3, <1>5, <1>7, <2>1, <1>2, <2>2 DEF Turned
<1>9. to[1] = Newest /\ to[2] = tries[r].at[2] /\ to[2] \in DOMAIN graphs[to[1]] /\ to[1] \in 1..Newest
  <2>1. to[1] = Newest /\ to[2] = tries[r].at[2]  BY <1>0
  <2> QED  BY <2>1, <1>1, PlaceOf
<1>10. rows'[to[1]][to[2]].status \in Over
       /\ rows'[to[1]][to[2]].status = settled[to[1]][to[2]].status
  BY <1>4, <1>5, <1>9 DEF Over, Done, Waits
<1>11. WorkInv'  BY <1>1, <1>6, <1>8, <1>10, WorkTurned DEF Over, Done, Waits
<1>12. o = "succeeded" => \E h \in DOMAIN handoffs' : handoffs'[h].at = to
  <2> SUFFICES ASSUME o = "succeeded" PROVE \E h \in DOMAIN handoffs' : handoffs'[h].at = to  OBVIOUS
  <2>1. handoffs \in Seq(HandoffType)  BY DEF TypeInv, HandoffsInv
  <2> QED  BY <1>3, <2>1
<1>13. rows'[to[1]][to[2]].status # "running"
       /\ (to[1] = Newest /\ rows'[to[1]][to[2]].status = "succeeded" =>
              RowAt(to).status = "succeeded" \/ \E h \in DOMAIN handoffs' : handoffs'[h].at = to)
  BY <1>4, <1>9, <1>10, <1>12 DEF Over, Done
<1>14. \A q \in Working : \/ q \in Working'
                          \/ tries[q].at[2] = to[2] /\ to[1] = Newest
                          \/ tries[q].at = to /\ tries'[q].status = "cancelled"
  <2>1. DOMAIN tries' = DOMAIN tries  BY <1>8, TurnedGrows
  <2>2. \A q \in Working : q # r => q \in Working'  BY <2>1, <1>7 DEF Working
  <2>3. tries[r].at[2] = to[2] /\ to[1] = Newest  BY <1>9
  <2> QED  BY <2>2, <2>3
<1>15. ResultsFollow'  BY <1>1, <1>6, <1>8, <1>13, <1>14, ResultsTurned
<1> QED  BY <1>8, <1>11, <1>15, TurnedPreserves

\* Writing the status of one row and nothing else of the rows.
LEMMA StatusTurned ==
    ASSUME TypeInv, NEW p \in Places, NEW st \in Statuses, rows' = SetStatus(p, st)
    PROVE  /\ IsRows(rows') /\ Restated(rows, rows') /\ OthersWait(p)
           /\ rows'[p[1]][p[2]].status = st
<1>1. /\ IsRows(rows')
      /\ \A v \in 1..Newest : \A n \in DOMAIN graphs[v] :
            rows'[v][n] = IF <<v, n>> = p THEN [rows[v][n] EXCEPT !.status = st] ELSE rows[v][n]
  BY StatusWritten DEF TypeInv
<1>2. \A v \in 1..Newest : \A n \in DOMAIN graphs[v] : rows[v][n] \in RowType  BY DEF TypeInv, TableInv, IsRows
<1>3. rows'[p[1]][p[2]].status = st  BY <1>1, <1>2, PlaceOf DEF RowType
<1>4. Restated(rows, rows')  BY <1>1, <1>2 DEF Restated, RowType
<1> QED  BY <1>1, <1>3, <1>4 DEF OthersWait

\* The process of an attempt ends, and its outcome is awaited.
LEMMA EndTryInv ==
    ASSUME RevisionInv, NEW r \in DOMAIN tries, EndTry(r)
    PROVE  RevisionInv'
<1> USE DEF RevisionInv
<1>0. PICK p \in Places : p = tries[r].at  BY DEF RefersInv
<1>1. r \in Working /\ TableInv /\ IsRows(rows) /\ TriesInv  BY DEF EndTry, Working, TypeInv, TableInv
<1>2. /\ IsRows(rows') /\ Restated(rows, rows') /\ OthersWait(p)
      /\ \/ rows'[p[1]][p[2]].status = RowAt(p).status /\ RowAt(p).status \in Over
         \/ rows'[p[1]][p[2]].status = "awaiting"
  <2>1. CASE RowAt(p).status \in Over
    <3>1. rows' = rows  BY <2>1, <1>0 DEF EndTry
    <3> QED  BY <2>1, <3>1, <1>1, PlaceOf DEF Restated, OthersWait, RowAt
  <2>2. CASE RowAt(p).status \notin Over  BY <2>2, <1>0, StatusTurned DEF EndTry, Statuses
  <2> QED  BY <2>1, <2>2
<1>3. /\ tries' \in Seq(TryType) /\ Len(tries') = Len(tries)
      /\ \A q \in DOMAIN tries :
            /\ tries'[q].at = tries[q].at /\ tries'[q].input = tries[q].input /\ tries'[q].saved = tries[q].saved
            /\ tries'[q].status = IF q = r THEN "awaiting" ELSE tries[q].status
            /\ q # r => tries'[q] = tries[q]
  <2>0. PICK S : S = {r}  OBVIOUS
  <2>1. tries' = Marked(S, "awaiting")  BY <2>0 DEF EndTry, Marked
  <2>2. S \in SUBSET DOMAIN tries  BY <2>0
  <2>3. /\ tries' \in Seq(TryType) /\ Len(tries') = Len(tries)
        /\ \A q \in DOMAIN tries :
              /\ tries'[q].at = tries[q].at /\ tries'[q].input = tries[q].input /\ tries'[q].saved = tries[q].saved
              /\ tries'[q].status = IF q \in S THEN "awaiting" ELSE tries[q].status
              /\ q \notin S => tries'[q] = tries[q]
    BY <1>1, <2>1, <2>2, TriesTurned
  <2> QED  BY <2>0, <2>3
<1>4. Turned  BY <1>2, <1>3, <1>1 DEF Turned, EndTry
<1>5. \A q \in Working : q \in Working'
  <2>1. DOMAIN tries' = DOMAIN tries  BY <1>4, TurnedGrows
  <2> QED  BY <2>1, <1>3 DEF Working
<1>6. WorkInv'
  <2>1. rows'[p[1]][p[2]].status \notin Waits  BY <1>2 DEF Over, Done, Waits
  <2> QED  BY <2>1, <1>2, <1>4, WorkTurned
<1>7. ResultsFollow'  BY <1>2, <1>4, <1>5, ResultsTurned DEF Over, Done
<1> QED  BY <1>4, <1>6, <1>7, TurnedPreserves

\* A row is made ready again.
LEMMA RetryRowInv ==
    ASSUME RevisionInv, NEW p \in Places, NEW mode \in {"fresh", "continue"}, RetryRow(p, mode)
    PROVE  RevisionInv'
<1> USE DEF RevisionInv
<1>1. TableInv /\ TriesInv  BY DEF TypeInv
<1>2. p = <<p[1], p[2]>> /\ p[1] \in 1..Newest /\ p[2] \in DOMAIN graphs[p[1]] /\ RowAt(p) = rows[p[1]][p[2]] /\ RowAt(p) \in RowType
  BY <1>1, PlaceOf, GraphsTyped DEF RowAt
<1>3. PICK line : line = [RowAt(p) EXCEPT !.status = "ready", !.next = mode]  OBVIOUS
<1>4. line \in RowType /\ line.status = "ready" /\ line.attempts = RowAt(p).attempts
  BY <1>2, <1>3 DEF RowType, Statuses, Choices
<1>5. rows' = WithRow(p, line)  BY <1>2, <1>3 DEF RetryRow, WithRow
<1>6. /\ IsRows(rows')
      /\ \A v \in 1..Newest : \A n \in DOMAIN graphs[v] : rows'[v][n] = IF <<v, n>> = p THEN line ELSE rows[v][n]
  BY <1>1, <1>4, <1>5, RowWritten
<1>7. Restated(rows, rows') /\ OthersWait(p) /\ rows'[p[1]][p[2]].status = "ready"
  <2>1. Restated(rows, rows')  BY <1>4, <1>6, <1>2 DEF Restated
  <2> QED  BY <1>2, <1>4, <1>6, <2>1 DEF OthersWait
<1>8. PICK S : S = {r \in Working : tries[r].at = p}  OBVIOUS
<1>9. /\ tries' \in Seq(TryType) /\ Len(tries') = Len(tries)
      /\ \A q \in DOMAIN tries :
            /\ tries'[q].at = tries[q].at /\ tries'[q].input = tries[q].input /\ tries'[q].saved = tries[q].saved
            /\ tries'[q].status = IF q \in S THEN "cancelled" ELSE tries[q].status
            /\ q \notin S => tries'[q] = tries[q]
  <2>1. tries' = Marked(S, "cancelled")  BY <1>8 DEF RetryRow, Marked, Working
  <2>2. S \in SUBSET DOMAIN tries  BY <1>8 DEF Working
  <2> QED  BY <1>1, <2>1, <2>2, TriesTurned
<1>10. Turned
  <2>1. \A q \in DOMAIN tries : q \notin Working => tries'[q] = tries[q]  BY <1>8, <1>9
  <2> QED  BY <1>6, <1>7, <1>9, <2>1 DEF Turned, RetryRow
<1>11. DOMAIN tries' = DOMAIN tries  BY <1>10, TurnedGrows
<1>12. WorkInv'
  <2>1. \A r \in Working' : tries[r].at # p  BY <1>8, <1>9, <1>10, <1>11, TurnedWorking DEF Working
  <2> QED  BY <2>1, <1>7, <1>10, WorkTurned
<1>13. ResultsFollow'  BY <1>8, <1>9, <1>11, <1>7, <1>10, ResultsTurned DEF Working
<1> QED  BY <1>10, <1>12, <1>13, TurnedPreserves

\* A row is skipped, and those behind it may go on.
LEMMA SkipRowInv ==
    ASSUME RevisionInv, NEW p \in Places, SkipRow(p)
    PROVE  RevisionInv'
<1> USE DEF RevisionInv
<1>1. TableInv /\ "skipped" \in Statuses /\ p[1] \in 1..Newest /\ p[2] \in DOMAIN graphs[p[1]]
  BY PlaceOf DEF TypeInv, Statuses
<1>2. PICK rs : rs = SetStatus(p, "skipped")  OBVIOUS
<1>3. /\ IsRows(rs)
      /\ \A v \in 1..Newest : \A n \in DOMAIN graphs[v] :
            rs[v][n] = IF <<v, n>> = p THEN [rows[v][n] EXCEPT !.status = "skipped"] ELSE rows[v][n]
  BY <1>1, <1>2, StatusWritten
<1>4. rows' = Promoted(rs)  BY <1>2 DEF SkipRow
<1>5. /\ IsRows(rows') /\ Restated(rs, rows')
      /\ \A v \in 1..Newest : \A n \in DOMAIN graphs[v] :
            \/ rows'[v][n].status = rs[v][n].status
            \/ rows'[v][n].status \in Waits /\ rs[v][n].status \in Waits
  BY <1>1, <1>3, <1>4, PromotedRows DEF Waits
<1>6. \A v \in 1..Newest : \A n \in DOMAIN graphs[v] :
         /\ rs[v][n].attempts = rows[v][n].attempts
         /\ rs[v][n].status = IF <<v, n>> = p THEN "skipped" ELSE rows[v][n].status
  <2>1. \A v \in 1..Newest : \A n \in DOMAIN graphs[v] : rows[v][n] \in RowType  BY <1>1 DEF TableInv, IsRows
  <2> QED  BY <1>3, <2>1 DEF RowType
<1>7. Restated(rows, rows') /\ OthersWait(p) /\ rows'[p[1]][p[2]].status = "skipped"
  <2>1. Restated(rows, rows')  BY <1>5, <1>6 DEF Restated
  <2>2. OthersWait(p)  BY <1>5, <1>6 DEF OthersWait
  <2>3. rs[p[1]][p[2]].status = "skipped"  BY <1>1, <1>6, PlaceOf
  <2> QED  BY <2>1, <2>2, <2>3, <1>1, <1>5 DEF Waits
<1>8. Turned  BY <1>5, <1>7 DEF Turned, SkipRow, TypeInv, TriesInv
<1>9. Working' = Working  BY DEF SkipRow, Working
<1>10. WorkInv'  BY <1>7, <1>8, WorkTurned DEF Waits
<1>11. ResultsFollow'  BY <1>7, <1>8, <1>9, ResultsTurned
<1> QED  BY <1>8, <1>10, <1>11, TurnedPreserves

----
(* Steps that leave rows and attempts alone.                               *)

\* The results do not depend on the inputs.
LEMMA ResultsSame ==
    ASSUME RevisionInv, UNCHANGED <<graphs, rows, tries, handoffs>>
    PROVE  WorkInv' /\ ResultsFollow'
<1>1. Newest' = Newest /\ Graph' = Graph /\ Working' = Working  BY DEF Newest, Graph, Working
<1>2. \A p : RowAt(p)' = RowAt(p) /\ HandedBy(p)' = HandedBy(p)  BY DEF RowAt, HandedBy
<1>3. WorkInv'  BY <1>1 DEF RevisionInv, WorkInv, RowAt
<1>4. ResultsFollow'
  <2>1. \A n \in DOMAIN Graph' : rows'[Newest'][n].status = "succeeded" => HandedBy(<<Newest, n>>)' # {}
    <3>1. \A n \in DOMAIN Graph : rows[Newest][n].status = "succeeded" => HandedBy(<<Newest, n>>) # {}
      BY DEF RevisionInv, ResultsFollow
    <3>2. \A n \in DOMAIN Graph : HandedBy(<<Newest, n>>)' = HandedBy(<<Newest, n>>)  BY <1>1 DEF HandedBy
    <3> QED  BY <3>1, <3>2, <1>1
  <2> QED  BY <1>1, <2>1 DEF RevisionInv, ResultsFollow
<1> QED  BY <1>3, <1>4

\* The inputs may grow, and others than those in use may change what the user says of them.
LEMMA InputsPreserve ==
    ASSUME RevisionInv, UNCHANGED <<graphs, rows, tries, handoffs>>,
           inputs' \in Seq(InputType), DispatcherInv',
           \A i \in DOMAIN inputs :
              /\ i \in DOMAIN inputs' /\ inputs'[i].at = inputs[i].at /\ inputs'[i].sees = inputs[i].sees
              /\ inputs[i].run # 0 => inputs'[i] = inputs[i],
           \A i \in DOMAIN inputs' : i \notin DOMAIN inputs =>
              /\ inputs'[i].at \in Places
              /\ \A r \in inputs'[i].sees : r \in DOMAIN tries /\ tries[r].status = "succeeded",
           \A i \in DOMAIN inputs' :
              i \notin DOMAIN inputs \/ inputs'[i] # inputs[i] =>
                 /\ inputs'[i].run = 0
                 /\ inputs'[i].review = "confirmed" => inputs'[i].agreed = inputs'[i].saved /\ ~Lacks(inputs[i])'
                 /\ inputs'[i].review = "none" =>
                       /\ ~graphs[inputs'[i].at[1]][inputs'[i].at[2]].review
                       /\ inputs'[i].saved = 0 /\ ~Lacks(inputs[i])',
           dispatcher'.pc = "commit" => /\ dispatcher'.input \in DOMAIN inputs'
                                        /\ inputs'[dispatcher'.input].at = dispatcher'.at
    PROVE  RevisionInv'
<1> USE DEF RevisionInv
<1>1. Newest' = Newest /\ Places' = Places  BY DEF Newest, Places
<1>2. TypeInv'
  <2>1. TableInv'  BY <1>1 DEF TypeInv, TableInv, IsRows
  <2> QED  BY <2>1 DEF TypeInv, TriesInv, InputsInv, HandoffsInv
<1>3. Grown  BY <1>1 DEF Grown
<1>4. RefersInv'
  <2>1. \A i \in DOMAIN inputs' : /\ inputs'[i].at \in Places /\ inputs'[i].sees \subseteq DOMAIN tries
    BY DEF RefersInv
  <2>2. \A i \in DOMAIN inputs' : inputs'[i].run \in 0..Len(tries)
    <3>1. 0 \in 0..Len(tries)  BY LenProperties DEF TypeInv, TriesInv
    <3> QED  BY <3>1 DEF RefersInv
  <2> QED  BY <1>1, <2>1, <2>2 DEF RefersInv
<1>5. CountInv' /\ StartedIsFrozen'  BY <1>1 DEF CountInv, StartedIsFrozen
<1>6. HandInv'
  <2>1. \A i \in DOMAIN inputs' : \A r \in inputs'[i].sees : tries'[r].status = "succeeded"  BY DEF HandInv
  <2> QED  BY <2>1 DEF HandInv
<1>7. GivenAsAgreed'  BY <1>3, GivenStays DEF GivenAsAgreed, Given, TypeInv
<1>8. InputInv'
  <2> SUFFICES ASSUME NEW i \in DOMAIN inputs'
               PROVE  /\ inputs'[i].review = "confirmed" => inputs'[i].agreed = inputs'[i].saved /\ ~Lacks(inputs[i])'
                      /\ inputs'[i].review = "none" /\ (inputs'[i].run # 0 \/ inputs'[i].at[1] = Newest) =>
                            /\ ~graphs[inputs'[i].at[1]][inputs'[i].at[2]].review
                            /\ inputs'[i].saved = 0 /\ ~Lacks(inputs[i])'
                      /\ inputs'[i].run # 0 => inputs'[i].review # "awaiting"
    BY <1>1 DEF InputInv
  <2>1. CASE i \notin DOMAIN inputs \/ inputs'[i] # inputs[i]  BY <2>1
  <2>2. CASE i \in DOMAIN inputs /\ inputs'[i] = inputs[i]
    <3>1. Lacks(inputs[i])' = Lacks(inputs[i])  BY <2>2, <1>3, LacksStays
    <3> QED  BY <2>2, <3>1 DEF InputInv
  <2> QED  BY <2>1, <2>2
<1>9. WorkInv' /\ ResultsFollow'  BY ResultsSame
<1> QED  BY <1>2, <1>4, <1>5, <1>6, <1>7, <1>8, <1>9

\* The dispatcher alone.
LEMMA DispatcherPreserves ==
    ASSUME RevisionInv, UNCHANGED <<graphs, rows, tries, inputs, handoffs>>, DispatcherInv',
           dispatcher'.pc = "commit" => dispatcher' = dispatcher
    PROVE  RevisionInv'
<1>1. inputs' \in Seq(InputType)  BY DEF RevisionInv, TypeInv, InputsInv
<1> QED  BY <1>1, InputsPreserve DEF RevisionInv, RefersInv

\* A run is paused or resumed.
LEMMA SuspendInv ==
    ASSUME RevisionInv, Pause \/ Resume
    PROVE  RevisionInv'
<1>1. UNCHANGED <<graphs, rows, tries, inputs, handoffs, dispatcher>> /\ suspended' \in BOOLEAN  BY DEF Pause, Resume
<1>2. Places' = Places  BY <1>1 DEF Places, Newest
<1>3. DispatcherInv'  BY <1>1, <1>2 DEF RevisionInv, TypeInv, DispatcherInv, Resting
<1> QED  BY <1>1, <1>3, DispatcherPreserves

\* The dispatcher lists a row that is due.
LEMMA TickListsInv ==
    ASSUME RevisionInv, NEW n \in DOMAIN Graph, TickLists(n)
    PROVE  RevisionInv'
<1>1. dispatcher' = [pc |-> "prepare", at |-> <<Newest, n>>, input |-> 0, saved |-> 0, next |-> "policy"]
  BY DEF TickLists, Resting
<1>2. DispatcherInv'
  BY PlaceOf, GraphsTyped, <1>1, RevisionBounds DEF RevisionInv, TypeInv, DispatcherInv, TickLists, Choices, Places,
    Newest, Graph
<1> QED  BY <1>1, <1>2, DispatcherPreserves DEF TickLists

----
(* What the user says of an input.                                         *)

\* The last input of a place is one of them.
LEMMA LatestInput ==
    ASSUME InputsInv, NEW p, InputsAt(p) # {}
    PROVE  /\ Latest(InputsAt(p)) \in DOMAIN inputs /\ inputs[Latest(InputsAt(p))].at = p
           /\ inputs[Latest(InputsAt(p))] \in InputType
<1>1. DOMAIN inputs = 1..Len(inputs) /\ Len(inputs) \in Nat /\ \A i \in DOMAIN inputs : inputs[i] \in InputType
  BY LenProperties, ElementOfSeq DEF InputsInv
<1>2. InputsAt(p) \in SUBSET (1..Len(inputs))  BY <1>1 DEF InputsAt
<1>3. Latest(InputsAt(p)) \in InputsAt(p)  BY <1>1, <1>2, LatestOf
<1> QED  BY <1>1, <1>3 DEF InputsAt

\* An input that waits for the user is changed, and waits or is agreed to.
LEMMA EditPreserves ==
    ASSUME RevisionInv, NEW k \in DOMAIN inputs, NEW i \in InputType,
           UNCHANGED <<graphs, rows, tries, handoffs, suspended, dispatcher>>,
           inputs' = [inputs EXCEPT ![k] = i], inputs[k].review = "awaiting",
           i.at = inputs[k].at, i.sees = inputs[k].sees, i.run = inputs[k].run, i.review # "none",
           i.review = "confirmed" => i.agreed = i.saved /\ i.filled = inputs[k].filled /\ ~Lacks(inputs[k])
    PROVE  RevisionInv'
<1>1. inputs \in Seq(InputType) /\ k \in 1..Len(inputs)  BY LenProperties DEF RevisionInv, TypeInv, InputsInv
<1>2. /\ inputs' \in Seq(InputType) /\ Len(inputs') = Len(inputs)
      /\ \A j \in 1..Len(inputs) : inputs'[j] = IF j = k THEN i ELSE inputs[j]
  BY <1>1, ExceptSeq
<1>3. DOMAIN inputs' = DOMAIN inputs /\ DOMAIN inputs = 1..Len(inputs) /\ inputs'[k] = i  BY <1>1, <1>2, LenProperties
<1>4. inputs[k].run = 0  BY DEF RevisionInv, InputInv
<1>5. \A j \in DOMAIN inputs : /\ inputs'[j].at = inputs[j].at /\ inputs'[j].sees = inputs[j].sees
                               /\ inputs[j].run # 0 => inputs'[j] = inputs[j]
  BY <1>2, <1>3, <1>4
<1>6. Grown  BY <1>3, <1>5 DEF Grown, Newest
<1>7. i.review = "confirmed" => ~Lacks(inputs[k])'  BY <1>3, <1>6, LacksStays DEF RevisionInv
<1>8. DispatcherInv'  BY DEF RevisionInv, TypeInv, DispatcherInv, Resting, Places, Newest
<1> QED  BY <1>2, <1>3, <1>5, <1>8, <1>4, <1>7, InputsPreserve DEF RevisionInv, RefersInv

\* The user confirms an input.
LEMMA ConfirmInputInv ==
    ASSUME RevisionInv, NEW p \in Places, NEW e \in 0..MaxSaves, ConfirmInput(p, e)
    PROVE  RevisionInv'
<1>1. PICK k : k = Latest(InputsAt(p))  OBVIOUS
<1>2. k \in DOMAIN inputs /\ inputs[k] \in InputType  BY <1>1, LatestInput DEF RevisionInv, TypeInv, ConfirmInput
<1>3. inputs[k].review = "awaiting" /\ e = inputs[k].saved /\ ~Lacks(inputs[k])  BY <1>1 DEF ConfirmInput, Agreeable
<1>4. PICK i : i = [inputs[k] EXCEPT !.review = "confirmed", !.agreed = e]  OBVIOUS
<1>5. i \in InputType /\ i.at = inputs[k].at /\ i.sees = inputs[k].sees /\ i.run = inputs[k].run
      /\ i.review = "confirmed" /\ i.agreed = i.saved /\ i.filled = inputs[k].filled
  <2>1. i = [at |-> inputs[k].at, sees |-> inputs[k].sees, saved |-> inputs[k].saved, filled |-> inputs[k].filled,
             review |-> "confirmed", run |-> inputs[k].run, agreed |-> e]
    BY <1>4, <1>2 DEF InputType
  <2>2. e \in Int  BY RevisionBounds
  <2>3. i \in InputType  BY <1>2, <2>1, <2>2 DEF InputType
  <2> QED  BY <1>3, <2>1, <2>3
<1>6. inputs' = [inputs EXCEPT ![k] = i]  BY <1>1, <1>2, <1>4 DEF ConfirmInput
<1> QED  BY <1>2, <1>3, <1>5, <1>6, EditPreserves DEF ConfirmInput

\* The user edits an input.
LEMMA SaveInputInv ==
    ASSUME RevisionInv, NEW p \in Places, NEW fills \in BOOLEAN, SaveInput(p, fills)
    PROVE  RevisionInv'
<1>1. PICK k : k = Latest(InputsAt(p))  OBVIOUS
<1>2. k \in DOMAIN inputs /\ inputs[k] \in InputType  BY <1>1, LatestInput DEF RevisionInv, TypeInv, SaveInput
<1>3. inputs[k].review = "awaiting" /\ inputs[k].saved < MaxSaves  BY <1>1 DEF SaveInput, Editable
<1>4. PICK i : i = [inputs[k] EXCEPT !.saved = inputs[k].saved + 1, !.filled = fills]  OBVIOUS
<1>5. i \in InputType /\ i.at = inputs[k].at /\ i.sees = inputs[k].sees /\ i.run = inputs[k].run
      /\ i.review = "awaiting"
  <2>1. i = [at |-> inputs[k].at, sees |-> inputs[k].sees, saved |-> inputs[k].saved + 1, filled |-> fills,
             review |-> inputs[k].review, run |-> inputs[k].run, agreed |-> inputs[k].agreed]
    BY <1>4, <1>2 DEF InputType
  <2>2. inputs[k].saved \in 0..MaxSaves  BY <1>2 DEF InputType
  <2>3. inputs[k].saved + 1 \in 0..MaxSaves  BY <1>3, <2>2, RevisionBounds
  <2>4. i \in InputType  BY <1>2, <2>1, <2>3 DEF InputType
  <2> QED  BY <1>3, <2>1, <2>4
<1>6. inputs' = [inputs EXCEPT ![k] = i]  BY <1>1, <1>2, <1>4 DEF SaveInput
<1> QED  BY <1>2, <1>3, <1>5, <1>6, EditPreserves DEF SaveInput

----
(* The dispatcher prepares an input.                                       *)

\* A compiled input is typed.
LEMMA InputTyped ==
    ASSUME NEW at \in Nat \X Nodes, NEW sees \in SUBSET Nat, NEW review \in {"none", "awaiting"}
    PROVE  [at |-> at, sees |-> sees, saved |-> 0, filled |-> FALSE, review |-> review, run |-> 0, agreed |-> -1]
              \in InputType
<1>1. 0 \in 0..MaxSaves  BY RevisionBounds
<1> QED  BY <1>1 DEF InputType

\* What is compiled comes from attempts that succeeded.
LEMMA CompiledInput ==
    ASSUME RevisionInv, NEW p \in Places
    PROVE  /\ Compile(p) \in InputType /\ Compile(p).at = p /\ Compile(p).saved = 0 /\ Compile(p).run = 0
           /\ Compile(p).filled = FALSE
           /\ \A r \in Compile(p).sees : r \in DOMAIN tries /\ tries[r].status = "succeeded"
<1> USE DEF RevisionInv
<1>1. DOMAIN handoffs = 1..Len(handoffs) /\ Len(handoffs) \in Nat  BY LenProperties DEF TypeInv, HandoffsInv
<1>2. ASSUME NEW q, HandedBy(q) # {}
      PROVE  LET r == handoffs[Latest(HandedBy(q))].run IN r \in DOMAIN tries /\ tries[r].status = "succeeded"
  <2>1. HandedBy(q) \in SUBSET (1..Len(handoffs))  BY <1>1 DEF HandedBy
  <2>2. Latest(HandedBy(q)) \in DOMAIN handoffs  BY <1>1, <1>2, <2>1, LatestOf
  <2> QED  BY <2>2 DEF RefersInv, HandInv
<1>3. \A r \in Compile(p).sees : r \in DOMAIN tries /\ tries[r].status = "succeeded"  BY <1>2 DEF Compile, Provided
<1>4. Compile(p).sees \in SUBSET Nat  BY <1>3, LenProperties DEF TypeInv, TriesInv
<1>5. Compile(p) = [at |-> p, sees |-> Compile(p).sees, saved |-> 0, filled |-> FALSE, review |-> "none",
                    run |-> 0, agreed |-> -1]
  BY DEF Compile
<1>6. p \in Nat \X Nodes  BY GraphsTyped DEF TypeInv
<1>7. Compile(p) \in InputType
  <2>1. PICK s : s = Compile(p).sees  OBVIOUS
  <2>2. s \in SUBSET Nat  BY <1>4, <2>1
  <2> QED  BY <1>6, <1>5, <2>1, <2>2, InputTyped
<1> QED  BY <1>3, <1>5, <1>7

\* The dispatcher compiles an input, or finds one.
LEMMA PrepareInputInv ==
    ASSUME RevisionInv, PrepareInput
    PROVE  RevisionInv'
<1> USE DEF RevisionInv
<1>1. PICK p \in Places : p = dispatcher.at  BY DEF TypeInv, DispatcherInv, PrepareInput
<1>2. PICK new : new = [Compile(p) EXCEPT !.review = IF AsksReview(Compile(p)) THEN "awaiting" ELSE "none"]  OBVIOUS
<1>3. /\ new \in InputType /\ new.at = p /\ new.saved = 0 /\ new.run = 0 /\ new.filled = FALSE
      /\ new.sees = Compile(p).sees /\ new.review \in {"awaiting", "none"}
      /\ new.review = "none" => ~AsksReview(Compile(p))
  <2>1. new.review = IF AsksReview(Compile(p)) THEN "awaiting" ELSE "none"  BY <1>2 DEF Compile
  <2>2. p \in Nat \X Nodes  BY GraphsTyped DEF TypeInv
  <2>3. PICK s \in SUBSET Nat : s = Compile(p).sees  BY CompiledInput DEF InputType
  <2>4. new = [at |-> p, sees |-> s, saved |-> 0, filled |-> FALSE, review |-> new.review, run |-> 0, agreed |-> -1]
    BY <1>2, <2>1, <2>3 DEF Compile
  <2>5. new \in InputType  BY <2>1, <2>2, <2>4, InputTyped
  <2> QED  BY <2>1, <1>2, <2>5 DEF Compile
<1>4. UNCHANGED <<graphs, rows, tries, handoffs, suspended>>  BY DEF PrepareInput
<1>5. inputs \in Seq(InputType) /\ DOMAIN inputs = 1..Len(inputs) /\ Len(inputs) \in Nat
  BY LenProperties DEF TypeInv, InputsInv
<1>6. PICK i : i = IF Waiting(p) # {} THEN Latest(InputsAt(p)) ELSE Len(inputs')  OBVIOUS
<1>7. /\ inputs' = IF Waiting(p) # {} THEN inputs ELSE Append(inputs, new)
      /\ dispatcher' = IF inputs'[i].review = "awaiting" \/ Lacks(inputs'[i]) THEN Resting
                       ELSE [dispatcher EXCEPT !.pc = "commit", !.input = i, !.saved = inputs'[i].saved,
                                               !.next = RowAt(p).next]
  BY <1>1, <1>2, <1>6 DEF PrepareInput
<1>8. /\ inputs' \in Seq(InputType) /\ DOMAIN inputs \subseteq DOMAIN inputs'
      /\ \A j \in DOMAIN inputs : inputs'[j] = inputs[j]
      /\ \A j \in DOMAIN inputs' : j \notin DOMAIN inputs => inputs'[j] = new
      /\ i \in DOMAIN inputs' /\ inputs'[i].at = p /\ inputs'[i] \in InputType
  <2>1. CASE Waiting(p) # {}
    <3>1. InputsAt(p) # {}  BY <2>1 DEF Waiting
    <3> QED  BY <2>1, <3>1, <1>6, LatestInput, <1>5, <1>7 DEF TypeInv
  <2>2. CASE Waiting(p) = {}
    <3>1. inputs' = Append(inputs, new)  BY <2>2, <1>7
    <3> QED  BY <3>1, <1>3, <1>5, <2>2, <1>6, LenProperties
  <2> QED  BY <2>1, <2>2
<1>9. Newest' = Newest /\ Places' = Places  BY <1>4 DEF Newest, Places
<1>10. ASSUME NEW j \in DOMAIN inputs', j \notin DOMAIN inputs
       PROVE  Lacks(inputs[j])' <=> Lacks(Compile(p))
  <2>1. inputs'[j] = new  BY <1>8, <1>10
  <2>2. /\ inputs'[j].at = Compile(p).at /\ inputs'[j].sees = Compile(p).sees
        /\ inputs'[j].filled = Compile(p).filled
    BY <1>3, <2>1, CompiledInput
  <2> QED  BY <1>4, <2>2 DEF Lacks
<1>11. \A j \in DOMAIN inputs' : j \notin DOMAIN inputs /\ inputs'[j].review = "none" =>
          /\ ~graphs[inputs'[j].at[1]][inputs'[j].at[2]].review
          /\ inputs'[j].saved = 0 /\ ~Lacks(inputs[j])'
  BY <1>3, <1>8, <1>10, CompiledInput DEF AsksReview
<1>12. dispatcher' = Resting \/ dispatcher' = [pc |-> "commit", at |-> p, input |-> i, saved |-> inputs'[i].saved, next |-> RowAt(p).next]
  <2>1. dispatcher \in [pc : {"prepare", "commit"}, at : Places, input : Nat, saved : 0..MaxSaves, next : Choices]
    BY DEF TypeInv, DispatcherInv, PrepareInput
  <2> QED  BY <2>1, <1>1, <1>7
<1>13. DispatcherInv'
  <2>1. RowAt(p).next \in Choices /\ inputs'[i].saved \in 0..MaxSaves /\ i \in Nat
    BY <1>8, GraphsTyped, LenProperties DEF RowType, InputType, TypeInv
  <2> QED  BY <2>1, <1>4, <1>9, <1>12 DEF TypeInv, DispatcherInv, Resting
<1>14. \A j \in DOMAIN inputs' : j \notin DOMAIN inputs \/ inputs'[j] # inputs[j] =>
          /\ inputs'[j].run = 0
          /\ inputs'[j].review # "confirmed"
          /\ inputs'[j].review = "none" =>
                /\ ~graphs[inputs'[j].at[1]][inputs'[j].at[2]].review
                /\ inputs'[j].saved = 0 /\ ~Lacks(inputs[j])'
  BY <1>3, <1>8, <1>11
<1>15. ASSUME NEW j \in DOMAIN inputs', j \notin DOMAIN inputs
       PROVE  /\ inputs'[j].at \in Places
              /\ \A r \in inputs'[j].sees : r \in DOMAIN tries /\ tries[r].status = "succeeded"
  <2>1. inputs'[j] = new  BY <1>8, <1>15
  <2> QED  BY <1>3, <2>1, CompiledInput
<1> QED  BY <1>4, <1>8, <1>13, <1>12, <1>14, <1>15, InputsPreserve DEF Resting

----
(* The dispatcher starts an attempt.                                       *)

\* The dispatcher starts an attempt, if the run is not paused and the row and its input are as it found them.
LEMMA CommitTryInv ==
    ASSUME RevisionInv, CommitTry
    PROVE  RevisionInv' /\ (Len(tries') # Len(tries) => ~suspended)
<1> USE DEF RevisionInv
<1>1. CASE ~(StillDue /\ StillGiven)
  <2>1. UNCHANGED <<graphs, rows, tries, inputs, handoffs, suspended>> /\ dispatcher' = Resting  BY <1>1 DEF CommitTry
  <2>2. DispatcherInv'  BY <2>1 DEF TypeInv, DispatcherInv, Resting
  <2> QED  BY <2>1, <2>2, DispatcherPreserves DEF Resting
<1>2. CASE StillDue /\ StillGiven
  <2>1. PICK p \in Places, k \in DOMAIN inputs :
          /\ p = dispatcher.at /\ k = dispatcher.input /\ inputs[k].at = p
    BY DEF TypeInv, DispatcherInv, CommitTry, RefersInv
  <2>2. PICK e \in 0..MaxSaves, mode \in Choices : e = dispatcher.saved /\ mode = dispatcher.next
    BY DEF TypeInv, DispatcherInv, CommitTry
  <2>3. PICK n \in Nat : n = Len(tries) + 1  BY LenProperties DEF TypeInv, TriesInv
  <2>4. PICK try : try = [at |-> p, status |-> "running", input |-> k, saved |-> e, mode |-> mode]  OBVIOUS
  <2>5. PICK line : line = [status |-> "running", attempts |-> RowAt(p).attempts + 1, next |-> "policy"]  OBVIOUS
  <2>6. PICK i : i = [inputs[k] EXCEPT !.run = n]  OBVIOUS
  <2>7. /\ tries' = Append(tries, try) /\ rows' = WithRow(p, line) /\ inputs' = [inputs EXCEPT ![k] = i]
        /\ UNCHANGED <<graphs, handoffs, suspended>> /\ dispatcher' = Resting /\ Len(tries) < MaxTries
    <3>1. tries' = Append(tries, try)  BY <1>2, <2>1, <2>2, <2>4 DEF CommitTry
    <3>2. rows' = WithRow(p, line)  BY <1>2, <2>1, <2>5 DEF CommitTry, WithRow, RowAt
    <3>3. inputs' = [inputs EXCEPT ![k] = i]  BY <1>2, <2>1, <2>3, <2>6 DEF CommitTry
    <3> QED  BY <3>1, <3>2, <3>3 DEF CommitTry
  <2>8. /\ ~suspended /\ p[1] = Newest /\ RowAt(p).status = "ready"
        /\ inputs[k].run = 0 /\ inputs[k].review \in {"none", "confirmed"} /\ inputs[k].saved = e
    BY <1>2, <2>1, <2>2 DEF StillDue, StillGiven
  <2>9. p = <<p[1], p[2]>> /\ p[2] \in DOMAIN Graph /\ p[1] \in 1..Newest /\ p[2] \in DOMAIN graphs[p[1]] /\ RowAt(p) = rows[p[1]][p[2]]
    BY <2>8, PlaceOf DEF Graph, RowAt
  <2>10. /\ tries \in Seq(TryType) /\ DOMAIN tries = 1..Len(tries) /\ Len(tries) \in Nat
         /\ inputs \in Seq(InputType) /\ DOMAIN inputs = 1..Len(inputs) /\ inputs[k] \in InputType
    BY LenProperties, ElementOfSeq DEF TypeInv, TriesInv, InputsInv
  \* The attempt.
  <2>11. try \in TryType
    <3>1. p \in Nat \X Nodes /\ k \in Nat /\ e \in Nat  BY <2>10, GraphsTyped, RevisionBounds DEF TypeInv
    <3> QED  BY <2>4, <3>1 DEF TryType
  <2>12. /\ tries' \in Seq(TryType) /\ Len(tries') = n /\ tries'[n] = try /\ DOMAIN tries' = 1..n
         /\ \A r \in DOMAIN tries : tries'[r] = tries[r]
    BY <2>3, <2>7, <2>10, <2>11, LenProperties
  <2>13. DOMAIN tries' = DOMAIN tries \cup {n} /\ n \notin DOMAIN tries  BY <2>3, <2>10, <2>12
  <2>14. n <= MaxTries /\ Len(tries) < n  BY <2>3, <2>7, <2>10, RevisionBounds
  \* Its row.
  <2>15. line \in RowType
    <3>1. RowAt(p).attempts \in Nat /\ RowAt(p).attempts <= Len(tries)
      BY <2>9, GraphsTyped DEF CountInv, RowType, TypeInv
    <3>2. RowAt(p).attempts + 1 \in 0..MaxTries  BY <3>1, <2>7, <2>10, RevisionBounds
    <3> QED  BY <2>5, <3>2 DEF RowType, Statuses, Choices
  <2>16. /\ IsRows(rows')
         /\ \A v \in 1..Newest : \A m \in DOMAIN graphs[v] :
               rows'[v][m] = IF <<v, m>> = p THEN line ELSE rows[v][m]
    BY <2>7, <2>15, RowWritten DEF TypeInv
  \* Its input.
  <2>17. i \in InputType /\ i.at = p /\ i.sees = inputs[k].sees /\ i.filled = inputs[k].filled /\ i.run = n
         /\ i.review = inputs[k].review /\ i.saved = inputs[k].saved /\ i.agreed = inputs[k].agreed
    <3>1. i = [at |-> inputs[k].at, sees |-> inputs[k].sees, saved |-> inputs[k].saved, filled |-> inputs[k].filled,
               review |-> inputs[k].review, run |-> n, agreed |-> inputs[k].agreed]
      BY <2>6, <2>10 DEF InputType
    <3>2. i \in InputType  BY <2>10, <3>1 DEF InputType
    <3> QED  BY <2>1, <3>1, <3>2
  <2>18. /\ inputs' \in Seq(InputType) /\ DOMAIN inputs' = DOMAIN inputs /\ inputs'[k] = i
         /\ \A j \in DOMAIN inputs : j # k => inputs'[j] = inputs[j]
    <3>1. /\ inputs' \in Seq(InputType) /\ Len(inputs') = Len(inputs)
          /\ \A j \in 1..Len(inputs) : inputs'[j] = IF j = k THEN i ELSE inputs[j]
      BY <2>7, <2>10, <2>17, ExceptSeq
    <3> QED  BY <3>1, <2>10, LenProperties
  \* What grows.
  <2>19. Newest' = Newest /\ Places' = Places /\ Graph' = Graph  BY <2>7 DEF Newest, Places, Graph
  <2>20. Grown  BY <2>8, <2>12, <2>13, <2>17, <2>18, <2>19, <2>1, <2>7 DEF Grown
  <2>21. \A j \in DOMAIN inputs : Lacks(inputs[j])' = Lacks(inputs[j])
    <3> SUFFICES ASSUME NEW j \in DOMAIN inputs PROVE Lacks(inputs[j])' = Lacks(inputs[j])  OBVIOUS
    <3>1. inputs'[j].filled = inputs[j].filled  BY <2>17, <2>18
    <3> QED  BY <2>20, <3>1, LacksStays
  <2>22. TypeInv'
    <3>1. TableInv'  BY <2>7, <2>16, <2>19 DEF TypeInv, TableInv, IsRows
    <3>2. DispatcherInv'  BY <2>7 DEF TypeInv, DispatcherInv, Resting
    <3> QED  BY <3>1, <2>7, <2>12, <2>14, <2>18, <3>2 DEF TypeInv, TriesInv, InputsInv, HandoffsInv
  <2>23. RefersInv'
    <3>1. \A r \in DOMAIN tries' : tries'[r].at \in Places /\ tries'[r].input \in DOMAIN inputs
      <4>1. tries'[n].at = p /\ tries'[n].input = k  BY <2>4, <2>12
      <4> QED  BY <4>1, <2>12, <2>13 DEF RefersInv
    <3>2. \A j \in DOMAIN inputs : /\ inputs'[j].at \in Places /\ inputs'[j].sees \subseteq DOMAIN tries'
      BY <2>1, <2>13, <2>17, <2>18 DEF RefersInv
    <3>3. \A j \in DOMAIN inputs : inputs'[j].run \in 0..n
      <4>1. \A j \in DOMAIN inputs : inputs[j].run \in 0..n  BY <2>3, <2>10, <2>14 DEF RefersInv
      <4> QED  BY <2>17, <2>18, <4>1
    <3>4. \A h \in DOMAIN handoffs' : handoffs'[h].at \in Places /\ handoffs'[h].run \in DOMAIN tries'
      BY <2>7, <2>13 DEF RefersInv
    <3> QED  BY <2>7, <2>12, <2>18, <2>19, <3>1, <3>2, <3>3, <3>4 DEF RefersInv, Resting
  <2>24. \A v \in 1..Newest : \A m \in DOMAIN graphs[v] :
            /\ rows'[v][m].attempts <= n
            /\ rows[v][m].attempts > 0 => rows'[v][m].attempts > 0
    <3>1. line.attempts = RowAt(p).attempts + 1  BY <2>5
    <3>2. \A v \in 1..Newest : \A m \in DOMAIN graphs[v] : rows[v][m].attempts \in Nat /\ rows[v][m].attempts <= Len(tries)
      BY DEF TypeInv, TableInv, IsRows, RowType, CountInv
    <3>3. RowAt(p).attempts \in Nat /\ RowAt(p).attempts <= Len(tries)  BY <2>9, <3>2
    <3>4. line.attempts <= n /\ line.attempts > 0  BY <3>1, <3>3, <2>3, <2>10
    <3>5. \A v \in 1..Newest : \A m \in DOMAIN graphs[v] : rows[v][m].attempts <= n  BY <3>2, <2>10, <2>14
    <3> QED  BY <2>16, <3>4, <3>5
  <2>25. CountInv'
    <3>1. ASSUME NEW r \in DOMAIN tries', NEW v \in tries'[r].at[1]..Newest
          PROVE  tries'[r].at[2] \in DOMAIN graphs[v] /\ rows'[v][tries'[r].at[2]].attempts > 0
      <4>1. CASE r \in DOMAIN tries
        <5>1. tries[r].at \in Places /\ v \in tries[r].at[1]..Newest /\ tries'[r] = tries[r]
          BY <3>1, <4>1, <2>12 DEF RefersInv
        <5>2. v \in 1..Newest  BY <5>1, PlaceOf, GraphsTyped DEF TypeInv
        <5> QED  BY <5>1, <5>2, <4>1, <2>24 DEF CountInv
      <4>2. CASE r = n
        <5>1. tries'[r].at = p /\ v = Newest  BY <3>1, <4>2, <2>4, <2>8, <2>9, <2>12, GraphsTyped DEF TypeInv
        <5>2. rows'[v][p[2]] = line  BY <5>1, <2>8, <2>9, <2>16 DEF Graph
        <5>3. line.attempts > 0  BY <2>5, <2>9, GraphsTyped DEF RowType, TypeInv
        <5> QED  BY <5>1, <5>2, <5>3, <2>9 DEF Graph
      <4> QED  BY <4>1, <4>2, <2>13
    <3> QED  BY <2>7, <2>12, <2>19, <2>24, <3>1 DEF CountInv
  <2>26. Working' = Working \cup {n}
    <3>1. n \in Working'  BY <2>4, <2>12, <2>13 DEF Working
    <3> QED  BY <3>1, <2>12, <2>13 DEF Working
  <2>27. \A r \in Working : tries[r].at # p /\ tries[r].at \in Places /\ r \in DOMAIN tries
    BY <2>8 DEF WorkInv, Working, RefersInv
  <2>28. WorkInv'
    <3>1. ASSUME NEW r \in Working
          PROVE  rows'[tries[r].at[1]][tries[r].at[2]].status \notin Waits
      BY <2>27, PlaceOf, <2>16 DEF WorkInv, RowAt, Waits
    <3>2. rows'[p[1]][p[2]].status = "running"  BY <2>5, <2>8, <2>9, <2>16 DEF Graph
    <3>3. ASSUME NEW r \in Working'
          PROVE  rows'[tries'[r].at[1]][tries'[r].at[2]].status \notin Waits
      <4>1. CASE r \in Working  BY <2>12, <2>27, <3>1, <4>1
      <4>2. CASE r = n
        <5>1. tries'[r].at = p  BY <2>4, <2>12, <4>2
        <5> QED  BY <3>2, <5>1 DEF Waits
      <4> QED  BY <2>26, <4>1, <4>2
    <3> QED  BY <3>3 DEF WorkInv, RowAt, Waits
  <2>29. HandInv'
    <3>1. \A h \in DOMAIN handoffs' : tries'[handoffs'[h].run].status = "succeeded"
      BY <2>7, <2>12 DEF HandInv, RefersInv
    <3>2. \A j \in DOMAIN inputs' : \A r \in inputs'[j].sees : tries'[r].status = "succeeded"
      BY <2>17, <2>18, <2>12 DEF HandInv, RefersInv
    <3> QED  BY <3>1, <3>2 DEF HandInv
  <2>30. InputInv'
    <3> SUFFICES ASSUME NEW j \in DOMAIN inputs
                 PROVE  /\ inputs'[j].review = "confirmed" => inputs'[j].agreed = inputs'[j].saved /\ ~Lacks(inputs[j])
                        /\ inputs'[j].review = "none" /\ (inputs'[j].run # 0 \/ inputs'[j].at[1] = Newest) =>
                              /\ ~graphs[inputs'[j].at[1]][inputs'[j].at[2]].review
                              /\ inputs'[j].saved = 0 /\ ~Lacks(inputs[j])
                        /\ inputs'[j].run # 0 => inputs'[j].review # "awaiting"
      BY <2>7, <2>18, <2>19, <2>21 DEF InputInv
    <3>1. CASE j = k  BY <3>1, <2>1, <2>8, <2>17, <2>18 DEF InputInv
    <3>2. CASE j # k  BY <3>2, <2>18 DEF InputInv
    <3> QED  BY <3>1, <3>2
  <2>31. GivenAsAgreed'
    <3>1. \A r \in DOMAIN tries : Given(r)'  BY <2>20, GivenStays DEF GivenAsAgreed, Given, TypeInv
    <3>2. Given(n)'
      <4>1. tries'[n].input = k /\ tries'[n].at = p /\ tries'[n].saved = e  BY <2>4, <2>12
      <4>2. ~Lacks(inputs[k]) /\ (graphs[p[1]][p[2]].review \/ inputs[k].saved > 0 => inputs[k].agreed = e)
        <5>1. CASE inputs[k].review = "confirmed"  BY <5>1, <2>8 DEF InputInv
        <5>2. CASE inputs[k].review = "none"  BY <5>2, <2>1, <2>8 DEF InputInv
        <5> QED  BY <5>1, <5>2, <2>8
      <4>3. ~Lacks(inputs[k])'  BY <4>2, <2>21
      <4>4. ~Lacks(inputs[tries[n].input])'  BY <4>1, <4>3 DEF Lacks
      <4> QED  BY <4>1, <4>2, <4>4, <2>7, <2>8, <2>17, <2>18 DEF Given
    <3> QED  BY <3>1, <3>2, <2>13 DEF GivenAsAgreed, Given
  <2>32. StartedIsFrozen'
    <3>1. ASSUME NEW r \in DOMAIN tries', NEW v \in tries'[r].at[1]..Newest
          PROVE  /\ tries'[r].at[2] \in DOMAIN graphs[v]
                 /\ graphs[v][tries'[r].at[2]] = graphs[tries'[r].at[1]][tries'[r].at[2]]
      <4>1. CASE r \in DOMAIN tries  BY <3>1, <4>1, <2>12 DEF StartedIsFrozen
      <4>2. CASE r = n
        <5>1. tries'[r].at = p /\ v = Newest  BY <3>1, <4>2, <2>4, <2>8, <2>9, <2>12, GraphsTyped DEF TypeInv
        <5> QED  BY <5>1, <2>8, <2>9 DEF Graph
      <4> QED  BY <4>1, <4>2, <2>13
    <3> QED  BY <3>1, <2>7, <2>19 DEF StartedIsFrozen
  <2>33. ResultsFollow'
    <3>1. ASSUME NEW m \in DOMAIN Graph, rows'[Newest][m].status = "succeeded"
          PROVE  HandedBy(<<Newest, m>>)' # {}
      <4>1. rows[Newest][m].status = "succeeded"  BY <3>1, <2>5, <2>16, GraphsTyped DEF Graph, TypeInv
      <4>2. HandedBy(<<Newest, m>>) # {}  BY <4>1 DEF ResultsFollow
      <4> QED  BY <4>2, <2>7, <2>19 DEF HandedBy
    <3>2. ASSUME NEW m \in DOMAIN Graph, rows'[Newest][m].status = "running"
          PROVE  \E r \in DOMAIN tries' :
                    /\ tries'[r].at[2] = m
                    /\ r \in Working' \/ (tries'[r].status = "cancelled" /\ tries'[r].at[1] < Newest)
      <4>1. CASE <<Newest, m>> = p
        <5>1. tries'[n].at = p /\ p[2] = m  BY <4>1, <2>4, <2>12
        <5> QED  BY <5>1, <2>13, <2>26
      <4>2. CASE <<Newest, m>> # p
        <5>1. rows[Newest][m].status = "running"  BY <3>2, <4>2, <2>16, GraphsTyped DEF Graph, TypeInv
        <5>2. PICK r \in DOMAIN tries : /\ tries[r].at[2] = m
                                        /\ r \in Working \/ (tries[r].status = "cancelled" /\ tries[r].at[1] < Newest)
          BY <5>1 DEF ResultsFollow
        <5> QED  BY <5>2, <2>12, <2>13, <2>26
      <4> QED  BY <4>1, <4>2
    <3>3. ASSUME NEW q \in Working', NEW r \in Working', tries'[q].at = tries'[r].at
          PROVE  q = r
      <4>1. tries'[n].at = p  BY <2>4, <2>12
      <4> QED  BY <3>3, <2>12, <2>27, <4>1, <2>26 DEF ResultsFollow
    <3> QED  BY <2>19, <3>1, <3>2, <3>3 DEF ResultsFollow
  <2> QED  BY <2>8, <2>22, <2>23, <2>25, <2>28, <2>29, <2>30, <2>31, <2>32, <2>33
<1> QED  BY <1>1, <1>2

----
(* The graph is replaced.                                                  *)

\* The graph is replaced by another one, with a row for each of its nodes.
LEMMA ApplyPatchInv ==
    ASSUME RevisionInv, NEW base \in 1..Newest, NEW g \in Graphs, ApplyPatch(base, g)
    PROVE  RevisionInv'
<1> USE DEF RevisionInv
<1>1. TableInv /\ Newest \in Nat /\ Newest \in 1..Newest /\ Graph = graphs[Newest] /\ DOMAIN graphs = 1..Newest
      /\ Newest = Len(graphs) /\ graphs \in Seq(Graphs) /\ rows \in Seq(Tables) /\ Len(rows) = Newest
      /\ rows[Newest] \in [DOMAIN Graph -> RowType]
  BY GraphsTyped DEF TypeInv, TableInv, IsRows, Newest, Graph
<1>2. PICK N \in Nat : N = Newest + 1  BY <1>1
<1>3. graphs' = Append(graphs, g) /\ Newest' = N /\ graphs'[N] = g /\ \A v \in 1..Newest : graphs'[v] = graphs[v]
  <2>1. graphs' = Append(graphs, g)  BY DEF ApplyPatch
  <2> QED  BY <1>1, <1>2, <2>1 DEF Newest
<1>4. \A v \in 1..N : v \in 1..Newest \/ v = N  BY <1>1, <1>2
<1>5. /\ UNCHANGED <<tries, suspended, dispatcher>>
      /\ \A n \in DOMAIN Graph : rows[Newest][n].attempts > 0 => n \in DOMAIN g /\ g[n] = Graph[n]
  BY DEF ApplyPatch, KeepsStarted, RowAt
\* The rows.
<1>6. Inherited(g) \in [DOMAIN g -> RowType]
      /\ \A n \in DOMAIN g : IF n \in DOMAIN Graph
                             THEN /\ Inherited(g)[n].attempts = rows[Newest][n].attempts
                                  /\ Inherited(g)[n].status = rows[Newest][n].status
                             ELSE Inherited(g)[n].attempts = 0 /\ Inherited(g)[n].status = "pending"
  <2>1. NewRow \in RowType /\ NewRow.attempts = 0 /\ NewRow.status = "pending"
    BY RevisionBounds DEF NewRow, RowType, Statuses, Choices
  <2>2. \A n \in DOMAIN Graph : /\ [rows[Newest][n] EXCEPT !.next = "policy"] \in RowType
                                /\ [rows[Newest][n] EXCEPT !.next = "policy"].attempts = rows[Newest][n].attempts
                                /\ [rows[Newest][n] EXCEPT !.next = "policy"].status = rows[Newest][n].status
    BY <1>1 DEF RowType, Choices
  <2>3. \A n \in DOMAIN g : Inherited(g)[n] = IF n \in DOMAIN Graph THEN [rows[Newest][n] EXCEPT !.next = "policy"] ELSE NewRow
    BY DEF Inherited, RowAt
  <2>4. \A n \in DOMAIN g : Inherited(g)[n] \in RowType  BY <2>1, <2>2, <2>3
  <2>5. Inherited(g) \in [DOMAIN g -> RowType]  BY <2>4 DEF Inherited
  <2> QED  BY <2>1, <2>2, <2>3, <2>5
<1>7. PICK t : t = Regate(g, Inherited(g))  OBVIOUS
<1>8. t \in [DOMAIN g -> RowType]
      /\ \A n \in DOMAIN g : IF n \in DOMAIN Graph
                             THEN /\ t[n].attempts = rows[Newest][n].attempts
                                  /\ t[n].status = rows[Newest][n].status \/ t[n].status \in Waits
                             ELSE t[n].attempts = 0 /\ t[n].status \in Waits
  BY <1>6, <1>7, RegatedRows DEF Waits
<1>9. rows' \in Seq(Tables) /\ Len(rows') = N /\ rows'[N] = t /\ \A v \in 1..Newest : rows'[v] = rows[v]
  <2>1. rows' = Append(rows, t)  BY <1>7 DEF ApplyPatch
  <2>2. t \in Tables  BY <1>8 DEF Tables
  <2> QED  BY <2>1, <2>2, <1>1, <1>2
\* The inputs.
<1>10. /\ inputs' \in Seq(InputType) /\ DOMAIN inputs' = DOMAIN inputs
       /\ \A i \in DOMAIN inputs :
             /\ inputs'[i].at = inputs[i].at /\ inputs'[i].sees = inputs[i].sees /\ inputs'[i].saved = inputs[i].saved
             /\ inputs'[i].filled = inputs[i].filled /\ inputs'[i].run = inputs[i].run
             /\ \/ inputs'[i] = inputs[i]
                \/ inputs[i].run = 0 /\ inputs'[i].review = "none"
  <2>1. DOMAIN inputs = 1..Len(inputs) /\ Len(inputs) \in Nat /\ \A i \in DOMAIN inputs : inputs[i] \in InputType
    BY LenProperties, ElementOfSeq DEF TypeInv, InputsInv
  <2>2. inputs' = [i \in DOMAIN inputs |-> IF inputs[i].review = "awaiting" /\ inputs[i].run = 0
                                           THEN [inputs[i] EXCEPT !.review = "none"] ELSE inputs[i]]
    BY DEF ApplyPatch
  <2>3. \A i \in DOMAIN inputs : inputs'[i] = IF inputs[i].review = "awaiting" /\ inputs[i].run = 0
                                              THEN [inputs[i] EXCEPT !.review = "none"] ELSE inputs[i]
    BY <2>2
  <2>4. ASSUME NEW i \in DOMAIN inputs
        PROVE  /\ inputs'[i] \in InputType
               /\ inputs'[i].at = inputs[i].at /\ inputs'[i].sees = inputs[i].sees /\ inputs'[i].saved = inputs[i].saved
               /\ inputs'[i].filled = inputs[i].filled /\ inputs'[i].run = inputs[i].run
               /\ \/ inputs'[i] = inputs[i]
                  \/ inputs[i].run = 0 /\ inputs'[i].review = "none"
    <3>1. inputs[i] = [at |-> inputs[i].at, sees |-> inputs[i].sees, saved |-> inputs[i].saved, filled |-> inputs[i].filled,
                       review |-> inputs[i].review, run |-> inputs[i].run, agreed |-> inputs[i].agreed]
      BY <2>1 DEF InputType
    <3>2. CASE inputs[i].review = "awaiting" /\ inputs[i].run = 0
      <4>1. inputs'[i] = [inputs[i] EXCEPT !.review = "none"]  BY <2>3, <3>2
      <4>2. inputs'[i] = [at |-> inputs[i].at, sees |-> inputs[i].sees, saved |-> inputs[i].saved, filled |-> inputs[i].filled,
                          review |-> "none", run |-> inputs[i].run, agreed |-> inputs[i].agreed]
        BY <3>1, <4>1
      <4>3. inputs'[i] \in InputType  BY <2>1, <4>2 DEF InputType
      <4> QED  BY <3>2, <4>2, <4>3
    <3>3. CASE ~(inputs[i].review = "awaiting" /\ inputs[i].run = 0)  BY <2>1, <2>3, <3>3
    <3> QED  BY <3>2, <3>3
  <2>5. inputs' \in [1..Len(inputs) -> InputType]  BY <2>1, <2>2, <2>4
  <2>6. inputs' \in Seq(InputType)  BY <2>1, <2>5, SeqDef
  <2> QED  BY <2>2, <2>4, <2>6
\* What was handed over.
<1>11. /\ DOMAIN handoffs' = DOMAIN handoffs /\ handoffs' \in Seq(HandoffType)
       /\ \A h \in DOMAIN handoffs :
             /\ handoffs'[h].run = handoffs[h].run
             /\ \/ handoffs[h].at[1] = Newest /\ handoffs[h].at[2] \in DOMAIN g
                   /\ handoffs'[h].at = <<N, handoffs[h].at[2]>>
                \/ ~(handoffs[h].at[1] = Newest /\ handoffs[h].at[2] \in DOMAIN g)
                   /\ handoffs'[h].at = handoffs[h].at
  <2>1. handoffs' = [h \in DOMAIN handoffs |-> Remapped(handoffs[h], g)]  BY DEF ApplyPatch
  <2>2. /\ handoffs \in Seq(HandoffType) /\ DOMAIN handoffs = 1..Len(handoffs) /\ Len(handoffs) \in Nat
        /\ \A h \in DOMAIN handoffs : handoffs[h].at \in Places /\ handoffs[h] \in HandoffType
    BY LenProperties, ElementOfSeq DEF RefersInv, TypeInv, HandoffsInv
  <2>3. ASSUME NEW h \in DOMAIN handoffs
        PROVE  /\ handoffs'[h] \in HandoffType /\ handoffs'[h].run = handoffs[h].run
               /\ \/ handoffs[h].at[1] = Newest /\ handoffs[h].at[2] \in DOMAIN g
                     /\ handoffs'[h].at = <<N, handoffs[h].at[2]>>
                  \/ ~(handoffs[h].at[1] = Newest /\ handoffs[h].at[2] \in DOMAIN g)
                     /\ handoffs'[h].at = handoffs[h].at
    <3>1. handoffs[h] = [at |-> handoffs[h].at, run |-> handoffs[h].run] /\ handoffs[h].run \in Nat
          /\ handoffs[h].at = <<handoffs[h].at[1], handoffs[h].at[2]>> /\ handoffs[h].at[2] \in Nodes
      BY <2>2, PlaceOf DEF HandoffType
    <3>2. handoffs'[h] = Remapped(handoffs[h], g)  BY <2>1
    <3>3. CASE handoffs[h].at[1] = Newest /\ handoffs[h].at[2] \in DOMAIN g
      <4>1. handoffs'[h] = [at |-> <<N, handoffs[h].at[2]>>, run |-> handoffs[h].run]
        BY <3>1, <3>2, <3>3, <1>2 DEF Remapped
      <4> QED  BY <3>1, <3>3, <4>1 DEF HandoffType
    <3>4. CASE ~(handoffs[h].at[1] = Newest /\ handoffs[h].at[2] \in DOMAIN g)  BY <2>2, <3>2, <3>4 DEF Remapped
    <3> QED  BY <3>3, <3>4
  <2> QED  BY <2>1, <2>2, <2>3, SeqDef
<1>12. Grown  BY <1>2, <1>3, <1>5, <1>10 DEF Grown
<1>13. Places \subseteq Places' /\ \A n \in DOMAIN g : <<N, n>> \in Places'
  <2>1. N \in 1..Newest'  BY <1>1, <1>2, <1>3
  <2>2. Places \subseteq Places'  BY <1>1, <1>12, PlacesGrow
  <2>3. \A n \in DOMAIN g : <<N, n>> \in Places'
    <3> SUFFICES ASSUME NEW n \in DOMAIN g PROVE <<N, n>> \in Places'  OBVIOUS
    <3>1. n \in DOMAIN graphs'[N]  BY <1>3
    <3> QED  BY <2>1, <3>1 DEF Places
  <2> QED  BY <2>2, <2>3
<1>14. TypeInv'
  <2>1. TableInv'
    <3>1. graphs' \in Seq(Graphs) /\ N >= 1  BY <1>1, <1>2, <1>3
    <3>2. \A v \in 1..N : rows'[v] \in [DOMAIN graphs'[v] -> RowType]
      BY <1>1, <1>3, <1>4, <1>8, <1>9 DEF TableInv, IsRows
    <3> QED  BY <1>3, <1>9, <3>1, <3>2 DEF TableInv, IsRows
  <2>2. HandoffsInv'  BY <1>11 DEF HandoffsInv
  <2>3. DispatcherInv'  BY <1>5, <1>13 DEF TypeInv, DispatcherInv, Resting
  <2> QED  BY <1>5, <1>10, <2>1, <2>2, <2>3 DEF TypeInv, TriesInv, InputsInv
<1>15. RefersInv'
  <2>1. \A h \in DOMAIN handoffs' : handoffs'[h].at \in Places' /\ handoffs'[h].run \in DOMAIN tries'
    <3>1. \A h \in DOMAIN handoffs : handoffs[h].at \in Places /\ handoffs[h].run \in DOMAIN tries  BY DEF RefersInv
    <3>2. ASSUME NEW h \in DOMAIN handoffs
          PROVE  handoffs'[h].at \in Places' /\ handoffs'[h].run \in DOMAIN tries'
      <4>1. CASE handoffs[h].at[1] = Newest /\ handoffs[h].at[2] \in DOMAIN g
        <5>1. handoffs'[h].at = <<N, handoffs[h].at[2]>>  BY <4>1, <1>11
        <5> QED  BY <3>1, <4>1, <5>1, <1>5, <1>11, <1>13
      <4>2. CASE ~(handoffs[h].at[1] = Newest /\ handoffs[h].at[2] \in DOMAIN g)  BY <3>1, <4>2, <1>5, <1>11, <1>13
      <4> QED  BY <4>1, <4>2
    <3> QED  BY <3>2, <1>11
  <2> QED  BY <1>5, <1>10, <2>1, <1>13 DEF RefersInv
\* An attempt has a row in the new graph, of the node it was started with.
<1>16. ASSUME NEW r \in DOMAIN tries
       PROVE  /\ tries[r].at[2] \in DOMAIN Graph /\ rows[Newest][tries[r].at[2]].attempts > 0
              /\ tries[r].at[2] \in DOMAIN g /\ g[tries[r].at[2]] = Graph[tries[r].at[2]]
              /\ Graph[tries[r].at[2]] = graphs[tries[r].at[1]][tries[r].at[2]]
              /\ tries[r].at[1] \in 1..Newest
  <2>1. tries[r].at[1] \in 1..Newest  BY PlaceOf DEF RefersInv
  <2>2. Newest \in tries[r].at[1]..Newest  BY <1>1, <2>1
  <2>3. tries[r].at[2] \in DOMAIN Graph /\ rows[Newest][tries[r].at[2]].attempts > 0  BY <1>1, <2>2 DEF CountInv
  <2>4. Graph[tries[r].at[2]] = graphs[tries[r].at[1]][tries[r].at[2]]  BY <1>1, <2>2 DEF StartedIsFrozen
  <2> QED  BY <1>5, <2>1, <2>3, <2>4
<1>17. ASSUME NEW r \in DOMAIN tries, NEW v \in tries[r].at[1]..N
       PROVE  v = N \/ (v \in tries[r].at[1]..Newest /\ v \in 1..Newest)
  BY <1>1, <1>2, <1>16, <1>17
<1>18. CountInv'
  <2>1. ASSUME NEW v \in 1..N, NEW n \in DOMAIN graphs'[v]
        PROVE  rows'[v][n].attempts <= Len(tries)
    <3>1. CASE v = N
      <4>1. rows'[v][n] = t[n] /\ n \in DOMAIN g  BY <2>1, <3>1, <1>3, <1>9
      <4>2. CASE n \in DOMAIN Graph  BY <4>1, <4>2, <1>1, <1>8 DEF CountInv
      <4>3. CASE n \notin DOMAIN Graph
        <5>1. Len(tries) \in Nat  BY LenProperties DEF TypeInv, TriesInv
        <5> QED  BY <4>1, <4>3, <5>1, <1>8
      <4> QED  BY <4>2, <4>3
    <3>2. CASE v \in 1..Newest  BY <2>1, <3>2, <1>3, <1>9 DEF CountInv
    <3> QED  BY <3>1, <3>2, <1>4
  <2>2. ASSUME NEW r \in DOMAIN tries, NEW v \in tries[r].at[1]..N
        PROVE  tries[r].at[2] \in DOMAIN graphs'[v] /\ rows'[v][tries[r].at[2]].attempts > 0
    <3>1. CASE v = N  BY <3>1, <1>3, <1>8, <1>9, <1>16
    <3>2. CASE v \in tries[r].at[1]..Newest /\ v \in 1..Newest  BY <3>2, <1>3, <1>9 DEF CountInv
    <3> QED  BY <3>1, <3>2, <1>17
  <2> QED  BY <1>3, <1>5, <2>1, <2>2 DEF CountInv
<1>19. StartedIsFrozen'
  <2>1. ASSUME NEW r \in DOMAIN tries, NEW v \in tries[r].at[1]..N
        PROVE  /\ tries[r].at[2] \in DOMAIN graphs'[v]
               /\ graphs'[v][tries[r].at[2]] = graphs'[tries[r].at[1]][tries[r].at[2]]
    <3>1. CASE v = N  BY <3>1, <1>3, <1>16
    <3>2. CASE v \in tries[r].at[1]..Newest /\ v \in 1..Newest  BY <3>2, <1>3, <1>16 DEF StartedIsFrozen
    <3> QED  BY <3>1, <3>2, <1>17
  <2> QED  BY <1>3, <1>5, <2>1 DEF StartedIsFrozen
<1>20. Working' = Working  BY <1>5 DEF Working
<1>21. WorkInv'
  <2>1. ASSUME NEW r \in Working
        PROVE  rows'[tries[r].at[1]][tries[r].at[2]] = RowAt(tries[r].at)
    <3>1. r \in DOMAIN tries  BY DEF Working
    <3> QED  BY <3>1, <1>9, <1>16 DEF RowAt
  <2> QED  BY <1>5, <1>20, <2>1 DEF WorkInv, RowAt
<1>22. HandInv'
  <2>1. \A h \in DOMAIN handoffs' : tries'[handoffs'[h].run].status = "succeeded"  BY <1>5, <1>11 DEF HandInv
  <2>2. \A i \in DOMAIN inputs' : \A r \in inputs'[i].sees : tries'[r].status = "succeeded"  BY <1>5, <1>10 DEF HandInv
  <2> QED  BY <2>1, <2>2 DEF HandInv
<1>23. InputInv'
  <2> SUFFICES ASSUME NEW i \in DOMAIN inputs
               PROVE  /\ inputs'[i].review = "confirmed" => inputs'[i].agreed = inputs'[i].saved /\ ~Lacks(inputs[i])
                      /\ inputs'[i].review = "none" /\ (inputs'[i].run # 0 \/ inputs'[i].at[1] = N) =>
                            /\ ~graphs'[inputs'[i].at[1]][inputs'[i].at[2]].review
                            /\ inputs'[i].saved = 0 /\ ~Lacks(inputs[i])
                      /\ inputs'[i].run # 0 => inputs'[i].review # "awaiting"
    <3>1. \A i \in DOMAIN inputs : Lacks(inputs[i])' = Lacks(inputs[i])  BY <1>10, <1>12, LacksStays
    <3> QED  BY <3>1, <1>3, <1>10 DEF InputInv
  <2>1. inputs[i].at[1] \in 1..Newest /\ inputs[i].at[1] # N
    <3>1. inputs[i].at[1] \in 1..Newest  BY PlaceOf DEF RefersInv
    <3> QED  BY <3>1, <1>1, <1>2
  <2>2. CASE inputs'[i] = inputs[i]
    <3>1. graphs'[inputs[i].at[1]] = graphs[inputs[i].at[1]]  BY <2>1, <1>3
    <3> QED  BY <2>1, <2>2, <3>1 DEF InputInv
  <2>3. CASE inputs[i].run = 0 /\ inputs'[i].review = "none"  BY <2>1, <2>3, <1>10
  <2> QED  BY <2>2, <2>3, <1>10
<1>24. GivenAsAgreed'  BY <1>5, <1>12, GivenStays DEF GivenAsAgreed, Given, TypeInv
<1>25. ResultsFollow'
  <2>1. ASSUME NEW n \in DOMAIN g, t[n].status = "succeeded"
        PROVE  HandedBy(<<Newest, n>>)' # {}
    <3>1. n \in DOMAIN Graph /\ rows[Newest][n].status = "succeeded"  BY <2>1, <1>8 DEF Waits
    <3>2. PICK h \in DOMAIN handoffs : handoffs[h].at = <<Newest, n>>  BY <3>1 DEF ResultsFollow, HandedBy
    <3>3. handoffs[h].at[1] = Newest /\ handoffs[h].at[2] = n  BY <3>2
    <3> QED  BY <3>3, <1>11, <1>3 DEF HandedBy
  <2>2. ASSUME NEW n \in DOMAIN g, t[n].status = "running"
        PROVE  \E r \in DOMAIN tries :
                  /\ tries[r].at[2] = n
                  /\ r \in Working \/ (tries[r].status = "cancelled" /\ tries[r].at[1] < N)
    <3>1. PICK r \in DOMAIN tries : /\ tries[r].at[2] = n
                                    /\ r \in Working \/ (tries[r].status = "cancelled" /\ tries[r].at[1] < Newest)
      BY <2>2, <1>8 DEF ResultsFollow, Waits
    <3>2. tries[r].at[1] < N  BY <1>1, <1>2, <1>16
    <3> QED  BY <3>1, <3>2
  <2>3. Graph' = g /\ rows'[Newest'] = t  BY <1>3, <1>9 DEF Graph
  <2> QED  BY <1>3, <1>5, <1>20, <2>1, <2>2, <2>3 DEF ResultsFollow
<1> QED  BY <1>14, <1>15, <1>18, <1>19, <1>21, <1>22, <1>23, <1>24, <1>25

----
(* Theorems.                                                               *)

\* The start.
LEMMA RevisionInitInv == RevisionInit => RevisionInv
<1> SUFFICES ASSUME RevisionInit PROVE RevisionInv  OBVIOUS
<1> DEFINE t0 == [n \in DOMAIN FirstGraph |-> NewRow]
<1>1. /\ graphs = <<FirstGraph>> /\ rows = <<Regate(FirstGraph, t0)>>
      /\ tries = <<>> /\ inputs = <<>> /\ handoffs = <<>> /\ suspended = FALSE /\ dispatcher = Resting
  BY DEF RevisionInit
<1>2. NewRow \in RowType /\ NewRow.attempts = 0 /\ NewRow.status = "pending"
  BY RevisionBounds DEF NewRow, RowType, Statuses, Choices
<1>3. t0 \in [DOMAIN FirstGraph -> RowType] /\ \A n \in DOMAIN FirstGraph : t0[n] = NewRow  BY <1>2
<1> HIDE DEF t0
<1>4. PICK t : t = Regate(FirstGraph, t0)  OBVIOUS
<1>5. t \in [DOMAIN FirstGraph -> RowType]
      /\ \A n \in DOMAIN FirstGraph : t[n].attempts = 0 /\ t[n].status \in Waits
  BY <1>2, <1>3, <1>4, RegatedRows, RevisionBounds DEF Waits
<1>6. Newest = 1 /\ graphs \in Seq(Graphs) /\ graphs[1] = FirstGraph /\ Graph = FirstGraph
  BY <1>1, RevisionBounds DEF Newest, Graph
<1>7. rows \in Seq(Tables) /\ Len(rows) = 1 /\ rows[1] = t
  <2>1. t \in Tables  BY <1>5, RevisionBounds DEF Tables
  <2> QED  BY <2>1, <1>1, <1>4
<1>8. TableInv  BY <1>5, <1>6, <1>7 DEF TableInv, IsRows
<1>9. TypeInv
  <2>1. TriesInv /\ InputsInv /\ HandoffsInv  BY <1>1, EmptySeq, RevisionBounds DEF TriesInv, InputsInv, HandoffsInv
  <2>2. DispatcherInv  BY <1>1 DEF DispatcherInv, Resting
  <2> QED  BY <1>8, <2>1, <2>2 DEF TypeInv
<1>10. DOMAIN tries = {} /\ DOMAIN inputs = {} /\ DOMAIN handoffs = {} /\ Len(tries) = 0 /\ dispatcher.pc = "off"
  BY <1>1 DEF Resting
<1>11. CountInv  BY <1>5, <1>6, <1>7, <1>10 DEF CountInv
<1>12. ResultsFollow  BY <1>5, <1>6, <1>7, <1>10 DEF ResultsFollow, Working, Waits
<1> QED  BY <1>9, <1>10, <1>11, <1>12 DEF RevisionInv, RefersInv, WorkInv, Working, HandInv, InputInv, GivenAsAgreed,
    StartedIsFrozen

\* Every step keeps the invariant.
LEMMA RevisionStep == RevisionInv /\ [RevisionNext]_revisionVars => RevisionInv'
<1> SUFFICES ASSUME RevisionInv, [RevisionNext]_revisionVars PROVE RevisionInv'  OBVIOUS
<1>1. CASE Pause \/ Resume  BY <1>1, SuspendInv
<1>2. ASSUME NEW b \in 1..Newest, NEW g \in Graphs, ApplyPatch(b, g) PROVE RevisionInv'  BY <1>2, ApplyPatchInv
<1>3. ASSUME NEW r \in DOMAIN tries, EndTry(r) PROVE RevisionInv'  BY <1>3, EndTryInv
<1>4. ASSUME NEW r \in DOMAIN tries, NEW o \in {"succeeded", "failed"}, SettleTry(r, o) PROVE RevisionInv'
  BY <1>4, SettleTryInv
<1>5. ASSUME NEW p \in Places, SkipRow(p) PROVE RevisionInv'  BY <1>5, SkipRowInv
<1>6. ASSUME NEW p \in Places, NEW m \in {"fresh", "continue"}, RetryRow(p, m) PROVE RevisionInv'  BY <1>6, RetryRowInv
<1>7. ASSUME NEW p \in Places, NEW e \in 0..MaxSaves, ConfirmInput(p, e) PROVE RevisionInv'  BY <1>7, ConfirmInputInv
<1>8. ASSUME NEW p \in Places, NEW f \in BOOLEAN, SaveInput(p, f) PROVE RevisionInv'  BY <1>8, SaveInputInv
<1>9. ASSUME NEW n \in DOMAIN Graph, TickLists(n) PROVE RevisionInv'  BY <1>9, TickListsInv
<1>10. CASE PrepareInput  BY <1>10, PrepareInputInv
<1>11. CASE CommitTry  BY <1>11, CommitTryInv
<1>12. CASE UNCHANGED revisionVars
  <2>1. UNCHANGED <<graphs, rows, tries, inputs, handoffs, suspended, dispatcher>>  BY <1>12 DEF revisionVars
  <2>2. DispatcherInv'  BY <2>1 DEF RevisionInv, TypeInv, DispatcherInv, Resting, Places, Newest
  <2> QED  BY <2>1, <2>2, DispatcherPreserves
<1> QED  BY <1>1, <1>2, <1>3, <1>4, <1>5, <1>6, <1>7, <1>8, <1>9, <1>10, <1>11, <1>12 DEF RevisionNext

\* The joint invariant of graphs, rows, attempts, inputs and handoffs holds in every state.
THEOREM RevisionInductive == RevisionSpec => []RevisionInv
  BY RevisionInitInv, RevisionStep, PTL DEF RevisionSpec

\* An attempt has the results of the nodes before it: what it was compiled from succeeded, and
\* it lacks nothing.
LEMMA InvSeesResults == RevisionInv => SeesResults
<1> SUFFICES ASSUME RevisionInv, NEW r \in DOMAIN tries, NEW d \in graphs[tries[r].at[1]][tries[r].at[2]].deps,
                    ~inputs[tries[r].input].filled
             PROVE  \E q \in inputs[tries[r].input].sees : tries[q].at[2] = d /\ tries[q].status = "succeeded"
  BY DEF SeesResults
<1>1. tries[r].input \in DOMAIN inputs /\ inputs[tries[r].input].at = tries[r].at /\ ~Lacks(inputs[tries[r].input])
  BY DEF RevisionInv, RefersInv, GivenAsAgreed
<1>2. PICK q \in inputs[tries[r].input].sees : tries[q].at[2] = d  BY <1>1 DEF Lacks
<1>3. tries[q].status = "succeeded"  BY <1>1, <1>2 DEF RevisionInv, HandInv
<1> QED  BY <1>2, <1>3

\* The types of the module.
LEMMA InvRevisionTypes == RevisionInv => RevisionTypeOK
<1> SUFFICES ASSUME RevisionInv PROVE RevisionTypeOK  OBVIOUS
<1> USE DEF RevisionInv
<1>1. graphs \in Seq(Graphs) /\ Len(rows) = Newest /\ \A v \in 1..Newest : \A n \in DOMAIN graphs[v] : rows[v][n] \in RowType
  BY DEF TypeInv, TableInv, IsRows
<1>2. \A i \in DOMAIN inputs : inputs[i] \in InputType  BY LenProperties, ElementOfSeq DEF TypeInv, InputsInv
<1> QED  BY <1>1, <1>2 DEF RevisionTypeOK, RefersInv, RowType, Statuses, Choices, TypeInv, DispatcherInv, InputType

\* For any graphs and any number of revisions, attempts and edits: an attempt is started with the
\* input that was agreed, sees the results of the nodes before it, and its node stays as it was
\* started; what succeeded is found, and what runs has an attempt.
THEOREM RevisionsAgree == RevisionSpec => []RevisionSafety
<1>1. RevisionInv => RevisionSafety  BY InvSeesResults, InvRevisionTypes DEF RevisionSafety, RevisionInv
<1> QED  BY <1>1, RevisionInductive, PTL

\* A paused run starts nothing, whenever the dispatcher has read it.
THEOREM PausedRunsStart == RevisionSpec => PausedStartsNothing
<1>1. RevisionInv /\ [RevisionNext]_revisionVars => [suspended => Len(tries') = Len(tries)]_revisionVars
  <2> SUFFICES ASSUME RevisionInv, RevisionNext, suspended PROVE Len(tries') = Len(tries)  BY DEF RevisionInv
  <2> USE DEF RevisionInv
  <2>1. TypeInv /\ TriesInv /\ tries \in Seq(TryType)  BY DEF TypeInv, TriesInv
  <2>2. ASSUME NEW r \in DOMAIN tries, NEW o, tries' = [tries EXCEPT ![r].status = o]
        PROVE  Len(tries') = Len(tries)
    BY <2>1, LenProperties, <2>2, SeqDef
  <2>3. ASSUME NEW r \in DOMAIN tries, EndTry(r) \/ \E o \in {"succeeded", "failed"} : SettleTry(r, o)
        PROVE  Len(tries') = Len(tries)
    BY <2>2, <2>3 DEF EndTry, SettleTry
  <2>4. ASSUME NEW p \in Places, NEW m \in {"fresh", "continue"}, RetryRow(p, m)
        PROVE  Len(tries') = Len(tries)
    <3>1. PICK S : S = {r \in Working : tries[r].at = p}  OBVIOUS
    <3> QED  BY <2>1, <2>4, <3>1, TriesTurned DEF RetryRow, Marked, Working
  <2>5. CASE CommitTry  BY <2>5, CommitTryInv
  <2>6. ASSUME ~CommitTry, tries' # tries
        PROVE  \/ \E r \in DOMAIN tries : EndTry(r) \/ \E o \in {"succeeded", "failed"} : SettleTry(r, o)
               \/ \E p \in Places, m \in {"fresh", "continue"} : RetryRow(p, m)
    BY <2>6 DEF RevisionNext, Pause, Resume, ApplyPatch, SkipRow, ConfirmInput, SaveInput, TickLists, PrepareInput
  <2> QED  BY <2>3, <2>4, <2>5, <2>6
<1> QED  BY <1>1, RevisionInductive, PTL DEF RevisionSpec, PausedStartsNothing
=============================================================================
