----------------------------- MODULE CancelFence -----------------------------
(***************************************************************************)
(* The durable saga behind the Cancel of a workflow run.                   *)
(*                                                                         *)
(* A Cancel has to stop processes, which no transaction can do.  So the    *)
(* kernel first commits a fence (run_cancel_fence, with one target per     *)
(* active run) whose triggers refuse every other write of the task, then   *)
(* stops the targets one by one and records each answer, and last applies  *)
(* the domain change and closes the fence in one transaction               *)
(* (mf-agent store.rs and schema.rs, mf-kernel kernel.rs).  The last step  *)
(* is an ordinary command of the coordinator (command.rs): an intent in    *)
(* the service store, a receipt in the project store, two databases that   *)
(* a crash can separate.  The opening of a project after a crash           *)
(* reconciles intents, starts the orchestrator and then finishes fences.   *)
(*                                                                         *)
(* One task; two command ids, one of them possibly sent more than once.    *)
(***************************************************************************)
EXTENDS Integers, FiniteSets

CONSTANTS
    Runs,         \* agent runs the task may get, ordered
    Commands,     \* ids of Cancel commands
    Requests,     \* requests that clients send and resend
    CmdOf,        \* the command id of each request
    Core,         \* the driver of the recovery
    MaxEpoch,     \* bound: controller epochs
    MaxCrashes    \* bound: crashes of the Core

ASSUME RunsAssumption == Runs \subseteq Nat \ {0}
ASSUME RequestsAssumption == CmdOf \in [Requests -> Commands] /\ Core \notin Requests
ASSUME BoundsAssumption == MaxEpoch \in Nat \ {0} /\ MaxCrashes \in Nat

Drivers == Requests \cup {Core}
NoRun == 0

VARIABLES
    task, run,   \* agent_tasks.status, agent_runs.status
    fence,       \* run_cancel_fence.state ("finalizing" lives inside one transaction)
    target,      \* run_cancel_target.state
    receipts,    \* command_receipt of the project store
    quoted,      \* do the revisions a command expects still hold?
    intent,      \* command_intent.state of the service store
    proc,        \* the process of each run
    exitAt,      \* where the handler of an agent's report is between two transactions
    exitOf,      \* the run it handles
    core,        \* how far the Core is up
    epoch,       \* controller epoch
    pc,          \* where each driver is
    at,          \* the run whose process a driver is stopping
    sent,        \* the controller epoch a request was sent in
    recovery,    \* the command the recovery is finishing
    result,      \* observer: what the last attempt of a request was answered
    stops,       \* observer: stop calls for a target in this life of the Core
    crashes      \* crashes so far

store == <<task, run, fence, target, receipts, quoted>>
threads == <<pc, at, sent, recovery>>
handler == <<exitAt, exitOf>>
observers == <<result, stops, crashes>>
vars == <<store, intent, proc, handler, core, epoch, threads, observers>>

RunStatus == {"unborn", "running", "awaiting-outcome", "interrupted", "settled", "cancelled"}
RunActive == {"running", "awaiting-outcome"}
FenceOpen == {"reserved", "stopping", "outcomes"}
Answers == {"confirmed", "unconfirmed"}
PCs == {"idle", "gate", "targets", "stop", "target", "service"} \cup Answers

TypeOK ==
    /\ task \in {"running", "needs-you", "cancelled"}
    /\ run \in [Runs -> RunStatus]
    /\ fence \in [Commands -> {"none", "finalized"} \cup FenceOpen]
    /\ target \in [Commands -> [Runs -> {"none", "pending", "stopping"} \cup Answers]]
    /\ receipts \subseteq Commands
    /\ quoted \in [Commands -> {"none", "current", "stale"}]
    /\ intent \in [Commands -> {"none", "reserved", "applied", "revoked"}]
    /\ proc \in [Runs -> {"none", "launching", "alive", "dead"}]
    /\ exitAt \in {"idle", "run", "task", "attend"} /\ exitOf \in Runs \cup {NoRun}
    /\ core \in {"down", "reconciled", "started", "recovering", "serving"}
    /\ epoch \in 1..MaxEpoch
    /\ pc \in [Drivers -> PCs]
    /\ at \in [Drivers -> Runs \cup {NoRun}]
    /\ sent \in [Requests -> 0..MaxEpoch]
    /\ recovery \in Commands \cup {"none"}
    /\ result \in [Requests -> {"none", "applied", "expired", "conflict", "fenced"}]
    /\ stops \in [Commands -> [Runs -> Nat]]
    /\ crashes \in 0..MaxCrashes

ActiveRuns == {r \in Runs : run[r] \in RunActive}
Attend(t) == IF t = "cancelled" THEN t ELSE "needs-you"
Open(c) == fence[c] \in FenceOpen
OpenTargets(c) == {r \in Runs : target[c][r] \in {"pending", "stopping"}}

\* The fence triggers: a write of the task, its runs or its sessions is aborted.
Fenced == \E c \in Commands : Open(c)

\* Mutant of Unfenced: the table has no trigger.
NoTrigger == TRUE
Unfenced == ~Fenced

\* Every write of the task or its runs moves a revision that a command may have quoted.
Outdate == quoted' = [c \in Commands |-> IF quoted[c] = "current" THEN "stale" ELSE quoted[c]]

Init ==
    /\ task = "running"
    /\ run = [r \in Runs |-> "unborn"]
    /\ fence = [c \in Commands |-> "none"]
    /\ target = [c \in Commands |-> [r \in Runs |-> "none"]]
    /\ receipts = {}
    /\ quoted = [c \in Commands |-> "none"]
    /\ intent = [c \in Commands |-> "none"]
    /\ proc = [r \in Runs |-> "none"]
    /\ exitAt = "idle" /\ exitOf = NoRun
    /\ core = "serving"
    /\ epoch = 1
    /\ pc = [d \in Drivers |-> "idle"]
    /\ at = [d \in Drivers |-> NoRun]
    /\ sent = [q \in Requests |-> 0]
    /\ recovery = "none"
    /\ result = [q \in Requests |-> "none"]
    /\ stops = [c \in Commands |-> [r \in Runs |-> 0]]
    /\ crashes = 0

-----------------------------------------------------------------------------
(* The rest of the system, as far as a fence and it meet: the dispatcher,  *)
(* the agents, the exit handler, settlements, the controller.              *)

Dispatch(r) ==
    /\ core = "serving" /\ Unfenced
    /\ task # "cancelled" /\ run[r] = "unborn"
    /\ run' = [run EXCEPT ![r] = "running"]
    /\ proc' = [proc EXCEPT ![r] = "launching"]
    /\ Outdate
    /\ UNCHANGED <<handler, task, fence, target, receipts, intent, core, epoch, threads, observers>>

\* The launch follows the transaction, and no fence can hold it.
Launch(r) ==
    /\ core = "serving" /\ proc[r] = "launching"
    /\ proc' = [proc EXCEPT ![r] = "alive"]
    /\ UNCHANGED <<handler, store, intent, core, epoch, threads, observers>>

Exit(r) ==
    /\ proc[r] = "alive"
    /\ proc' = [proc EXCEPT ![r] = "dead"]
    /\ UNCHANGED <<handler, store, intent, core, epoch, threads, observers>>

\* enter_awaiting_outcome, for an agent that is done, dead or gone: it looks at the run, ...
Report(r) ==
    /\ core = "serving" /\ exitAt = "idle"
    /\ proc[r] \in {"alive", "dead"} /\ run[r] \in RunActive
    /\ exitAt' = "run" /\ exitOf' = r
    /\ UNCHANGED <<store, intent, proc, core, epoch, threads, observers>>

\* ... writes it without looking again, looks at the task and writes that.  A fence drops
\* the writes.
ReportRun ==
    /\ exitAt = "run" /\ exitAt' = "task"
    /\ IF Unfenced THEN run' = [run EXCEPT ![exitOf] = "awaiting-outcome"] /\ Outdate
                   ELSE UNCHANGED <<run, quoted>>
    /\ UNCHANGED <<task, fence, target, receipts, intent, proc, exitOf, core, epoch,
                   threads, observers>>

ReportTask ==
    /\ \/ /\ exitAt = "task" /\ exitAt' = IF task = "cancelled" THEN "idle" ELSE "attend"
          /\ UNCHANGED <<task, quoted>>
       \/ /\ exitAt = "attend" /\ exitAt' = "idle"
          /\ IF Unfenced THEN task' = "needs-you" /\ Outdate ELSE UNCHANGED <<task, quoted>>
    /\ exitOf' = IF exitAt' = "idle" THEN NoRun ELSE exitOf
    /\ UNCHANGED <<run, fence, target, receipts, intent, proc, core, epoch, threads, observers>>

Settle(r) ==
    /\ core = "serving" /\ Unfenced
    /\ run[r] \in RunActive \cup {"interrupted"}
    /\ run' = [run EXCEPT ![r] = "settled"]
    /\ Outdate
    /\ UNCHANGED <<handler, task, fence, target, receipts, intent, proc, core, epoch, threads, observers>>

\* Another client becomes the controller; the requests of the old one are stale.
Takeover ==
    /\ core = "serving" /\ epoch < MaxEpoch
    /\ epoch' = epoch + 1
    /\ UNCHANGED <<handler, store, intent, proc, core, threads, observers>>

-----------------------------------------------------------------------------
(* A driver: a request, or the recovery, taking a Cancel through its       *)
(* phases.                                                                 *)

Cmd(d) == IF d = Core THEN recovery ELSE CmdOf[d]
Stale(d) == d # Core /\ sent[d] # epoch
Goto(d, p) == pc' = [pc EXCEPT ![d] = p]

\* The end of a driver; that of the recovery is a step of the opening of the project.
Answer(d, a) ==
    /\ Goto(d, "idle")
    /\ sent' = IF d = Core THEN sent ELSE [sent EXCEPT ![d] = 0]
    /\ recovery' = IF d = Core THEN "none" ELSE recovery
    /\ UNCHANGED at
    /\ result' = IF d = Core THEN result ELSE [result EXCEPT ![d] = a]
    /\ core' = IF d # Core THEN core ELSE IF a = "applied" THEN "started" ELSE "down"

\* Mutant of Replayable: the intent is asked instead of the receipt.
Intended(c) == intent[c] \in {"reserved", "applied"}

\* replay_if_applied: the project store holds the receipt of the command.
Replayable(c) == c \in receipts

\* A client sends or resends a request: a receipt answers it at once.  The revisions
\* belong to the command id, so a resent command quotes what it quoted first.
Send(q) ==
    /\ core = "serving" /\ pc[q] = "idle"
    /\ IF Replayable(CmdOf[q])
       THEN Answer(q, "applied") /\ UNCHANGED quoted
       ELSE /\ Goto(q, "gate")
            /\ sent' = [sent EXCEPT ![q] = epoch]
            /\ quoted' = [quoted EXCEPT ![CmdOf[q]] = IF @ = "none" THEN "current" ELSE @]
            /\ UNCHANGED <<result, core, at, recovery>>
    /\ UNCHANGED <<handler, task, run, fence, target, receipts, intent, proc, epoch, stops, crashes>>

\* Mutant of GateFree: nothing keeps two requests of one command apart.
NoGate(c) == TRUE

\* cancel_gates: one request of a command at a time, to the end of the request.
GateFree(c) == \A q \in Requests : CmdOf[q] = c => pc[q] \in {"idle", "gate"}

\* The linearisation point: lease, revisions and scope are checked and the fence is
\* committed in one transaction.  An open fence of the same command is taken up again.
Refused(q) ==
    \/ Stale(q) /\ Answer(q, "expired")
    \/ ~Stale(q) /\ quoted[Cmd(q)] # "current" /\ Answer(q, "conflict")
    \/ ~Stale(q) /\ quoted[Cmd(q)] = "current" /\ ~Open(Cmd(q)) /\ Fenced /\ Answer(q, "fenced")

Admitted(q) ==
    /\ ~Stale(q) /\ quoted[Cmd(q)] = "current" /\ (Open(Cmd(q)) \/ ~Fenced)
    /\ Goto(q, "targets")
    /\ UNCHANGED <<result, core, at, sent, recovery>>

NewFence(c) ==
    /\ fence' = [fence EXCEPT ![c] = IF ActiveRuns = {} THEN "outcomes" ELSE "reserved"]
    /\ target' = [target EXCEPT ![c] = [r \in Runs |-> IF r \in ActiveRuns THEN "pending" ELSE "none"]]

Reserve(q) ==
    /\ pc[q] = "gate" /\ GateFree(Cmd(q))
    /\ \/ Refused(q) /\ UNCHANGED <<fence, target>>
       \/ /\ Admitted(q)
          /\ IF Open(Cmd(q)) THEN UNCHANGED <<fence, target>> ELSE NewFence(Cmd(q))
    /\ UNCHANGED <<handler, task, run, receipts, quoted, intent, proc, epoch, stops, crashes>>

\* Targets are taken in the order of the run ids.  A pending one is claimed before its
\* process is stopped; one that a crash left in "stopping" is stopped again; an answered
\* one is not touched.
Claim(d, r) ==
    /\ pc[d] = "targets"
    /\ r \in OpenTargets(Cmd(d)) /\ \A s \in OpenTargets(Cmd(d)) : r <= s
    /\ target' = [target EXCEPT ![Cmd(d)][r] = "stopping"]
    /\ fence' = [fence EXCEPT ![Cmd(d)] = IF @ = "reserved" THEN "stopping" ELSE @]
    /\ Goto(d, "stop") /\ at' = [at EXCEPT ![d] = r]
    /\ UNCHANGED <<handler, task, run, receipts, quoted, intent, proc, core, epoch,
                   sent, recovery, observers>>

\* Mutant of StopProcess: a run without a process here is taken for a stopped one.
StopMissing(r, a) ==
    \/ a = "unconfirmed" /\ UNCHANGED proc
    \/ a = "unconfirmed" /\ proc[r] = "alive" /\ proc' = [proc EXCEPT ![r] = "dead"]
    \/ a = "confirmed" /\ proc[r] = "launching" /\ UNCHANGED proc
    \/ a = "confirmed" /\ proc[r] \in {"alive", "dead"} /\ proc' = [proc EXCEPT ![r] = "dead"]

\* The port's contract: it confirms only what it has launched and seen end; "unconfirmed"
\* says nothing about the process.
StopProcess(r, a) ==
    \/ a = "unconfirmed" /\ UNCHANGED proc
    \/ a = "unconfirmed" /\ proc[r] = "alive" /\ proc' = [proc EXCEPT ![r] = "dead"]
    \/ a = "confirmed" /\ proc[r] \in {"alive", "dead"} /\ proc' = [proc EXCEPT ![r] = "dead"]

Stop(d, a) ==
    /\ pc[d] = "stop"
    /\ StopProcess(at[d], a)
    /\ stops' = [stops EXCEPT ![Cmd(d)][at[d]] = @ + 1]
    /\ Goto(d, a)
    /\ UNCHANGED <<handler, store, intent, core, epoch, at, sent, recovery, result, crashes>>

\* Mutant of Record: the thread's next step is written instead of the answer.
RecordStep(d) ==
    /\ pc[d] \in Answers
    /\ Goto(d, "targets")
    /\ target' = [target EXCEPT ![Cmd(d)][at[d]] = pc'[d]]
    /\ fence' = [fence EXCEPT ![Cmd(d)] = IF OpenTargets(Cmd(d)) = {at[d]}
                                           THEN "outcomes" ELSE @]
    /\ at' = [at EXCEPT ![d] = NoRun]
    /\ UNCHANGED <<handler, task, run, receipts, quoted, intent, proc, core, epoch,
                   sent, recovery, observers>>

Record(d) ==
    /\ pc[d] \in Answers
    /\ target' = [target EXCEPT ![Cmd(d)][at[d]] = pc[d]]
    /\ fence' = [fence EXCEPT ![Cmd(d)] = IF OpenTargets(Cmd(d)) = {at[d]}
                                           THEN "outcomes" ELSE @]
    /\ Goto(d, "targets") /\ at' = [at EXCEPT ![d] = NoRun]
    /\ UNCHANGED <<handler, task, run, receipts, quoted, intent, proc, core, epoch,
                   sent, recovery, observers>>

\* dispatch_internal, one at a time: the intent is reserved in the service store, ...
ServiceFree == \A d \in Drivers : pc[d] \notin {"target", "service"}

ReserveIntent(d) ==
    /\ pc[d] = "targets" /\ OpenTargets(Cmd(d)) = {} /\ ServiceFree
    /\ IF intent[Cmd(d)] = "revoked"
       THEN Answer(d, "expired") /\ UNCHANGED intent
       ELSE /\ intent' = [intent EXCEPT ![Cmd(d)] = "reserved"]
            /\ Goto(d, "target")
            /\ UNCHANGED <<result, core, at, sent, recovery>>
    /\ UNCHANGED <<handler, store, proc, epoch, stops, crashes>>

\* ... the lease is checked again in the project store, and if it has expired the
\* intent is revoked for good and the fence stays as it is; ...
Expire(d) ==
    /\ pc[d] = "target" /\ Stale(d)
    /\ intent' = [intent EXCEPT ![Cmd(d)] = "revoked"]
    /\ Answer(d, "expired")
    /\ UNCHANGED <<handler, store, proc, epoch, stops, crashes>>

\* ... else the domain change, the receipt and the end of the fence are committed, ...

\* Mutant of Confirmed: any answer counts as a confirmation.
Answered(c) == {r \in Runs : target[c][r] \in Answers}
Confirmed(c) == {r \in Runs : target[c][r] = "confirmed"}
Finalise(d) ==
    /\ pc[d] = "target" /\ ~Stale(d)
    /\ fence[Cmd(d)] = "outcomes" /\ Cmd(d) \notin receipts
    /\ {r \in Runs : target[Cmd(d)][r] # "none"} = ActiveRuns
    /\ run' = [r \in Runs |-> IF r \in Confirmed(Cmd(d)) THEN "cancelled"
                              ELSE IF r \in ActiveRuns THEN "interrupted" ELSE run[r]]
    /\ task' = IF Confirmed(Cmd(d)) = ActiveRuns THEN "cancelled" ELSE Attend(task)
    /\ fence' = [fence EXCEPT ![Cmd(d)] = "finalized"]
    /\ receipts' = receipts \cup {Cmd(d)}
    /\ Outdate
    /\ Goto(d, "service")
    /\ UNCHANGED <<handler, target, intent, proc, core, epoch, at, sent, recovery, observers>>

\* ... and the service store learns of it.
CommitService(d) ==
    /\ pc[d] = "service"
    /\ intent' = [intent EXCEPT ![Cmd(d)] = "applied"]
    /\ Answer(d, "applied")
    /\ UNCHANGED <<handler, store, proc, epoch, stops, crashes>>

Drive(d) ==
    \/ \E r \in Runs : Claim(d, r)
    \/ \E a \in Answers : Stop(d, a)
    \/ Record(d) \/ ReserveIntent(d) \/ Expire(d) \/ Finalise(d) \/ CommitService(d)

-----------------------------------------------------------------------------
(* A crash, and the opening of the project after it.                       *)

\* Processes in S end with the Core; launches that had not happened never do.
Crash(S) ==
    /\ crashes < MaxCrashes /\ crashes' = crashes + 1
    /\ S \subseteq Runs /\ \A r \in S : proc[r] = "alive"
    /\ core # "down" /\ core' = "down"
    /\ proc' = [r \in Runs |-> IF r \in S \/ proc[r] = "launching" THEN "dead" ELSE proc[r]]
    /\ pc' = [d \in Drivers |-> "idle"]
    /\ at' = [d \in Drivers |-> NoRun]
    /\ sent' = [q \in Requests |-> 0]
    /\ recovery' = "none"
    /\ stops' = [c \in Commands |-> [r \in Runs |-> 0]]
    /\ exitAt' = "idle" /\ exitOf' = NoRun
    /\ UNCHANGED <<store, intent, epoch, result>>

\* Mutant of Verdict: an intent still reserved has not been applied.
VerdictRevoked(c) == "revoked"

\* reconcile_startup: a reserved intent is decided by its receipt.
Verdict(c) == IF c \in receipts THEN "applied" ELSE "revoked"

Reconcile ==
    /\ core = "down" /\ core' = "reconciled"
    /\ intent' = [c \in Commands |-> IF intent[c] = "reserved" THEN Verdict(c) ELSE intent[c]]
    /\ UNCHANGED <<handler, store, proc, epoch, threads, observers>>

\* The orchestrator starts with recover_interrupted: running runs whose session the host
\* does not know are interrupted, and the user is asked about every active one.  The
\* writes are those of any other writer: under a fence they fail, and the start with them.
Start(known) ==
    /\ core = "reconciled"
    /\ known \subseteq Runs /\ \A r \in known : run[r] = "running" /\ proc[r] = "alive"
    /\ IF ActiveRuns \subseteq known
       THEN core' = "started" /\ UNCHANGED <<task, run, quoted>>
       ELSE IF Fenced
       THEN core' = "down" /\ UNCHANGED <<task, run, quoted>>
       ELSE /\ core' = "started"
            /\ run' = [r \in Runs |-> IF run[r] = "running" /\ r \notin known
                                      THEN "interrupted" ELSE run[r]]
            /\ task' = Attend(task)
            /\ Outdate
    /\ UNCHANGED <<handler, fence, target, receipts, intent, proc, epoch, threads, observers>>

\* Mutant of Register: the port serves without looking for fences.
RegisterOnly ==
    /\ core = "started" /\ core' = "serving"
    /\ UNCHANGED <<handler, store, intent, proc, epoch, threads, observers>>

\* The lifecycle port is registered: open fences are finished first, then it serves.
Register ==
    /\ core = "started"
    /\ IF Fenced
       THEN /\ core' = "recovering"
            /\ \E c \in Commands :
                  Open(c) /\ recovery' = c
            /\ Goto(Core, "targets")
       ELSE core' = "serving" /\ UNCHANGED <<pc, recovery>>
    /\ UNCHANGED <<handler, store, intent, proc, epoch, at, sent, observers>>

Opening == Reconcile \/ Register \/ \E known \in SUBSET Runs : Start(known)

-----------------------------------------------------------------------------
World ==
    \/ \E r \in Runs : Dispatch(r) \/ Launch(r) \/ Exit(r) \/ Report(r) \/ Settle(r)
    \/ ReportRun \/ ReportTask
    \/ Takeover
    \/ \E S \in SUBSET Runs : Crash(S)

Next ==
    \/ World
    \/ \E q \in Requests : Send(q) \/ Reserve(q)
    \/ \E d \in Drivers : Drive(d)
    \/ Opening

Spec == Init /\ [][Next]_vars

\* Threads that have started go on, and a project that is down is opened again.
Fairness ==
    /\ \A q \in Requests : WF_vars(Reserve(q))
    /\ \A d \in Drivers : WF_vars(Drive(d))
    /\ WF_vars(Opening)
FairSpec == Spec /\ Fairness

\* Clients, besides, keep resending.
ResendSpec == FairSpec /\ \A q \in Requests : WF_vars(Send(q))

-----------------------------------------------------------------------------
(* Properties.                                                             *)

\* The revisions and the targets that were checked when the fence was reserved still hold
\* when it is finalised, however long that takes: kernel.rs 907-909 lets the recovery skip
\* the check for this reason, and Finalise compares the targets with the active runs.
FenceFreezes ==
    \A c \in Commands : Open(c) =>
        /\ quoted[c] = "current"
        /\ {r \in Runs : target[c][r] # "none"} = ActiveRuns

\* A run that is recorded as cancelled has no process, and never gets one: not even
\* the launch of a dispatch that was under way when the fence came.
CancelledIsStopped == \A r \in Runs : run[r] = "cancelled" => proc[r] = "dead"

\* A process is asked to stop at most once for a command in one life of the Core,
\* however often the command is sent.
StoppedOnce == \A c \in Commands, r \in Runs : stops[c][r] <= 1

\* The two stores agree: what the service store calls revoked has not been applied, what
\* it calls applied has been, and once nothing is under way they say the same.
StoresAgree ==
    \A c \in Commands :
        /\ intent[c] = "revoked" => c \notin receipts
        /\ intent[c] = "applied" => c \in receipts
        /\ c \in receipts /\ core \in {"reconciled", "started"} => intent[c] = "applied"

\* What a client was told has happened: a Cancel that was answered "applied", by its own
\* driver or from the receipt of another request, is durable in the project store.
AppliedIsDurable == \A q \in Requests : result[q] = "applied" => CmdOf[q] \in receipts

\* While the Core serves, an open fence has a driver, or its command has been revoked.
FenceHasDriver ==
    \A c \in Commands : core = "serving" /\ Open(c) =>
        \/ \E q \in Requests : CmdOf[q] = c /\ pc[q] \notin {"idle", "gate"}
        \/ intent[c] = "revoked"

\* An open fence is closed, unless its command is revoked or the project fails to open.
FenceResolved ==
    \A c \in Commands : Open(c) ~> (~Open(c) \/ intent[c] = "revoked" \/ core = "down")

\* It implements a Cancel that happens at one instant.
Atomic == INSTANCE AtomicCancel WITH done <- receipts
AtomicSpec == Atomic!Spec

\* What the source says of the recovery, and the model refutes (section 5 of the README).
FenceSurvivesCrash ==
    \A c \in Commands : Open(c) ~> (~Open(c) \/ intent[c] = "revoked")
FenceSurvivesTakeover == \A c \in Commands : Open(c) ~> ~Open(c)
=============================================================================
