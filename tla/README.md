# A TLA+ model of MonkeyFence

MonkeyFence runs *workflows* of coding agents: a task owns a pipeline revision, a graph of steps; each step is
attempted by *agent runs*, terminal processes that work in a leased directory and end by *settling* their run
(complete or fail). A headless Core owns the stores and the processes; web, CLI and native clients send it commands.

This directory holds TLA+ modules of the parts where the order of events decides what is right, TLC configurations
that check them on small instances, and TLAPS proofs of what holds for every instance. `PROJECT.json` is the index:
which definition models which lines, what every run checks, which change of the code each property would catch
(`mutants`), what is hard to test in this code (`hazards`), what the model refutes (`findings`).

    tlc -workers 2 -config WorkflowRunChain.cfg MCWorkflowRun      # model-check one run
    tlapm RunProofs.tla                                            # check the proofs of a module

## 1. The system

| component | state | operations | talks to |
|---|---|---|---|
| run store (`mf-agent/store.rs`, `run_mutation.rs`) | SQLite: `agent_tasks`, `steps`, `agent_runs`, `execution_leases`, `merge_batches`, questions, inputs, cancel fences | run mutations: start, cancel, retry, skip, settle, report, respond, pause, ...; each is one transaction and returns *run actions* | called by kernel and orchestrator |
| kernel (`mf-kernel/kernel.rs`, `command.rs`) | service store: intents, receipts, operations; per-project publication mutex; `projection_outbox` rows with the run actions | validates and applies a command in one transaction, then drains the row's actions | store, orchestrator (lifecycle port), journal |
| orchestrator (`mf-agent/orchestrator.rs`) | memory: `active_dispatches` (slots), `held_leases`, `step_leases`, pending merges | executes run actions; the `mf-dispatch` thread dispatches ready steps; the `mf-runtime-pump` thread applies runtime events | store, directory provider, agent runtime |
| run lifecycle port (`run_lifecycle.rs`, `execution_ports.rs`) | – | stop a run's process and say whether that is certain | terminal host |
| cancel fence (store, `schema.rs` triggers) | `run_cancel_fence` and `run_cancel_target`, phase by phase | reserve, stop, record outcomes, finalise; recovery | all writers of the task |
| node input, questions, join batches, graph patch (store, orchestrator) | their tables | freeze and consume input; accept and deliver answers; merge leases; replace a revision | store, provider |
| command coordinator, operation saga (`command.rs`, `operation.rs`, `reconcile.rs`, `workflow_start.rs`) | intents, receipts, steps of long operations | reserve, apply once, finalise; compensate; reconcile at startup | both stores |
| event journal (`journal.rs`) | epoch, sequence, per-client queues | publish pending rows, subscribe, rotate the epoch | clients |
| controller and writer leases (`lease.rs`, `takeover.rs`, `writer_lease.rs`) | controller epoch, writer lease, input sequence | grant, renew, revoke, take over, admit input once | web gateway |
| owner lock (`singleton.rs`, `core_lifecycle.rs`) | OS mutex, owner record, phases | one Core per service store | operating system |
| terminal sessions (`mf-terminal`) | process, journal of output, transcript, exit gate | spawn, write, resize, stop, replay | PTY |
| project registry, run tokens (`project_registry.rs`, `kernel.rs`) | registered roots, folders, token index | register, mount, close; find the run of a token | stores, orchestrator |
| workflow editor (`kernel.rs`, `store.rs`, `workflow_validation.rs`, `workflow_compiler.rs`) | workflows with a semantic and a presentation revision, identities, positions | mutations by handle, compile, Start | clients |
| directory provider (`mf-plugins/git_worktree_provider.rs`) | worktrees, integration ref, journal of a merge | acquire, merge, undo, recover | Git, the user's files |
| migrations (`migration.rs`, `catalog_migration.rs`) | schema version, backups | guard, back up, upgrade, import | SQLite |
| agent pipe and `mfctl` (`pipe_server.rs`) | command ids of an agent | complete, fail, report, propose, evolve | kernel |
| web gateway (`mf-web`), browser client (`src/web`) | sessions, nonces, entry file, tabs | authorise, take over, send commands | kernel |
| projections (`run_projection.rs`, `workspace_projection.rs`) | – | what is running, what needs its user | clients |
| other plugins, installer, elevated host, VCS readers, presentation | files, processes | I/O | – |

What is hard: a command commits in the store and its consequences run afterwards, at least once, from an outbox row;
three threads and the agents' processes write the same rows between those moments; a cancel may or may not be able to
stop a process; the Core may stop at any point and has to make sense of what it finds.

What makes each component correct:

- *run store, kernel, orchestrator*: an outcome is final; a step starts after its dependencies; one attempt of a step
  at a time; a cancelled task runs nothing and stays cancelled; success means every step is done; slots and leases
  are held exactly as long as an attempt needs them; promotion and convergence survive crashes.
- *cancel fence*: nothing writes a fenced task; a fence once reserved is finalised, also after crashes; no run is
  called cancelled that was not confirmed stopped.
- *node input*: an attempt consumes the input that was frozen for it, once. *Questions*: an answer reaches the
  question it was given to, at most once per question. *Join*: each lease is merged by one owner, once.
- *command coordinator, saga*: a command id takes effect at most once and its result is stable; an operation ends with
  all its steps done or every effect compensated.
- *journal*: a subscriber sees every event of an epoch in order or is told to resynchronise.
- *leases*: one writer; nothing of an old controller enters the write queue after a takeover.
- *owner lock*: one owner, whose records nobody writes over.
- *terminals and agents' threads*: no process that nobody can find; a run called stopped does nothing more; every end is
  reported once; output is stored and shown completely or its loss is visible.
- *registry*: a token is used on one run; a store has one scheduler.
- *workflow editor*: what is stored can be run; nobody overwrites what they have not seen; a run does what its user saw.
- *directory provider*: what a user saved is kept; a merge is whole or undone.
- *migrations*: whatever is upgraded can be had back; a schema never goes back.
- *agent pipe*: an agent is told what was done, however often it asks.
- *gateway, client*: only the controller writes; one click is one write; the entry link lets its user in once.
- *projections*: a run that stands still says that it needs its user; the views agree.

## 2. Modules

| module | content |
|---|---|
| `WorkflowRun` | the execution core: store transactions, drain, dispatcher, exit handler, agents, crash and restart |
| `MCWorkflowRun` | the graphs TLC uses |
| `CancelFence` | the saga behind a Cancel: reservation, stops, outcomes, finalising command over two stores, takeover, crash and recovery |
| `AtomicCancel` | what that saga promises: a Cancel that happens at one instant |
| `MCCancelFence` | the runs and requests TLC uses |
| `OperationSaga` | the long operation behind a Start: acceptance, worker, steps with receipts in two stores, compensation, dispatch, closing and opening of the project, crash |
| `MCOperationSaga` | the requests TLC uses |
| `TerminalSession` | the registry of agent processes and the threads that launch, attach, stop and wind them down |
| `TerminalOutput` | replay journal, transcript and an attached connection |
| `TerminalWriter` | who may type: writer leases, numbered input, acknowledgements |
| `QuestionDelivery` | a question of an agent and the way of its answer back |
| `JoinMerge`, `MCJoinMerge` | merging the leases of the parents of joins; the joins TLC uses |
| `RunRevision` | inputs of nodes and their review, pause, replacement of the graph of a run |
| `EventJournal` | publication barrier, outbox, journal epochs, subscribers |
| `CommandReceipts` | the life of any command over two stores |
| `MCServices` | the eight modules above on small instances |
| `OwnerLock` | one Core per user: mutex, records, epochs |
| `RunCapability` | which run a token stands for |
| `ProjectMount` | a directory becomes a project with a scheduler and ports |
| `WorktreeMerge` | how the files of a merge are replaced while the user works on them |
| `WorkflowEdit` | editing workflows and freezing one into a run |
| `SchemaMigration` | opening, backing up and upgrading a database that others use |
| `RunGate` | the revisions and sets that a command on a run quotes |
| `AdHocSession` | agents started beside a run |
| `TermScreen` | the parser and grids of a terminal |
| `HttpTurn` | the thread that talks to a provider and carries out tools |
| `EntryLink` | the nonce and the file that let the user in |
| `WebAccess` | sessions, roles and tabs |
| `AgentPipe` | `mfctl`, the named pipe and commands with a run token |
| `NeedsYou` | what a run asks of its user, in two views |
| `MCPlatform` | the fourteen modules above on small instances |
| `RunProofs` | proofs about `WorkflowRun` and `RunRevision` |
| `FenceProofs` | proofs about `CancelFence`, with the refinement of `AtomicCancel`, and `TerminalWriter` |
| `SagaProofs` | proofs about `OperationSaga`, `TerminalSession` and `TerminalOutput` |
| `KernelProofs` | proofs about `EventJournal` and `CommandReceipts` |
| `QuestionJoinProofs` | proofs about `QuestionDelivery` and `JoinMerge` |
| `PlatformProofs` | proofs about `OwnerLock`, `RunCapability`, `WebAccess`, `AgentPipe`, `ProjectMount`, `AdHocSession` and `EntryLink` |
| `StoreProofs` | proofs about `WorktreeMerge`, `SchemaMigration`, `RunGate` and `NeedsYou` |
| `MCPlatformProofs` | what `MCPlatform` promises of the eleven modules of the last two, together |

The two systems meet in one action. `WorkflowRun` has Cancel as the single transaction `Cancel(confirmed)`, with the
hosts' answers as its argument; `CancelFence` shows that the real thing, which takes many transactions in two databases and
calls to the process host between them, looks like that from outside (`AtomicSpec`).

### `WorkflowRun` and the code

One task with one active revision. **One action is one store transaction, or one stretch of work of a thread between
two transactions**; everything that can run between two such stretches is interleaved.

| variables | code |
|---|---|
| `task`, `step`, `attempts`, `run`, `stepOf`, `outcome` | columns of `agent_tasks`, `steps`, `agent_runs` (`unborn`: no row yet) |
| `leaseOwner` | the held `execution_leases` row of a step, with the run that owns it |
| `row`, `todo`, `verdict` | the unpublished `projection_outbox` row with its run actions; those still to execute; the status that `check_convergence` or `task_attention_cleared` has decided and not yet written |
| `holds`, `active` | `held_leases` and `active_dispatches` of the orchestrator (lost in a crash) |
| `disp`, `pump` | where the dispatch thread and the runtime pump are between two transactions |
| `proc` | what is left of the agent process: never launched, able to send events, or gone with a crash |
| `restarts`, `adopted`, `reopened` | observers used in properties only: crashes so far, runs re-attached by the last restart, terminal steps overwritten by the exit handler |

`KernelCommand` is the kernel: `Cancel`, `Retry`, `Skip`, `Settle`, `ReportDone`. Each is the arm of
`apply_run_mutation_tx` with its guards, all its row updates and the actions it queues, enabled only when no row waits:
the publication mutex is held over commit and drain, and the lifecycle port is registered after the drain of what a crash
left. A repeated settlement with the recorded outcome changes nothing and its actions are dropped by the kernel
(`kernel.rs:4855-4870`), so it is a stutter; one with the other outcome is refused. `Drain` executes one run action per step, the decision and the write of a task status apart.
`Dispatcher` follows `tick` and `dispatch` through transaction, slot, lease and launch, with failure at each fallible point. `Pump`
follows `apply_runtime_event` and `enter_awaiting_outcome` write by write. `Restart` is a crash followed by
`recover_interrupted_with`, the lease restoration and the replay of the row.

What is abstracted: settle payloads, handoffs, results and timestamps; the schema check of an output (it refuses a
settlement, which may always fail to come); session affinity and the readiness of agents, which delay a dispatch;
`DispatchReady`, which only wakes the dispatcher; the join deferral of a lease, which keeps it held
longer (`leaseOwner` of a succeeded step is released by its settlement here; `JoinMerge` has the rest). Cancel is its finalising transaction: the host's answers are its
argument and nothing is written between them and it, which is what the fence's triggers ensure.

Not in the model, because nothing that runs today reaches it: the events `SpawnError` and `Settled`, which only the older
launch path sends; `cancel_task`, `cancel_run` and `skip_step` of the orchestrator, which
only tests call; retry budgets above zero (set by tests only; the model has them as `AutoRetry`). Pause and the input gate, questions, join
merges and graph patches are modules of their own.

### `CancelFence` and the code

One task; each command id may be sent by several requests; a request and the recovery are the *drivers* of the saga.

| variables | code |
|---|---|
| `task`, `run` | `agent_tasks.status`, `agent_runs.status` |
| `fence`, `target` | `run_cancel_fence.state`, `run_cancel_target.state` (`finalizing` exists only inside one transaction) |
| `receipts` | `command_receipt` of the project store |
| `quoted` | whether the revisions a command id quotes are those of the store: no write since, or some |
| `intent` | `command_intent.state` of the service store |
| `proc` | the process of a run, as the host knows it |
| `exitAt`, `exitOf` | where `enter_awaiting_outcome` is between its transactions, and for which run |
| `core`, `recovery` | the opening of a project: reconciled, orchestrator started, port being registered, serving; the fence under recovery |
| `epoch`, `sent` | the controller epoch, and the one a request was accepted in |
| `pc`, `at` | where each driver is, and the target it is working on |
| `result`, `stops`, `crashes` | observers: last answer to a request, stop calls for a target in this life of the Core, crashes |

**One action is one transaction, one stop call, or one look of a thread before its write.** `Send`, `Reserve`, `Claim`, `Stop`, `Record` are
`cancel_command` and `dispatch_cancel` (`kernel.rs`) over `reserve_cancel_fence_tx`, `mark_cancel_target_stopping` and
`record_cancel_target_outcome` (`store.rs`); `ReserveIntent`, `Expire`, `Finalise`, `CommitService` are the three commits of
`dispatch_internal` (`command.rs`), in two databases. `Reconcile`, `Start` and `Register` are the opening of a project
in its order: reconcile the intents, `recover_interrupted_with`, register the port and finish the fences. `Crash` may come
between any two of these and takes any set of the living processes with it.

The triggers of `schema.rs` are the guard `Unfenced` of every write of the task by somebody else: dispatch, settlement,
the exit handler, the recovery of the runs. They do not hold back what is not a write: a process that was about to be launched is launched, and an
exit handler that has looked at the run before the fence writes after it.

What is abstracted: the steps and sessions of the task (their writes move the same revisions and are refused by the same
triggers, so they are in `quoted`); the other ways a run can change (`Settle` stands for them); the scope and role checks of a
request, which are refused before anything is written; the write that the exit handler makes to the step. The port is external: its contract is that "confirmed" is said of
a process it launched and saw end, and "unconfirmed" says nothing.

### `OperationSaga` and the code

One project and one workflow; a Start command may be sent by several requests and queued several times. Where
`WorkflowRun` begins with a running task, this is how that task comes to be.

| variables | code |
|---|---|
| `accepted`, `done` | `command_receipt` of the project store: of the acceptance, of the steps |
| `task`, `outbox` | `agent_tasks.status` of the task of a Start; its `DispatchReady` in `projection_outbox` |
| `workflow` | whether the workflow has the revision that the Starts quote, another one, or is gone |
| `intent`, `op`, `outcome`, `step`, `owner` | `command_intent`, `operation`, `operation_step` of the service store; the controller frozen in the intent |
| `lease`, `sent` | the controller now, and when a request was checked; a number stands for an epoch with its client |
| `project`, `mutex`, `blocked` | registered, ports registered, serving or closing; the publication mutex; `run_action_blocked_targets` of the journal |
| `pc`, `queue`, `at`, `cmd`, `tries`, `seen`, `saved` | where requests and worker are; `saved`: the project store of a step has committed, the service store has not |
| `late`, `unqueued`, `created`, `delivered`, `crashes`, `faults` | observers and the counters of the bounds |

**One action is one transaction, or one commit of the two that a step has.** `Send`, `Reserve`, `Accept...`, `Answer` are the Start arm of
`dispatch_workflow_run_sealed` with `accept_internal` (`kernel.rs`, `operation.rs`). `Take`, `Look`, `Begin` are the worker up to
the critical section; `Step...` is `execute_step`, by what it finds in the order in which it looks: state of the operation, record of the
step, controller, receipt, quoted revision, effect. `Decide` is the loop of `run` with `decide_saga` and `finalize_tx`;
`Deliver` the drain that ends the critical section. `Close`, `Closed`, `Register`, `RegisterLifecycle`, `RegisterStart` are the freeze, the end
and the opening of a project in its order. `Crash` may come between any two of these; a controller does not outlive the Core,
because web sessions are kept in memory and only they send Starts.

What is abstracted: the payload of the plan and the checks that it was not exchanged; other projects and other kinds of operations (nothing
else compiles one); Cancel, which is one step here and has `CancelFence`; publication, except that it may fail. The effects of
the three steps are external transactions of the run store: a draft, a running task with its dispatch, a deleted draft.

### The services: eight modules in `MCServices`

These eight share no variable with one another and none with the three above. `MCServices` checks them in one run: its
variable `world` chooses one in the first state, and the others stand still. So the state space is the sum of
theirs, and each property speaks of its own world.

**`TerminalSession`** (`session_runtime.rs`, `orchestrator.rs`). `registry` and `binding` are `SessionRegistry.sessions` and `run_sessions`, `alive` and
`terminated` the flags of a `PtySession`, `launcher`, `reader`, `stopper` the threads, `reports` the runtime events on their way to the
pump. `DispatchRun` and `Launch` attach a run to a live session or start a process, write by write; `ProcessEnds`, `Reader`, `WaiterConfirms` wind it down;
`PumpReport` applies what the reader reports; `Stop` is `stop_run` in its steps, `CloseTerminal` is `kill_session`. The registry is keyed by the handle of a row which can be
launched into again, so a thread may meet the successor of the process it is about. A run launches one process at most; all rows carry one session key.

**`TerminalOutput`** (`journal.rs`, `transcript.rs`, `ws/terminal.rs`). `first`, `last` are the replay ring, `buffered` the flusher, `segments` and `head` the transcript, `conn` an
attached connection. `ReadChunk`, `ReadRest`, `ReaderDies`, `CommitExit`, `UnhostEpoch` are the reader of a process to its end; `Attach`, `Acknowledge`, `TickOutput`, `TickExit` the
connection. A chunk is its number; redaction holds back the last bytes (`unflushed`).

**`TerminalWriter`** (`writer_lease.rs`). `active`, `tombstones`, `drawn` are the manager; `overdue` says that the clock has passed `expires_at`, which the
manager notices only when it is called. `RequestWriter`, `RenewWriter`, `ReleaseWriter`, `CloseWriter` and the four outcomes of an input
(`TypeInput`, `TypeFails`, `RepeatInput`, `RefuseInput`) are its calls.

**`QuestionDelivery`** (`store.rs`, `orchestrator.rs`, `session_runtime.rs`). `AskHuman` to `HostLost` are the tool loop at its slot, `PumpRow` to `PumpTask` the four writes of the pump, `Respond` the mutation,
`DeliverAgain`, `AnswerBound`, `AnswerFails`, `ConfirmDelivery`, `DeliveryDone` the execution of `AnswerRuntime`, at least once. One run in an HTTP session; a terminal agent gets its answer as typed text.

**`JoinMerge`** (`orchestrator.rs`, `store.rs`). `held` is `execution_leases`, `batch` `merge_batches` with the life of its owner, `pendingRows` `pending_merges`, `worker` the thread that holds the settlement lock.
`ClaimBatch`, `ProviderMerges`, `ProviderConflicts`, `Conclude...`, `ReleaseBatch`, `MarkReleased` are `merge_leases` in its steps, `BeginResolve` the user's resolution, `RecoverBatch`
the start. A refused claim is an error: it ends a settlement and leaves its action in the outbox, while the flushes of the tick and of the start leave the joins that follow and go on with the
single leases (`ClaimRefused`; `orchestrator.rs` 1688-1691, 2704-2750, 3159-3163). Left out: the deferral rows, cancel and archive, pins.

**`RunRevision`** (`store.rs`, `node_input.rs`, `orchestrator.rs`). `graphs`, `rows`, `tries`, `inputs`, `handoffs` are the tables, `dispatcher` what the tick has read. `TickLists`, `PrepareInput`, `CommitTry` are
one dispatch in its three parts; `ApplyPatch`, `Pause`, `SaveInput`, `ConfirmInput`, `RetryRow`, `SkipRow`, `SettleTry` come between. Left out: leases, slots, task status (`WorkflowRun`),
interrupted runs, the session behind a choice, output schemas.

**`EventJournal`** (`journal.rs`, `kernel.rs`). `stored` and `unpublished` are the stores, `journal` and `queues` the hub, `poisoned` and `blocked` its sets. A command, a snapshot and a subscription each run
under the barrier and are one action; polls and the orchestrator's own writes run between them. `DrainAgain` is the reconciliation, `RestartCore` a crash. Left out: sizes of events, tombstones, what a
projection contains; a revision stands for it. What the orchestrator writes moves revisions without an event, as in the code.

**`CommandReceipts`** (`command.rs`, `reconcile.rs`). `intent` is the service store, `receipt` and `aggregate` the project store, `gate` the command behind the command gate. `ReserveIntent`, `DispatchGuarded` and
`DispatchLost` are `dispatch_internal` with and without its last transaction; `ReconcileIntent` the start; `CollectIntents`, `CollectReceipts` the collection. A digest is identified with the command.

### The platform: fourteen modules in `MCPlatform`

Checked in the same way, in the run `platform`.

**`OwnerLock`** (`singleton.rs`, `core_lifecycle.rs`). `mutex` is the operating system's, `coreLock` and `discovery` the two files, `meta` the epoch in the service store. `TakeMutex`, `YieldToPredecessor`,
`JudgePredecessor`, `NextEpoch`, `WriteLock`, `WriteDiscovery`, `PublishFails` are the acquisition; `ShutdownStep`, `ReleaseLock`, `RemoveDiscovery`, `ReleaseFails`, `DropMutex` the way out; `CoreDies`, `MutexReclaimed`,
`RecordsLost`, `HeartbeatExpires` the environment. Nobody waits without end: the mutex is tried with a time limit (`singleton.rs:257-359`), and a core that does not get it ends, so what can go wrong is a takeover
(`FreshOwnerStays`, `RecordsFollowTheMutex`), a half-made release (`RecordsFollowTheMutex`, `FencedIsSuperseded`) and an epoch given twice (`EpochsAreUnique`), not a deadlock. Left out: unreadable records, faults of the roll-back, `handoff.rs`.

**`RunCapability`** (`kernel.rs`, `project_registry.rs`). `agentRuns` are the runs of each project store, `capability` the token index; `Resolved` is the way from a token to its run. Projects are copied, attached,
closed in their two phases (`PrepareClose`, `FinalizeClose`). Left out: proposals, receipts, several tokens in one check.

**`ProjectMount`** (`project_registry.rs`, `workbench_serve.rs`, `execution_ports.rs`). `ResolveMount`, `AttachProject`, `BeginAssembly`, `StartScheduler`, `RecoverActions`, `RegisterPorts` are a mount, between whose steps other
requests, `AddFolder`, `DetachProject` and restarts come. Left out: spellings of paths, names; the two ports are one.

**`WorktreeMerge`** (`git_worktree_provider.rs`, `fs_safe.rs`). `folder`, `backup`, `verify` are a file's three names, `integration` the ref, `txn` the journal, `merge` the transaction. `CheckMerge`, `WriteJournal`,
`AdvanceRef` precede the files; `Look`, `Take`, `Install`, `Restore`, `DropBackup`, `ClaimName`, `MoveAside`, `MoveBack` are the calls of the compare-and-swap of one file and of its undoing; `CallFails`, `MergeCrash`, `ReplayJournal`
the failures; `UserSaves`, `UserDeletes` happen at any moment. Left out: path validation and links, file modes, a journal that was tampered with, several tasks and refs, the order of leases (their changes are disjoint);
all a user's bytes are one value; Windows and Unix calls are taken alike.

**`WorkflowEdit`** (`kernel.rs`, `store.rs`, `workflow_validation.rs`, `workflow_compiler.rs`, `execution_ports.rs`). `wf` are the tables, `read` what some client has read: a command depends on one old snapshot, so one
variable refreshed at any time stands for every client. One action per mutation, then `PrepareStart`, `AcceptStart`, `RefuseStart`. Left out: titles, schemas, field paths, text references, plugin pins, layout,
enabling of instances, the compilation of a patch; the instance has one key.

**`SchemaMigration`** (`migration.rs`, `schema.rs`, `catalog_store.rs`, `catalog_migration.rs`). `file`, `writer`, `artifacts`, `catalogs` are the database, SQLite's lock, the backups and the pair of catalogs; `opener` the programs.
`Guard`, `Lock`, `Stage` to `MarkEnds`, `Change` are an upgrade, `Import` the second catalog; `Stop` comes anywhere. Left out: the DDL, access control, write-ahead pragmas; an error in the staging copy is a `Stop`.

**`RunGate`** (`kernel.rs`, `api/kernel_bridge.rs`, `store.rs`). `seen` is the client's snapshot (`ReadRun`, then `ReadProposals`), `pump` the event the orchestrator is in the middle of. `Send...` are the commands: their
guards compare every quoted revision and set. Left out: fences, kept sessions, pending merges, dependencies of steps, inputs, unread marks, the gap inside `enter_awaiting_outcome` (`CancelFence` has it).

**`AdHocSession`** (`orchestrator.rs`, `session_runtime.rs`). `adRow`, `adShown` are the session's row and the row that shows it; `creation`, `waiter`, `adReader`, `adPump` the threads. One action per write of the creation and of
its undoing, of the process's end, of the stop. Left out: temporary directories; one session in the instance.

**`TermScreen`** (`term_screen.rs`). `screen` is the `Screen` with both grids, region, cursor and parser state; `Byte` and `EscapeToken` are the parser on one byte, or on a whole sequence, `Resized` is `resize`. Cells are blank or
inked; characters, widths and colours other than one are left out.

**`HttpTurn`** (`session_runtime.rs`, `provider.rs`). `turn` are the threads with their conversation, `session`, `hosted`, `bound` the registry. `Iterate`, `Reply`, `CarryOut`, `NextRound`, `Report`, `MarkTerminated` are a thread; `StopTurn`,
`StopSees`, `StopLate`, `KillHttp` the ways to end it. `Merged` is the conversation as Anthropic gets it. Left out: question slots (`QuestionDelivery`), contents of files; the product's least number of rounds is 4, the instance has 2.

**`EntryLink`** (`auth.rs`, `workbench_serve.rs`, `tray_status.rs`). `nonces`, `rate` are `BootstrapAuth`; `names` and `inodes` the file and its staging name; `publishers` the three writers. A publication is shorter than a tick.

**`WebAccess`** (`auth.rs`, `workbench_serve.rs`, `client.ts`, `main.tsx`, `shell.tsx`). `webSessions` and `lease` are the two records of who may write; `cookie`, `tab`, `request` the browsers. `Click`, `Handle`, `Probe`, `Resend`,
`TakeAgain`, `Tell` are one write from the click to the message; requests are shorter than a tick. Left out: Host and Origin, read-only routes, websockets.

**`AgentPipe`** (`pipe_server.rs`, `kernel.rs`, `mfctl`). `call` are the calls, `intent` and `receipt` the command id `k`, `inside` the call in the critical section, `unsent` the actions a settlement owes. `Invoke` to `Enter` are the client and the
pipe; `Replay`, `Refuse`, `ReserveIntent`, `CommitCommand`, `DrainOwed`, `Seal` the kernel. Left out: parsing of arguments, several runs and tokens.

**`NeedsYou`** (`run_projection.rs`, `workspace_projection.rs`, `store.rs`). `plans`, `board`, `launches`, `asked`, `sheets`, `clashes` are the tables; `ListReasons` is the list's reading, `DetailReasons` the details', which take three
(`pane`). Left out: the automatic retry, versions of an input, drafts, titles, sessions, leases.

## 3. Runs

| run | instance | question |
|---|---|---|
| `chain` | two steps in a chain, 1 slot, the first step may retry itself once; 2 agent runs, or 1 and a crash | do the safety properties hold in every interleaving of commands, drain, dispatcher and exit handler? is a promotion ever lost, a finished task left running? |
| `fence_rivals` | 1 agent run, a Cancel sent twice and a rival Cancel, a takeover, 1 crash | can requests, rivals, takeover and recovery break the saga? is it an atomic Cancel? |
| `fence_progress` | 2 agent runs, one Cancel, a takeover, 2 crashes | is an open fence closed? |
| `start_saga` | one Start, sent twice; one takeover, 1 crash, 1 transient error, any number of closings and openings | does a Start take effect at most once, never after its end, and completely? does it end? |
| `services` | eight components, each on its own instance | below |
| `platform` | fourteen components, each on its own instance | below |
| `cancelled_run`, `lease_lost` | one step, 2 agent runs, 1 crash | what the source claims and the interleavings refute (section 5) |
| `fence_crash`, `fence_takeover` | 1 agent run, one Cancel; 1 crash, or a takeover | likewise |
| `join_shared` | three steps, two joins with a parent in common, no faults | likewise |
| `merge_torn` | one lease, two files, one failed call | likewise |

**Bounds of `WorkflowRun`.** `MaxRuns` bounds the agent runs ever created, `MaxRestarts` the crashes, `MaxWork` both together. They are the only bounds on the length of a
history: settling, retrying and dispatching need a new run to repeat. Two runs are what the hazards need: an old attempt and its retry, or two
competing steps. A chain of two steps has promotion and blocking; an attempt that retries itself while it runs competes with its successor for the only
slot. The proofs do not depend on any of these numbers. When the bounds are used up
the system goes on stuttering in exits and settlements, or stops; where TLC finds no deadlock, none is suppressed.

**Bounds of `CancelFence`.** `MaxEpoch` = 2 is one takeover, which makes every older request stale, and a third epoch is no staler. The
three requests of `fence_rivals` are the smallest set with both kinds of rivalry: two requests of one command meet
at the gate, two commands at the fence. `MaxCrashes` = 2 puts a crash into the recovery of the first. Two
targets make partly answered fences, and mixed answers.

**Bounds of `OperationSaga`.** Two requests of one command are a resend, and with it an operation that is queued twice
and one that is ended under the hands of the worker. One crash, one error and one takeover, in any order and at any point,
put each of the three between the two commits of a step, between steps, before the decision and before the delivery, and combine them. Closings
and openings are not bounded. The worker's three attempts are the code's (`MaxTries`). Two commands meet only
in the queue, the critical section and the outbox, which one worker serves one by one; the instance has one.
The deadlock check is off in this run: when the last attempt of the worker fails in the delivery, the critical section stays blocked, and if
the project has no run whose command could lift that, nothing more can happen before a restart.

**`services`.** Deadlock is not checked here and in `platform`, because each world has bounds and ends when they are used up.

| property | what it says | instance, and why it is enough |
|---|---|---|
| `SessionSafety` | no process that cannot be found; `stop_run` tells the truth; every end reaches its run | 2 runs on 2 rows: a process and its successor under one handle, and a run that attaches |
| `OutputSafety`, `AttachLeavesNoGap` | transcript and connection miss nothing but what was evicted | 2 epochs of 2 chunks, a ring of 1, one failed commit: eviction, a second process under the handle |
| `WriterSafety`, `EndedTypesNothing` | input is typed in order, once, under a living lease | 2 connections, 2 leases, 2 inputs, 2 payloads, a window of 1: takeover, resend, conflict, forgotten acknowledgement |
| `QuestionSafety` | an answer reaches its question, once, and can be confirmed | 2 questions, 2 answers: a late answer and the next question |
| `JoinSafety` | a join sees its parents' work; nothing merged twice or lost | one join of two parents, 2 attempts, 1 crash, 1 refusal; `MCJoinMerge` has larger ones |
| `RevisionSafety`, `PausedStartsNothing` | an attempt starts with the agreed input, sees its parents' results, under the graph as it is | three graphs, 2 revisions, 2 attempts, 1 edit: insertion, removal, review |
| `StreamSafety` | a subscriber misses nothing unless told | 2 workflows and a run in 2 stores, a journal of 2, a queue of 1 |
| `CommandSafety` | a command has one effect and a true answer | 2 commands of 2 clients, 2 epochs, 1 loss, 2 collections |
| `OwedIsExecuted`, `OnlyTheHolderActs` | owed actions are not dropped; a lost lease changes nothing | as above |

The action properties are the conjuncts of `ServiceSteps`.

**`platform`.**

| world, property | what it says | instance |
|---|---|---|
| owner: `OwnerSafety`, `FreshOwnerStays` | epochs are unique; the records are the owner's; a living owner is not displaced | 3 cores, 2 faults (two successors of one fault) |
| capability: `CapabilitySafety`, `RevokedForGood` | one run per token; only copies are quarantined; what a close revoked stays so | 2 projects, 1 token |
| mount: `MountSafety` | no folder becomes a root, one scheduler per store, a listed project has its ports | 2 paths, 2 requests, 2 units of work |
| merge: `MergeSafety` | saved bytes are kept; a merge is whole or undone | 2 files, 2 leases, one crash, failed call, edit or deleted ref |
| edit: `EditSafety` (S) | graphs can be run; handles keep their meaning; a revision names one content; runs do what was seen | 3 node keys, 3 commands |
| schema: `MigrationSafety`, `SchemaNeverGoesBack` | every upgrade has a true backup; one changer; one import | 2 programs, 2 versions, 3 openings, 2 writes |
| gate: `GateSafety` | a command acts on what its sender saw | 1 step, 2 attempts, 2 graphs, 2 questions, 7 moves |
| adhoc: `AdHocSafety`, `EndedStays` | no orphan; both rows end alike; done means done | 1 session, each contract |
| screen: `ScreenSafety`, `MainIsKept` (S) | grids, region, cursor fit; lines outside the region stay | 2 sizes, 4 tokens on a written screen |
| http: `HttpSafety` (S) | calls are answered in order; sides alternate; a stopped run is quiet; writes stay inside | 2 runs on a handle, 2 rounds, one scripted |
| entry: `EntrySafety` | one session per nonce; the file lets its user in | 4 nonces, 1 fault |
| access: `AccessSafety` | roles agree; a write is its user's, under their lease; one write per click | 3 tabs in 2 browsers, 2 sessions, 2 clicks, 1 fault |
| pipe: `PipeSafety` | agents are told what was done; once per id; nothing with a token is stored | 2 calls, 1 move by others, 1 fault |
| needs: `NeedsSafety` | both views agree; a run that stands still says so; a review that is shown can be given | 2 plans, 2 attempts, 1 question |

The worlds marked (S) make up `SurfaceSafety`, with `MainIsKept` beside it. The invariants of the other eleven are the conjuncts of `PlatformSafety`, their action properties those of `PlatformSteps`; `PlatformSafety`
and `PlatformSteps` are proved for all values of the constants, `SurfaceSafety` and `MainIsKept` are not.

**Fairness.** In `WorkflowRun` only `WF_vars(Drain)`. The thread that commits a command drains its row before it releases the mutex,
and after a crash the registration of the lifecycle port drains what is left, so a row that stays is eventually
executed. Users, agents, the dispatcher and crashes are promised nothing. Under that fairness `PromotionHappens` and
`ConvergenceHappens` of `chain` show that the two post-commit effects on which progress rests cannot be lost.

In `CancelFence` a thread that serves a request goes on (`Reserve`, `Drive`: nothing in them waits for anything but the gate, the
service mutex and the answer of the host, which has a timeout), and a project that is down is opened again. `FenceResolved` says what this is enough for, and
names the two ways in which it is not: section 5 shows that each of them is real. `ResendSpec` of `fence_takeover` adds that
clients send again for ever, so that the refutation does not come from a client that gave up.

In `OperationSaga` the worker thread goes on, a thread that serves a request goes on, and a project that is closed, by its user or by a crash,
is opened again. The last is an assumption on users; the code promises no more (`kernel.rs:1070-1072`: the next
opening resumes). `StartEnds` says what it is enough for: a Start ends, unless a step was refused and the decision did not
follow, the workflow is gone, or the acceptance was not put in the queue.

The modules of `MCServices` and `MCPlatform` state no fairness. What must eventually happen there is said as a state property: of a
state in which nothing is left to do (`Quiet` in `JoinMerge`, `NoSilentStop` in `NeedsYou`), or of a report that is still on its way (`ExitIsReported`, `EndIsReported`).

## 4. Proofs

TLC checks every invariant below on an instance; the theorems hold for all values of the constants that satisfy the named assumption of the module.

### `RunProofs`

`WorkflowRun`, for every graph, retry budget, limit and bound (assumptions `DepsAssumption`,
`AutoRetryAssumption`, `BoundsAssumption`: the step set is not empty, the rest are typings). Proved are:

- `TypeCorrect`;
- `SafetyInductive`: `SafetyInv` is an inductive invariant. It joins the safety properties, which need one another, with
  what they rest on:
  - `QueuedReleases`: every slot release in the outbox or in the dispatcher's unwind is for a run that has left
    *running*, and a run never comes back (`LeftIsStable`). Without it `RunningAccounted` is not
    inductive: some queued action could take the slot of a running attempt.
  - `VerdictQueued`, `VerdictSound`: a pending task status belongs to an action of the row being drained, so no command
    has been accepted since it was decided, the task is not cancelled, and "succeeded" is decided only for complete tasks;
    steps that are done stay done except through the exit handler (`StepSteps`).
  - `AttemptsCounted`, `RunningShown`, `PumpRunBorn`: the step of a running attempt is not offered for dispatch,
    because a step goes back to waiting only when its attempts are given up.
- `OneAttemptAtATime`, `OrderedByDependencies`, `AttemptsAccounted`, `CancelStopsEverything`, `SuccessMeansDone` follow from it; no two attempts of a step
  run at a time is only proved, not among the properties of a run;
- `LimitRespected`: at most `Limit` attempts run at a time, from the cardinality of `active` and the slot that is being handed out;
- `OutcomesAreFinal` and `CancelledIsLeftOnPurpose` are action properties, proved from the same invariant.

The proofs are by cases on the actions. Four frame lemmas (`RunSteps`, `StepSteps`, `TaskSteps`, `OutboxSteps`) say what any step may do to a
run, a step, the task and the queue, and the invariant is shown from those rather than from every action again.

`RunRevision`: `RevisionSafety` and the action property `PausedStartsNothing`, for any graphs and any number of revisions, attempts and edits (`RevisionAssumption`: the
dependencies of a graph are its nodes; nothing is said of cycles). An attempt is counted in the row of its node in each revision since its own (`CountInv`), so a patch that keeps what has
started keeps it for good, and a result always has a row of the active graph to land in. `WorkInv` says that the row an attempt at work was started from does not wait; with `ready` looked at in
the transaction, one attempt of a row is at work at a time. `InputInv` says what the review of an input is worth in each of its states; `HandInv` that what was handed over, and what an input was
compiled from, succeeded. Statuses may change in the four steps that end, retry or skip (`Turned`) and what grows only grows in every step (`Grown`), so most parts are shown once for each of the two.

### `FenceProofs`

`CancelFence`, for any number of runs, commands, requests, takeovers and crashes (`RunsAssumption`: runs are
positive numbers; `RequestsAssumption`: each request has a command and the recovery is not a request; `BoundsAssumption`: typing of the bounds). Proved are:

- `Inductive`: `Inv` is an inductive invariant. `FenceFreezes` is not inductive by itself: it needs that nobody else is
  past the point where the fence is opened. The parts are
  - `ThreadsOK`: what the place of a driver says of its fence, its target and its intent;
  - `Exclusive`: one driver per command; requests drive only while the Core serves, the recovery only before;
  - `FenceInv`: at most one fence is open; the rows of a fence against its receipt and the processes; `FenceFreezes`, `CancelledIsStopped`;
  - `IntentsOK`: intents against receipts, by how far the Core is up; `StoresAgree` follows;
  - `StopsOK`: a stop that was made is recorded or about to be; `StoppedOnce` follows;
  - `HandlerOK`, `FenceHasDriver`, `AppliedIsDurable`.
- `TypeCorrect`, `FenceFreezesAlways`, `CancelledIsStoppedAlways`, `StoppedOnceAlways`, `StoresAgreeAlways`,
  `FenceHasDriverAlways`, `AppliedIsDurableAlways`;
- `Refinement`: `Spec => AtomicSpec`. `Finalise` is the atomic Cancel; that the confirmed targets are dead and that the targets are exactly the active
  runs at that instant, however long ago they were listed, is where the invariant is used. All other actions are steps
  of the world or stutters.

Its frame lemmas say what a step that is not a driver's leaves alone, so that each part of `Inv` is shown for the few actions that can disturb it.

`TerminalWriter`, for any number of connections, leases, inputs and any window (`WriterAssumption`): `WriterSafety` and the action property `EndedTypesNothing`. `LeaseInv` counts: the lease that
  is active expects the input after those it has typed, and what it remembers of each was typed. Together with the order of the leases, which are drawn from a counter and never come
  back from their tombstones, `TypedInOrder` and `AckedIsTyped` follow, although an acknowledgement is forgotten when it leaves the window.

### `SagaProofs`

`OperationSaga`, for any finite number of Starts and any number of requests, takeovers, crashes and errors
(`RequestsAssumption`: typings, and the commands are finitely many; `BoundsAssumption`: typing of the bounds): `SagaInv` is inductive. Its parts:

- `Holders`: the critical section belongs to the worker at the places where it is at work, and to a request from its reservation to its acceptance;
- `AtWork`: what the place of the worker says of its operation and its steps, so nobody else ends the operation it has in hand; `NoWorkAfterEnd` follows;
- `Recorded`: step rows, receipts, tasks and dispatches of the two stores against each other; `CreatedOnce` and `DispatchNotLost` follow;
- `Rows`: operation, intent and outcome of a command; `EndsAgree` follows;
- `Leases`, `Queued`, `EffectAfterAcceptance`: none of them is inductive alone. Whatever the worker may ever get, from an answer or when the project is opened again, is
  `Safe`: accepted, slipped past the freeze, ended, or of a controller that was replaced, whose steps are revoked;
- `Blocking`: a waiting dispatch blocks publication unless the worker is about to deliver it; `DispatchBlocks` follows.

Its frame lemmas `Kept` (what no step takes back) and `Sourced` (who writes what the worker gets) carry `Queued` and the action properties.

- `TerminalOutput`, for any number of processes, chunks and sizes of journal and batch (`OutputAssumption`): `OutputSafety` and the action property `AttachLeavesNoGap`. `EpochInv` says that the
  processes under a handle are launched in order and that the last one is hosted or none is, so a handle never comes back to an earlier epoch. `CoverInv` is about the only process of a handle: each
  chunk is waiting for a batch, in a segment, or the one that the flusher was not given, and segments end before the chunks that wait. `ConnInv` says that a connection is not ahead of the
  journal, and that an exit is announced of a process that prints no more.
- `TerminalSession`, for any number of runs and session rows: `SessionSafety`. `LaunchInv` says what has happened to the process, its binding and the handle at each place of a
  launch, `RunInv` that a run keeps to the row it was dispatched to, `RegistryInv` that a process stays under the handle it was launched into, `StopInv` what a stop has looked up. The
  argument is about the five steps that take a process out of the registry: each finds it gone, asks it to die or displaces it (`Removers`, `Removal`).

### `KernelProofs`

- `EventJournal`, for any numbers of topics, stores, subscribers and faults and any limits of journal and queue (`StreamAssumption`: workflows and runs are different, the limits are
  positive): `StreamSafety` and the action property `OwedIsExecuted`. A command passes through several states under the barrier before it leaves one behind, so the invariant is a
  predicate of a *hub*, the record of what the barrier protects, and each operator on hubs has a lemma. `BaseInv` numbers the entries and joins every queue to its cursor and to the end of
  the journal (`Follows`); from it `ComingIs` concludes that what a subscriber has yet to hear runs without a gap to that end, which is `NothingMissed`. `InStep` is `EndsWithTheStore`; between
  the commit and the publication of a row it is replaced by `Owed`, which counts the row as heard, and `AppendedFor` shows that a publication adds the row to what everybody hears.
  `RunsOnce` (two such runs between the same numbers are equal) carries polls, disconnections and new subscriptions. `Keeps` is `OwedIsExecuted` of two hubs and is composed along a command.
- `CommandReceipts`, for any commands and aggregates: `EffectOnce`, `EndIsTrue`, `EffectsInOrder` and `HolderActs`. The receipt cannot carry the argument, because it
  is collected: an effect moves its aggregate past the revision that the command expects, and that is what stops a second one.

### `QuestionJoinProofs`

- `JoinMerge`, for any finite sets of steps and joins and any numbers of attempts, crashes and refusals (`JoinAssumption`). `CoreInv` says what each place of the worker knows of the batch at hand,
  what a batch of each status is about and that the work of a successful step is held or merged; `NoWorkLost` and `JoinSeesItsParents` are parts of it. `MergedOnce` needs `CalmInv`: without a crash a
  lease that is in a batch is given back, pending, or about to be one of the two, so that no second batch can claim it. `ConflictIsShown` is proved for joins that share no parent (`Disjoint`):
  a batch that waits keeps its leases (`WaitInv`), because a release takes only leases of its own. `NothingLeftBehind`, and with it `JoinSafety`, is proved for one join of any size (`Lone`): `OweInv`
  says of every lease the store would merge that an action of the outbox will come to it, that the batch about it is still before the worker, or that the batch has passed both. The interesting step is
  a refused claim: what was refused differs from the batch, so the store knows of a lease that is not in the batch, and this one is covered by an action of its own.
  Both hypotheses are needed. TLC refutes `NothingLeftBehind` for joins with a parent in common (run `join_shared`), `ConflictIsShown` for them with two crashes and two refusals (the start first releases the shared lease
  with its merged batch and then does not show the other one, `orchestrator.rs:1766`), and `NothingLeftBehind` for two disjoint joins with two crashes and three refusals: the claim of the join whose releases fail is refused
  for its digest, and the flush of that tick does not reach the other join, whose orphaned batch it has just made ready. These last two instances have millions of states and are not among the runs.
- `QuestionDelivery`, for any answers and any number of questions (`QuestionAssumption`): `QuestionSafety`. What carries it is that the pump is at most one question behind the
  agent: `QueueInv` says that the agent asks again only when the pump has just the end of the last question left to do, so that the one slot of the session (`SlotInv`) belongs to the last
  question and the rows of a question (`RowsInv`) are written before anybody can answer it. `SentInv` ties what was sent to what was accepted and to what the host
  remembers of it; `SentCanBeConfirmed` needs that the host remembers the answer that is being confirmed for as long as the agent lives.

### `PlatformProofs`

- `OwnerLock`, for any number of cores and faults (`OwnerAssumption`): `EpochsAreUnique`, `RecordsFollowTheMutex`, `FencedIsSuperseded` and the action property `FreshOwnerStays`. The last
  rests on `JudgedInv`: a predecessor that was judged inactive stays so until it is replaced, because whoever has the mutex is the only one to write a record, and one that does not serve
  shows no heartbeat. `RecordInv` says whose the records are between the two writes of a publication and of a release.
- `RunCapability`, for any finite set of projects and any tokens (`CapabilityAssumption`): `OneRunPerToken`, `UncopiedIsNotQuarantined` and `RevokedForGood`. The operators on a row are shown
  first to `Follow` it: an indexed row keeps its project, and a row that is over changes only to quarantined. `RowInv` ties the rows to the runs of the projects, `UsedInv` to what was done
  with the token.
- `WebAccess`, for any tabs, browsers, sessions, clicks and limits of time (`AccessAssumption`): `AccessSafety`. A controller has the lease (`RoleInv`), and the epochs of what tabs know only lag behind
  it (`EpochsInv`), so a write that carries the current epoch is of the one controller. `ClickInv` ties a click to its write: it went through just if its answer is "ok", and until the answer is read its
  user has been told nothing. `NamesInv` says that nobody names a session that has not been opened.
- `AgentPipe`, for any calls, faults and writes by others (`PipeAssumption`): `PipeSafety`. `InsideInv` says what the kernel has read of the run at each place of a command, and that it is still so if
  the revision is; `OutcomeInv` that a run that is settled is over as its receipt says; `ReceiptInv` that the receipt answers whatever is asked under its id; `CallInv` that a call has
  done nothing before it is in the kernel and is told nothing before it is answered.
- `ProjectMount`, for any finite sets of paths and requests (`MountAssumption`): `MountSafety`. `FoldersInv` and `ResolvedInv` keep the folders of projects apart while a request is between its look at the
  registry and its writes; `AssemblyInv` and `ListedInv` say which projects are assembled, started and listed. Each excepts what findings of section 5 have overtaken, overlapped or left unready.
- `AdHocSession`, for any number of sessions (`ContractsAssumption`): `AdHocSafety` and the action property `EndedStays`. `CreationOf` says what there is of a session at each of the fourteen stages of its creation and of
  its undoing, `ReportOf` that a report tells what the process did, `PumpOf` where a report is until both rows have it.
- `EntryLink`, for any number of nonces and faults (`EntryAssumption`): `EntrySafety`. `LatestInv` says that the newest nonce is known and no older than the last renewal; this is where the assumption
  `RefreshEvery < NonceTTL` is needed, which the clamps of the two intervals give (`limits.rs`, `workbench_serve.rs:224-227`). `AloneInv` says that a writer that has met no other is alone, writes the
  newest link and has the staging file; `FileInv` says what this leaves on the disk.

### `StoreProofs`

- `WorktreeMerge`, for any finite set of files and any leases whose bytes nobody else writes (`MergeAssumption`): `MergeSafety`. `PhaseInv` says where the ref is in each phase of a merge; `HandsInv` what the
  exchange of the file at hand has seen; `OriginalsInv` what the journal keeps; `KeptOf` under which of its three names a version of the user is, and that the exchange does not throw it away there;
  `SentinelOf` where a sentinel may still be; `WholeOf` what a file that nobody else has touched contains in each phase; `AgreedInv` and `LeaseInv` tie the ref, the leases' baselines and the merges that
  have ended. The proof attempt corrected two statements: what the user deletes during a merge also counts as adopted, and a sentinel may stay if the ref is deleted under an open transaction.
- `SchemaMigration`, for any programs, versions and histories (`MigrationBounds`; 0 stands for "nobody"): `MigrationSafety` and the action property `SchemaNeverGoesBack`. `OpenerInv` says that who has the lock has something
  to change and that the file is as it was when the lock was taken; `MakingInv` that an artifact in the making is of the file as it is; `PastInv` that what was upgraded is behind the file and has its backup;
  `CountInv` counts the artifacts against the upgrades and the failures; `ImportInv` that the first catalog was read at one moment.
- `RunGate`, for any steps, attempts, graphs, questions and moves (`GateBounds`): `GateSafety`. `SeenInv` says what a snapshot is worth: what it saw at a revision that a row still has is what the row says;
  while the run keeps its revision no proposal is new, a graph that became active was a patch, and a question that was seen open is open unless its step has moved. From there each
  command's guard gives that it acts on what its sender saw, although questions and proposals are not named in it.
- `NeedsYou`, for any graphs without cycles and any numbers of revisions, attempts and questions (`NeedsAssumption`, which is what `validate_workflow` lets through): `NeedsSafety`. The hard part is `NoSilentStop`.
  `StartedInv` says that a started node stays in the graph, so that `OfGraph` of the list and `RowNow` of the details are the same place (`ViewsAgree`); `WorkingInv` that a row at work has an attempt that is or was,
  unless a Retry was misdirected; `WaitingInv` that a node whose dependencies are done does not wait, and is blocked only if a failure is on record elsewhere (`Stirred`) or came late (`Belated`); `DoneInv` that a run whose
  nodes are all done is over. In a run that stands still, take the nodes that are not settled: the graph has no cycle, so one of them depends on settled ones only, and each of its possible statuses is ruled out by one of
  these or is a reason to ask. `SheetInv` and `PaneInv` give `ReviewsAreOpen`: an input up for review is the newest of its node, and a newer revision in the middle of the details' reads empties what they show.

### `MCPlatformProofs`

The next-state relation of `MCPlatform` lets one of the fourteen components move and leaves the others alone, so its `Spec` implies the `Spec` of each (`EachBehaves`). `PlatformIsSafe` and
`PlatformStepsAlways` conclude that what is proved of each holds of all of them, for every value of the constants: `PlatformSafety` and `PlatformSteps` as the run `platform` checks them.

### Only model-checked

- `SurfaceSafety` and `MainIsKept`. `WorkflowEdit` asks whether a graph has a cycle, which is a fold over its nodes, and `TermScreen` and `HttpTurn` are folds over bytes, cells and messages: what they compute is an induction over data.
- The liveness properties (liveness under fairness is outside the prover's reach), `StartEnds` among them.
- The six refutations; and `ServiceSteps` as one formula, whose conjuncts are proved one by one.

## 5. Findings

Each is a claim in a comment of the source and an interleaving that breaks it. `PROJECT.json` has the quotes.

1. `cancelled_run`: the exit handler reads "active", a Cancel commits, the handler writes *awaiting-outcome* over
   *cancelled* (`orchestrator.rs:3970`).
2. `lease_lost`: an interrupted attempt is settled late, while the retry is running under the same lease, and releases it
   (`orchestrator.rs:987`).
3. `fence_crash`: a crash with an open fence over an active run; the next start has to write that run, the triggers refuse,
   and the recovery that would close the fence comes only after a successful start (`store.rs:3170`).
4. `fence_takeover`: a takeover between the fence and the finalising transaction revokes the command id for good; nobody can
   close the fence, and no other Cancel gets past it (`command.rs:892`).
5. `join_shared`: of two joins with a parent in common, one is never merged when the other one takes the shared lease first (`orchestrator.rs:2388`).
6. `merge_torn`: a call that fails between the move of a file to its backup and the installation of the result leaves the file under its
   backup's name, and the merge reports a clean roll-back (`git_worktree_provider.rs:1018`).

The properties that hold are stated with the exceptions these and the following cause; an exception is an observer variable or a
named operator of the module. The following have no run of their own.

**Runs and fences.** `reopened` in `SuccessIsComplete` and `DependenciesRespected`, "revoked" in `FenceHasDriver` and `FenceResolved`, "down" in
the latter. `CancelledLeft`: a step fails, the task is cancelled, the failed step is skipped, and the task is *succeeded*, *failed* or *running* again
(`store.rs:912`). The slot of a run that is settled or cancelled right after its creation is registered afterwards and never released
(`orchestrator.rs:3398-3400`, whose comment says it does not leak). In `CancelFence` a request that waits at the gate while another of the same command
finishes is answered *conflict* although its command was applied.

**`OperationSaga`.**

- A Start that passed its checks before a project is frozen can be reserved and accepted after the freeze, because the registration is not looked at again in
  the critical section (`kernel.rs:3012`); the next opening carries it out, although `operation.rs:1551-1555` says that
  this is prevented. If its acceptance fails on a transient error, it is carried out without ever having been accepted: `late` in
  `EffectAfterAcceptance`.
- An attempt that ends between the refusal of a step and the decision leaves an operation whose every later attempt is refused
  (`operation.rs:1187`). A workflow that is deleted between acceptance and the first step has the same effect, by an error that counts as
  transient. Both stay open until the project is closed in order. These are the first two parts of `Stuck`.
- The controller is checked before the receipt (`operation.rs:1193`), and the controller of an interrupted Start is never current again after a
  restart. So a step that was done before a crash is recorded as revoked: a Start is reported as rolled back with
  its draft left, or as needing attention while its run is dispatched.
- A Start that was answered as accepted, resent under a controller that loses its lease before the resend gets in, is recorded as never
  accepted (`operation.rs:904-937`).
- A delivery that fails while a project is being opened leaves the critical section closed for all projects until the Core restarts
  (`journal.rs:567`). An opening that fails is not in the model.

**Services.**

- `TerminalSession`: a reader's `kill_session(handle)` may kill the successor, and a confirmed stop may displace it (`displaced`); the end of a run that only
  attached is never noticed; a report "launched" after "dead" revives the row.
- `TerminalOutput`: a second process under a handle writes into the transcript of the first; the last bytes of the redactor bypass the flusher (`unflushed`); ring
  eviction is silent; `note_sent` has no caller. Each connection has its own `WriterLeaseManager`, so two connections do not exclude each other.
- `QuestionDelivery`: two open questions of a step are both refused by `Respond`.
- `JoinMerge`: a merge is applied at least once around a crash; a merged batch whose release failed leaves its pending rows until the next start (`orchestrator.rs:1474`); the flush of a
  reclaimed batch is not tried again; a batch of a retried parent has another digest (`store.rs:190`).
- `RunRevision`: Retry accepts a step of a replaced revision (`store.rs:917-920`) and then does not cancel the attempt on the new row; an exit that is reported after a patch writes the old row; the session chosen for the next attempt
  is not inherited (`orchestrator.rs:3302-3303`); a patch does not move the task's revision.
- `EventJournal`: a run command whose dispatch fails after the commit neither blocks nor rotates (`kernel.rs:3223-3243`, contrary to 2451-2455). In the browser a snapshot that is applied late moves the cursor back
  (`reducer.ts:26-46`); a periodic refresh repairs it.
- `CommandReceipts`: a command whose effect is committed and whose last service transaction is lost, resent after a takeover, is marked revoked (`command.rs:806-812`, 889-908; `disowned`); the collection by number of rows does
  not spare the receipt of a reserved intent (`reconcile.rs:506-582`).

**Platform.**

- `OwnerLock`: a failed roll-back of a release leaves an owner fenced by its own epoch; `CoreLifecycle::acquire_owner_lock` drops the mutex guard at once (`core_lifecycle.rs:75-90`); `heartbeat`, `set_discovery_port` and `release` have no
  caller in the product.
- `ProjectMount`: after a project is removed and added again the guard finds its old orchestrator listed and registers no ports: "ready" is answered and every command fails; a failed registration is not tried again
  (`execution_ports.rs:456`, `unready`); two mounts at once start two orchestrators on one store (`overlapped`); a project whose root is an additional folder of another has no primary row, contrary to `service_schema.rs:236-239`
  (`overtaken`).
- `WorktreeMerge`: what a user saves between the check for local edits and the snapshot of the originals is taken for the original and overwritten (`adopted`); a lease taken while a transaction has moved the ref has a baseline that
  may be undone (`early`); `discard_task_baselines` runs without the merge lock (`discarded`); a replay that finds the sentinel of an undoing that crashed puts it under the user's name.
- `WorkflowEdit`: the identity of an `UpdateNode` command omits five fields (`kernel.rs:5292-5306`), so a resend with other values is answered as a replay; a rename moves the presentation revision, a legacy save with another name
  the semantic one; a patch takes `allow_unsafe` from whatever workflow has that key now.
- `SchemaMigration`: a first catalog made after the second one was filled without it blocks every opening (`catalog_migration.rs:163-178`).
- `RunGate`: the product never offers a kept session, so such a retry is refused; a confirmed proposal leaves the task *ready*, which no tick takes up (`store.rs:2115`); a button of one proposal confirms the newest one; agents' commands
  have no validation of scope; the list stops at 200 runs; the live attempts of a replaced revision go on.
- `AdHocSession`: an exit that is handled before the creation's last write leaves the shown row *working* for ever (`orchestrator.rs:3044`, `excused`); a failed write after the launch is answered as an error while the process runs
  (3025); rows are not repaired after a restart.
- `TermScreen`: a kept cursor is not clamped by a resize (186-202, `strayed`); insertion of more characters than columns underflows; IL and DL ignore the top of the region; a leading `;` loses its field; `?47` keeps the other grid's
  contents; a snapshot reads the original number of rows.
- `HttpTurn`: a session whose thread has reported but not marked its end is continued, so two threads use it; `kill_session` removes the bindings first, so a stop is confirmed while the thread still works (`doubtful`); the conversation
  has no limit; Anthropic's form keeps calls without a name, OpenAI's drops them.
- `EntryLink`: a renewal outside the lock and an exchange inside it use one staging name; a cut staging file can be published, and the fallback removes the target first (`workbench_serve.rs:208-209` says otherwise; `disturbed`); the
  tray prefers the printed link although its nonce may be spent.
- `WebAccess`: the second try after a 401 sends the same body, whose envelope names the old client and epoch, and is refused; sessions and epochs start again with the Core.
- `AgentPipe`: `workflow.evolve` commits and is answered as an internal error (no arm in `kernel.rs` 2045-2115); so is a failed drain or seal; the orchestrator's own writes can mark a named command failed for good; the kernel's check for the
  token does not look at dependencies (the pipe's does); a pipe thread that cannot be started leaves its client waiting; only the first instance of the pipe is asked to be the first.
- `NeedsYou`: a patch that removes the last unfinished node leaves the run *running* for ever (`DoneByRemoval`); a failed settlement of an interrupted attempt whose step has been done since blocks its descendants, which is no reason
  (`Belated`); Retry of a replaced row takes the agent from the new one (`Misdirected`); after a patch an answer sets the old row running; after a restart the new row of a running node is failed, contrary to the comment at `store.rs:3217`; a
  question on a replaced row has a step in the details and none in the list.

## 6. Plan

Done: the execution core, the fence, the saga, the services and the platform, with proofs of all their safety but that of `WorkflowEdit`, `TermScreen` and `HttpTurn`. What would add most next:

1. a proof of `HttpTurn`, whose folds over the messages of a turn have to be restated as invariants of what is appended;
2. the validation of single events against their deltas (`projection.rs`), next to `EventJournal`;
3. a composition of `RunGate` with `EventJournal`: a client that reads snapshots and follows events.

## 7. Not modelled

Listed with reasons in `PROJECT.json` ("components"). Not modelled at all are pseudo-terminals, the elevated host and the installer: operating-system I/O, or a sequence of
file operations. Of the other components these parts are left out:

- what no product code reaches: `reconcile_operation` of the kernel and the legacy transport, `mock_complete`, `handoff.rs`, the skeletons of `gateway.rs` and
  of the takeover coordinator, the mutating half of the plug-in host, the events and calls of the older launch path;
- data: rendering of prompts and texts, schemas of outputs, redaction of secrets, handles, digests, DDL, presentation;
- pure I/O: framing, static files, access control lists, version control readers, plug-in installation.
