------------------------------ MODULE JoinMerge ------------------------------
(***************************************************************************)
(* The work of isolated steps on its way back into the project directory   *)
(* (mf-agent orchestrator.rs, store.rs): a step that succeeds keeps its    *)
(* lease until its work has been merged; the parents of a join are merged  *)
(* as one batch, once all of them are settled; what conflicts waits for    *)
(* the user.                                                               *)
(*                                                                         *)
(* The steps of the model are the parents of one revision's joins and      *)
(* steps that belong to no join.  One thread at a time works on the task:  *)
(* settlement_locks serialises the actions of the outbox, the flushes of   *)
(* the tick and the resolutions of the user.  A provider merges a batch as *)
(* a whole or not at all.  The core may die between any two steps.  Left   *)
(* out: errors of SQLite, the deferral rows (a report of the held leases), *)
(* cancel and archive, and the pins of providers.                          *)
(***************************************************************************)
EXTENDS Integers, Sequences, FiniteSets

CONSTANTS
    Parents,        \* steps with isolated leases
    Joins,          \* step id of a join -> its parents
    MaxAttempt,     \* bound: attempts of a step
    MaxCoreCrashes, \* bound
    MaxRefusals     \* bound: merges that conflict and releases that fail

ASSUME JoinAssumption ==
    /\ Parents \subseteq Nat \ {0} /\ DOMAIN Joins \subseteq Nat \ {0}
    /\ IsFiniteSet(Parents) /\ IsFiniteSet(DOMAIN Joins)
    /\ \A j \in DOMAIN Joins : Joins[j] \subseteq Parents /\ Cardinality(Joins[j]) > 1
    /\ MaxAttempt \in Nat \ {0} /\ {MaxCoreCrashes, MaxRefusals} \subseteq Nat

VARIABLES
    stepStatus, attempt,  \* of the parents
    held,                 \* execution_leases with status held: <<step, attempt>>
    batch,                \* merge_batches: status, lease_keys, and whether the owner lives
    pendingRows,          \* pending_merges
    jobs,                 \* post-commit actions that are to be executed
    worker,               \* who holds the settlement lock of the task
    coreUp,
    dispatched,           \* joins whose step has been dispatched
    merged, mergedTwice,  \* observers: what the provider has applied, and applied again
    coreCrashes, refusals \* observers

stepVars == <<stepStatus, attempt, held, dispatched>>
faultVars == <<coreUp, coreCrashes, refusals>>
joinVars == <<stepVars, batch, pendingRows, jobs, worker, faultVars, merged, mergedTwice>>

Lease == Parents \X (1..MaxAttempt)
LeaseOf(p) == <<p, attempt[p]>>
JoinKeys == {<<"join", j>> : j \in DOMAIN Joins}
SingleKeys == {<<"single", p>> : p \in {q \in Parents : \A j \in DOMAIN Joins : q \notin Joins[j]}}
Keys == JoinKeys \cup SingleKeys
NoBatch == [status |-> "none", leases |-> {}, alive |-> FALSE]
Off == [pc |-> "off", job |-> <<"none", <<0, 0>>>>, todo |-> <<>>, left |-> {}]

\* The steps, the batches and the worker keep their types; a lease is pending only while it
\* is held or waits to be cleaned up.
JoinTypeOK ==
    /\ stepStatus \in [Parents -> {"running", "succeeded", "failed", "skipped"}]
    /\ attempt \in [Parents -> 1..MaxAttempt]
    /\ held \subseteq Lease /\ pendingRows \subseteq Lease
    /\ batch \in [Keys -> [status : {"none", "ready", "merging", "merged", "needs_user",
                                     "resolving", "released"},
                           leases : SUBSET Lease, alive : BOOLEAN]]
    /\ jobs \subseteq {"settle", "fail", "skip"} \X Lease
    /\ worker.pc \in {"off", "next", "merge", "conclude", "conflict", "release", "mark",
                      "project", "recover"}
    /\ dispatched \subseteq DOMAIN Joins /\ merged \subseteq Lease /\ mergedTwice \subseteq merged

JoinInit ==
    /\ stepStatus = [p \in Parents |-> "running"] /\ attempt = [p \in Parents |-> 1]
    /\ held = {<<p, 1>> : p \in Parents}
    /\ batch = [k \in Keys |-> NoBatch]
    /\ pendingRows = {} /\ jobs = {} /\ worker = Off /\ coreUp = TRUE /\ dispatched = {}
    /\ merged = {} /\ mergedTwice = {} /\ coreCrashes = 0 /\ refusals = 0

Terminal(p) == stepStatus[p] # "running"
Complete(j) == \A p \in Joins[j] : Terminal(p)

\* What a batch is about: the parents of a join, or a step that belongs to none.
Owns(k, p) == IF k \in JoinKeys THEN p \in Joins[k[2]] ELSE p = k[2]

\* Batches are taken up in the order of their step ids, joins first.
Nth(S, n) == CHOOSE x \in S : Cardinality({y \in S : y <= x}) = n
AsKeys(kind, S) == [n \in 1..Cardinality(S) |-> <<kind, Nth(S, n)>>]
InOrder(K) ==
    AsKeys("join", {j \in DOMAIN Joins : <<"join", j>> \in K})
        \o AsKeys("single", {p \in Parents : <<"single", p>> \in K})

-----------------------------------------------------------------------------
(* The steps.                                                              *)

\* A settlement and its post-commit action.
SucceedStep(p) ==
    /\ stepStatus[p] = "running"
    /\ stepStatus' = [stepStatus EXCEPT ![p] = "succeeded"]
    /\ jobs' = jobs \cup {<<"settle", LeaseOf(p)>>}
    /\ UNCHANGED <<attempt, held, dispatched, batch, pendingRows, worker, faultVars, merged,
                   mergedTwice>>

\* A failed attempt gives its lease up; what it completes is flushed.
FailStep(p) ==
    /\ stepStatus[p] = "running"
    /\ stepStatus' = [stepStatus EXCEPT ![p] = "failed"]
    /\ held' = held \ {LeaseOf(p)}
    /\ jobs' = jobs \cup {<<"fail", LeaseOf(p)>>}
    /\ UNCHANGED <<attempt, dispatched, batch, pendingRows, worker, faultVars, merged, mergedTwice>>

RetryStep(p) ==
    /\ stepStatus[p] = "failed" /\ attempt[p] < MaxAttempt
    /\ stepStatus' = [stepStatus EXCEPT ![p] = "running"]
    /\ attempt' = [attempt EXCEPT ![p] = @ + 1]
    /\ held' = held \cup {<<p, attempt[p] + 1>>}
    /\ UNCHANGED <<dispatched, batch, pendingRows, jobs, worker, faultVars, merged, mergedTwice>>

SkipStep(p) ==
    /\ stepStatus[p] = "failed"
    /\ stepStatus' = [stepStatus EXCEPT ![p] = "skipped"]
    /\ jobs' = jobs \cup {<<"skip", LeaseOf(p)>>}
    /\ UNCHANGED <<attempt, held, dispatched, batch, pendingRows, worker, faultVars, merged,
                   mergedTwice>>

\* Mutant of Gated: a step that is ready may go.
Ungated(j) == FALSE

\* tick does not dispatch a step while a lease of a parent is still held.
Gated(j) == \E l \in held : l[1] \in Joins[j]

DispatchJoin(j) ==
    /\ coreUp /\ worker.pc # "recover" /\ j \notin dispatched
    /\ \A p \in Joins[j] : stepStatus[p] \in {"succeeded", "skipped"}
    /\ ~Gated(j)
    /\ dispatched' = dispatched \cup {j}
    /\ UNCHANGED <<stepStatus, attempt, held, batch, pendingRows, jobs, worker, faultVars, merged,
                   mergedTwice>>

-----------------------------------------------------------------------------
(* The worker: a post-commit action, a flush or a resolution.              *)

Begin(job, todo) == worker' = [pc |-> "next", job |-> job, todo |-> todo, left |-> {}]

GroupsOf(p) == InOrder({k \in Keys : Owns(k, p)})

\* merge_or_pend: the batches the settled step belongs to, if its lease is still held.
BeginSettle(p) ==
    /\ coreUp /\ worker.pc = "off" /\ <<"settle", LeaseOf(p)>> \in jobs
    /\ Begin(<<"settle", LeaseOf(p)>>, IF LeaseOf(p) \in held THEN GroupsOf(p) ELSE <<>>)
    /\ UNCHANGED <<stepVars, batch, pendingRows, jobs, faultVars, merged, mergedTwice>>

\* flush_completed_join_batches
BeginFlush ==
    /\ coreUp /\ worker.pc = "off"
    /\ \E job \in jobs : job[1] \in {"fail", "skip"} /\ Begin(job, InOrder(JoinKeys))
    /\ UNCHANGED <<stepVars, batch, pendingRows, jobs, faultVars, merged, mergedTwice>>

\* reset_expired_merge_batches: the owner's lease on a batch runs out only when nobody
\* renews it any more.
Orphaned(k) == batch[k].status \in {"merging", "resolving"} /\ ~batch[k].alive

TickReclaims ==
    /\ coreUp /\ worker.pc = "off" /\ \E k \in Keys : Orphaned(k)
    /\ batch' = [k \in Keys |->
                   IF Orphaned(k)
                   THEN [batch[k] EXCEPT !.status = IF @ = "merging" THEN "ready" ELSE "needs_user"]
                   ELSE batch[k]]
    /\ Begin(<<"tick", <<0, 0>>>>, InOrder(Keys))
    /\ UNCHANGED <<stepVars, pendingRows, jobs, faultVars, merged, mergedTwice>>

Undecided == {k \in Keys : batch[k].status \in {"merged", "needs_user"}}

\* resolve_pending_merges, which wants a batch behind the pending rows.
BeginResolve ==
    /\ coreUp /\ worker.pc = "off" /\ pendingRows # {}
    /\ Undecided # {} /\ Begin(<<"resolve", <<0, 0>>>>, InOrder(Undecided))
    /\ UNCHANGED <<stepVars, batch, pendingRows, jobs, faultVars, merged, mergedTwice>>

Job == worker.job
Key == Head(worker.todo)
At(pc) == coreUp /\ worker.pc = pc
To(pc) == worker' = [worker EXCEPT !.pc = pc]
NextKey == worker' = [worker EXCEPT !.pc = "next", !.todo = Tail(@), !.left = {}]
GiveUp == worker' = Off

EndJob ==
    /\ At("next") /\ worker.todo = <<>>
    /\ jobs' = jobs \ {Job}
    /\ worker' = Off
    /\ UNCHANGED <<stepVars, batch, pendingRows, faultVars, merged, mergedTwice>>

\* held_leases_of_steps_tx: what the store says belongs to the batch.
Authoritative(k) ==
    {l \in held \ pendingRows :
        /\ stepStatus[l[1]] = "succeeded" /\ l = LeaseOf(l[1])
        /\ Owns(k, l[1])}

\* held_leases_of_parents puts the lease of the step being settled into the batch without
\* looking whether it is still held.
Collected(k) ==
    Authoritative(k) \cup
        IF Job[1] = "settle" /\ Job[2] \notin pendingRows THEN {Job[2]} ELSE {}

Mergeable(k) == (k \in JoinKeys => Complete(k[2])) /\ Collected(k) # {}

\* claim_merge_batch_tx refuses leases it does not know and a set that differs from the
\* digest of the batch ...
Claimable(k) ==
    /\ Collected(k) \subseteq Authoritative(k)
    /\ batch[k].leases \in {{}, Authoritative(k)}
    /\ batch[k].status \in {"none", "ready"}

ClaimBatch ==
    /\ At("next") /\ Job[1] # "resolve" /\ worker.todo # <<>>
    /\ Mergeable(Key) /\ Claimable(Key)
    /\ batch' = [batch EXCEPT ![Key] = [status |-> "merging", leases |-> Authoritative(Key),
                                        alive |-> TRUE]]
    /\ To("merge")
    /\ UNCHANGED <<stepVars, pendingRows, jobs, faultVars, merged, mergedTwice>>

Refused(k) ==
    \/ ~(Collected(k) \subseteq Authoritative(k))
    \/ batch[k].leases \notin {{}, Authoritative(k)}

\* ... an error that ends the job and leaves its action to be executed again; the flushes of
\* the tick and of the start leave the joins that follow and go on with the single leases ...
ClaimRefused ==
    /\ At("next") /\ Job[1] # "resolve" /\ worker.todo # <<>>
    /\ Mergeable(Key) /\ Refused(Key)
    /\ IF Job[1] \notin {"tick", "start"} THEN GiveUp
       ELSE IF Key \in JoinKeys THEN Begin(Job, InOrder(SingleKeys)) ELSE NextKey
    /\ UNCHANGED <<stepVars, batch, pendingRows, jobs, faultVars, merged, mergedTwice>>

\* ... while a batch that is not complete, has nothing to merge or is taken is passed over.
PassOver ==
    /\ At("next") /\ Job[1] # "resolve" /\ worker.todo # <<>>
    /\ Mergeable(Key) => ~Refused(Key) /\ ~Claimable(Key)
    /\ NextKey
    /\ UNCHANGED <<stepVars, batch, pendingRows, jobs, faultVars, merged, mergedTwice>>

\* A resolution claims a batch that needs its user, and goes on with a merged one where it
\* was left.
ResolveBatch ==
    /\ At("next") /\ Job[1] = "resolve" /\ worker.todo # <<>>
    /\ IF batch[Key].status = "needs_user"
       THEN /\ batch[Key].leases \subseteq pendingRows
            /\ batch' = [batch EXCEPT ![Key].status = "resolving", ![Key].alive = TRUE]
            /\ To("merge")
       ELSE To("release") /\ UNCHANGED batch
    /\ UNCHANGED <<stepVars, pendingRows, jobs, faultVars, merged, mergedTwice>>

\* The provider merges the whole batch, or reports conflicts or an error.
ProviderMerges ==
    /\ At("merge")
    /\ merged' = merged \cup batch[Key].leases
    /\ mergedTwice' = mergedTwice \cup (merged \cap batch[Key].leases)
    /\ To("conclude")
    /\ UNCHANGED <<stepVars, batch, pendingRows, jobs, faultVars>>

ProviderConflicts ==
    /\ At("merge") /\ refusals < MaxRefusals
    /\ refusals' = refusals + 1
    /\ To("conflict")
    /\ UNCHANGED <<stepVars, batch, pendingRows, jobs, coreUp, coreCrashes, merged, mergedTwice>>

ConcludeMerged ==
    /\ At("conclude")
    /\ batch' = [batch EXCEPT ![Key].status = "merged", ![Key].alive = FALSE]
    /\ To("release")
    /\ UNCHANGED <<stepVars, pendingRows, jobs, faultVars, merged, mergedTwice>>

ConcludeConflict ==
    /\ At("conflict")
    /\ batch' = [batch EXCEPT ![Key].status = "needs_user", ![Key].alive = FALSE]
    /\ IF Job[1] = "resolve" THEN NextKey
       ELSE worker' = [worker EXCEPT !.pc = "project", !.left = batch[Key].leases]
    /\ UNCHANGED <<stepVars, pendingRows, jobs, faultVars, merged, mergedTwice>>

\* The leases of a merged batch are released, as far as the provider lets them go.
ReleaseBatch ==
    /\ At("release")
    /\ \E kept \in SUBSET (batch[Key].leases \cap held) :
          /\ kept # {} => refusals < MaxRefusals
          /\ refusals' = IF kept = {} THEN refusals ELSE refusals + 1
          /\ held' = held \ (batch[Key].leases \ kept)
          /\ IF kept = {} THEN To("mark")
             ELSE IF Job[1] = "resolve" THEN GiveUp
             ELSE worker' = [worker EXCEPT !.pc = "project", !.left = kept]
    /\ UNCHANGED <<stepStatus, attempt, dispatched, batch, pendingRows, jobs, coreUp, coreCrashes,
                   merged, mergedTwice>>

\* mark_merge_batch_released; after a resolution the pending rows go with it.
MarkReleased ==
    /\ At("mark")
    /\ batch' = [batch EXCEPT ![Key].status = "released"]
    /\ pendingRows' = IF Job[1] = "resolve" THEN pendingRows \ batch[Key].leases ELSE pendingRows
    /\ NextKey
    /\ UNCHANGED <<stepVars, jobs, faultVars, merged, mergedTwice>>

\* insert_pending_merge, lease by lease.
ProjectPending ==
    /\ At("project")
    /\ \E l \in worker.left :
          /\ pendingRows' = pendingRows \cup {l}
          /\ IF worker.left = {l} THEN NextKey
             ELSE worker' = [worker EXCEPT !.left = @ \ {l}]
    /\ UNCHANGED <<stepVars, batch, jobs, faultVars, merged, mergedTwice>>

-----------------------------------------------------------------------------
(* Crash and recovery.                                                     *)

CoreDies ==
    /\ coreUp /\ coreCrashes < MaxCoreCrashes
    /\ coreUp' = FALSE /\ coreCrashes' = coreCrashes + 1
    /\ worker' = Off
    /\ batch' = [k \in Keys |-> [batch[k] EXCEPT !.alive = FALSE]]
    /\ UNCHANGED <<stepVars, pendingRows, jobs, refusals, merged, mergedTwice>>

\* Before anything else runs: recover_merge_batch_phases ...
CoreStarts ==
    /\ ~coreUp /\ coreUp' = TRUE
    /\ worker' = [Off EXCEPT !.pc = "recover", !.todo = InOrder(Keys)]
    /\ UNCHANGED <<stepVars, batch, pendingRows, jobs, coreCrashes, refusals, merged, mergedTwice>>

\* Mutant of RecoverBatch: what needs its user is left as it is.
RecoverMergedOnly ==
    /\ At("recover") /\ worker.todo # <<>>
    /\ LET b == batch[Key] IN
       /\ held' = IF b.status = "merged" THEN held \ b.leases ELSE held
       /\ batch' = IF b.status = "merged" THEN [batch EXCEPT ![Key].status = "released"] ELSE batch
    /\ worker' = [worker EXCEPT !.todo = Tail(@)]
    /\ UNCHANGED <<stepStatus, attempt, dispatched, pendingRows, jobs, faultVars, merged,
                   mergedTwice>>

\* ... which finishes the release of what was merged and shows again what needs its user ...
RecoverBatch ==
    /\ At("recover") /\ worker.todo # <<>>
    /\ LET b == batch[Key] IN
       \E kept \in SUBSET (b.leases \cap held) :
          /\ kept # {} => b.status = "merged" /\ refusals < MaxRefusals
          /\ refusals' = IF kept = {} THEN refusals ELSE refusals + 1
          /\ held' = IF b.status = "merged" THEN held \ (b.leases \ kept) ELSE held
          /\ batch' = IF b.status = "merged" /\ kept = {}
                      THEN [batch EXCEPT ![Key].status = "released"] ELSE batch
          /\ pendingRows' = IF b.status = "needs_user" /\ b.leases \subseteq held
                            THEN pendingRows \cup b.leases ELSE pendingRows
    /\ worker' = [worker EXCEPT !.todo = Tail(@)]
    /\ UNCHANGED <<stepStatus, attempt, dispatched, jobs, coreUp, coreCrashes, merged, mergedTwice>>

\* ... and then flushes.
RecoveryFlushes ==
    /\ At("recover") /\ worker.todo = <<>>
    /\ Begin(<<"start", <<0, 0>>>>, InOrder(Keys))
    /\ UNCHANGED <<stepVars, batch, pendingRows, jobs, faultVars, merged, mergedTwice>>

JoinNext ==
    \/ \E p \in Parents : SucceedStep(p) \/ FailStep(p) \/ RetryStep(p) \/ SkipStep(p)
    \/ \E j \in DOMAIN Joins : DispatchJoin(j)
    \/ \E p \in Parents : BeginSettle(p)
    \/ BeginFlush \/ TickReclaims \/ BeginResolve \/ EndJob
    \/ ClaimBatch \/ ClaimRefused \/ PassOver \/ ResolveBatch
    \/ ProviderMerges \/ ProviderConflicts \/ ConcludeMerged \/ ConcludeConflict
    \/ ReleaseBatch \/ MarkReleased \/ ProjectPending
    \/ CoreDies \/ CoreStarts \/ RecoverBatch \/ RecoveryFlushes

JoinSpec == JoinInit /\ [][JoinNext]_joinVars

-----------------------------------------------------------------------------
(* Properties.                                                             *)

\* A join starts from the work of all its parents: none is dispatched before the leases of
\* its successful parents have been merged.
JoinSeesItsParents ==
    \A j \in dispatched : \A p \in Joins[j] : stepStatus[p] = "succeeded" => LeaseOf(p) \in merged

\* The work of a successful step is never given up: its lease is held until it is merged.
NoWorkLost ==
    \A p \in Parents : stepStatus[p] = "succeeded" => LeaseOf(p) \in held \cup merged

\* Without a crash the provider is asked to apply no lease twice, however many settlements,
\* flushes and resolutions meet.
MergedOnce == coreCrashes = 0 => mergedTwice = {}

Quiet == coreUp /\ worker.pc = "off" /\ jobs = {} /\ \A k \in Keys : ~Orphaned(k)

\* What needs its user is shown to its user, after every crash.
ConflictIsShown ==
    Quiet => \A k \in Keys : batch[k].status = "needs_user" => batch[k].leases \subseteq pendingRows

\* "Every order of settlement must converge" (join_shared_parent.rs:3): when nothing is left
\* to do, the lease of a successful parent whose join is complete has been given back, or the
\* user is asked about it, or it is merged and a failed release waits for the next start.
NothingLeftBehind ==
    Quiet => \A j \in DOMAIN Joins : Complete(j) => \A p \in Joins[j] :
        \/ stepStatus[p] = "failed"
        \/ LeaseOf(p) \notin held \ pendingRows
        \/ \E k \in Keys : batch[k].status = "merged" /\ LeaseOf(p) \in batch[k].leases

\* The work of isolated steps comes back once, whole and before what depends on it, and
\* what cannot come back is shown.
JoinSafety ==
    /\ JoinTypeOK /\ JoinSeesItsParents /\ NoWorkLost
    /\ MergedOnce /\ ConflictIsShown /\ NothingLeftBehind
=============================================================================
