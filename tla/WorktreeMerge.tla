---------------------------- MODULE WorktreeMerge ----------------------------
(***************************************************************************)
(* How the work of isolated agent runs gets into the directory of the user *)
(* (git_worktree_provider.rs, fs_safe.rs).  A merge checks the leases      *)
(* against the integration ref and the directory against local edits,      *)
(* writes a journal, moves the ref, and then replaces the files one by one *)
(* with a compare-and-swap made of renames, while the user saves and       *)
(* deletes files at any moment.  A failure is undone, a crash is replayed. *)
(*                                                                         *)
(* The merge lock and the lock file make merges and recovery one process.  *)
(* Files are applied in their order and undone in the reverse one; changes *)
(* of different leases never meet in a file, so the order of the leases is *)
(* left out.  A tree is a function from files to bytes.                    *)
(***************************************************************************)
EXTENDS Integers, FiniteSets

CONSTANTS
    Files,       \* path numbers
    Leases,      \* names of leases, which are also the bytes they write
    MaxMergeWork \* bound: edits of the user, crashes, failed calls, discarded refs

\* A lease writes bytes that nobody else has.
ASSUME MergeAssumption ==
    /\ Files \subseteq Nat \ {0} /\ \E last \in Files : \A f \in Files : f <= last
    /\ Leases \cap {"none", "absent", "mine", "sentinel", "old"} = {}
    /\ MaxMergeWork \in Nat

VARIABLES
    folder,       \* the files of the project
    backup,       \* .mfcas-...: what was there before, next to each file
    verify,       \* .mfverify-...: what is being looked at, next to each file
    integration,  \* tree of the integration ref, or NoTree
    worktree,     \* per lease: its baseline and its files, or NoLease
    txn,          \* journal of the merge, or NoTxn
    merge,        \* what the merge, or the recovery, is doing
    touched,      \* observer: files the user has saved or deleted
    owed,         \* observer: files whose last version is the user's
    adopted,      \* observer: versions of the user that were journalled as originals
    clobbered,    \* observer: files of the ref a lease changed without having seen them
    torn,         \* observer: files during whose exchange a call has failed
    agreed,       \* observer: the project as the merges that ended have left it
    early,        \* observer: merged leases whose baseline was taken during a transaction
    discarded,    \* observer: the ref was deleted, between merges or during one
    mergeWork

mergeVars == <<folder, backup, verify, integration, worktree, txn, merge, touched, owed, adopted,
               clobbered, torn, agreed, early, discarded, mergeWork>>
disk == <<folder, backup, verify>>
edits == <<touched, owed>>
witness == <<adopted, clobbered, torn, agreed, early, discarded>>

Absent == "absent"
Mine == "mine"          \* whatever the user saves
Sentinel == "sentinel"  \* proof that a name was free
TaskHead == [f \in Files |-> IF f = 1 THEN "old" ELSE Absent]
NoTree == [f \in Files |-> "none"]
NoLease == [base |-> NoTree, tree |-> NoTree, during |-> FALSE]
Released == [base |-> NoTree, tree |-> NoTree, during |-> TRUE]
NoTxn == [before |-> NoTree, target |-> NoTree, originals |-> NoTree]
AtRest == [step |-> "rest", doing |-> "none", file |-> 0, done |-> {}, clean |-> TRUE,
           plan |-> {}, target |-> NoTree]

Bytes == {Absent, Mine, "old"} \cup Leases
Trees == [Files -> Bytes]

MergeTypeOK ==
    /\ folder \in [Files -> Bytes \cup {Sentinel}] /\ backup \in [Files -> Bytes \cup {Sentinel}]
    /\ verify \in [Files -> Bytes \cup {Sentinel}]
    /\ integration \in Trees \cup {NoTree}
    /\ merge.plan \subseteq Files /\ merge.done \subseteq merge.plan
    /\ mergeWork \in 0..MaxMergeWork

MergeInit ==
    /\ folder = TaskHead /\ backup = [f \in Files |-> Absent] /\ verify = [f \in Files |-> Absent]
    /\ integration = NoTree /\ worktree = [l \in Leases |-> NoLease]
    /\ txn = NoTxn /\ merge = AtRest
    /\ touched = {} /\ owed = {} /\ adopted = {} /\ clobbered = {} /\ torn = {}
    /\ agreed = TaskHead /\ early = {} /\ discarded = {}
    /\ mergeWork = 0

MergeBudget == mergeWork < MaxMergeWork /\ mergeWork' = mergeWork + 1

-----------------------------------------------------------------------------
(* Leases.                                                                 *)

\* acquire: the baseline is the integration ref, or HEAD where there is none.
IntegrationBaseline == IF integration = NoTree THEN TaskHead ELSE integration

\* What an agent may leave: some files written; the first one deleted, if it is not the only one.
Works(l) ==
    {[f \in Files |-> CASE f \notin S -> IntegrationBaseline[f]
                        [] f = 1 /\ S # {1} -> Absent
                        [] OTHER -> l] : S \in (SUBSET Files) \ {{}}}

\* A worktree, and what the agent makes of it.
Acquire(l, tree) ==
    /\ worktree[l] = NoLease
    /\ tree \in Works(l)
    /\ worktree' = [worktree EXCEPT ![l] =
          [base |-> IntegrationBaseline, tree |-> tree, during |-> txn # NoTxn]]
    /\ UNCHANGED <<disk, integration, txn, merge, edits, witness, mergeWork>>

Differ(s, t) == {f \in Files : s[f] # t[f]}
Changed(l) == Differ(worktree[l].base, worktree[l].tree)

-----------------------------------------------------------------------------
(* A merge.                                                                *)

ChangesMeet(batch) == \E l, m \in batch : l # m /\ Changed(l) \cap Changed(m) # {}

\* Mutant of MergedSince: siblings that were merged meanwhile are not looked at.
NobodyMerged(l) == {}
MergedSince(l) == IF integration = NoTree THEN {} ELSE Differ(worktree[l].base, integration)

ApplyBase(batch) ==
    IF integration # NoTree THEN integration ELSE worktree[CHOOSE l \in batch : TRUE].base

\* project_dir_drift_paths: untracked files count.
LocalEdits(base) == Differ(folder, base)

\* Any conflict ends the merge with NeedsUser, before anything is written.
CheckMerge(batch) ==
    LET base == ApplyBase(batch)
        plan == UNION {Changed(l) : l \in batch}
    IN  /\ merge.step = "rest" /\ txn = NoTxn
        /\ batch # {} /\ \A l \in batch : worktree[l] \notin {NoLease, Released}
        /\ ~ChangesMeet(batch)
        /\ \A l \in batch : Changed(l) \cap MergedSince(l) = {}
        /\ plan \cap LocalEdits(base) = {}
        /\ clobbered' = clobbered \cup {f \in plan : integration # NoTree /\
              \E l \in batch : f \in Changed(l) /\ integration[f] # worktree[l].base[f]}
        /\ early' = early \cup {l \in batch : worktree[l].during}
        /\ merge' = [AtRest EXCEPT !.step = "checked", !.plan = plan, !.target =
              [f \in Files |-> IF \E l \in batch : f \in Changed(l)
                               THEN worktree[CHOOSE l \in batch : f \in Changed(l)].tree[f]
                               ELSE base[f]]]
        /\ UNCHANGED <<disk, integration, worktree, txn, edits, adopted, torn, agreed, discarded,
                       mergeWork>>

\* snapshot_originals and write_journal_atomic.
WriteJournal ==
    /\ merge.step = "checked"
    /\ txn' = [before |-> integration, target |-> merge.target,
               originals |-> [f \in merge.plan |-> folder[f]]]
    /\ merge' = [merge EXCEPT !.step = "journalled"]
    /\ adopted' = adopted \cup (merge.plan \cap owed)
    /\ UNCHANGED <<disk, integration, worktree, edits, clobbered, torn, agreed, early, discarded,
                   mergeWork>>

LeastOf(S) == CHOOSE f \in S : \A g \in S : f <= g
GreatestOf(S) == CHOOSE f \in S : \A g \in S : f >= g

Begins(m, doing, S) ==
    IF S = {} THEN [m EXCEPT !.doing = doing, !.step = "settle"]
    ELSE [m EXCEPT !.doing = doing, !.step = "look", !.file = LeastOf(S)]

AdvanceRef ==
    /\ merge.step = "journalled" /\ integration = txn.before
    /\ integration' = txn.target
    /\ merge' = Begins(merge, "apply", merge.plan)
    /\ UNCHANGED <<disk, worktree, txn, edits, witness, mergeWork>>

\* Somebody has moved the ref: the merge fails and leaves its journal.
AdvanceRefused ==
    /\ merge.step = "journalled" /\ integration # txn.before
    /\ merge' = AtRest
    /\ UNCHANGED <<disk, integration, worktree, txn, edits, witness, mergeWork>>

-----------------------------------------------------------------------------
(* The files: compare_exchange_change.                                     *)

Expected(f) == IF merge.doing = "undo" THEN txn.target[f] ELSE txn.originals[f]
Desired(f) == IF merge.doing = "undo" THEN txn.originals[f] ELSE txn.target[f]

\* What follows when the exchange of a file has succeeded, or not.
AfterUndo(m) ==
    LET left == m.done \ {m.file}
    IN  IF left # {} THEN [m EXCEPT !.doing = "undo", !.step = "look", !.done = left,
                                    !.file = GreatestOf(left)]
        ELSE IF m.clean THEN [m EXCEPT !.doing = "undo", !.step = "reset", !.done = {}]
        ELSE AtRest

Exchanged(ok) ==
    LET f == merge.file
        m == [merge EXCEPT !.done = @ \cup {f}]
        left == merge.plan \ m.done
    IN  merge' = CASE merge.doing = "undo" -> AfterUndo([merge EXCEPT !.clean = @ /\ ok])
                   [] merge.doing # "undo" /\ ok -> Begins(m, merge.doing, left)
                   [] merge.doing = "apply" /\ ~ok -> AfterUndo([merge EXCEPT !.file = 0])
                   [] merge.doing = "replay" /\ ~ok -> AtRest

Goto(step) == merge' = [merge EXCEPT !.step = step]
Disk(name, b, v) ==
    LET f == merge.file
    IN  /\ folder' = [folder EXCEPT ![f] = name] /\ backup' = [backup EXCEPT ![f] = b]
        /\ verify' = [verify EXCEPT ![f] = v]
Same == UNCHANGED disk
Aside == UNCHANGED <<integration, worktree, txn, edits, witness, mergeWork>>

\* A version in the way of a rename ends the exchange with an error, and both stay.
Reinstate(f, b, v, bytes, ok) ==
    IF folder[f] = Absent THEN Disk(bytes, b, v) /\ Exchanged(ok) ELSE Same /\ Exchanged(FALSE)

\* recover_verify_artifact: a crash has left a version, or the sentinel, aside.
SeenAside(f) == IF verify[f] = Absent /\ folder[f] = Sentinel THEN Sentinel ELSE verify[f]

ResumeVerify(f) ==
    LET current == IF verify[f] = Absent THEN Absent ELSE folder[f]
    IN  /\ merge.step = "look" /\ f = merge.file /\ SeenAside(f) # Absent
        /\ \/ /\ Desired(f) # Absent /\ SeenAside(f) = Desired(f) /\ current = Absent
              /\ Disk(Desired(f), backup[f], Absent) /\ Goto("drop")
           \/ /\ Desired(f) = Absent /\ SeenAside(f) = Sentinel
              /\ Disk(current, backup[f], Absent)
              /\ IF current = Absent THEN Goto("drop") ELSE Exchanged(FALSE)
           \/ /\ SeenAside(f) # (IF Desired(f) = Absent THEN Sentinel ELSE Desired(f))
              /\ current = Absent
              /\ Disk(SeenAside(f), backup[f], Absent) /\ Exchanged(FALSE)
           \/ /\ current # Absent /\ (Desired(f) # Absent \/ SeenAside(f) # Sentinel)
              /\ Same /\ Exchanged(FALSE)
        /\ Aside

Look(f) ==
    /\ merge.step = "look" /\ f = merge.file /\ SeenAside(f) = Absent
    /\ \/ /\ backup[f] \in {Absent, Expected(f)} /\ folder[f] = Desired(f)
          /\ Goto(IF Desired(f) = Absent THEN "sentinel" ELSE "aside") /\ Same
       \/ /\ backup[f] \notin {Absent, Expected(f)}
          /\ Reinstate(f, Absent, verify[f], backup[f], FALSE)
       \/ /\ backup[f] # Absent /\ backup[f] = Expected(f) /\ folder[f] # Desired(f)
          /\ Goto("install") /\ Same
       \/ /\ backup[f] = Absent /\ folder[f] # Desired(f)
          /\ IF folder[f] # Expected(f) THEN Exchanged(FALSE)
             ELSE Goto(IF Expected(f) = Absent THEN "install" ELSE "take")
          /\ Same
    /\ Aside

\* Mutant of Taken: what the rename has caught is not compared.
TakenUnseen(f) == TRUE
\* The backup holds what was expected.
Taken(f) == folder[f] = Expected(f)

\* The name is moved to the backup, and the backup is compared.
Take(f) ==
    /\ merge.step = "take" /\ f = merge.file
    /\ \/ folder[f] = Absent /\ Same /\ Exchanged(FALSE)
       \/ folder[f] # Absent /\ Disk(Absent, folder[f], verify[f])
          /\ Goto(IF Taken(f) THEN "install" ELSE "restore")
    /\ Aside

Restore(f) ==
    /\ merge.step = "restore" /\ f = merge.file
    /\ Reinstate(f, Absent, verify[f], backup[f], FALSE)
    /\ Aside

\* The result is installed only where the name is free.
Install(f) ==
    /\ merge.step = "install" /\ f = merge.file
    /\ IF folder[f] = Absent THEN Disk(Desired(f), backup[f], verify[f]) /\ Goto("drop")
       ELSE Disk(folder[f], Absent, verify[f]) /\ Exchanged(FALSE)
    /\ Aside

DropBackup(f) ==
    /\ merge.step = "drop" /\ f = merge.file
    /\ Disk(folder[f], Absent, verify[f]) /\ Exchanged(TRUE)
    /\ Aside

\* atomically_verify_entry: an absent name is claimed, and the name is moved aside and back.
ClaimName(f) ==
    /\ merge.step = "sentinel" /\ f = merge.file
    /\ IF folder[f] = Absent THEN Disk(Sentinel, backup[f], verify[f]) /\ Goto("aside")
       ELSE Same /\ Exchanged(FALSE)
    /\ Aside

MoveAside(f) ==
    /\ merge.step = "aside" /\ f = merge.file
    /\ IF folder[f] = Absent THEN Same /\ Exchanged(FALSE)
       ELSE Disk(Absent, backup[f], folder[f]) /\ Goto("back")
    /\ Aside

MoveBack(f) ==
    LET matches == verify[f] = (IF Desired(f) = Absent THEN Sentinel ELSE Desired(f))
    IN  /\ merge.step = "back" /\ f = merge.file
        /\ \/ /\ matches /\ Desired(f) = Absent
              /\ Disk(folder[f], backup[f], Absent) /\ Goto("drop")
           \/ /\ ~(matches /\ Desired(f) = Absent) /\ folder[f] = Absent
              /\ Disk(verify[f], backup[f], Absent)
              /\ IF matches THEN Goto("drop") ELSE Exchanged(FALSE)
           \/ /\ Desired(f) # Absent /\ matches /\ folder[f] # Absent
              /\ Disk(folder[f], backup[f], Absent) /\ Exchanged(FALSE)
           \/ /\ ~matches /\ folder[f] # Absent
              /\ Same /\ Exchanged(FALSE)
        /\ Aside

\* A call of the file system fails: the exchange ends where it is.
CallFails ==
    /\ merge.step \in {"take", "restore", "install", "drop", "sentinel", "aside", "back"}
    /\ MergeBudget /\ Exchanged(FALSE)
    /\ torn' = torn \cup {merge.file}
    /\ UNCHANGED <<disk, integration, worktree, txn, edits, adopted, clobbered, agreed, early,
                   discarded>>

-----------------------------------------------------------------------------
(* The end of a merge, and of a recovery.                                  *)

\* Everything undone: the ref goes back, if it is still where the merge put it.
ResetRef ==
    /\ merge.step = "reset"
    /\ IF integration = txn.target
       THEN integration' = txn.before /\ Goto("settle")
       ELSE UNCHANGED integration /\ merge' = AtRest
    /\ UNCHANGED <<disk, worktree, txn, edits, witness, mergeWork>>

RemoveJournal ==
    /\ merge.step = "settle"
    /\ txn' = NoTxn /\ merge' = AtRest
    /\ agreed' = IF merge.doing = "undo" THEN agreed
                 ELSE [f \in Files |-> IF f \in merge.plan THEN txn.target[f] ELSE agreed[f]]
    /\ UNCHANGED <<disk, integration, worktree, edits, adopted, clobbered, torn, early,
                   discarded, mergeWork>>

MergeCrash ==
    /\ merge.step # "rest" /\ MergeBudget
    /\ merge' = AtRest
    /\ UNCHANGED <<disk, integration, worktree, txn, edits, witness>>

\* Mutant of NotAdvanced: a journal is dropped without a look at the ref.
AlwaysDropped == txn # NoTxn
NotAdvanced == integration # txn.target /\ integration = txn.before

\* recover_merge_journals, at a start and before each merge.
ReplayJournal ==
    /\ merge.step = "rest" /\ txn # NoTxn /\ integration = txn.target
    /\ LET plan == DOMAIN txn.originals
       IN  merge' = Begins([AtRest EXCEPT !.plan = plan], "replay", plan)
    /\ UNCHANGED <<disk, integration, worktree, txn, edits, witness, mergeWork>>

DropJournal ==
    /\ merge.step = "rest" /\ txn # NoTxn /\ NotAdvanced
    /\ txn' = NoTxn
    /\ UNCHANGED <<disk, integration, worktree, merge, edits, witness, mergeWork>>

Release(l) ==
    /\ worktree[l] \notin {NoLease, Released} /\ merge.step = "rest"
    /\ worktree' = [worktree EXCEPT ![l] = Released]
    /\ UNCHANGED <<disk, integration, txn, merge, edits, witness, mergeWork>>

\* discard_task_baselines, without the merge lock.
DiscardRef ==
    /\ integration # NoTree /\ MergeBudget
    /\ integration' = NoTree
    /\ LET when == IF merge.step = "rest" /\ txn = NoTxn THEN "between" ELSE "during"
       IN  discarded' = discarded \cup {when}
    /\ UNCHANGED <<disk, worktree, txn, merge, edits, adopted, clobbered, torn, agreed, early>>

-----------------------------------------------------------------------------
UserSaves(f) ==
    /\ MergeBudget
    /\ folder' = [folder EXCEPT ![f] = Mine]
    /\ touched' = touched \cup {f} /\ owed' = owed \cup {f}
    /\ adopted' = IF txn = NoTxn THEN adopted \ {f} ELSE adopted
    /\ UNCHANGED <<backup, verify, integration, worktree, txn, merge, clobbered, torn, agreed,
                   early,
                   discarded>>

UserDeletes(f) ==
    /\ folder[f] # Absent /\ MergeBudget
    /\ folder' = [folder EXCEPT ![f] = Absent]
    /\ touched' = touched \cup {f} /\ owed' = owed \ {f}
    /\ adopted' = IF txn = NoTxn THEN adopted \ {f} ELSE adopted
    /\ UNCHANGED <<backup, verify, integration, worktree, txn, merge, clobbered, torn, agreed,
                   early,
                   discarded>>

MergeNext ==
    \/ \E l \in Leases, tree \in Trees : Acquire(l, tree)
    \/ \E l \in Leases : Release(l)
    \/ \E batch \in SUBSET Leases : CheckMerge(batch)
    \/ WriteJournal \/ AdvanceRef \/ AdvanceRefused
    \/ \E f \in Files : ResumeVerify(f) \/ Look(f) \/ Take(f) \/ Restore(f) \/ Install(f)
    \/ \E f \in Files : DropBackup(f) \/ ClaimName(f) \/ MoveAside(f) \/ MoveBack(f)
    \/ CallFails \/ ResetRef \/ RemoveJournal
    \/ MergeCrash \/ ReplayJournal \/ DropJournal \/ DiscardRef
    \/ \E f \in Files : UserSaves(f) \/ UserDeletes(f)

MergeSpec == MergeInit /\ [][MergeNext]_mergeVars

-----------------------------------------------------------------------------
\* What the user saved last is under its name or beside it, whatever a merge, its undoing and
\* its recovery have done, unless it was saved between the check for local edits and the
\* snapshot of the originals.
SavedIsKept ==
    \A f \in owed : f \in adopted \/ Mine \in {folder[f], backup[f], verify[f]}

\* With no journal left, a merge has been applied as a whole or not at all, except for files
\* the user has touched and files during whose exchange a call has failed; and the project is
\* what the ref says, unless the ref was deleted, or a lease was merged whose baseline was the
\* ref of a transaction.
ProjectIsWhole ==
    merge.step = "rest" /\ txn = NoTxn /\ "during" \notin discarded =>
        /\ \A f \in Files : folder[f] = agreed[f] \/ f \in touched \/ f \in torn
        /\ discarded = {} /\ early = {} => agreed = IntegrationBaseline

\* The same where a call has failed: a merge that ends without a journal has left every file
\* the user has not touched as it was, or as the merge wanted it.
FailedMergeIsUndone ==
    merge.step = "rest" /\ txn = NoTxn /\ discarded = {} =>
        \A f \in Files \ touched : folder[f] = agreed[f]

\* A lease changes no file of the ref that a sibling has changed since its baseline.
SiblingsKept == clobbered = {}

\* No sentinel is left in the project of the user, but for a failed call or a ref that was
\* deleted during a transaction, whose journal is dropped as it stands.
NoSentinelLeft ==
    txn = NoTxn /\ "during" \notin discarded => \A f \in Files \ torn : folder[f] # Sentinel

MergeSafety == MergeTypeOK /\ SavedIsKept /\ ProjectIsWhole /\ SiblingsKept /\ NoSentinelLeft
=============================================================================
