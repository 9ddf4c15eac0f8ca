----------------------------- MODULE StoreProofs ----------------------------
(***************************************************************************)
(* Proofs about what is kept in directories and databases, for any values  *)
(* of the constants that satisfy the modules' assumptions.  WorktreeMerge: *)
(* what the user saved is kept, and a merge is whole or undone.            *)
(* SchemaMigration: every upgrade can be had back, and no schema goes      *)
(* back.  RunGate: a command on a run acts on what its sender saw.         *)
(* NeedsYou: a run that stands still asks for its user, in both its views. *)
(***************************************************************************)
EXTENDS WorktreeMerge, SchemaMigration, RunGate, NeedsYou, FiniteSetTheorems,
        SequenceTheorems, WellFoundedInduction, TLAPS

----
(* The work of isolated runs gets into the directory of the user.          *)

Pure == [Files -> {Absent, "old"} \cup Leases]
Refs == Pure \cup {NoTree}
Exchanging == {"look", "take", "restore", "install", "drop", "sentinel", "aside", "back"}
MergeRecords ==
    [step : {"rest", "checked", "journalled", "reset", "settle"} \cup Exchanging,
     doing : {"none", "apply", "undo", "replay"}, file : Files \cup {0}, done : SUBSET Files, clean : BOOLEAN,
     plan : SUBSET Files, target : Refs]
WorktreeRecords == [base : Pure, tree : Pure, during : BOOLEAN]
JournalTyping(t) ==
    /\ DOMAIN t.originals \subseteq Files
    /\ t.before \in Refs /\ t.target \in Pure
    /\ \A f \in DOMAIN t.originals : t.originals[f] \in Bytes

MergeTyping ==
    /\ folder \in [Files -> Bytes \cup {Sentinel}] /\ backup \in [Files -> Bytes]
    /\ verify \in [Files -> Bytes \cup {Sentinel}]
    /\ integration \in Refs
    /\ worktree \in [Leases -> {NoLease, Released} \cup WorktreeRecords]
    /\ merge \in MergeRecords
    /\ txn # NoTxn => JournalTyping(txn)
    /\ agreed \in [Files -> Bytes] /\ owed \subseteq Files
    /\ mergeWork \in 0..MaxMergeWork

\* Where a merge is, and what it works on.
ControlInv ==
    /\ merge.step = "rest" => merge = AtRest
    /\ merge.step = "checked" => txn = NoTxn
    /\ merge.step \in {"checked", "journalled"} =>
         merge.doing = "none" /\ merge.done = {} /\ merge.clean /\ merge.target \in Pure
    /\ merge.step \notin {"rest", "checked"} => txn # NoTxn /\ DOMAIN txn.originals = merge.plan
    /\ merge.step \in Exchanging =>
         /\ merge.doing \in {"apply", "undo", "replay"} /\ merge.file \in merge.plan
         /\ (merge.doing = "undo" <=> merge.file \in merge.done)
    /\ merge.step = "reset" => merge.doing = "undo" /\ merge.done = {}
    /\ merge.step = "settle" =>
         \/ merge.doing = "undo"
         \/ merge.doing \in {"apply", "replay"} /\ merge.done = merge.plan
    /\ merge.done \subseteq merge.plan
    /\ (merge.doing # "undo" \/ merge.step \in {"reset", "settle"}) => merge.clean

\* What an exchange has seen of its file.
HandsInv ==
    /\ \A f \in Files : folder[f] = Sentinel => verify[f] = Absent
    /\ merge.step \in {"take", "restore", "install", "drop", "sentinel", "aside"} => verify[merge.file] = Absent
    /\ merge.step = "take" => backup[merge.file] = Absent /\ folder[merge.file] # Sentinel
    /\ merge.step \in {"sentinel"} => Desired(merge.file) = Absent
    /\ merge.step \in {"restore", "install", "drop", "sentinel", "back"} => folder[merge.file] # Sentinel
    /\ merge.step = "aside" /\ Desired(merge.file) # Absent => folder[merge.file] # Sentinel
    /\ merge.step = "back" /\ Desired(merge.file) # Absent => verify[merge.file] # Sentinel

\* What is journalled as an original was there when the merge looked, or the user's.
OriginalsInv ==
    /\ merge.step = "checked" => \A f \in merge.plan : folder[f] \in Bytes /\ (folder[f] = Mine => f \in owed)
    /\ txn # NoTxn => \A f \in DOMAIN txn.originals : txn.originals[f] = Mine => f \in adopted

\* The last version of the user, and where the exchange may not throw it away.
KeptOf(f) ==
    f \in owed \ adopted =>
        \/ folder[f] = Mine \/ verify[f] = Mine
        \/ /\ backup[f] = Mine /\ verify[f] = Absent /\ folder[f] # Sentinel
           /\ f # merge.file \/ merge.step \notin {"install", "drop", "sentinel", "aside", "back"}

Sure == "during" \notin discarded
SentinelOf(f) ==
    Sure /\ f \notin torn /\ Sentinel \in {folder[f], verify[f]} =>
        /\ txn # NoTxn /\ integration = txn.target /\ f \in DOMAIN txn.originals
        /\ \/ merge.step = "rest"
           \/ merge.doing = "replay" /\ f \notin merge.done /\ merge.step \in Exchanging
              /\ (f # merge.file \/ merge.step = "look")
           \/ f = merge.file /\ merge.step \in {"aside", "back"} /\ Desired(f) = Absent

Bare(f) == backup[f] = Absent /\ verify[f] = Absent
Before(f) == folder[f] = txn.originals[f] /\ Bare(f)
After(f) == folder[f] = txn.target[f] /\ Bare(f)
Held(f) == IF Desired(f) = Absent THEN Sentinel ELSE Desired(f)

\* The file an apply is exchanging, if nobody else has touched it.
ApplyOf(f) ==
    /\ backup[f] \in {Absent, Expected(f)} /\ merge.step # "restore"
    /\ merge.step \in {"look", "take"} => Before(f)
    /\ merge.step = "take" => folder[f] # Absent
    /\ merge.step \in {"install", "sentinel"} => folder[f] = Absent
    /\ merge.step = "aside" => folder[f] = Held(f)
    /\ merge.step = "back" => folder[f] = Absent /\ verify[f] = Held(f)

\* A file of the journal that only the merge has changed.
Bound(f) ==
    /\ txn.originals[f] = agreed[f]
    /\ \/ integration # txn.target \/ merge.step \in {"journalled", "reset"}
       \/ merge.step = "settle" /\ merge.doing = "undo"
       => Before(f)
    /\ merge.doing \in {"apply", "replay"} /\ f \in merge.done => After(f)
    /\ merge.doing = "undo" /\ merge.clean /\ f \notin merge.done => Before(f)
    /\ f = merge.file /\ merge.step = "drop" => folder[f] = Desired(f)
    /\ f = merge.file /\ merge.step = "back" => folder[f] = Absent
    /\ merge.doing = "apply" /\ f \notin merge.done /\ f = merge.file => ApplyOf(f)
    /\ merge.doing = "apply" /\ f \notin merge.done /\ f # merge.file => Before(f)

WholeNow(f) ==
    IF txn = NoTxn \/ f \notin DOMAIN txn.originals THEN folder[f] = agreed[f] /\ Bare(f) ELSE Bound(f)

WholeOf(f) == Sure /\ f \notin touched \cup torn => WholeNow(f)

Baseline(ref) == IF ref = NoTree THEN TaskHead ELSE ref

\* A lease without baseline has worked on the head of the task, unless a transaction was open.
LeaseInv ==
    discarded # {} \/
      \A l \in Leases :
         /\ worktree[l] \in WorktreeRecords /\ ~worktree[l].during
         /\ integration = NoTree \/ (txn # NoTxn /\ txn.before = NoTree)
         => worktree[l].base = TaskHead

\* The ref is where the phase of the merge wants it.
PhaseInv ==
    Sure =>
      /\ merge.step \in Exchanging \cup {"reset"} => integration = txn.target
      /\ merge.step = "settle" /\ merge.doing # "undo" => integration = txn.target
      /\ merge.step = "settle" /\ merge.doing = "undo" => integration = txn.before
      /\ merge.step = "journalled" => integration = txn.before
      /\ merge.step = "rest" /\ txn # NoTxn => integration \in {txn.before, txn.target}

\* The merges that ended have left what the ref says, and a merge changes its plan only.
AgreedInv ==
    discarded # {} \/ early # {} \/
      /\ txn = NoTxn => agreed = Baseline(integration)
      /\ merge.step = "checked" => \A f \in Files \ merge.plan : merge.target[f] = agreed[f]
      /\ txn # NoTxn => /\ agreed = Baseline(txn.before)
                        /\ \A f \in Files \ DOMAIN txn.originals : txn.target[f] = agreed[f]

MergeInv ==
    /\ MergeTyping /\ ControlInv /\ HandsInv /\ OriginalsInv
    /\ LeaseInv /\ PhaseInv /\ AgreedInv /\ clobbered = {}
    /\ \A f \in Files : KeptOf(f) /\ SentinelOf(f) /\ WholeOf(f)

\* The bytes that are not of a lease are different ones, and no lease has them.
LEMMA MergeNames ==
    /\ Absent # Mine /\ Absent # Sentinel /\ Mine # Sentinel /\ Absent # "old" /\ Mine # "old" /\ Sentinel # "old"
    /\ \A l \in Leases : l \notin {"none", Absent, Mine, Sentinel, "old"}
    /\ NoTree \notin Pure /\ TaskHead \in Pure /\ Pure \subseteq Trees
    /\ Sentinel \notin Bytes /\ Absent \in Bytes /\ Mine \in Bytes
<1> USE MergeAssumption DEF Absent, Mine, Sentinel
<1>1. NoTree \notin Pure  BY DEF NoTree, Pure
<1>2. TaskHead \in Pure  BY DEF TaskHead, Pure
<1>3. Pure \subseteq Trees  BY DEF Pure, Trees, Bytes
<1> QED  BY <1>1, <1>2, <1>3 DEF Bytes

\* A set of files has a first and a last one.
LEMMA FileOrder ==
    ASSUME NEW S \in SUBSET Files, S # {}
    PROVE  LeastOf(S) \in S /\ GreatestOf(S) \in S
<1>0. PICK n \in Nat : Files \subseteq 1..n  BY MergeAssumption
<1>1. ASSUME NEW T \in SUBSET Nat, T # {}
      PROVE  \E x \in T : \A y \in T : x <= y
  <2>1. PICK x \in T : \A y \in T : <<y, x>> \notin OpToRel(<, Nat)  BY <1>1, NatLessThanWellFounded, WFMin
  <2>2. \A y \in T : ~(y < x)  BY <1>1, <2>1 DEF OpToRel
  <2> QED  BY <1>1, <2>2
<1>2. \E x \in S : \A y \in S : x <= y  BY <1>0, <1>1
<1>3. \E x \in S : \A y \in S : x >= y
  <2> DEFINE T == {n - x : x \in S}
  <2>0. \A x \in S : x \in Int /\ n - x \in Nat  BY <1>0
  <2>1. T \in SUBSET Nat /\ T # {}  BY <2>0
  <2>2. PICK m \in T : \A k \in T : m <= k  BY <1>1, <2>1
  <2>3. PICK x \in S : m = n - x  OBVIOUS
  <2>4. \A y \in S : n - x <= n - y  BY <2>2, <2>3
  <2> QED  BY <1>0, <2>4
<1> QED  BY <1>2, <1>3 DEF LeastOf, GreatestOf

\* What follows an exchange, whether it has succeeded or not.
EndGoes(f, ok) ==
    \/ /\ merge' = AtRest
       /\ \/ merge.doing = "replay" /\ ~ok
          \/ merge.doing = "undo" /\ ~(merge.clean /\ ok)
    \/ /\ merge' \in MergeRecords /\ merge'.plan = merge.plan /\ merge'.target = merge.target
       /\ merge'.step \in {"look", "reset", "settle"}
       /\ \/ /\ merge.doing \in {"apply", "replay"} /\ ok
             /\ merge'.doing = merge.doing /\ merge'.clean = merge.clean /\ merge'.done = merge.done \cup {f}
             /\ \/ merge'.step = "look" /\ merge'.file \in merge.plan \ merge'.done
                \/ merge'.step = "settle" /\ merge'.done = merge.plan
          \/ /\ merge.doing = "apply" /\ ~ok
             /\ merge'.doing = "undo" /\ merge'.clean = merge.clean /\ merge'.done = merge.done
             /\ \/ merge'.step = "look" /\ merge'.file \in merge'.done
                \/ merge'.step = "reset" /\ merge'.done = {}
          \/ /\ merge.doing = "undo"
             /\ merge'.doing = "undo" /\ merge'.clean = (merge.clean /\ ok) /\ merge'.done = merge.done \ {f}
             /\ \/ merge'.step = "look" /\ merge'.file \in merge'.done
                \/ merge'.step = "reset" /\ merge'.done = {} /\ merge'.clean

\* The end of an exchange goes on as EndGoes says.
LEMMA EndStep ==
    ASSUME merge \in MergeRecords, ControlInv, merge.step \in Exchanging, NEW ok \in BOOLEAN, Exchanged(ok)
    PROVE  EndGoes(merge.file, ok)
<1> DEFINE f == merge.file
<1>0. /\ f \in merge.plan /\ merge.done \subseteq merge.plan /\ merge.plan \subseteq Files /\ 0 \notin Files
      /\ merge.doing \in {"apply", "undo", "replay"} /\ merge.target \in Refs
      /\ merge.done \subseteq Files /\ merge.clean \in BOOLEAN
  BY MergeAssumption DEF ControlInv, MergeRecords
<1>1. CASE merge.doing \in {"apply", "replay"} /\ ok
  <2> DEFINE m == [merge EXCEPT !.done = @ \cup {f}]
             left == merge.plan \ m.done
  <2>1. merge' = Begins(m, merge.doing, left)  BY <1>1 DEF Exchanged
  <2>2. /\ m \in MergeRecords /\ m.done = merge.done \cup {f} /\ m.plan = merge.plan /\ m.clean = merge.clean
        /\ m.target = merge.target
    BY <1>0 DEF MergeRecords
  <2>3. left \subseteq merge.plan /\ (left # {} => LeastOf(left) \in left)  BY <1>0, FileOrder
  <2>4. left = merge.plan \ m.done  OBVIOUS
  <2> HIDE DEF m, left
  <2>5. CASE left = {}
    <3>1. merge' = [m EXCEPT !.doing = merge.doing, !.step = "settle"]  BY <2>1, <2>5 DEF Begins
    <3>2. m.done = merge.plan  BY <1>0, <2>2, <2>4, <2>5
    <3> QED  BY <1>0, <1>1, <2>2, <3>1, <3>2 DEF EndGoes, MergeRecords
  <2>6. CASE left # {}
    <3>1. merge' = [m EXCEPT !.doing = merge.doing, !.step = "look", !.file = LeastOf(left)]  BY <2>1, <2>6 DEF Begins
    <3> QED  BY <1>0, <1>1, <2>2, <2>3, <2>4, <2>6, <3>1 DEF EndGoes, MergeRecords, Exchanging
  <2> QED  BY <2>5, <2>6
<1>2. ASSUME NEW m \in MergeRecords, merge' = AfterUndo(m), m.plan = merge.plan, m.target = merge.target,
             m.done \subseteq Files
      PROVE  \/ merge' = AtRest /\ ~m.clean
             \/ /\ merge' \in MergeRecords /\ merge'.plan = merge.plan /\ merge'.target = merge.target
                /\ merge'.doing = "undo" /\ merge'.clean = m.clean /\ merge'.done = m.done \ {m.file}
                /\ \/ merge'.step = "look" /\ merge'.file \in merge'.done
                   \/ merge'.step = "reset" /\ merge'.done = {} /\ m.clean
  <2> DEFINE left == m.done \ {m.file}
  <2>1. left \subseteq Files /\ (left # {} => GreatestOf(left) \in left)  BY <1>2, FileOrder
  <2>2. CASE left # {}
    <3>1. merge' = [m EXCEPT !.doing = "undo", !.step = "look", !.done = left, !.file = GreatestOf(left)]
      BY <1>2, <2>2 DEF AfterUndo
    <3> HIDE DEF left
    <3>2. merge' \in MergeRecords /\ merge'.file \in left /\ merge'.done = left /\ merge'.step = "look"
          /\ merge'.doing = "undo" /\ merge'.clean = m.clean /\ merge'.plan = m.plan /\ merge'.target = m.target
      BY <2>1, <2>2, <3>1 DEF MergeRecords, Exchanging
    <3> QED  BY <1>2, <3>2 DEF left
  <2>3. CASE left = {} /\ m.clean  BY <1>2, <2>3 DEF MergeRecords, AfterUndo
  <2>4. CASE left = {} /\ ~m.clean  BY <1>2, <2>4 DEF AfterUndo
  <2> QED  BY <2>2, <2>3, <2>4
<1>3. CASE merge.doing = "undo"
  <2> DEFINE m == [merge EXCEPT !.clean = @ /\ ok]
  <2>1. merge' = AfterUndo(m)  BY <1>3 DEF Exchanged
  <2>2. m \in MergeRecords /\ m.plan = merge.plan /\ m.target = merge.target /\ m.done = merge.done /\ m.file = f
        /\ m.clean = (merge.clean /\ ok)
    BY <1>0 DEF MergeRecords
  <2> HIDE DEF m
  <2> QED  BY <1>3, <2>2, <1>0, <1>2, <2>1 DEF EndGoes
<1>4. CASE merge.doing = "apply" /\ ~ok
  <2> DEFINE m == [merge EXCEPT !.file = 0]
  <2>1. merge' = AfterUndo(m)  BY <1>4 DEF Exchanged
  <2>2. m \in MergeRecords /\ m.plan = merge.plan /\ m.target = merge.target /\ m.done = merge.done /\ m.file = 0
        /\ m.clean = merge.clean
    BY <1>0 DEF MergeRecords
  <2> HIDE DEF m
  <2>3. \/ merge' = AtRest /\ ~m.clean
        \/ /\ merge' \in MergeRecords /\ merge'.plan = merge.plan /\ merge'.target = merge.target
           /\ merge'.doing = "undo" /\ merge'.clean = m.clean /\ merge'.done = m.done \ {m.file}
           /\ \/ merge'.step = "look" /\ merge'.file \in merge'.done
              \/ merge'.step = "reset" /\ merge'.done = {} /\ m.clean
    BY <1>0, <1>2, <2>1, <2>2
  <2>4. merge.clean /\ merge.done \ {0} = merge.done  BY <1>0, <1>4 DEF ControlInv
  <2> QED  BY <1>4, <2>2, <2>3, <2>4 DEF EndGoes
<1>5. CASE merge.doing = "replay" /\ ~ok  BY <1>5 DEF Exchanged, EndGoes
<1> QED  BY <1>0, <1>1, <1>3, <1>4, <1>5

ExchangeAt(f) ==
    \/ ResumeVerify(f) \/ Look(f) \/ Take(f) \/ Restore(f) \/ Install(f)
    \/ DropBackup(f) \/ ClaimName(f) \/ MoveAside(f) \/ MoveBack(f)

\* The next step of an exchange of the same file.
StepGoes(s) ==
    /\ merge' \in MergeRecords /\ merge'.step = s
    /\ merge'.doing = merge.doing /\ merge'.file = merge.file /\ merge'.done = merge.done
    /\ merge'.clean = merge.clean /\ merge'.plan = merge.plan /\ merge'.target = merge.target

\* A step within an exchange changes the step only.
LEMMA GotoStep ==
    ASSUME merge \in MergeRecords, NEW s \in Exchanging, Goto(s)
    PROVE  StepGoes(s)
  BY DEF Goto, StepGoes, MergeRecords

\* The three names of a file after an exchange has worked on them.
Cell(f, n, b, v) == folder'[f] = n /\ backup'[f] = b /\ verify'[f] = v
NamesGo(f) ==
    /\ folder' \in [Files -> Bytes \cup {Sentinel}] /\ backup' \in [Files -> Bytes \cup {Sentinel}]
    /\ verify' \in [Files -> Bytes \cup {Sentinel}]
    /\ \A g \in Files : g # f => Cell(g, folder[g], backup[g], verify[g])

\* An exchange changes the three names of its file only.
LEMMA DiskStep ==
    ASSUME MergeTyping, NEW n \in Bytes \cup {Sentinel}, NEW b \in Bytes \cup {Sentinel},
           NEW v \in Bytes \cup {Sentinel}, merge.file \in Files, Disk(n, b, v)
    PROVE  NamesGo(merge.file) /\ Cell(merge.file, n, b, v)
  BY DEF MergeTyping, Disk, NamesGo, Cell

\* An exchange that only looks changes no name.
LEMMA SameStep ==
    ASSUME MergeTyping, NEW f \in Files, Same
    PROVE  NamesGo(f) /\ Cell(f, folder[f], backup[f], verify[f])
  BY DEF MergeTyping, Same, disk, NamesGo, Cell

\* What an exchange does with the names of its file, and what comes next.
LookGoes(f, a, b, v, E, D) ==
    \/ v = D /\ D # Absent /\ a = Absent /\ Cell(f, D, b, Absent) /\ StepGoes("drop")
    \/ D = Absent /\ v = Sentinel /\ a # Absent /\ Cell(f, a, b, Absent) /\ EndGoes(f, FALSE)
    \/ D = Absent /\ v = Sentinel /\ a = Absent /\ Cell(f, Absent, b, Absent) /\ StepGoes("drop")
    \/ D = Absent /\ v = Absent /\ a = Sentinel /\ Cell(f, Absent, b, Absent) /\ StepGoes("drop")
    \/ v # Absent /\ a = Absent /\ v # Held(f) /\ Cell(f, v, b, Absent) /\ EndGoes(f, FALSE)
    \/ v = Absent /\ a = Sentinel /\ D # Absent /\ Cell(f, a, b, v) /\ EndGoes(f, FALSE)
    \/ v # Absent /\ a # Absent /\ (D # Absent \/ v # Sentinel) /\ Cell(f, a, b, v) /\ EndGoes(f, FALSE)
    \/ /\ v = Absent /\ a # Sentinel
       /\ \/ b \in {Absent, E} /\ a = D /\ D = Absent /\ Cell(f, a, b, v) /\ StepGoes("sentinel")
          \/ b \in {Absent, E} /\ a = D /\ D # Absent /\ Cell(f, a, b, v) /\ StepGoes("aside")
          \/ b \notin {Absent, E} /\ a = Absent /\ Cell(f, b, Absent, v) /\ EndGoes(f, FALSE)
          \/ b \notin {Absent, E} /\ a # Absent /\ Cell(f, a, b, v) /\ EndGoes(f, FALSE)
          \/ b # Absent /\ b = E /\ a # D /\ Cell(f, a, b, v) /\ StepGoes("install")
          \/ b = Absent /\ a # D /\ a # E /\ Cell(f, a, b, v) /\ EndGoes(f, FALSE)
          \/ b = Absent /\ a # D /\ a = E /\ E = Absent /\ Cell(f, a, b, v) /\ StepGoes("install")
          \/ b = Absent /\ a # D /\ a = E /\ E # Absent /\ Cell(f, a, b, v) /\ StepGoes("take")

TakeGoes(f, a, b, v, E) ==
    \/ a = Absent /\ Cell(f, a, b, v) /\ EndGoes(f, FALSE)
    \/ a # Absent /\ Cell(f, Absent, a, v) /\ a = E /\ StepGoes("install")
    \/ a # Absent /\ Cell(f, Absent, a, v) /\ a # E /\ StepGoes("restore")

RestoreGoes(f, a, b, v) ==
    /\ EndGoes(f, FALSE)
    /\ \/ a = Absent /\ Cell(f, b, Absent, v)
       \/ a # Absent /\ Cell(f, a, b, v)

InstallGoes(f, a, b, v, D) ==
    \/ a = Absent /\ Cell(f, D, b, v) /\ StepGoes("drop")
    \/ a # Absent /\ Cell(f, a, Absent, v) /\ EndGoes(f, FALSE)

ClaimGoes(f, a, b, v) ==
    \/ a = Absent /\ Cell(f, Sentinel, b, v) /\ StepGoes("aside")
    \/ a # Absent /\ Cell(f, a, b, v) /\ EndGoes(f, FALSE)

AsideGoes(f, a, b, v) ==
    \/ a = Absent /\ Cell(f, a, b, v) /\ EndGoes(f, FALSE)
    \/ a # Absent /\ Cell(f, Absent, b, a) /\ StepGoes("back")

BackGoes(f, a, b, v, D) ==
    \/ v = Sentinel /\ D = Absent /\ Cell(f, a, b, Absent) /\ StepGoes("drop")
    \/ v = D /\ D # Absent /\ a = Absent /\ Cell(f, v, b, Absent) /\ StepGoes("drop")
    \/ v # Held(f) /\ a = Absent /\ Cell(f, v, b, Absent) /\ EndGoes(f, FALSE)
    \/ v = D /\ D # Absent /\ a # Absent /\ Cell(f, a, b, Absent) /\ EndGoes(f, FALSE)
    \/ v # Held(f) /\ a # Absent /\ Cell(f, a, b, v) /\ EndGoes(f, FALSE)

FileGoes(f) ==
    \/ merge.step = "look" /\ LookGoes(f, folder[f], backup[f], verify[f], Expected(f), Desired(f))
    \/ merge.step = "take" /\ TakeGoes(f, folder[f], backup[f], verify[f], Expected(f))
    \/ merge.step = "restore" /\ RestoreGoes(f, folder[f], backup[f], verify[f])
    \/ merge.step = "install" /\ InstallGoes(f, folder[f], backup[f], verify[f], Desired(f))
    \/ merge.step = "drop" /\ Cell(f, folder[f], Absent, verify[f]) /\ EndGoes(f, TRUE)
    \/ merge.step = "sentinel" /\ ClaimGoes(f, folder[f], backup[f], verify[f])
    \/ merge.step = "aside" /\ AsideGoes(f, folder[f], backup[f], verify[f])
    \/ merge.step = "back" /\ BackGoes(f, folder[f], backup[f], verify[f], Desired(f))

\* Every step of compare_exchange_change moves its file as FileGoes says.
LEMMA ExchangeStep ==
    ASSUME MergeTyping, ControlInv, HandsInv, NEW f \in Files, ExchangeAt(f)
    PROVE  /\ f = merge.file /\ merge.step \in Exchanging /\ NamesGo(f) /\ FileGoes(f)
           /\ UNCHANGED <<integration, worktree, txn, edits, witness, mergeWork>>
<1>0. /\ f = merge.file /\ merge.step \in Exchanging /\ merge \in MergeRecords
      /\ UNCHANGED <<integration, worktree, txn, edits, witness, mergeWork>>
  BY DEF ExchangeAt, ResumeVerify, Look, Take, Restore, Install, DropBackup, ClaimName, MoveAside, MoveBack, Aside,
    Exchanging, MergeTyping
<1>1. /\ Exchanged(TRUE) => EndGoes(f, TRUE)
      /\ Exchanged(FALSE) => EndGoes(f, FALSE)
      /\ \A s \in Exchanging : Goto(s) => StepGoes(s)
  BY <1>0, EndStep, GotoStep
<1>2. /\ \A n, b, v \in Bytes \cup {Sentinel} : Disk(n, b, v) => NamesGo(f) /\ Cell(f, n, b, v)
      /\ Same => NamesGo(f) /\ Cell(f, folder[f], backup[f], verify[f])
  BY <1>0, DiskStep, SameStep
<1>3. /\ folder[f] \in Bytes \cup {Sentinel} /\ backup[f] \in Bytes \cup {Sentinel}
      /\ verify[f] \in Bytes \cup {Sentinel} /\ Expected(f) \in Bytes /\ Desired(f) \in Bytes
      /\ (folder[f] = Sentinel => verify[f] = Absent) /\ backup[f] # Sentinel
  <2>1. f \in DOMAIN txn.originals /\ JournalTyping(txn)  BY <1>0 DEF ControlInv, MergeTyping, Exchanging
  <2> QED  BY <2>1, MergeNames DEF MergeTyping, HandsInv, Expected, Desired, JournalTyping, Pure, Bytes
<1>4. Absent # Sentinel /\ Sentinel \notin Bytes /\ Absent \in Bytes  BY MergeNames
<1>5. ASSUME NEW b \in Bytes, NEW v \in Bytes \cup {Sentinel}, NEW n \in Bytes \cup {Sentinel},
             Reinstate(f, b, v, n, FALSE)
      PROVE  /\ NamesGo(f)
             /\ \/ folder[f] = Absent /\ Cell(f, n, b, v) /\ EndGoes(f, FALSE)
                \/ folder[f] # Absent /\ Cell(f, folder[f], backup[f], verify[f]) /\ EndGoes(f, FALSE)
  BY <1>1, <1>2, <1>5 DEF Reinstate
<1> SUFFICES NamesGo(f) /\ FileGoes(f)  BY <1>0
<1>6. CASE ResumeVerify(f)
  BY <1>1, <1>2, <1>3, <1>4, <1>6 DEF ResumeVerify, SeenAside, FileGoes, LookGoes, Held, Exchanging
<1>7. CASE Look(f)  BY <1>1, <1>2, <1>3, <1>4, <1>5, <1>7 DEF Look, SeenAside, FileGoes, LookGoes, Exchanging
<1>8. CASE Take(f)  BY <1>1, <1>2, <1>3, <1>4, <1>8 DEF Take, Taken, FileGoes, TakeGoes, Exchanging
<1>9. CASE Restore(f)  BY <1>1, <1>2, <1>3, <1>4, <1>5, <1>9 DEF Restore, FileGoes, RestoreGoes, Exchanging
<1>10. CASE Install(f)  BY <1>1, <1>2, <1>3, <1>4, <1>10 DEF Install, FileGoes, InstallGoes, Exchanging
<1>11. CASE DropBackup(f)  BY <1>1, <1>2, <1>3, <1>4, <1>11 DEF DropBackup, FileGoes, Exchanging
<1>12. CASE ClaimName(f)  BY <1>1, <1>2, <1>3, <1>4, <1>12 DEF ClaimName, FileGoes, ClaimGoes, Exchanging
<1>13. CASE MoveAside(f)  BY <1>1, <1>2, <1>3, <1>4, <1>13 DEF MoveAside, FileGoes, AsideGoes, Exchanging
<1>14. CASE MoveBack(f)  BY <1>1, <1>2, <1>3, <1>4, <1>14 DEF MoveBack, FileGoes, BackGoes, Held, Exchanging
<1> QED  BY <1>0, <1>6, <1>7, <1>8, <1>9, <1>10, <1>11, <1>12, <1>13, <1>14 DEF ExchangeAt

\* A check finds sources for every file of its plan.
LEMMA CheckStep ==
    ASSUME MergeTyping, NEW batch \in SUBSET Leases, CheckMerge(batch)
    PROVE  /\ batch # {} /\ \A l \in batch : worktree[l] \in WorktreeRecords
           /\ ApplyBase(batch) \in Pure
           /\ merge' \in MergeRecords /\ merge'.step = "checked" /\ merge'.doing = "none" /\ merge'.done = {}
           /\ merge'.clean /\ merge'.target \in Pure
           /\ merge'.plan = UNION {Changed(l) : l \in batch}
           /\ \A f \in Files \ merge'.plan : merge'.target[f] = ApplyBase(batch)[f]
           /\ \A f \in merge'.plan : folder[f] = ApplyBase(batch)[f]
<1> DEFINE plan == UNION {Changed(l) : l \in batch}
           target == [f \in Files |-> IF \E l \in batch : f \in Changed(l)
                               THEN worktree[CHOOSE l \in batch : f \in Changed(l)].tree[f]
                               ELSE ApplyBase(batch)[f]]
<1>1. batch # {} /\ \A l \in batch : worktree[l] \in WorktreeRecords  BY DEF CheckMerge, MergeTyping
<1>2. \A l \in batch : worktree[l].base \in Pure /\ worktree[l].tree \in Pure /\ Changed(l) \subseteq Files
  BY <1>1 DEF WorktreeRecords, Changed, Differ
<1>3. ApplyBase(batch) \in Pure
  <2>1. (CHOOSE l \in batch : TRUE) \in batch  BY <1>1
  <2> QED  BY <1>2, <2>1 DEF ApplyBase, MergeTyping, Refs
<1>4. target \in Pure
  <2>1. ASSUME NEW f \in Files, \E l \in batch : f \in Changed(l)
        PROVE  worktree[CHOOSE l \in batch : f \in Changed(l)].tree[f] \in {Absent, "old"} \cup Leases
    <3>1. (CHOOSE l \in batch : f \in Changed(l)) \in batch  BY <2>1
    <3> QED  BY <1>2, <3>1 DEF Pure
  <2> QED  BY <2>1, <1>3 DEF Pure
<1>5. plan \subseteq Files  BY <1>2
<1>6. merge' = [AtRest EXCEPT !.step = "checked", !.plan = plan, !.target = target]  BY DEF CheckMerge
<1>7. \A f \in Files \ plan : target[f] = ApplyBase(batch)[f]  OBVIOUS
<1>8. \A f \in plan : folder[f] = ApplyBase(batch)[f]
  <2>1. plan \cap LocalEdits(ApplyBase(batch)) = {}  BY DEF CheckMerge
  <2> QED  BY <1>5, <2>1 DEF LocalEdits, Differ
<1> HIDE DEF target
<1>9. /\ merge' \in MergeRecords /\ merge'.step = "checked" /\ merge'.doing = "none" /\ merge'.done = {}
      /\ merge'.clean /\ merge'.target = target /\ merge'.plan = plan
  BY <1>4, <1>5, <1>6 DEF AtRest, MergeRecords, Refs
<1> QED  BY <1>1, <1>3, <1>4, <1>7, <1>8, <1>9

\* The start of an apply or of a replay.
BeginGoes(doing, P) ==
    /\ merge' \in MergeRecords /\ merge'.plan = P /\ merge'.done = {} /\ merge'.clean /\ merge'.doing = doing
    /\ \/ merge'.step = "look" /\ merge'.file \in P
       \/ merge'.step = "settle" /\ P = {}

\* An apply, or a replay, starts with the first file of its plan.
LEMMA BeginStep ==
    ASSUME NEW m \in MergeRecords, NEW P \in SUBSET Files, m.plan = P, m.done = {}, m.clean,
           NEW doing \in {"apply", "replay"}, merge' = Begins(m, doing, P)
    PROVE  BeginGoes(doing, P)
<1>1. P # {} => LeastOf(P) \in P  BY FileOrder
<1>2. CASE P = {}  BY <1>2 DEF BeginGoes, MergeRecords, Begins
<1>3. CASE P # {}
  <2>1. merge' = [m EXCEPT !.doing = doing, !.step = "look", !.file = LeastOf(P)]  BY <1>3 DEF Begins
  <2> QED  BY <1>1, <1>3, <2>1 DEF BeginGoes, MergeRecords, Exchanging
<1> QED  BY <1>2, <1>3

\* How the record of a merge goes on where no exchange works on a file.
OtherGoes ==
    \/ UNCHANGED merge
    \/ \E batch \in SUBSET Leases : CheckMerge(batch)
    \/ merge.step = "checked" /\ StepGoes("journalled") /\ WriteJournal
    \/ merge.step = "journalled" /\ integration = txn.before /\ BeginGoes("apply", merge.plan) /\ AdvanceRef
    \/ merge.step = "reset" /\ integration = txn.target /\ StepGoes("settle") /\ ResetRef
    \/ /\ merge.step = "rest" /\ txn # NoTxn /\ integration = txn.target
       /\ BeginGoes("replay", DOMAIN txn.originals) /\ ReplayJournal
    \/ merge' = AtRest

\* A step is one of an exchange, a failed call, or moves the merge as OtherGoes says.
LEMMA OtherStep ==
    ASSUME MergeTyping, ControlInv, MergeNext
    PROVE  \/ \E f \in Files : ExchangeAt(f)
           \/ CallFails /\ EndGoes(merge.file, FALSE) /\ merge.step \in Exchanging
           \/ OtherGoes
<1>0. merge \in MergeRecords  BY DEF MergeTyping
<1>1. CASE CallFails  BY <1>0, <1>1, EndStep DEF CallFails, Exchanging
<1>2. CASE WriteJournal  BY <1>0, <1>2 DEF WriteJournal, OtherGoes, StepGoes, MergeRecords
<1>3. CASE AdvanceRef  BY <1>0, <1>3, BeginStep DEF AdvanceRef, OtherGoes, ControlInv, MergeRecords
<1>4. CASE ResetRef
  <2>1. Goto("settle") => StepGoes("settle")  BY <1>0 DEF Goto, StepGoes, MergeRecords
  <2> QED  BY <1>4, <2>1 DEF ResetRef, OtherGoes
<1>5. CASE ReplayJournal
  <2> DEFINE P == DOMAIN txn.originals
             m == [AtRest EXCEPT !.plan = P]
  <2>1. P \in SUBSET Files  BY <1>5 DEF ReplayJournal, MergeTyping, JournalTyping
  <2>2. m \in MergeRecords /\ m.plan = P /\ m.done = {} /\ m.clean  BY <2>1 DEF MergeRecords, AtRest, Refs
  <2>3. merge' = Begins(m, "replay", P)  BY <1>5 DEF ReplayJournal
  <2> HIDE DEF m
  <2>4. BeginGoes("replay", P)  BY <2>1, <2>2, <2>3, BeginStep
  <2> QED  BY <1>5, <2>4 DEF ReplayJournal, OtherGoes
<1>6. CASE AdvanceRefused \/ RemoveJournal \/ MergeCrash
  BY <1>6 DEF AdvanceRefused, RemoveJournal, MergeCrash, OtherGoes
<1>7. CASE \/ \E l \in Leases, tree \in Trees : Acquire(l, tree)
           \/ \E l \in Leases : Release(l)
           \/ DropJournal \/ DiscardRef \/ \E f \in Files : UserSaves(f) \/ UserDeletes(f)
  BY <1>7 DEF Acquire, Release, DropJournal, DiscardRef, UserSaves, UserDeletes, OtherGoes
<1>8. CASE \E batch \in SUBSET Leases : CheckMerge(batch)  BY <1>8 DEF OtherGoes
<1>9. CASE \E f \in Files : ExchangeAt(f)  BY <1>9
<1> QED  BY <1>1, <1>2, <1>3, <1>4, <1>5, <1>6, <1>7, <1>8, <1>9 DEF MergeNext, ExchangeAt

\* A step of an exchange ends it or goes on with the same file.
LEMMA FileMoves ==
    ASSUME NEW f, FileGoes(f)
    PROVE  EndGoes(f, TRUE) \/ EndGoes(f, FALSE) \/ \E s \in Exchanging : StepGoes(s)
  BY DEF FileGoes, LookGoes, TakeGoes, RestoreGoes, InstallGoes, ClaimGoes, AsideGoes, BackGoes, Exchanging

\* The end of an exchange, or its next step, leaves the merge where ControlInv wants it.
LEMMA EndControl ==
    ASSUME ControlInv, MergeTyping, UNCHANGED txn, merge.step \in Exchanging,
           EndGoes(merge.file, TRUE) \/ EndGoes(merge.file, FALSE) \/ \E s \in Exchanging : StepGoes(s)
    PROVE  ControlInv'
<1>0. /\ txn # NoTxn /\ DOMAIN txn.originals = merge.plan /\ merge.doing \in {"apply", "undo", "replay"}
      /\ merge.file \in merge.plan /\ (merge.doing = "undo" <=> merge.file \in merge.done)
      /\ merge.done \subseteq merge.plan /\ (merge.doing # "undo" => merge.clean)
      /\ merge.clean \in BOOLEAN
  BY DEF ControlInv, Exchanging, MergeTyping, MergeRecords
<1>1. CASE merge' = AtRest  BY <1>1 DEF ControlInv, AtRest, Exchanging
<1>2. ASSUME NEW s \in Exchanging, StepGoes(s)
      PROVE  ControlInv'
  BY <1>0, <1>2 DEF StepGoes, ControlInv, Exchanging
<1>3. CASE merge' # AtRest /\ EndGoes(merge.file, TRUE)  BY <1>0, <1>3 DEF EndGoes, ControlInv, Exchanging
<1>4. CASE merge' # AtRest /\ EndGoes(merge.file, FALSE)  BY <1>0, <1>4 DEF EndGoes, ControlInv, Exchanging
<1> QED  BY <1>1, <1>2, <1>3, <1>4

\* Three actions touch the journal.
LEMMA JournalGoes ==
    ASSUME MergeNext
    PROVE  UNCHANGED txn \/ WriteJournal \/ RemoveJournal \/ DropJournal
<1>1. ASSUME NEW f \in Files, ExchangeAt(f)
      PROVE  UNCHANGED txn
  BY <1>1 DEF ExchangeAt, ResumeVerify, Look, Take, Restore, Install, DropBackup, ClaimName, MoveAside, MoveBack, Aside
<1> QED
  BY <1>1 DEF MergeNext, ExchangeAt, Acquire, Release, CheckMerge, AdvanceRef, AdvanceRefused, CallFails, ResetRef,
    MergeCrash, ReplayJournal, DiscardRef, UserSaves, UserDeletes

\* Where a merge is fits what it works on, after every step.
LEMMA ControlStep ==
    ASSUME MergeTyping, ControlInv, HandsInv, MergeNext
    PROVE  ControlInv'
<1>1. ASSUME NEW f \in Files, ExchangeAt(f)
      PROVE  ControlInv'
  BY <1>1, ExchangeStep, FileMoves, EndControl
<1>2. CASE CallFails /\ EndGoes(merge.file, FALSE) /\ merge.step \in Exchanging  BY <1>2, EndControl DEF CallFails
<1>3. CASE OtherGoes
  <2>1. CASE UNCHANGED merge
    <3>0. ~WriteJournal  BY <2>1 DEF WriteJournal, MergeTyping, MergeRecords
    <3>1. UNCHANGED txn \/ merge.step = "rest"  BY <2>1, <3>0, JournalGoes DEF RemoveJournal, DropJournal, AtRest
    <3>2. CASE UNCHANGED txn  BY <2>1, <3>2 DEF ControlInv, Exchanging
    <3>3. CASE merge.step = "rest"  BY <2>1, <3>3 DEF ControlInv, Exchanging, AtRest
    <3> QED  BY <3>1, <3>2, <3>3
  <2>2. ASSUME NEW batch \in SUBSET Leases, CheckMerge(batch)
        PROVE  ControlInv'
    <3>1. UNCHANGED txn /\ txn = NoTxn  BY <2>2 DEF CheckMerge
    <3> QED  BY <3>1, <2>2, CheckStep DEF ControlInv, Exchanging, MergeRecords
  <2>3. CASE merge.step = "checked" /\ StepGoes("journalled") /\ WriteJournal
    <3>1. txn' # NoTxn /\ DOMAIN txn'.originals = merge.plan
      <4>1. merge.target \in Pure  BY <2>3 DEF ControlInv
      <4> QED  BY <2>3, <4>1, MergeNames DEF NoTxn, WriteJournal
    <3> QED  BY <2>3, <3>1 DEF StepGoes, ControlInv, Exchanging
  <2>4. CASE merge.step = "journalled" /\ integration = txn.before /\ BeginGoes("apply", merge.plan) /\ AdvanceRef
    <3>1. UNCHANGED txn  BY <2>4 DEF AdvanceRef
    <3> QED  BY <2>4, <3>1 DEF BeginGoes, ControlInv, Exchanging
  <2>5. CASE merge.step = "reset" /\ StepGoes("settle") /\ ResetRef
    <3>1. UNCHANGED txn  BY <2>5 DEF ResetRef
    <3> QED  BY <2>5, <3>1 DEF StepGoes, ControlInv, Exchanging
  <2>6. CASE /\ merge.step = "rest" /\ txn # NoTxn
             /\ BeginGoes("replay", DOMAIN txn.originals) /\ ReplayJournal
    <3>1. UNCHANGED txn  BY <2>6 DEF ReplayJournal
    <3> QED  BY <2>6, <3>1 DEF BeginGoes, ControlInv, Exchanging
  <2>7. CASE merge' = AtRest  BY <2>7 DEF ControlInv, AtRest, Exchanging
  <2> QED  BY <1>3, <2>1, <2>2, <2>3, <2>4, <2>5, <2>6, <2>7 DEF OtherGoes
<1> QED  BY <1>1, <1>2, <1>3, OtherStep

\* What the observers of the user's versions are told.
LEMMA OwedGoes ==
    ASSUME MergeNext
    PROVE  \/ WriteJournal \/ \E f \in Files : UserSaves(f) \/ UserDeletes(f)
           \/ UNCHANGED <<owed, adopted>>
<1>1. ASSUME NEW f \in Files, ExchangeAt(f)
      PROVE  UNCHANGED <<owed, adopted>>
  BY <1>1 DEF ExchangeAt, ResumeVerify, Look, Take, Restore, Install, DropBackup, ClaimName, MoveAside, MoveBack, Aside,
    edits, witness
<1> QED
  BY <1>1 DEF MergeNext, ExchangeAt, Acquire, Release, CheckMerge, AdvanceRef, AdvanceRefused, CallFails, ResetRef,
    RemoveJournal, MergeCrash, ReplayJournal, DropJournal, DiscardRef, edits, witness

\* The state of the disk, the refs, the leases and the journal keeps its form.
LEMMA MergeTypesStep ==
    ASSUME MergeTyping, ControlInv, HandsInv, OriginalsInv, MergeNext
    PROVE  MergeTyping'
<1>0. /\ folder \in [Files -> Bytes \cup {Sentinel}] /\ backup \in [Files -> Bytes]
      /\ verify \in [Files -> Bytes \cup {Sentinel}] /\ integration \in Refs
      /\ worktree \in [Leases -> {NoLease, Released} \cup WorktreeRecords]
      /\ merge \in MergeRecords /\ (txn # NoTxn => JournalTyping(txn)) /\ agreed \in [Files -> Bytes]
      /\ mergeWork \in 0..MaxMergeWork
  BY DEF MergeTyping
<1>1. /\ folder' \in [Files -> Bytes \cup {Sentinel}] /\ backup' \in [Files -> Bytes]
      /\ verify' \in [Files -> Bytes \cup {Sentinel}]
  <2>1. ASSUME NEW f \in Files, ExchangeAt(f)
        PROVE  /\ folder' \in [Files -> Bytes \cup {Sentinel}] /\ backup' \in [Files -> Bytes]
               /\ verify' \in [Files -> Bytes \cup {Sentinel}]
    <3>1. NamesGo(f) /\ FileGoes(f) /\ f = merge.file /\ merge.step \in Exchanging  BY <2>1, ExchangeStep
    <3>2. backup'[f] \in Bytes
      <4>1. merge.step = "take" => folder[f] \in Bytes  BY <1>0, <3>1 DEF HandsInv
      <4> QED
        BY <1>0, <3>1, <4>1, MergeNames DEF FileGoes, LookGoes, TakeGoes, RestoreGoes, InstallGoes, ClaimGoes,
          AsideGoes, BackGoes, Cell
    <3> QED  BY <1>0, <3>1, <3>2 DEF NamesGo, Cell
  <2>2. CASE \E f \in Files : UserSaves(f) \/ UserDeletes(f)  BY <1>0, <2>2, MergeNames DEF UserSaves, UserDeletes
  <2>3. CASE UNCHANGED disk  BY <1>0, <2>3 DEF disk
  <2> QED
    BY <2>1, <2>2, <2>3 DEF MergeNext, ExchangeAt, Acquire, Release, CheckMerge, WriteJournal, AdvanceRef,
      AdvanceRefused, CallFails, ResetRef, RemoveJournal, MergeCrash, ReplayJournal, DropJournal, DiscardRef
<1>2. merge' \in MergeRecords
  <2>1. AtRest \in MergeRecords  BY DEF AtRest, MergeRecords, Refs
  <2>2. ASSUME NEW f \in Files, ExchangeAt(f) PROVE merge' \in MergeRecords
    BY <2>1, <2>2, ExchangeStep, FileMoves DEF EndGoes, StepGoes
  <2>3. CASE EndGoes(merge.file, FALSE)  BY <2>1, <2>3 DEF EndGoes
  <2>4. CASE OtherGoes  BY <1>0, <2>1, <2>4, CheckStep DEF OtherGoes, StepGoes, BeginGoes
  <2> QED  BY <2>2, <2>3, <2>4, OtherStep
<1>3. integration' \in Refs
  <2>1. NoTree \in Refs  BY DEF Refs
  <2>2. txn # NoTxn => txn.before \in Refs /\ txn.target \in Refs  BY <1>0 DEF JournalTyping, Refs
  <2>3. merge.step \in {"journalled", "reset"} => txn # NoTxn  BY DEF ControlInv
  <2> QED
    BY <1>0, <2>1, <2>2, <2>3 DEF MergeNext, Acquire, Release, CheckMerge, WriteJournal, AdvanceRef, AdvanceRefused,
      ResumeVerify, Look, Take, Restore, Install, DropBackup, ClaimName, MoveAside, MoveBack, Aside, CallFails,
      ResetRef, RemoveJournal, MergeCrash, ReplayJournal, DropJournal, DiscardRef, UserSaves, UserDeletes
<1>4. worktree' \in [Leases -> {NoLease, Released} \cup WorktreeRecords]
  <2>1. ASSUME NEW l \in Leases, NEW tree \in Trees, Acquire(l, tree)
        PROVE  worktree' \in [Leases -> {NoLease, Released} \cup WorktreeRecords]
    <3>1. IntegrationBaseline \in Pure  BY <1>0, MergeNames DEF IntegrationBaseline, Refs
    <3>2. tree \in Pure
      <4>1. PICK S \in (SUBSET Files) \ {{}} :
              tree = [f \in Files |-> CASE f \notin S -> IntegrationBaseline[f]
                                        [] f = 1 /\ S # {1} -> Absent
                                        [] OTHER -> l]
        BY <2>1 DEF Acquire, Works
      <4> QED  BY <3>1, <4>1 DEF Pure
    <3> QED  BY <1>0, <2>1, <3>1, <3>2 DEF Acquire, WorktreeRecords
  <2>2. CASE \E l \in Leases : Release(l)  BY <1>0, <2>2 DEF Release
  <2>3. CASE UNCHANGED worktree  BY <1>0, <2>3
  <2> QED
    BY <2>1, <2>2, <2>3 DEF MergeNext, CheckMerge, WriteJournal, AdvanceRef, AdvanceRefused, ResumeVerify, Look, Take,
      Restore, Install, DropBackup, ClaimName, MoveAside, MoveBack, Aside, CallFails, ResetRef, RemoveJournal,
      MergeCrash, ReplayJournal, DropJournal, DiscardRef, UserSaves, UserDeletes
<1>5. (txn # NoTxn => JournalTyping(txn))'
  <2>1. CASE WriteJournal  BY <1>0, <2>1 DEF JournalTyping, ControlInv, OriginalsInv, MergeRecords, WriteJournal
  <2>2. CASE txn' = NoTxn  BY <2>2
  <2>3. CASE UNCHANGED txn  BY <1>0, <2>3 DEF JournalTyping
  <2> QED  BY <2>1, <2>2, <2>3, JournalGoes DEF RemoveJournal, DropJournal
<1>6. agreed' \in [Files -> Bytes]
  <2>1. CASE RemoveJournal
    <3>1. txn # NoTxn /\ txn.target \in Pure  BY <1>0, <2>1 DEF RemoveJournal, ControlInv, JournalTyping
    <3>2. \A f \in Files : txn.target[f] \in Bytes  BY <3>1 DEF Pure, Bytes
    <3> QED  BY <1>0, <2>1, <3>2 DEF RemoveJournal
  <2>2. CASE UNCHANGED agreed  BY <1>0, <2>2
  <2> QED
    BY <2>1, <2>2 DEF MergeNext, Acquire, Release, CheckMerge, WriteJournal, AdvanceRef, AdvanceRefused, ResumeVerify,
      Look, Take, Restore, Install, DropBackup, ClaimName, MoveAside, MoveBack, Aside, CallFails, ResetRef, MergeCrash,
      ReplayJournal, DropJournal, DiscardRef, UserSaves, UserDeletes, witness
<1>7. mergeWork' \in 0..MaxMergeWork
  <2>1. MergeBudget \/ mergeWork' = mergeWork
    BY DEF MergeNext, Acquire, Release, CheckMerge, WriteJournal, AdvanceRef, AdvanceRefused, ResumeVerify, Look, Take,
      Restore, Install, DropBackup, ClaimName, MoveAside, MoveBack, Aside, CallFails, ResetRef, RemoveJournal,
      MergeCrash, ReplayJournal, DropJournal, DiscardRef, UserSaves, UserDeletes
  <2> QED  BY <1>0, <2>1, MergeAssumption DEF MergeBudget
<1>8. owed' \subseteq Files
  <2>1. owed \subseteq Files  BY DEF MergeTyping
  <2> QED  BY <2>1, OwedGoes DEF WriteJournal, UserSaves, UserDeletes, edits
<1> QED  BY <1>1, <1>2, <1>3, <1>4, <1>5, <1>6, <1>7, <1>8 DEF MergeTyping

\* The steps in the middle of an exchange.
Midway == Exchanging \ {"look"}

\* An exchange that ends leaves no file in the middle of one.
LEMMA EndIsNotMidway ==
    ASSUME NEW f, EndGoes(f, TRUE) \/ EndGoes(f, FALSE)
    PROVE  merge'.step \notin Midway
  BY DEF EndGoes, AtRest, Midway, Exchanging

\* What leaves the names of the files alone, or is done by the user.
LEMMA DiskGoes ==
    ASSUME MergeTyping, ControlInv, MergeNext
    PROVE  \/ \E f \in Files : ExchangeAt(f)
           \/ \E f \in Files : UserSaves(f) \/ UserDeletes(f)
           \/ UNCHANGED disk /\ merge'.step \notin Midway
           \/ UNCHANGED <<disk, merge>> /\ (UNCHANGED txn \/ merge.step = "rest")
<1>1. merge'.step \notin Midway \/ UNCHANGED merge \/ \E f \in Files : ExchangeAt(f)
  <2>1. CASE CallFails /\ EndGoes(merge.file, FALSE)  BY <2>1, EndIsNotMidway
  <2>2. CASE OtherGoes  BY <2>2, CheckStep DEF OtherGoes, StepGoes, BeginGoes, AtRest, Midway, Exchanging
  <2> QED  BY <2>1, <2>2, OtherStep
<1>2. \/ \E f \in Files : ExchangeAt(f)
      \/ \E f \in Files : UserSaves(f) \/ UserDeletes(f)
      \/ UNCHANGED disk
  BY DEF MergeNext, ExchangeAt, Acquire, Release, CheckMerge, WriteJournal, AdvanceRef, AdvanceRefused, CallFails,
    ResetRef, RemoveJournal, MergeCrash, ReplayJournal, DropJournal, DiscardRef
<1>3. UNCHANGED merge => UNCHANGED txn \/ merge.step = "rest"
  <2>1. WriteJournal => merge' # merge  BY DEF WriteJournal, MergeTyping, MergeRecords
  <2> QED  BY <2>1, JournalGoes DEF RemoveJournal, DropJournal, AtRest
<1> QED  BY <1>1, <1>2, <1>3

\* What an exchange has seen of its file stays true, whatever the user does.
LEMMA HandsStep ==
    ASSUME MergeTyping, ControlInv, HandsInv, MergeNext
    PROVE  HandsInv'
<1>0. \A f \in Files : folder[f] = Sentinel => verify[f] = Absent  BY DEF HandsInv
<1>1. ASSUME NEW f \in Files, ExchangeAt(f)
      PROVE  HandsInv'
  <2>0. /\ f = merge.file /\ NamesGo(f) /\ FileGoes(f) /\ UNCHANGED txn /\ merge.step \in Exchanging
        /\ folder \in [Files -> Bytes \cup {Sentinel}] /\ backup \in [Files -> Bytes]
        /\ verify \in [Files -> Bytes \cup {Sentinel}] /\ Absent # Sentinel /\ Sentinel \notin Bytes
    BY <1>1, ExchangeStep, MergeNames DEF MergeTyping
  <2>1. Expected(f) \in Bytes /\ Desired(f) \in Bytes
    BY <2>0 DEF Expected, Desired, JournalTyping, Pure, Bytes, ControlInv, MergeTyping, Exchanging
  <2>2. folder'[f] = Sentinel => verify'[f] = Absent
    BY <2>0, <2>1, <1>0 DEF HandsInv, FileGoes, LookGoes, TakeGoes, RestoreGoes, InstallGoes, ClaimGoes, AsideGoes,
      BackGoes, Cell, Exchanging
  <2>3. \A g \in Files : folder'[g] = Sentinel => verify'[g] = Absent  BY <2>0, <2>2, <1>0 DEF NamesGo, Cell
  <2>4. CASE EndGoes(f, TRUE) \/ EndGoes(f, FALSE)  BY <2>3, <2>4, EndIsNotMidway DEF HandsInv, Midway, Exchanging
  <2>5. ASSUME NEW s \in Exchanging, StepGoes(s)
        PROVE  HandsInv'
    <3>1. merge'.step = s /\ merge'.file = f /\ Desired(f)' = Desired(f)  BY <2>0, <2>5 DEF StepGoes, Desired
    <3>2. CASE EndGoes(f, TRUE) \/ EndGoes(f, FALSE)  BY <2>4, <3>2
    <3>3. CASE ~EndGoes(f, TRUE) /\ ~EndGoes(f, FALSE)
      <4>1. /\ s \in {"take", "restore", "install", "drop", "sentinel", "aside"} => verify'[f] = Absent
            /\ s = "take" => backup'[f] = Absent /\ folder'[f] # Sentinel
            /\ s = "sentinel" => Desired(f) = Absent
            /\ s \in {"restore", "install", "drop", "sentinel", "back"} => folder'[f] # Sentinel
            /\ s = "aside" /\ Desired(f) # Absent => folder'[f] # Sentinel
            /\ s = "back" /\ Desired(f) # Absent => verify'[f] # Sentinel
        BY <2>0, <2>1, <3>1, <3>3, <1>0 DEF HandsInv, FileGoes, LookGoes, TakeGoes, RestoreGoes, InstallGoes, ClaimGoes,
          AsideGoes, BackGoes, Cell, StepGoes, Exchanging
      <4> QED  BY <2>3, <3>1, <4>1 DEF HandsInv
    <3> QED  BY <3>2, <3>3
  <2> QED  BY <2>0, <2>4, <2>5, FileMoves
<1>2. ASSUME NEW f \in Files, UserSaves(f) \/ UserDeletes(f)
      PROVE  HandsInv'
  <2>1. /\ UNCHANGED <<backup, verify, txn, merge>> /\ folder \in [Files -> Bytes \cup {Sentinel}]
        /\ \A g \in Files : folder'[g] = folder[g] \/ folder'[g] # Sentinel
    BY <1>2, MergeNames DEF UserSaves, UserDeletes, MergeTyping
  <2>2. Desired(merge.file)' = Desired(merge.file)  BY <2>1 DEF Desired
  <2> QED  BY <2>1, <2>2 DEF HandsInv, Exchanging, ControlInv, MergeTyping, MergeRecords
<1>3. CASE UNCHANGED disk /\ merge'.step \notin Midway  BY <1>0, <1>3 DEF HandsInv, disk, Midway, Exchanging
<1>4. CASE UNCHANGED <<disk, merge>> /\ (UNCHANGED txn \/ merge.step = "rest")  BY <1>4 DEF HandsInv, disk, Desired
<1> QED  BY <1>1, <1>2, <1>3, <1>4, DiskGoes

\* Only a check leads to a checked merge.
LEMMA CheckedGoes ==
    ASSUME MergeTyping, ControlInv, HandsInv, MergeNext, merge'.step = "checked"
    PROVE  (\E batch \in SUBSET Leases : CheckMerge(batch)) \/ UNCHANGED merge
<1>1. ASSUME NEW f \in Files, ExchangeAt(f)
      PROVE  FALSE
  BY <1>1, ExchangeStep, FileMoves DEF EndGoes, StepGoes, AtRest, Exchanging
<1>2. ~EndGoes(merge.file, FALSE)  BY DEF EndGoes, AtRest
<1>3. OtherGoes  BY <1>1, <1>2, OtherStep
<1> QED  BY <1>3 DEF OtherGoes, StepGoes, BeginGoes, AtRest

\* What is journalled was there when the merge looked, or was saved by the user and is told so.
LEMMA OriginalsStep ==
    ASSUME MergeTyping, ControlInv, HandsInv, OriginalsInv, MergeNext
    PROVE  OriginalsInv'
<1>1. ASSUME merge'.step = "checked"
      PROVE  \A f \in merge'.plan : folder'[f] \in Bytes /\ (folder'[f] = Mine => f \in owed')
  <2>1. ASSUME NEW batch \in SUBSET Leases, CheckMerge(batch), NEW f \in merge'.plan
        PROVE  folder'[f] \in Bytes /\ (folder'[f] = Mine => f \in owed')
    <3>1. UNCHANGED folder  BY <2>1 DEF CheckMerge, disk
    <3> QED  BY <2>1, CheckStep, <3>1, MergeNames DEF Pure, Bytes, MergeRecords
  <2>2. CASE UNCHANGED merge
    <3>1. merge.step = "checked" /\ \A f \in merge.plan : folder[f] \in Bytes /\ (folder[f] = Mine => f \in owed)
      BY <1>1, <2>2 DEF OriginalsInv
    <3>2. ASSUME NEW f \in Files, UserSaves(f) \/ UserDeletes(f)
          PROVE  \A g \in merge'.plan : folder'[g] \in Bytes /\ (folder'[g] = Mine => g \in owed')
      BY <2>2, <3>1, <3>2, MergeNames DEF UserSaves, UserDeletes, MergeTyping, MergeRecords, JournalTyping
    <3>3. CASE ~\E f \in Files : UserSaves(f) \/ UserDeletes(f)
      <4>1. ~WriteJournal /\ ~\E f \in Files : ExchangeAt(f)
        BY <2>2, <3>1 DEF WriteJournal, MergeTyping, MergeRecords, ExchangeAt, ResumeVerify, Look, Take, Restore,
          Install, DropBackup, ClaimName, MoveAside, MoveBack
      <4>2. UNCHANGED <<folder, owed>>  BY <3>3, <4>1, OwedGoes, DiskGoes DEF disk
      <4> QED  BY <2>2, <3>1, <4>2
    <3> QED  BY <3>2, <3>3
  <2> QED  BY <1>1, <2>1, <2>2, CheckedGoes
<1>2. ASSUME txn' # NoTxn
      PROVE  \A f \in DOMAIN txn'.originals : txn'.originals[f] = Mine => f \in adopted'
  <2>1. CASE WriteJournal  BY <2>1 DEF OriginalsInv, WriteJournal
  <2>2. CASE UNCHANGED txn
    <3>1. adopted \subseteq adopted'  BY <1>2, <2>2, OwedGoes DEF WriteJournal, UserSaves, UserDeletes
    <3> QED  BY <2>2, <1>2, <3>1 DEF OriginalsInv
  <2> QED  BY <1>2, <2>1, <2>2, JournalGoes DEF RemoveJournal, DropJournal
<1> QED  BY <1>1, <1>2 DEF OriginalsInv

\* No step throws away what the user saved last.
LEMMA KeptStep ==
    ASSUME MergeTyping, ControlInv, HandsInv, OriginalsInv, MergeNext, NEW f \in Files, KeptOf(f)
    PROVE  KeptOf(f)'
<1>0. /\ folder \in [Files -> Bytes \cup {Sentinel}] /\ backup \in [Files -> Bytes]
      /\ verify \in [Files -> Bytes \cup {Sentinel}]
      /\ Absent # Sentinel /\ Sentinel \notin Bytes /\ Mine # Sentinel /\ Mine # Absent
  BY MergeNames DEF MergeTyping
<1>1. ASSUME NEW g \in Files, ExchangeAt(g)
      PROVE  KeptOf(f)'
  <2>0. /\ g = merge.file /\ NamesGo(g) /\ FileGoes(g) /\ UNCHANGED <<txn, owed, adopted>>
        /\ merge.step \in Exchanging
    BY <1>1, ExchangeStep DEF edits, witness
  <2>1. CASE g # f
    <3>1. Cell(f, folder[f], backup[f], verify[f])  BY <2>0, <2>1 DEF NamesGo
    <3>2. f # merge'.file \/ merge'.step \notin Midway
      <4>1. CASE EndGoes(g, TRUE) \/ EndGoes(g, FALSE)  BY <4>1, EndIsNotMidway
      <4>2. CASE \E s \in Exchanging : StepGoes(s)  BY <2>0, <2>1, <4>2 DEF StepGoes
      <4> QED  BY <2>0, <4>1, <4>2, FileMoves
    <3> QED  BY <2>0, <3>1, <3>2 DEF KeptOf, Cell, Midway, Exchanging
  <2>2. CASE g = f
    <3> SUFFICES ASSUME f \in owed, f \notin adopted
                 PROVE  KeptOf(f)'
      BY <2>0 DEF KeptOf
    <3>1. txn # NoTxn /\ f \in DOMAIN txn.originals /\ txn.originals[f] # Mine /\ txn.target[f] # Mine
      <4>1. txn # NoTxn /\ f \in DOMAIN txn.originals  BY <2>0, <2>2 DEF ControlInv, Exchanging
      <4>2. txn.target \in Pure  BY <4>1 DEF MergeTyping, JournalTyping
      <4> QED  BY <4>1, <4>2, MergeNames DEF OriginalsInv, Pure
    <3>2. Expected(f) # Mine /\ Desired(f) # Mine  BY <3>1 DEF Expected, Desired
    <3>3. \/ folder[f] = Mine \/ verify[f] = Mine
          \/ /\ backup[f] = Mine /\ verify[f] = Absent /\ folder[f] # Sentinel
             /\ merge.step \notin {"install", "drop", "sentinel", "aside", "back"}
      BY <2>0, <2>2 DEF KeptOf
    <3>4. /\ merge.step \in {"take", "restore", "install", "drop", "sentinel", "aside"} => verify[f] = Absent
          /\ merge.step = "take" => backup[f] = Absent
      BY <2>0, <2>2 DEF HandsInv
    <3>5. Held(f) # Mine  BY <1>0, <3>2 DEF Held
    <3>6. \/ folder'[f] = Mine \/ verify'[f] = Mine
          \/ /\ backup'[f] = Mine /\ verify'[f] = Absent /\ folder'[f] # Sentinel
             /\ merge'.step \notin {"install", "drop", "sentinel", "aside", "back"}
      <4>1. CASE merge.step = "look"
        <5>1. LookGoes(f, folder[f], backup[f], verify[f], Expected(f), Desired(f))  BY <2>0, <2>2, <4>1 DEF FileGoes
        <5>2. EndGoes(f, FALSE) => merge'.step \notin {"install", "drop", "sentinel", "aside", "back"}
          BY EndIsNotMidway DEF Midway, Exchanging
        <5> QED  BY <1>0, <3>2, <3>3, <3>5, <4>1, <5>1, <5>2 DEF LookGoes, Cell, StepGoes
      <4>2. CASE merge.step # "look"
        <5>1. EndGoes(f, FALSE) \/ EndGoes(f, TRUE) => merge'.step \notin {"install", "drop", "sentinel", "aside", "back"}
          BY EndIsNotMidway DEF Midway, Exchanging
        <5> QED
          BY <1>0, <2>0, <2>2, <3>2, <3>3, <3>4, <3>5, <4>2, <5>1 DEF FileGoes, TakeGoes, RestoreGoes, InstallGoes,
            ClaimGoes, AsideGoes, BackGoes, Cell, StepGoes
      <4> QED  BY <4>1, <4>2
    <3> QED  BY <2>0, <3>6 DEF KeptOf
  <2> QED  BY <2>1, <2>2
<1>2. ASSUME NEW g \in Files, UserSaves(g) \/ UserDeletes(g)
      PROVE  KeptOf(f)'
  <2>1. CASE g = f  BY <1>0, <1>2, <2>1 DEF KeptOf, UserSaves, UserDeletes
  <2>2. CASE g # f  BY <1>0, <1>2, <2>2 DEF KeptOf, UserSaves, UserDeletes
  <2> QED  BY <2>1, <2>2
<1>3. CASE UNCHANGED disk /\ merge'.step \notin Midway /\ ~\E g \in Files : UserSaves(g) \/ UserDeletes(g)
  BY <1>3, OwedGoes DEF KeptOf, disk, Midway, Exchanging, WriteJournal, edits
<1>4. CASE UNCHANGED <<disk, merge>> /\ ~\E g \in Files : UserSaves(g) \/ UserDeletes(g)
  BY <1>4, OwedGoes DEF KeptOf, disk, WriteJournal, edits
<1> QED  BY <1>1, <1>2, <1>3, <1>4, DiskGoes

\* The ref is moved by three actions only, and deletions are remembered.
LEMMA RefGoes ==
    ASSUME MergeNext
    PROVE  AdvanceRef \/ ResetRef \/ DiscardRef \/ UNCHANGED <<integration, discarded>>
<1>1. ASSUME NEW f \in Files, ExchangeAt(f)
      PROVE  UNCHANGED <<integration, discarded>>
  BY <1>1 DEF ExchangeAt, ResumeVerify, Look, Take, Restore, Install, DropBackup, ClaimName, MoveAside, MoveBack, Aside,
    witness
<1> QED
  BY <1>1 DEF MergeNext, ExchangeAt, Acquire, Release, CheckMerge, WriteJournal, AdvanceRefused, CallFails,
    RemoveJournal, MergeCrash, ReplayJournal, DropJournal, UserSaves, UserDeletes, witness

\* Only a lease that is taken or released changes a worktree.
LEMMA WorktreeGoes ==
    ASSUME MergeNext
    PROVE  \/ \E l \in Leases, tree \in Trees : Acquire(l, tree)
           \/ \E l \in Leases : Release(l)
           \/ UNCHANGED worktree
<1>1. ASSUME NEW f \in Files, ExchangeAt(f)
      PROVE  UNCHANGED worktree
  BY <1>1 DEF ExchangeAt, ResumeVerify, Look, Take, Restore, Install, DropBackup, ClaimName, MoveAside, MoveBack, Aside
<1> QED
  BY <1>1 DEF MergeNext, ExchangeAt, CheckMerge, WriteJournal, AdvanceRef, AdvanceRefused, CallFails, ResetRef,
    RemoveJournal, MergeCrash, ReplayJournal, DropJournal, DiscardRef, UserSaves, UserDeletes

\* A ref that was deleted during a transaction is remembered.
LEMMA SureStep ==
    ASSUME MergeNext
    PROVE  /\ discarded \subseteq discarded' /\ (Sure' => Sure)
           /\ DiscardRef /\ Sure' => merge.step = "rest" /\ txn = NoTxn /\ UNCHANGED <<disk, merge, txn, agreed>>
<1>1. discarded \subseteq discarded'  BY RefGoes DEF AdvanceRef, ResetRef, DiscardRef, witness
<1> QED  BY <1>1 DEF Sure, DiscardRef

\* The ref is where the phase of the merge wants it, after every step.
LEMMA PhaseStep ==
    ASSUME MergeTyping, ControlInv, HandsInv, PhaseInv, MergeNext
    PROVE  PhaseInv'
<1> SUFFICES ASSUME Sure' PROVE PhaseInv'  BY DEF PhaseInv
<1>0. Sure /\ (DiscardRef => merge.step = "rest" /\ txn = NoTxn /\ UNCHANGED <<disk, merge, txn, agreed>>)  BY SureStep
<1>a. CASE DiscardRef  BY <1>0, <1>a DEF PhaseInv, Exchanging
<1>b. ASSUME merge.step \in Exchanging, EndGoes(merge.file, TRUE) \/ EndGoes(merge.file, FALSE) \/ \E s \in Exchanging : StepGoes(s),
             UNCHANGED <<txn, integration>>
      PROVE  PhaseInv'
  <2>1. integration = txn.target  BY <1>0, <1>b DEF PhaseInv
  <2> QED  BY <1>b, <2>1 DEF PhaseInv, Exchanging, EndGoes, StepGoes, AtRest
<1>1. ASSUME NEW f \in Files, ExchangeAt(f)
      PROVE  PhaseInv'
  BY <1>1, <1>b, ExchangeStep, FileMoves
<1>2. CASE CallFails /\ EndGoes(merge.file, FALSE) /\ merge.step \in Exchanging  BY <1>2, <1>b DEF CallFails
<1>3. CASE OtherGoes /\ ~DiscardRef
  <2>1. CASE UNCHANGED merge
    <3>0. ~WriteJournal /\ ~AdvanceRef /\ ~ResetRef
      <4>1. ~AdvanceRef  BY <2>1 DEF AdvanceRef, Begins, MergeTyping, MergeRecords
      <4> QED  BY <2>1, <4>1, MergeNames DEF WriteJournal, ResetRef, Goto, MergeTyping, MergeRecords, AtRest
    <3> QED  BY <1>0, <2>1, <1>3, <3>0, RefGoes, JournalGoes DEF PhaseInv, Exchanging, RemoveJournal, DropJournal,
        AtRest
  <2>2. ASSUME NEW batch \in SUBSET Leases, CheckMerge(batch)
        PROVE  PhaseInv'
    BY <2>2, CheckStep DEF PhaseInv, Exchanging
  <2>3. CASE merge.step = "checked" /\ StepGoes("journalled") /\ WriteJournal
    BY <2>3 DEF StepGoes, WriteJournal, PhaseInv, Exchanging
  <2>4. CASE merge.step = "journalled" /\ integration = txn.before /\ BeginGoes("apply", merge.plan) /\ AdvanceRef
    BY <2>4 DEF BeginGoes, AdvanceRef, PhaseInv, Exchanging
  <2>5. CASE merge.step = "reset" /\ integration = txn.target /\ StepGoes("settle") /\ ResetRef
    BY <2>5 DEF StepGoes, ResetRef, PhaseInv, Exchanging, ControlInv
  <2>6. CASE /\ merge.step = "rest" /\ txn # NoTxn /\ integration = txn.target
             /\ BeginGoes("replay", DOMAIN txn.originals) /\ ReplayJournal
    BY <2>6 DEF BeginGoes, ReplayJournal, PhaseInv, Exchanging
  <2>7. CASE merge' = AtRest /\ ~UNCHANGED merge
    <3>0. merge'.step = "rest"  BY <2>7 DEF AtRest
    <3>1. CASE txn' = NoTxn  BY <3>0, <3>1 DEF PhaseInv, Exchanging
    <3>2. CASE txn' # NoTxn
      <4>1. UNCHANGED txn
        BY <3>0, <3>2, JournalGoes DEF WriteJournal, RemoveJournal, DropJournal, MergeTyping, MergeRecords
      <4>2. integration \in {txn.before, txn.target}
        BY <1>0, <3>2, <4>1 DEF PhaseInv, MergeTyping, MergeRecords, ControlInv
      <4> QED  BY <3>0, <4>1, <4>2, <1>3, RefGoes DEF PhaseInv, Exchanging, AdvanceRef, ResetRef
    <3> QED  BY <3>1, <3>2
  <2> QED  BY <1>3, <2>1, <2>2, <2>3, <2>4, <2>5, <2>6, <2>7 DEF OtherGoes
<1> QED  BY <1>a, <1>1, <1>2, <1>3, OtherStep

\* A lease without a ref starts at the head of the task.
LEMMA LeaseStep ==
    ASSUME MergeTyping, ControlInv, LeaseInv, MergeNext
    PROVE  LeaseInv'
<1> SUFFICES ASSUME discarded' = {}, NEW l \in Leases, worktree'[l] \in WorktreeRecords, ~worktree'[l].during,
                    integration' = NoTree \/ (txn' # NoTxn /\ txn'.before = NoTree)
             PROVE  worktree'[l].base = TaskHead
  BY DEF LeaseInv
<1>0. discarded = {} /\ ~DiscardRef  BY SureStep DEF DiscardRef
<1>1. integration = NoTree \/ (txn # NoTxn /\ txn.before = NoTree)
  BY <1>0, MergeNames, RefGoes, JournalGoes DEF WriteJournal, RemoveJournal, DropJournal, AdvanceRef, ResetRef,
    ControlInv, MergeTyping, JournalTyping
<1>2. CASE UNCHANGED worktree  BY <1>0, <1>1, <1>2 DEF LeaseInv
<1>3. ASSUME NEW m \in Leases, Release(m)
      PROVE  worktree'[l].base = TaskHead
  <2>1. m # l  BY <1>3 DEF Release, MergeTyping, Released
  <2>2. worktree'[l] = worktree[l]  BY <1>3, <2>1 DEF Release, MergeTyping
  <2> QED  BY <1>0, <1>1, <2>2 DEF LeaseInv
<1>4. ASSUME NEW m \in Leases, NEW tree \in Trees, Acquire(m, tree)
      PROVE  worktree'[l].base = TaskHead
  <2>1. CASE m # l
    <3>1. worktree'[l] = worktree[l]  BY <1>4, <2>1 DEF Acquire, MergeTyping
    <3> QED  BY <1>0, <1>1, <3>1 DEF LeaseInv
  <2>2. CASE m = l
    <3>1. worktree'[l] = [base |-> IntegrationBaseline, tree |-> tree, during |-> txn # NoTxn]
      BY <1>4, <2>2 DEF Acquire, MergeTyping
    <3>2. ASSUME txn # NoTxn
          PROVE  FALSE
      <4>1. (txn # NoTxn) = TRUE  BY <3>2
      <4>2. worktree'[l] = [base |-> IntegrationBaseline, tree |-> tree, during |-> TRUE]  BY <3>1, <4>1
      <4> QED  BY <4>2
    <3>3. txn = NoTxn  BY <3>2
    <3> QED  BY <1>1, <3>1, <3>3 DEF IntegrationBaseline
  <2> QED  BY <2>1, <2>2
<1> QED  BY <1>2, <1>3, <1>4, WorktreeGoes

\* Files that were touched or torn are remembered.
LEMMA TouchedGoes ==
    ASSUME MergeNext
    PROVE  /\ torn \subseteq torn' /\ touched \subseteq touched'
           /\ \A f \in Files : UserSaves(f) \/ UserDeletes(f) => f \in touched'
<1>1. ASSUME NEW g \in Files, ExchangeAt(g)
      PROVE  UNCHANGED <<torn, touched>>
  BY <1>1 DEF ExchangeAt, ResumeVerify, Look, Take, Restore, Install, DropBackup, ClaimName, MoveAside, MoveBack, Aside,
    edits, witness
<1>2. torn \subseteq torn' /\ touched \subseteq touched'
  BY <1>1 DEF MergeNext, ExchangeAt, Acquire, Release, CheckMerge, WriteJournal, AdvanceRef, AdvanceRefused, CallFails,
    ResetRef, RemoveJournal, MergeCrash, ReplayJournal, DropJournal, DiscardRef, UserSaves, UserDeletes, edits, witness
<1> QED  BY <1>2 DEF UserSaves, UserDeletes

\* Only the end of a merge changes what the merges have agreed on.
LEMMA AgreedGoes ==
    ASSUME MergeNext
    PROVE  RemoveJournal \/ UNCHANGED agreed
<1>1. ASSUME NEW g \in Files, ExchangeAt(g)
      PROVE  UNCHANGED agreed
  BY <1>1 DEF ExchangeAt, ResumeVerify, Look, Take, Restore, Install, DropBackup, ClaimName, MoveAside, MoveBack, Aside,
    witness
<1> QED
  BY <1>1 DEF MergeNext, ExchangeAt, Acquire, Release, CheckMerge, WriteJournal, AdvanceRef, AdvanceRefused, CallFails,
    ResetRef, MergeCrash, ReplayJournal, DropJournal, DiscardRef, UserSaves, UserDeletes, witness

\* What happens to a file whose sentinel is in the project, while the exchange works on another.
SentinelStays(f) ==
    /\ merge.step \in Exchanging /\ f # merge.file
    /\ merge.doing = "replay" /\ f \notin merge.done /\ f \in merge.plan

\* A replay that goes on with another file still has the sentinel ahead, or is over.
LEMMA SentinelElsewhere ==
    ASSUME MergeTyping, ControlInv, NEW f \in Files, SentinelStays(f),
           EndGoes(merge.file, TRUE) \/ EndGoes(merge.file, FALSE) \/ \E s \in Exchanging : StepGoes(s)
    PROVE  \/ merge'.step = "rest"
           \/ merge'.doing = "replay" /\ f \notin merge'.done /\ merge'.step \in Exchanging
              /\ (f # merge'.file \/ merge'.step = "look")
  BY DEF SentinelStays, EndGoes, StepGoes, AtRest, Exchanging

\* A sentinel is in the project only where a merge, or its replay, will find it.
LEMMA SentinelStep ==
    ASSUME MergeTyping, ControlInv, HandsInv, PhaseInv, MergeNext, NEW f \in Files, SentinelOf(f)
    PROVE  SentinelOf(f)'
<1> SUFFICES ASSUME Sure', f \notin torn', Sentinel \in {folder'[f], verify'[f]}
             PROVE  /\ txn' # NoTxn /\ integration' = txn'.target /\ f \in DOMAIN txn'.originals
                    /\ \/ merge'.step = "rest"
                       \/ merge'.doing = "replay" /\ f \notin merge'.done /\ merge'.step \in Exchanging
                          /\ (f # merge'.file \/ merge'.step = "look")
                       \/ f = merge'.file /\ merge'.step \in {"aside", "back"} /\ Desired(f)' = Absent
  BY DEF SentinelOf
<1>0. /\ Sure /\ (DiscardRef => merge.step = "rest" /\ txn = NoTxn /\ UNCHANGED <<disk, merge, txn, agreed>>)
      /\ folder \in [Files -> Bytes \cup {Sentinel}] /\ backup \in [Files -> Bytes]
      /\ verify \in [Files -> Bytes \cup {Sentinel}]
      /\ Absent # Sentinel /\ Sentinel \notin Bytes /\ Mine # Sentinel /\ Mine # Absent
      /\ merge \in MergeRecords
  BY SureStep, MergeNames DEF MergeTyping
<1>1. torn \subseteq torn'  BY TouchedGoes
<1>2. Sentinel \in {folder[f], verify[f]} =>
        /\ txn # NoTxn /\ integration = txn.target /\ f \in DOMAIN txn.originals
        /\ \/ merge.step = "rest"
           \/ merge.doing = "replay" /\ f \notin merge.done /\ merge.step \in Exchanging
              /\ (f # merge.file \/ merge.step = "look")
           \/ f = merge.file /\ merge.step \in {"aside", "back"} /\ Desired(f) = Absent
  BY <1>0, <1>1 DEF SentinelOf
<1>3. ASSUME NEW g \in Files, ExchangeAt(g)
      PROVE  /\ txn' # NoTxn /\ integration' = txn'.target /\ f \in DOMAIN txn'.originals
             /\ \/ merge'.step = "rest"
                \/ merge'.doing = "replay" /\ f \notin merge'.done /\ merge'.step \in Exchanging
                   /\ (f # merge'.file \/ merge'.step = "look")
                \/ f = merge'.file /\ merge'.step \in {"aside", "back"} /\ Desired(f)' = Absent
  <2>0. /\ g = merge.file /\ NamesGo(g) /\ FileGoes(g) /\ UNCHANGED <<txn, integration>>
        /\ merge.step \in Exchanging
    BY <1>3, ExchangeStep
  <2>1. /\ txn # NoTxn /\ DOMAIN txn.originals = merge.plan /\ g \in merge.plan /\ integration = txn.target
        /\ JournalTyping(txn)
    BY <1>0, <2>0 DEF ControlInv, PhaseInv, Exchanging, MergeTyping
  <2>2. CASE g # f
    <3>1. folder'[f] = folder[f] /\ verify'[f] = verify[f]  BY <2>0, <2>2 DEF NamesGo, Cell
    <3>2. SentinelStays(f)  BY <1>2, <2>0, <2>1, <2>2, <3>1 DEF SentinelStays, Exchanging
    <3> QED  BY <2>0, <2>1, <1>2, <3>1, <3>2, SentinelElsewhere, FileMoves
  <2>3. CASE g = f
    <3>0. Expected(f) \in Bytes /\ Desired(f) \in Bytes  BY <2>1, <2>3 DEF Expected, Desired, JournalTyping, Pure, Bytes
    <3>1. /\ merge.step \in {"take", "restore", "install", "drop", "sentinel", "aside"} => verify[f] = Absent
          /\ merge.step = "take" => folder[f] # Sentinel
          /\ merge.step = "sentinel" => Desired(f) = Absent
          /\ merge.step \in {"restore", "install", "drop", "sentinel", "back"} => folder[f] # Sentinel
          /\ folder[f] = Sentinel => verify[f] = Absent
      BY <2>0, <2>3 DEF HandsInv
    <3>2. ASSUME NEW s \in Exchanging, StepGoes(s)
          PROVE  merge'.file = f /\ merge'.step = s /\ Desired(f)' = Desired(f)
      BY <2>0, <2>3, <3>2 DEF StepGoes, Desired
    <3>3. CASE merge.step = "look"
      <4>1. LookGoes(f, folder[f], backup[f], verify[f], Expected(f), Desired(f))  BY <2>0, <2>3, <3>3 DEF FileGoes
      <4>2. EndGoes(f, FALSE) /\ Sentinel \in {folder[f], verify[f]}  BY <1>0, <3>0, <3>1, <4>1 DEF LookGoes, Cell
      <4> QED  BY <1>2, <2>0, <2>1, <2>3, <3>3, <4>2 DEF EndGoes, AtRest
    <3>4. CASE merge.step = "sentinel"
      BY <1>0, <2>0, <2>1, <2>3, <3>1, <3>4, <3>2 DEF ClaimGoes, Cell, FileGoes, Exchanging
    <3>5. CASE merge.step = "aside"
      <4>1. AsideGoes(f, folder[f], backup[f], verify[f])  BY <2>0, <2>3, <3>5 DEF FileGoes
      <4>2. StepGoes("back") => merge'.file = f /\ merge'.step = "back" /\ Desired(f)' = Desired(f)
        BY <3>2 DEF Exchanging
      <4> QED  BY <1>0, <1>2, <2>0, <2>1, <2>3, <3>1, <3>5, <4>1, <4>2 DEF AsideGoes, Cell, Exchanging
    <3>6. CASE merge.step = "back"
      <4>1. BackGoes(f, folder[f], backup[f], verify[f], Desired(f))  BY <2>0, <2>3, <3>6 DEF FileGoes
      <4> QED  BY <1>0, <1>2, <2>0, <2>1, <2>3, <3>0, <3>1, <3>6, <4>1 DEF BackGoes, Cell, Held, Exchanging
    <3>7. CASE merge.step \in {"take", "restore", "install", "drop"}
      BY <1>0, <1>2, <2>0, <2>3, <3>0, <3>1, <3>7 DEF FileGoes, TakeGoes, RestoreGoes, InstallGoes, Cell
    <3> QED  BY <2>0, <3>3, <3>4, <3>5, <3>6, <3>7 DEF Exchanging
  <2> QED  BY <2>2, <2>3
<1>4. ASSUME NEW g \in Files, UserSaves(g) \/ UserDeletes(g)
      PROVE  /\ UNCHANGED <<txn, integration, merge>> /\ Sentinel \in {folder[f], verify[f]}
  BY <1>0, <1>4 DEF UserSaves, UserDeletes
<1>5. CASE UNCHANGED disk /\ ~\E g \in Files : ExchangeAt(g)
  <2>1. /\ txn # NoTxn /\ integration = txn.target /\ f \in DOMAIN txn.originals /\ ~DiscardRef
        /\ \/ merge.step = "rest"
           \/ merge.doing = "replay" /\ f \notin merge.done /\ merge.step \in Exchanging
              /\ (f # merge.file \/ merge.step = "look")
           \/ f = merge.file /\ merge.step \in {"aside", "back"} /\ Desired(f) = Absent
    BY <1>0, <1>2, <1>5 DEF disk
  <2>2. UNCHANGED txn /\ UNCHANGED integration
    <3>1. ~AdvanceRef /\ ~ResetRef  BY <2>1 DEF AdvanceRef, ResetRef, Exchanging
    <3> QED  BY <2>1, <3>1, JournalGoes, RefGoes DEF WriteJournal, RemoveJournal, DropJournal, NotAdvanced, Exchanging
  <2>3. CASE UNCHANGED merge
    <3>1. Desired(f)' = Desired(f)  BY <2>2, <2>3 DEF Desired
    <3> QED  BY <2>1, <2>2, <2>3, <3>1
  <2>4. CASE merge' = AtRest  BY <2>1, <2>2, <2>4 DEF AtRest
  <2>5. CASE CallFails /\ EndGoes(merge.file, FALSE) /\ merge.step \in Exchanging
    <3>1. f # merge.file  BY <2>5 DEF CallFails
    <3>2. SentinelStays(f)  BY <2>1, <2>5, <3>1 DEF SentinelStays, ControlInv, Exchanging
    <3> QED  BY <2>1, <2>2, <2>5, <3>2, SentinelElsewhere
  <2>6. CASE OtherGoes /\ ~UNCHANGED merge /\ merge' # AtRest
    <3>1. merge.step = "rest" /\ BeginGoes("replay", DOMAIN txn.originals)
      BY <2>1, <2>6 DEF OtherGoes, CheckMerge, Exchanging
    <3> QED  BY <2>1, <2>2, <3>1 DEF BeginGoes, Exchanging
  <2> QED  BY <1>5, <2>3, <2>4, <2>5, <2>6, OtherStep
<1>6. CASE \E g \in Files : UserSaves(g) \/ UserDeletes(g)
  <2>1. UNCHANGED <<txn, integration, merge>> /\ Sentinel \in {folder[f], verify[f]}  BY <1>4, <1>6
  <2>2. Desired(f)' = Desired(f)  BY <2>1 DEF Desired
  <2> QED  BY <1>2, <2>1, <2>2
<1> QED  BY <1>3, <1>5, <1>6, DiskGoes

\* The exchange works on another file.
LEMMA WholeElsewhere ==
    ASSUME MergeTyping, ControlInv, NEW f \in Files, WholeNow(f), f # merge.file, merge.step \in Exchanging,
           EndGoes(merge.file, TRUE) \/ EndGoes(merge.file, FALSE) \/ \E s \in Exchanging : StepGoes(s),
           UNCHANGED <<txn, integration, agreed>>, integration = txn.target, Cell(f, folder[f], backup[f], verify[f])
    PROVE  WholeNow(f)'
<1>0. /\ txn # NoTxn /\ DOMAIN txn.originals = merge.plan /\ merge.done \subseteq merge.plan
      /\ merge.doing \in {"apply", "undo", "replay"} /\ (merge.doing # "undo" => merge.clean)
      /\ merge.file \in merge.plan
  BY DEF ControlInv, Exchanging
<1>1. /\ (folder[f] = agreed[f] /\ Bare(f)) => (folder[f] = agreed[f] /\ Bare(f))'
      /\ Before(f)' <=> Before(f)
      /\ After(f)' <=> After(f)
  BY DEF Bare, Before, After, Cell
<1>2. CASE f \notin DOMAIN txn.originals  BY <1>0, <1>1, <1>2 DEF WholeNow
<1>3. CASE f \in DOMAIN txn.originals
  <2>0. Bound(f)  BY <1>0, <1>3 DEF WholeNow
  <2>1. txn'.originals[f] = agreed'[f]  BY <2>0 DEF Bound
  <2>2. Before(f) /\ f = merge'.file /\ merge'.step = "look" /\ merge'.doing = "apply" => ApplyOf(f)'
    BY <1>0 DEF ApplyOf, Before, Bare, Expected, Cell
  <2> SUFFICES Bound(f)'  BY <1>0, <1>3 DEF WholeNow
  <2>3. CASE merge' = AtRest  BY <2>1, <2>3 DEF Bound, AtRest
  <2>4. ASSUME NEW s \in Exchanging, StepGoes(s)
        PROVE  Bound(f)'
    BY <1>1, <2>0, <2>1, <2>4 DEF StepGoes, Bound, Exchanging
  <2>5. CASE EndGoes(merge.file, TRUE) /\ merge' # AtRest
    BY <1>0, <1>1, <1>3, <2>0, <2>1, <2>2, <2>5 DEF EndGoes, Bound
  <2>6. CASE EndGoes(merge.file, FALSE) /\ merge' # AtRest
    BY <1>0, <1>1, <1>3, <2>0, <2>1, <2>2, <2>6 DEF EndGoes, Bound
  <2> QED  BY <2>3, <2>4, <2>5, <2>6
<1> QED  BY <1>2, <1>3

\* The exchange works on the file.
LEMMA WholeHere ==
    ASSUME MergeTyping, ControlInv, HandsInv, NEW f \in Files, WholeNow(f), f = merge.file, merge.step \in Exchanging,
           NamesGo(f), FileGoes(f), UNCHANGED <<txn, integration, agreed>>, integration = txn.target
    PROVE  WholeNow(f)'
<1>0. /\ txn # NoTxn /\ DOMAIN txn.originals = merge.plan /\ merge.done \subseteq merge.plan
      /\ merge.doing \in {"apply", "undo", "replay"} /\ (merge.doing # "undo" => merge.clean)
      /\ f \in merge.plan /\ (merge.doing = "undo" <=> f \in merge.done)
  BY DEF ControlInv, Exchanging
<1>1. Bound(f)  BY <1>0 DEF WholeNow
<1>2. /\ txn'.originals[f] = agreed'[f] /\ f \in DOMAIN txn'.originals /\ txn' # NoTxn
      /\ integration' = txn'.target
  BY <1>0, <1>1 DEF Bound
<1> SUFFICES Bound(f)'  BY <1>2 DEF WholeNow
<1>3. /\ Absent # Sentinel /\ Sentinel \notin Bytes /\ Expected(f) \in Bytes /\ Desired(f) \in Bytes
      /\ folder[f] \in Bytes \cup {Sentinel} /\ backup[f] \in Bytes /\ verify[f] \in Bytes \cup {Sentinel}
  <2>1. JournalTyping(txn)  BY <1>0 DEF MergeTyping
  <2> QED  BY <1>0, <2>1, MergeNames DEF MergeTyping, Expected, Desired, JournalTyping, Pure, Bytes
<1>4. /\ merge.step \in {"take", "restore", "install", "drop", "sentinel", "aside"} => verify[f] = Absent
      /\ merge.step = "sentinel" => Desired(f) = Absent
      /\ folder[f] = Sentinel => verify[f] = Absent
  BY DEF HandsInv
<1>5. CASE merge.step = "drop"
  <2>1. EndGoes(f, TRUE) /\ Cell(f, Desired(f), Absent, Absent)  BY <1>1, <1>4, <1>5 DEF FileGoes, Bound, Cell
  <2>2. merge.doing = "undo" => Before(f)'  BY <2>1 DEF Before, Bare, Cell, Desired
  <2>3. merge.doing # "undo" => After(f)'  BY <2>1 DEF After, Bare, Cell, Desired
  <2> QED  BY <1>0, <1>2, <2>1, <2>2, <2>3 DEF EndGoes, Bound, AtRest
<1>6. ASSUME EndGoes(f, FALSE), merge.doing # "apply"
      PROVE  Bound(f)'
  <2>1. CASE merge' = AtRest  BY <1>2, <2>1 DEF Bound, AtRest
  <2>2. CASE merge' # AtRest
    <3>1. /\ merge.doing = "undo" /\ merge'.doing = "undo" /\ merge'.clean = (merge.clean /\ FALSE)
          /\ (merge'.step = "look" \/ (merge'.step = "reset" /\ merge'.clean))
      BY <1>0, <1>6, <2>2 DEF EndGoes
    <3>2. ~merge'.clean  BY <3>1
    <3> QED  BY <1>2, <3>1, <3>2 DEF Bound
  <2> QED  BY <2>1, <2>2
<1>7. CASE merge.doing = "apply" /\ merge.step # "drop"
  <2>1. ApplyOf(f)  BY <1>0, <1>1, <1>7 DEF Bound
  <2>2. \/ StepGoes("drop") /\ folder'[f] = Desired(f) /\ backup'[f] = backup[f]
        \/ StepGoes("sentinel") /\ folder'[f] = Absent /\ backup'[f] = backup[f]
        \/ StepGoes("aside") /\ folder'[f] = Held(f) /\ backup'[f] = backup[f]
        \/ StepGoes("back") /\ folder'[f] = Absent /\ backup'[f] = backup[f] /\ verify'[f] = Held(f)
        \/ StepGoes("take") /\ Before(f) /\ folder[f] # Absent /\ Cell(f, folder[f], backup[f], verify[f])
        \/ StepGoes("install") /\ folder'[f] = Absent /\ backup'[f] \in {Absent, Expected(f)}
    <3>0. Expected(f) = txn.originals[f]  BY <1>7 DEF Expected
    <3>1. CASE merge.step = "look"
      <4>1. /\ LookGoes(f, folder[f], backup[f], verify[f], Expected(f), Desired(f))
            /\ folder[f] = Expected(f) /\ backup[f] = Absent /\ verify[f] = Absent
        BY <2>1, <3>0, <3>1 DEF FileGoes, ApplyOf, Before, Bare
      <4> QED  BY <1>3, <2>1, <3>1, <4>1 DEF LookGoes, Cell, Held, ApplyOf
    <3>2. CASE merge.step = "take"  BY <2>1, <3>0, <3>2 DEF TakeGoes, Cell, FileGoes, ApplyOf, Before
    <3>3. CASE merge.step = "install"  BY <2>1, <3>3 DEF FileGoes, InstallGoes, Cell, ApplyOf
    <3>4. CASE merge.step = "sentinel"  BY <1>4, <2>1, <3>4 DEF FileGoes, ClaimGoes, Cell, ApplyOf, Held
    <3>5. CASE merge.step = "aside"  BY <1>3, <2>1, <3>5 DEF FileGoes, AsideGoes, Cell, ApplyOf, Held
    <3>6. CASE merge.step = "back"  BY <1>3, <2>1, <3>6 DEF FileGoes, BackGoes, Cell, ApplyOf, Held
    <3> QED  BY <1>7, <2>1, <3>1, <3>2, <3>3, <3>4, <3>5, <3>6 DEF Exchanging, ApplyOf
  <2>3. backup[f] \in {Absent, Expected(f)}  BY <2>1 DEF ApplyOf
  <2>4. ASSUME NEW s \in Exchanging, StepGoes(s)
        PROVE  /\ merge'.step = s /\ merge'.file = f /\ merge'.doing = "apply" /\ merge'.done = merge.done
               /\ Expected(f)' = Expected(f) /\ Desired(f)' = Desired(f) /\ Held(f)' = Held(f)
    BY <1>7, <2>4 DEF Expected, Desired, Held, StepGoes
  <2>5. ASSUME NEW s \in Exchanging, StepGoes(s), ApplyOf(f)', s = "drop" => folder'[f] = Desired(f),
               s = "back" => folder'[f] = Absent
        PROVE  Bound(f)'
    BY <1>0, <1>2, <1>7, <2>5, <2>4 DEF Bound, Exchanging
  <2>6. CASE StepGoes("drop") /\ folder'[f] = Desired(f) /\ backup'[f] = backup[f]
    BY <2>3, <2>4, <2>5, <2>6 DEF ApplyOf, Exchanging
  <2>7. CASE StepGoes("sentinel") /\ folder'[f] = Absent /\ backup'[f] = backup[f]
    BY <2>3, <2>4, <2>5, <2>7 DEF ApplyOf, Exchanging
  <2>8. CASE StepGoes("aside") /\ folder'[f] = Held(f) /\ backup'[f] = backup[f]
    BY <2>3, <2>4, <2>5, <2>8 DEF ApplyOf, Exchanging
  <2>9. CASE StepGoes("back") /\ folder'[f] = Absent /\ backup'[f] = backup[f] /\ verify'[f] = Held(f)
    BY <2>3, <2>4, <2>5, <2>9 DEF ApplyOf, Exchanging
  <2>10. CASE StepGoes("take") /\ Before(f) /\ folder[f] # Absent /\ Cell(f, folder[f], backup[f], verify[f])
    BY <2>3, <2>4, <2>5, <2>10 DEF ApplyOf, Exchanging, Before, Bare, Cell
  <2>11. CASE StepGoes("install") /\ folder'[f] = Absent /\ backup'[f] \in {Absent, Expected(f)}
    BY <2>4, <2>5, <2>11 DEF ApplyOf, Exchanging
  <2> QED  BY <2>2, <2>6, <2>7, <2>8, <2>9, <2>10, <2>11
<1>8. CASE merge.doing # "apply" /\ merge.step # "drop"
  <2>1. ASSUME NEW s \in Exchanging, StepGoes(s), s = "drop" => folder'[f] = Desired(f),
               s = "back" => folder'[f] = Absent
        PROVE  Bound(f)'
    <3>1. /\ merge'.step = s /\ merge'.file = f /\ merge'.doing = merge.doing /\ merge'.done = merge.done
      BY <2>1 DEF StepGoes
    <3>2. Desired(f)' = Desired(f)  BY <3>1 DEF Desired
    <3> QED  BY <1>0, <1>2, <1>8, <2>1, <3>1, <3>2 DEF Bound, Exchanging
  <2>2. \/ EndGoes(f, FALSE)
        \/ StepGoes("drop") /\ folder'[f] = Desired(f)
        \/ StepGoes("back") /\ folder'[f] = Absent
        \/ \E s \in Exchanging \ {"drop", "back"} : StepGoes(s)
    <3>1. CASE merge.step = "look"  BY <3>1 DEF FileGoes, LookGoes, Cell, Exchanging
    <3>2. CASE merge.step = "back"
      <4>1. folder[f] = Absent  BY <1>1, <3>2 DEF Bound
      <4> QED  BY <3>2, <4>1 DEF FileGoes, BackGoes, Cell
    <3>3. CASE merge.step \notin {"look", "back"}
      BY <1>8, <3>3 DEF FileGoes, TakeGoes, RestoreGoes, InstallGoes, ClaimGoes, AsideGoes, Cell, Exchanging
    <3> QED  BY <3>1, <3>2, <3>3
  <2>3. CASE StepGoes("drop") /\ folder'[f] = Desired(f)  BY <2>1, <2>3 DEF Exchanging
  <2>4. CASE StepGoes("back") /\ folder'[f] = Absent  BY <2>1, <2>4 DEF Exchanging
  <2> QED  BY <1>6, <1>8, <2>1, <2>2, <2>3, <2>4
<1> QED  BY <1>5, <1>7, <1>8

\* A file that only the merge has changed is as the phase of the merge wants it.
LEMMA WholeStep ==
    ASSUME MergeTyping, ControlInv, HandsInv, PhaseInv, MergeNext, NEW f \in Files, WholeOf(f)
    PROVE  WholeOf(f)'
<1> SUFFICES ASSUME Sure', f \notin touched', f \notin torn'
             PROVE  WholeNow(f)'
  BY DEF WholeOf
<1>0. /\ Sure /\ f \notin touched /\ f \notin torn /\ ~UserSaves(f) /\ ~UserDeletes(f) /\ WholeNow(f)
      /\ merge \in MergeRecords
      /\ DiscardRef => merge.step = "rest" /\ txn = NoTxn /\ UNCHANGED <<disk, merge, txn, agreed>>
  BY SureStep, TouchedGoes DEF WholeOf, MergeTyping
<1>1. merge.step \in Exchanging => integration = txn.target  BY <1>0 DEF PhaseInv
<1>2. ASSUME NEW g \in Files, ExchangeAt(g)
      PROVE  WholeNow(f)'
  <2>1. /\ g = merge.file /\ NamesGo(g) /\ FileGoes(g) /\ UNCHANGED <<txn, integration, agreed>>
        /\ merge.step \in Exchanging
    BY <1>2, ExchangeStep DEF witness
  <2>2. CASE g = f  BY <1>0, <1>1, <2>1, <2>2, WholeHere
  <2>3. CASE g # f  BY <1>0, <1>1, <2>1, <2>3, WholeElsewhere, FileMoves DEF NamesGo
  <2> QED  BY <2>2, <2>3
<1>3. CASE CallFails /\ EndGoes(merge.file, FALSE) /\ merge.step \in Exchanging
  <2>1. f # merge.file /\ UNCHANGED <<txn, integration, agreed, folder, backup, verify>>  BY <1>3 DEF CallFails, disk
  <2>2. Cell(f, folder[f], backup[f], verify[f])  BY <2>1 DEF Cell
  <2> QED  BY <1>0, <1>1, <1>3, <2>1, <2>2, WholeElsewhere
<1>4. ASSUME NEW g \in Files, UserSaves(g) \/ UserDeletes(g)
      PROVE  WholeNow(f)'
  <2>1. g # f  BY <1>0, <1>4
  <2>2. folder'[f] = folder[f] /\ UNCHANGED <<backup, verify, txn, merge, integration, agreed>>
    BY <1>4, <2>1 DEF UserSaves, UserDeletes, MergeTyping
  <2> QED  BY <1>0, <2>2 DEF WholeNow, Bound, Before, After, Bare, ApplyOf, Expected, Desired, Held
<1>5. CASE UNCHANGED disk /\ OtherGoes
  <2>0. /\ Bare(f)' <=> Bare(f)
        /\ UNCHANGED txn => (Before(f)' <=> Before(f)) /\ (After(f)' <=> After(f))
        /\ folder'[f] = folder[f]
    BY <1>5 DEF Bare, Before, After, disk
  <2>1. CASE txn = NoTxn \/ f \notin DOMAIN txn.originals
    <3>1. folder[f] = agreed[f] /\ Bare(f)  BY <1>0, <2>1 DEF WholeNow
    <3>2. CASE WriteJournal
      <4>1. /\ UNCHANGED agreed /\ txn'.originals = [g \in merge.plan |-> folder[g]]
            /\ merge'.step = "journalled" /\ merge'.doing = "none"
        BY <1>0, <3>2 DEF WriteJournal, witness, ControlInv, MergeRecords
      <4>2. CASE f \in merge.plan
        <5>1. txn'.originals[f] = folder[f] /\ f \in DOMAIN txn'.originals  BY <4>1, <4>2
        <5>2. Before(f)'  BY <2>0, <3>1, <5>1 DEF Before
        <5>3. Bound(f)'  BY <2>0, <3>1, <4>1, <5>1, <5>2 DEF Bound
        <5> QED  BY <2>0, <3>1, <4>1, <5>3 DEF WholeNow
      <4>3. CASE f \notin merge.plan  BY <2>0, <3>1, <4>1, <4>3 DEF WholeNow
      <4> QED  BY <4>2, <4>3
    <3>3. CASE ~WriteJournal
      <4>1. agreed'[f] = agreed[f]
        <5>1. CASE RemoveJournal  BY <5>1, <2>1 DEF RemoveJournal, MergeTyping, ControlInv
        <5> QED  BY <5>1, AgreedGoes
      <4> QED  BY <2>0, <3>1, <2>1, <3>3, JournalGoes, <4>1 DEF WholeNow, RemoveJournal, DropJournal
    <3> QED  BY <3>2, <3>3
  <2>2. CASE txn # NoTxn /\ f \in DOMAIN txn.originals
    <3>1. Bound(f)  BY <1>0, <2>2 DEF WholeNow
    <3>2. CASE RemoveJournal
      <4>1. /\ merge.step = "settle" /\ txn' = NoTxn /\ f \in merge.plan
            /\ agreed' = IF merge.doing = "undo" THEN agreed
                         ELSE [g \in Files |-> IF g \in merge.plan THEN txn.target[g] ELSE agreed[g]]
        BY <2>2, <3>2 DEF RemoveJournal, ControlInv
      <4>2. CASE merge.doing = "undo"  BY <2>0, <3>1, <4>1, <4>2 DEF WholeNow, Bound, Before
      <4>3. CASE merge.doing # "undo"
        <5>1. After(f)  BY <3>1, <4>1, <4>3 DEF Bound, ControlInv
        <5> QED  BY <2>0, <4>1, <4>3, <5>1 DEF WholeNow, After
      <4> QED  BY <4>2, <4>3
    <3>3. CASE DropJournal  BY <2>0, <3>1, <3>3 DEF WholeNow, Before, Bound, DropJournal, NotAdvanced, witness
    <3>4. CASE ~RemoveJournal /\ ~DropJournal
      <4>0. UNCHANGED <<txn, agreed>> /\ ~DiscardRef
        <5>1. ~WriteJournal  BY <2>2 DEF WriteJournal, ControlInv
        <5> QED  BY <1>0, <2>2, <3>4, <5>1, JournalGoes, AgreedGoes
      <4> SUFFICES Bound(f)'  BY <2>2, <4>0 DEF WholeNow
      <4>1. CASE UNCHANGED merge
        <5>1. UNCHANGED integration
          <6>1. ~AdvanceRef  BY <1>0, <4>1 DEF AdvanceRef, Begins, MergeRecords
          <6>2. ~ResetRef \/ UNCHANGED integration  BY <1>0, <4>1 DEF ResetRef, Goto, MergeRecords
          <6> QED  BY <4>0, <6>1, <6>2, RefGoes
        <5> QED  BY <2>0, <3>1, <4>0, <4>1, <5>1, <1>5 DEF Bound, Desired, ApplyOf, Before, Bare, Expected, Held, disk
      <4>2. CASE merge.step = "journalled" /\ BeginGoes("apply", merge.plan) /\ AdvanceRef
        BY <2>0, <2>2, <3>1, <4>0, <4>2 DEF Bound, BeginGoes, ApplyOf, Before, Bare, Expected, AdvanceRef, ControlInv
      <4>3. CASE merge.step = "reset" /\ StepGoes("settle") /\ ResetRef
        BY <2>0, <3>1, <4>0, <4>3 DEF Bound, StepGoes, ControlInv
      <4>4. CASE /\ merge.step = "rest" /\ integration = txn.target
                 /\ BeginGoes("replay", DOMAIN txn.originals) /\ ReplayJournal
        <5>1. UNCHANGED integration  BY <4>4 DEF ReplayJournal
        <5> QED  BY <2>2, <3>1, <4>0, <4>4, <5>1 DEF Bound, BeginGoes
      <4>5. CASE merge' = AtRest /\ ~UNCHANGED merge
        <5>1. \/ Before(f)
              \/ integration = txn.target /\ UNCHANGED integration
          <6>1. CASE merge.step \in {"journalled", "reset"} \/ (merge.step = "settle" /\ merge.doing = "undo")
            BY <3>1, <6>1 DEF Bound
          <6>2. CASE merge.step \in Exchanging \/ (merge.step = "settle" /\ merge.doing # "undo")
            BY <1>0, <4>0, <6>2, RefGoes DEF PhaseInv, AdvanceRef, ResetRef, Exchanging
          <6>3. CASE merge.step = "rest"  BY <4>5, <6>3 DEF ControlInv
          <6> QED  BY <1>0, <2>2, <6>1, <6>2, <6>3 DEF ControlInv, MergeRecords
        <5> QED  BY <2>0, <3>1, <4>0, <4>5, <5>1 DEF Bound, AtRest
      <4>6. ASSUME NEW batch \in SUBSET Leases, CheckMerge(batch)
            PROVE  FALSE
        BY <2>2, <4>6 DEF CheckMerge
      <4>7. ~WriteJournal  BY <2>2 DEF WriteJournal, ControlInv
      <4> QED  BY <1>5, <4>1, <4>2, <4>3, <4>4, <4>5, <4>6, <4>7 DEF OtherGoes
    <3> QED  BY <3>2, <3>3, <3>4
  <2> QED  BY <2>1, <2>2
<1> QED  BY <1>2, <1>3, <1>4, <1>5, OtherStep, DiskGoes

\* What the merges have left is what the ref says.
LEMMA AgreedStep ==
    ASSUME MergeTyping, ControlInv, HandsInv, LeaseInv, PhaseInv, AgreedInv, MergeNext
    PROVE  AgreedInv'
<1> SUFFICES ASSUME discarded' = {}, early' = {}
             PROVE  /\ txn' = NoTxn => agreed' = Baseline(integration')
                    /\ merge'.step = "checked" => \A f \in Files \ merge'.plan : merge'.target[f] = agreed'[f]
                    /\ txn' # NoTxn => /\ agreed' = Baseline(txn'.before)
                                       /\ \A f \in Files \ DOMAIN txn'.originals : txn'.target[f] = agreed'[f]
  BY DEF AgreedInv, Baseline
<1>1. early \subseteq early'
  <2>1. ASSUME NEW g \in Files, ExchangeAt(g)
        PROVE  UNCHANGED early
    BY <2>1 DEF ExchangeAt, ResumeVerify, Look, Take, Restore, Install, DropBackup, ClaimName, MoveAside, MoveBack,
      Aside, witness
  <2> QED
    BY <2>1 DEF MergeNext, ExchangeAt, Acquire, Release, CheckMerge, WriteJournal, AdvanceRef, AdvanceRefused,
      CallFails, ResetRef, RemoveJournal, MergeCrash, ReplayJournal, DropJournal, DiscardRef, UserSaves, UserDeletes,
      witness
<1>2. /\ discarded = {} /\ early = {} /\ ~DiscardRef /\ Sure
      /\ txn = NoTxn => agreed = Baseline(integration)
      /\ merge.step = "checked" => \A f \in Files \ merge.plan : merge.target[f] = agreed[f]
      /\ txn # NoTxn => /\ agreed = Baseline(txn.before)
                        /\ \A f \in Files \ DOMAIN txn.originals : txn.target[f] = agreed[f]
  BY <1>1, SureStep DEF AgreedInv, DiscardRef, Sure
<1>3. CASE WriteJournal
  <2>1. /\ txn' = [before |-> integration, target |-> merge.target,
                    originals |-> [f \in merge.plan |-> folder[f]]]
        /\ merge.step = "checked" /\ txn = NoTxn /\ UNCHANGED agreed /\ merge'.step = "journalled"
    BY <1>3 DEF WriteJournal, ControlInv, MergeTyping, MergeRecords
  <2>2. merge.target # NoTree  BY <2>1, MergeNames DEF ControlInv
  <2> QED  BY <1>2, <2>1, <2>2 DEF NoTxn
<1>4. CASE RemoveJournal
  <2>1. /\ merge.step = "settle" /\ txn' = NoTxn /\ merge'.step = "rest" /\ UNCHANGED integration
        /\ agreed' = IF merge.doing = "undo" THEN agreed
                     ELSE [f \in Files |-> IF f \in merge.plan THEN txn.target[f] ELSE agreed[f]]
        /\ txn # NoTxn /\ DOMAIN txn.originals = merge.plan
    BY <1>4 DEF RemoveJournal, AtRest, ControlInv
  <2>2. CASE merge.doing = "undo"
    <3>1. integration = txn.before  BY <1>2, <2>1, <2>2 DEF PhaseInv
    <3> QED  BY <1>2, <2>1, <2>2, <3>1
  <2>3. CASE merge.doing # "undo"
    <3>1. integration = txn.target  BY <1>2, <2>1, <2>3 DEF PhaseInv
    <3>2. txn.target \in Pure  BY <2>1 DEF MergeTyping, JournalTyping
    <3>3. Baseline(integration) = txn.target  BY <3>1, <3>2, MergeNames DEF Baseline
    <3>4. agreed' = [f \in Files |-> txn.target[f]]  BY <1>2, <2>1, <2>3
    <3>5. txn.target = [f \in Files |-> txn.target[f]]  BY <3>2 DEF Pure
    <3> QED  BY <2>1, <3>3, <3>4, <3>5
  <2> QED  BY <2>2, <2>3
<1>5. CASE DropJournal  BY <1>2, <1>5 DEF DropJournal, NotAdvanced, witness, ControlInv, AtRest
<1>6. CASE UNCHANGED txn /\ ~RemoveJournal
  <2>1. UNCHANGED agreed /\ (txn = NoTxn => UNCHANGED integration)
    BY <1>2, <1>6, AgreedGoes, RefGoes DEF AdvanceRef, ResetRef, ControlInv
  <2>2. ASSUME NEW batch \in SUBSET Leases, CheckMerge(batch)
        PROVE  \A f \in Files \ merge'.plan : merge'.target[f] = agreed'[f]
    <3>1. /\ batch # {} /\ (\A l \in batch : worktree[l] \in WorktreeRecords /\ ~worktree[l].during)
          /\ txn = NoTxn
      BY <2>2, CheckStep DEF CheckMerge
    <3>2. ApplyBase(batch) = agreed
      <4>1. CASE integration # NoTree  BY <1>2, <3>1, <4>1 DEF ApplyBase, Baseline
      <4>2. CASE integration = NoTree
        <5>1. (CHOOSE l \in batch : TRUE) \in batch  BY <3>1
        <5> QED  BY <1>2, <3>1, <4>2, <5>1 DEF ApplyBase, Baseline, LeaseInv
      <4> QED  BY <4>1, <4>2
    <3> QED  BY <2>1, <2>2, <3>2, CheckStep
  <2> QED  BY <1>2, <1>6, <2>1, <2>2, CheckedGoes
<1> QED  BY <1>3, <1>4, <1>5, <1>6, JournalGoes

\* A check refuses what a sibling has changed (MergedSince).
LEMMA SiblingsStep ==
    ASSUME MergeTyping, ControlInv, HandsInv, MergeNext, clobbered = {}
    PROVE  clobbered' = {}
<1>1. ASSUME NEW g \in Files, ExchangeAt(g)
      PROVE  UNCHANGED clobbered
  BY <1>1 DEF ExchangeAt, ResumeVerify, Look, Take, Restore, Install, DropBackup, ClaimName, MoveAside, MoveBack, Aside,
    witness
<1>2. ASSUME NEW batch \in SUBSET Leases, CheckMerge(batch)
      PROVE  clobbered' = {}
  <2>1. ASSUME NEW f \in Files, NEW l \in batch, integration # NoTree, f \in Changed(l),
               integration[f] # worktree[l].base[f]
        PROVE  FALSE
    <3>1. f \in MergedSince(l)  BY <2>1 DEF MergedSince, Differ
    <3> QED  BY <1>2, <2>1, <3>1 DEF CheckMerge
  <2>2. \A l \in batch : Changed(l) \subseteq Files  BY DEF Changed, Differ
  <2> QED  BY <1>2, <2>1, <2>2 DEF CheckMerge
<1> QED
  BY <1>1, <1>2 DEF MergeNext, ExchangeAt, Acquire, Release, WriteJournal, AdvanceRef, AdvanceRefused, CallFails,
    ResetRef, RemoveJournal, MergeCrash, ReplayJournal, DropJournal, DiscardRef, UserSaves, UserDeletes, witness

\* The first state.
LEMMA MergeInvInit ==
    ASSUME MergeInit
    PROVE  MergeInv
<1> USE DEF MergeInit
<1>0. /\ TaskHead \in Pure /\ Absent \in Bytes /\ Absent # Sentinel /\ NoTree \in Refs /\ Sentinel \notin Bytes
      /\ merge = AtRest /\ merge.step = "rest"
  BY MergeNames DEF Refs, AtRest
<1>1. TaskHead \in [Files -> Bytes] /\ TaskHead \in [Files -> Bytes \cup {Sentinel}]  BY <1>0 DEF Pure, Bytes
<1>2. MergeTyping
  <2>1. AtRest \in MergeRecords  BY DEF AtRest, MergeRecords, Refs
  <2> QED  BY <1>0, <1>1, <2>1, MergeAssumption DEF MergeTyping
<1>3. ControlInv  BY <1>0 DEF ControlInv, AtRest, Exchanging
<1>4. \A f \in Files : folder[f] # Sentinel  BY <1>0, <1>1
<1>5. HandsInv  BY <1>0, <1>4 DEF HandsInv
<1>6. OriginalsInv /\ PhaseInv  BY <1>0 DEF OriginalsInv, PhaseInv, Exchanging
<1>7. LeaseInv
  <2>1. NoLease \in WorktreeRecords => FALSE
    <3>1. NoLease.base = NoTree  BY DEF NoLease
    <3> QED  BY <3>1, MergeNames DEF WorktreeRecords
  <2> QED  BY <2>1 DEF LeaseInv
<1>8. AgreedInv  BY <1>0 DEF AgreedInv, Baseline
<1>9. \A f \in Files : KeptOf(f) /\ SentinelOf(f) /\ WholeOf(f)
  BY <1>0, <1>4 DEF KeptOf, SentinelOf, WholeOf, WholeNow, Bare
<1> QED  BY <1>2, <1>3, <1>5, <1>6, <1>7, <1>8, <1>9 DEF MergeInv

\* MergeInv is inductive, for any files and leases and however often the user, the machine and
\* the file system interfere.
THEOREM MergeInductive == MergeSpec => []MergeInv
<1>1. MergeInit => MergeInv  BY MergeInvInit
<1>2. MergeInv /\ [MergeNext]_mergeVars => MergeInv'
  <2>1. CASE UNCHANGED mergeVars
    <3> SUFFICES ASSUME MergeInv PROVE MergeInv'  BY <2>1
    <3>1. LeaseInv' /\ PhaseInv' /\ AgreedInv' /\ clobbered' = {}
      BY <2>1 DEF MergeInv, mergeVars, LeaseInv, PhaseInv, AgreedInv, Sure
    <3>2. \A f \in Files : KeptOf(f)' /\ SentinelOf(f)' /\ WholeOf(f)'
      BY <2>1 DEF MergeInv, mergeVars, KeptOf, SentinelOf, WholeOf, WholeNow, Bound, Before, After, Bare, ApplyOf,
        Expected, Desired, Held, Sure
    <3> QED  BY <2>1, <3>1, <3>2 DEF MergeInv, mergeVars, MergeTyping, JournalTyping, ControlInv, HandsInv, Desired,
        OriginalsInv
  <2>2. ASSUME MergeInv, MergeNext
        PROVE  MergeInv'
    <3>1. MergeTyping /\ ControlInv /\ HandsInv /\ OriginalsInv /\ LeaseInv /\ PhaseInv /\ AgreedInv /\ clobbered = {}
      BY <2>2 DEF MergeInv
    <3>2. MergeTyping' /\ ControlInv' /\ HandsInv' /\ OriginalsInv'
      BY <2>2, <3>1, MergeTypesStep, ControlStep, HandsStep, OriginalsStep
    <3>3. LeaseInv' /\ PhaseInv' /\ AgreedInv' /\ clobbered' = {}
      BY <2>2, <3>1, LeaseStep, PhaseStep, AgreedStep, SiblingsStep
    <3> QED  BY <3>2, <3>3, <2>2, <3>1, KeptStep, SentinelStep, WholeStep DEF MergeInv
  <2> QED  BY <2>1, <2>2
<1> QED  BY <1>1, <1>2, PTL DEF MergeSpec

\* What the user saved last is kept, a merge is applied as a whole or not at all, a lease changes
\* nothing that a sibling has changed and no sentinel is left, for any files and leases.
THEOREM MergeIsSafe == MergeSpec => []MergeSafety
<1>1. MergeInv => MergeSafety
  <2> SUFFICES ASSUME MergeInv PROVE MergeSafety  OBVIOUS
  <2>1. MergeTyping /\ ControlInv /\ HandsInv /\ OriginalsInv /\ LeaseInv /\ PhaseInv /\ AgreedInv /\ clobbered = {}
    BY DEF MergeInv
  <2>2. \A f \in Files : KeptOf(f) /\ SentinelOf(f) /\ WholeOf(f)  BY DEF MergeInv
  <2>3. MergeTypeOK  BY <2>1, MergeNames DEF MergeTyping, MergeTypeOK, MergeRecords, ControlInv, Refs
  <2>4. SavedIsKept
    <3>1. owed \subseteq Files  BY <2>1 DEF MergeTyping
    <3> QED  BY <2>2, <3>1 DEF SavedIsKept, KeptOf
  <2>5. ProjectIsWhole
    BY <2>1, <2>2 DEF ProjectIsWhole, WholeOf, WholeNow, Sure, AgreedInv, Baseline, IntegrationBaseline
  <2>6. SiblingsKept  BY <2>1 DEF SiblingsKept
  <2>7. NoSentinelLeft  BY <2>2 DEF NoSentinelLeft, SentinelOf, Sure
  <2> QED  BY <2>3, <2>4, <2>5, <2>6, <2>7 DEF MergeSafety
<1> QED  BY <1>1, MergeInductive, PTL

----
(* A database is upgraded.                                                 *)

Backing == {"reserve", "move_db", "move_manifest", "mark", "marking"}
Changing == {"stage", "change"} \cup Backing
Making0 == {"staged", "reserved", "paired", "torn"}
Content == [version : Nat, data : Nat, damaged : BOOLEAN]
Artifact == [by : Programs, id : Nat, part : Making0 \cup {"complete", "left"},
             db : BOOLEAN, manifest : BOOLEAN, of : Content, to : Nat]
CatalogEdits == {"edit"} \X Nat

Opener == [at : Changing \cup {"closed", "open", "locking", "import"}, known : Nat, read : Nat,
           mode : {"none", "upgrade", "repair", "reaffirm"}]

FileTyping ==
    /\ file \in [kind : {"none", "project", "catalog", "pair"}, version : Nat, data : Nat,
                 damaged : BOOLEAN]
    /\ writer \in Programs \cup {Nobody}
    /\ opener \in [Programs -> Opener]

Catalogs == [first : Nat, rows : SUBSET (({"first"} \X Nat) \cup CatalogEdits), marker : BOOLEAN]
KnownPast == [contents : SUBSET Content, upgrades : SUBSET Content, edits : SUBSET CatalogEdits,
          firsts : SUBSET Nat]

KnownTyping ==
    /\ catalogs \in Catalogs /\ past \in KnownPast
    /\ opens \in Nat /\ failures \in Nat
    /\ IsFiniteSet(past.upgrades) /\ IsFiniteSet(past.edits)

MigrationTyping ==
    FileTyping /\ KnownTyping /\ artifacts \subseteq Artifact /\ IsFiniteSet(artifacts)

\* Before there is a file nobody has it and nothing is known of it.
NewFileInv ==
    file.kind = "none" =>
        /\ \A p \in Programs : opener[p].at = "closed"
        /\ artifacts = {} /\ past.upgrades = {} /\ catalogs.first = 0 /\ catalogs.rows = {}

\* Who has the lock has something to change, and the file is as it was when the lock was taken.
OpenerInv ==
    /\ OneChanger
    /\ \A p \in Programs : opener[p].at \in Changing =>
          \/ file.version < opener[p].known
          \/ file.version = opener[p].known /\ file.damaged
    /\ \A p \in Programs : opener[p].at \in Backing \cup {"stage"} => file.version # 0

\* An artifact in the making is of the file as it is, by the program that has the lock.
MakingInv ==
    /\ \A a \in artifacts : a.part \in Making0 => opener[a.by].at \in Backing /\ a.of = Contents
    /\ \A p \in Programs : opener[p].at \in Backing => Making(p) # {}
    /\ \A p \in Programs : opener[p].at = "change" =>
          file.version = 0 \/ \E a \in Enumerated : a.of = Contents

\* What was upgraded is behind the file.
PastInv ==
    /\ \A c \in past.upgrades :
          \/ c.version < file.version
          \/ c.version = file.version /\ c.damaged /\ ~file.damaged
    /\ file.kind # "none" => Contents \in past.contents
    /\ \A a \in artifacts : a.of \in past.contents /\ (a.of.version < a.to \/ a.of.damaged)
    /\ EveryUpgradeIsBackedUp

AtWork == \E p \in Programs : Making(p) # {} \/ opener[p].at = "change"

CountInv ==
    Cardinality(artifacts) <= Cardinality(past.upgrades) + failures + IF AtWork THEN 1 ELSE 0

\* The first catalog was read at one moment, and the marker says that it was.
ImportInv ==
    /\ \A r, s \in catalogs.rows : r[1] = "first" /\ s[1] = "first" => r = s
    /\ \A r \in catalogs.rows : r[1] = "first" => r[2] \in past.firsts
    /\ catalogs.marker <=> \E r \in catalogs.rows : r[1] = "first"
    /\ past.edits \subseteq catalogs.rows
    /\ file.kind = "pair" => catalogs.first \in past.firsts
    /\ \A p \in Programs : opener[p].at = "import" =>
          file.kind = "pair" /\ opener[p].read \in past.firsts

MigrationInv ==
    /\ MigrationTyping /\ NewFileInv /\ OpenerInv /\ MakingInv /\ PastInv /\ CountInv /\ ImportInv

\* At the start nobody has the lock and nothing was upgraded.
LEMMA MigrationBegins == MigrationInit => MigrationInv
<1>1. ASSUME MigrationInit PROVE MigrationTyping
  BY <1>1, FS_EmptySet, SMT DEF MigrationInit, MigrationTyping, FileTyping, KnownTyping, Opener, Catalogs, KnownPast,
    Nobody, Content, Artifact, CatalogEdits, Making0, Changing, Backing
<1>2. ASSUME MigrationInit PROVE NewFileInv /\ OpenerInv /\ MakingInv /\ PastInv /\ ImportInv
  BY <1>2, MigrationBounds, SMT DEF MigrationInit, NewFileInv, OpenerInv, OneChanger, MakingInv, PastInv, ImportInv,
    Making, Enumerated, EveryUpgradeIsBackedUp, Nobody, Changing, Backing, Making0, Contents
<1>3. ASSUME MigrationInit PROVE CountInv
  <2>1. artifacts = {} /\ past.upgrades = {} /\ failures = 0  BY <1>3 DEF MigrationInit
  <2>2. ~AtWork  BY <1>3, <2>1 DEF MigrationInit, AtWork, Making
  <2> QED  BY <2>1, <2>2, FS_EmptySet, SMT DEF CountInv
<1> QED  BY <1>1, <1>2, <1>3 DEF MigrationInv

\* What is in the making becomes `part', with the files moved or not.
Marked(p, part) ==
    /\ artifacts' \subseteq Artifact /\ IsFiniteSet(artifacts')
    /\ Cardinality(artifacts') <= Cardinality(artifacts)
    /\ artifacts \ Making(p) \subseteq artifacts'
    /\ \A b \in artifacts' \ artifacts :
          /\ b.by = p /\ b.part = part /\ (part = "complete" => b.db /\ b.manifest)
          /\ \E a \in Making(p) : b.of = a.of /\ b.to = a.to
    /\ \A a \in Making(p) : \E b \in artifacts' :
          /\ b.by = p /\ b.part = part /\ (part = "complete" => b.db /\ b.manifest)
          /\ b.of = a.of
    /\ \A a \in Making(p) : a \in artifacts' => a.part = part

\* The five steps of a publication.
Back(p) ==
    \E part \in Making0 \cup {"complete"}, at \in Backing \cup {"change"} :
        /\ opener[p].at \in Backing /\ opener' = [opener EXCEPT ![p].at = at]
        /\ part = "complete" <=> at = "change"
        /\ Marked(p, part)
        /\ UNCHANGED <<file, writer, catalogs, opens, failures, past>>

\* An image is not larger than what it is an image of.
LEMMA ImageCounted ==
    ASSUME NEW S, IsFiniteSet(S), NEW f, f = [x \in S |-> f[x]], NEW T, T = {f[x] : x \in S}
    PROVE  IsFiniteSet(T) /\ Cardinality(T) <= Cardinality(S)
<1>1. f \in Surjection(S, T)  BY DEF Surjection
<1> QED  BY <1>1, FS_Surjection

\* A backup that is left as it is keeps what it is of.
LEMMA LeftArtifact ==
    ASSUME NEW a \in Artifact, NEW b, b = [a EXCEPT !.part = "left"]
    PROVE  b \in Artifact /\ b.by = a.by /\ b.part = "left" /\ b.of = a.of /\ b.to = a.to
  BY SMT DEF Artifact

\* Artifacts that are marked one by one: no more of them, each still of the same file.
LEMMA ArtifactsMarked ==
    ASSUME MigrationTyping, NEW p \in Programs, NEW part \in Making0 \cup {"complete", "left"},
           NEW f, f = [a \in artifacts |-> f[a]], artifacts' = {f[a] : a \in artifacts},
           \A a \in artifacts \ Making(p) : f[a] = a,
           \A a \in Making(p) :
              /\ f[a] \in Artifact /\ f[a].by = p /\ f[a].part = part
              /\ (part = "complete" => f[a].db /\ f[a].manifest)
              /\ f[a].of = a.of /\ f[a].to = a.to
    PROVE  Marked(p, part)
<1>1. Making(p) \subseteq artifacts /\ artifacts \subseteq Artifact  BY DEF Making, MigrationTyping
<1>2. artifacts' \subseteq Artifact  BY <1>1
<1>3. \A a \in Making(p) : a \in artifacts' => a.part = part
  <2>1. SUFFICES ASSUME NEW a \in Making(p), NEW b \in artifacts, a = f[b] PROVE a.part = part  OBVIOUS
  <2>2. CASE b \in Making(p)  BY <2>1, <2>2
  <2>3. CASE b \notin Making(p)  BY <2>1, <2>3
  <2> QED  BY <2>2, <2>3
<1>4. artifacts \ Making(p) \subseteq artifacts'  OBVIOUS
<1>5. \A a \in Making(p) : f[a] \in artifacts'  BY <1>1
<1>6. \A b \in artifacts' \ artifacts :
          /\ b.by = p /\ b.part = part /\ (part = "complete" => b.db /\ b.manifest)
          /\ \E a \in Making(p) : b.of = a.of /\ b.to = a.to
  <2>1. SUFFICES ASSUME NEW a \in Making(p), NEW b, b = f[a]
                 PROVE  /\ b.by = p /\ b.part = part /\ (part = "complete" => b.db /\ b.manifest)
                        /\ b.of = a.of /\ b.to = a.to
    BY <1>1
  <2> QED  BY <2>1
<1>7. ASSUME NEW a \in Making(p)
      PROVE  \E b \in artifacts' :
                /\ b.by = p /\ b.part = part /\ (part = "complete" => b.db /\ b.manifest)
                /\ b.of = a.of
  BY <1>5
<1> QED  BY ImageCounted, <1>2, <1>3, <1>4, <1>6, <1>7 DEF Marked, MigrationTyping

\* Every stage of a backup marks the artifacts in the making (reserve, move, mark).
LEMMA BackSteps ==
    ASSUME MigrationTyping, NEW p \in Programs,
           Reserve(p) \/ MoveDb(p) \/ MoveManifest(p) \/ MarkBegins(p) \/ MarkEnds(p)
    PROVE  Back(p)
<1>1. ASSUME NEW part \in Making0 \cup {"complete"}, NEW db \in BOOLEAN, NEW manifest \in BOOLEAN,
             NEW from \in Backing, NEW at \in Backing \cup {"change"},
             Step(p, from, at, part, db, manifest), part = "complete" <=> at = "change",
             part = "complete" => db /\ manifest
      PROVE  Back(p)
  <2> DEFINE f == [a \in artifacts |->
                     IF a \in Making(p)
                     THEN [a EXCEPT !.part = part, !.db = db, !.manifest = manifest] ELSE a]
  <2>1. artifacts' = {f[a] : a \in artifacts}  BY <1>1 DEF Step
  <2>2. f = [a \in artifacts |-> f[a]] /\ \A a \in artifacts \ Making(p) : f[a] = a  OBVIOUS
  <2>3. ASSUME NEW a \in Making(p)
        PROVE  /\ f[a] \in Artifact /\ f[a].by = p /\ f[a].part = part
               /\ (part = "complete" => f[a].db /\ f[a].manifest)
               /\ f[a].of = a.of /\ f[a].to = a.to
    <3>1. a \in artifacts /\ a \in Artifact /\ a.by = p  BY DEF Making, MigrationTyping
    <3>2. f[a] = [a EXCEPT !.part = part, !.db = db, !.manifest = manifest]  BY <3>1
    <3> HIDE DEF f
    <3>3. /\ f[a] \in Artifact /\ f[a].by = a.by /\ f[a].part = part
          /\ f[a].of = a.of /\ f[a].to = a.to
          /\ (f[a].db <=> db) /\ (f[a].manifest <=> manifest)
      <4>1. /\ a.by \in Programs /\ a.id \in Nat /\ a.of \in Content /\ a.to \in Nat  BY <3>1, SMT DEF Artifact
      <4>2. f[a] = [by |-> a.by, id |-> a.id, part |-> part, db |-> db, manifest |-> manifest,
                    of |-> a.of, to |-> a.to]
        BY <3>1, <3>2, Zenon DEF Artifact
      <4> QED  BY <4>1, <4>2 DEF Artifact
    <3> QED  BY <1>1, <3>1, <3>3
  <2> HIDE DEF f
  <2>4. Marked(p, part)  BY <2>1, <2>2, <2>3, ArtifactsMarked
  <2> QED  BY <1>1, <2>4 DEF Back, Step, To
<1>2. CASE Reserve(p)
  <2>1. Step(p, "reserve", "move_db", "reserved", FALSE, FALSE)  BY <1>2 DEF Reserve
  <2>2. /\ "reserve" \in Backing /\ "move_db" \in Backing \cup {"change"}
        /\ "reserved" \in Making0 \cup {"complete"}
        /\ ("reserved" = "complete" <=> "move_db" = "change")
    BY DEF Making0, Backing
  <2> QED  BY <1>1, <2>1, <2>2
<1>3. CASE MoveDb(p)
  <2>1. Step(p, "move_db", "move_manifest", "reserved", TRUE, FALSE)  BY <1>3 DEF MoveDb
  <2>2. /\ "move_db" \in Backing /\ "move_manifest" \in Backing \cup {"change"}
        /\ "reserved" \in Making0 \cup {"complete"}
        /\ ("reserved" = "complete" <=> "move_manifest" = "change")
    BY DEF Making0, Backing
  <2> QED  BY <1>1, <2>1, <2>2
<1>4. CASE MoveManifest(p)
  <2>1. Step(p, "move_manifest", "mark", "paired", TRUE, TRUE)  BY <1>4 DEF MoveManifest
  <2>2. /\ "move_manifest" \in Backing /\ "mark" \in Backing \cup {"change"}
        /\ "paired" \in Making0 \cup {"complete"}
        /\ ("paired" = "complete" <=> "mark" = "change")
    BY DEF Making0, Backing
  <2> QED  BY <1>1, <2>1, <2>2
<1>5. CASE MarkBegins(p)
  <2>1. Step(p, "mark", "marking", "torn", TRUE, TRUE)  BY <1>5 DEF MarkBegins
  <2>2. /\ "mark" \in Backing /\ "marking" \in Backing \cup {"change"}
        /\ "torn" \in Making0 \cup {"complete"}
        /\ ("torn" = "complete" <=> "marking" = "change")
    BY DEF Making0, Backing
  <2> QED  BY <1>1, <2>1, <2>2
<1>6. CASE MarkEnds(p)  BY <1>1, <1>6 DEF Making0, Backing, MarkEnds
<1> QED  BY <1>2, <1>3, <1>4, <1>5, <1>6

\* A program that stops leaves what it made.
LEMMA StopMarks == ASSUME MigrationTyping, NEW p \in Programs, Stop(p) PROVE Marked(p, "left")
<1> DEFINE f == [a \in artifacts |-> IF a \in Making(p) THEN [a EXCEPT !.part = "left"] ELSE a]
<1>1. artifacts' = {f[a] : a \in artifacts}  BY DEF Stop
<1>2. f = [a \in artifacts |-> f[a]] /\ \A a \in artifacts \ Making(p) : f[a] = a  OBVIOUS
<1>3. ASSUME NEW a \in Making(p)
      PROVE  f[a] \in Artifact /\ f[a].by = p /\ f[a].part = "left" /\ f[a].of = a.of /\ f[a].to = a.to
  <2>1. a \in artifacts /\ a \in Artifact /\ a.by = p  BY DEF Making, MigrationTyping
  <2>2. f[a] = [a EXCEPT !.part = "left"]  BY <2>1
  <2> HIDE DEF f
  <2> QED  BY <2>1, <2>2, LeftArtifact
<1> HIDE DEF f
<1> QED  BY <1>1, <1>2, <1>3, ArtifactsMarked

Locks(p) == Waits(p) /\ SameFile

\* What follows from every step of a program follows from the next step.
LEMMA MigrationCases ==
    ASSUME MigrationTyping, [MigrationNext]_migrationVars, NEW G,
           UNCHANGED migrationVars => G, Find => G, FirstChanges => G,
           \A p \in Programs :
              /\ (Guard(p) => G) /\ (Locks(p) /\ Refused(p) => G)
              /\ (Locks(p) /\ NothingToDo(p) => G) /\ (Locks(p) /\ HasToChange(p) => G)
              /\ (LockTimeout(p) => G) /\ (Stage(p) => G) /\ (Back(p) => G) /\ (Change(p) => G)
              /\ (Write(p) => G) /\ (Stop(p) => G) /\ (OpenSecond(p) => G) /\ (Import(p) => G)
              /\ (EditSecond(p) => G)
    PROVE  G
<1>1. ASSUME NEW p \in Programs,
             \/ Guard(p) \/ Lock(p) \/ LockTimeout(p)
             \/ Stage(p) \/ Reserve(p) \/ MoveDb(p) \/ MoveManifest(p) \/ MarkBegins(p)
             \/ MarkEnds(p) \/ Change(p) \/ Write(p) \/ Stop(p)
             \/ OpenSecond(p) \/ Import(p) \/ EditSecond(p)
      PROVE  G
  BY <1>1, BackSteps DEF Lock, Locks
<1> QED  BY <1>1 DEF MigrationNext

\* File, lock and programs keep their form.
LEMMA FileTypingStep ==
    ASSUME MigrationInv, [MigrationNext]_migrationVars
    PROVE  FileTyping'
<1> USE MigrationBounds DEF MigrationInv, MigrationTyping, FileTyping
<1>1. CASE UNCHANGED migrationVars  BY <1>1, SMT DEF migrationVars, Opener, Nobody, Changing, Backing
<1>2. CASE Find  BY <1>2, SMT DEF Find, Opener, Nobody, Changing, Backing
<1>3. CASE FirstChanges  BY <1>3, SMT DEF FirstChanges, Opener, Nobody, Changing, Backing
<1>4. ASSUME NEW p \in Programs, Guard(p) PROVE FileTyping'
  <2>1. ASSUME NEW known \in Versions
        PROVE  [opener[p] EXCEPT !.known = known, !.mode = Way(known),
                  !.at = IF Way(known) = "none" THEN "open" ELSE "locking"] \in Opener
    <3>1. Way(known) \in {"none", "upgrade", "repair", "reaffirm"}  BY SMT DEF Way
    <3>2. known \in Nat /\ (IF Way(known) = "none" THEN "open" ELSE "locking")
                           \in Changing \cup {"closed", "open", "locking", "import"}
      OBVIOUS
    <3> QED  BY <3>1, <3>2, Zenon DEF Opener
  <2> QED  BY <1>4, <2>1, Zenon DEF Guard
<1>5. ASSUME NEW p \in Programs, Locks(p) /\ Refused(p) PROVE FileTyping'
  BY <1>5, SMT DEF Refused, Locks, Waits, SameFile, To, Overtaken, Opener, Nobody, Changing, Backing
<1>6. ASSUME NEW p \in Programs, Locks(p) /\ NothingToDo(p) PROVE FileTyping'
  BY <1>6, SMT DEF NothingToDo, Locks, Waits, SameFile, To, AsExpected, Opener, Nobody, Changing, Backing
<1>7. ASSUME NEW p \in Programs, Locks(p) /\ HasToChange(p) PROVE FileTyping'
  BY <1>7, SMT DEF HasToChange, Locks, Waits, SameFile, To, AsExpected, Opener, Nobody, Changing, Backing
<1>8. ASSUME NEW p \in Programs, LockTimeout(p) PROVE FileTyping'
  BY <1>8, SMT DEF LockTimeout, SameFile, To, Opener, Nobody, Changing, Backing
<1>9. ASSUME NEW p \in Programs, Stage(p) PROVE FileTyping'
  BY <1>9, SMT DEF Stage, To, Opener, Nobody, Changing, Backing
<1>10. ASSUME NEW p \in Programs, Back(p) PROVE FileTyping'  BY <1>10, SMT DEF Back, Opener, Nobody, Changing, Backing
<1>11. ASSUME NEW p \in Programs, Change(p) PROVE FileTyping'
  <2>1. file' = [file EXCEPT !.version = opener[p].known, !.damaged = FALSE] /\ opener[p].known \in Nat
    BY <1>11, SMT DEF Change, Opener
  <2>2. file' \in [kind : {"none", "project", "catalog", "pair"}, version : Nat, data : Nat,
                  damaged : BOOLEAN]
    BY <2>1, Zenon
  <2>3. opener' \in [Programs -> Opener]  BY <1>11, SMT DEF Change, To, Opener
  <2> QED  BY <1>11, <2>2, <2>3 DEF Change
<1>12. ASSUME NEW p \in Programs, Write(p) PROVE FileTyping'  BY <1>12, SMT DEF Write, Opener, Nobody, Changing, Backing
<1>13. ASSUME NEW p \in Programs, Stop(p) PROVE FileTyping'
  BY <1>13, SMT DEF Stop, Releases, Opener, Nobody, Changing, Backing
<1>14. ASSUME NEW p \in Programs, OpenSecond(p) PROVE FileTyping'
  <2>0. catalogs.first \in Nat /\ opener[p] \in Opener  BY SMT DEF KnownTyping, Catalogs
  <2>1. [opener[p] EXCEPT !.at = "open", !.read = catalogs.first] \in Opener  BY <2>0, Zenon DEF Opener
  <2>2. [opener[p] EXCEPT !.at = "import", !.read = catalogs.first] \in Opener  BY <2>0, Zenon DEF Opener
  <2> QED  BY <1>14, <2>1, <2>2 DEF OpenSecond, SnapshotOfFirst
<1>15. ASSUME NEW p \in Programs, Import(p) PROVE FileTyping'
  BY <1>15, SMT DEF Import, To, Opener, Nobody, Changing, Backing
<1>16. ASSUME NEW p \in Programs, EditSecond(p) PROVE FileTyping'
  BY <1>16, SMT DEF EditSecond, Opener, Nobody, Changing, Backing
<1> QED  BY <1>1, <1>2, <1>3, <1>4, <1>5, <1>6, <1>7, <1>8, <1>9, <1>10, <1>11, <1>12, <1>13, <1>14, <1>15, <1>16,
    MigrationCases

\* The catalogs and what is remembered of the past keep their form.
LEMMA KnownTypingStep ==
    ASSUME MigrationInv, [MigrationNext]_migrationVars
    PROVE  KnownTyping'
<1> USE MigrationBounds DEF MigrationInv, MigrationTyping, KnownTyping, FileTyping, Opener
<1>1. CASE UNCHANGED migrationVars  BY <1>1, SMT DEF migrationVars
<1>2. CASE Find
  <2>1. /\ catalogs' = catalogs /\ opens' = opens /\ failures' = failures
        /\ \E x \in SUBSET Content : past' = [past EXCEPT !.contents = x, !.firsts = {0}]
    <3>1. PICK kind \in {"project", "catalog", "pair"}, v \in {0} \cup Versions, d \in BOOLEAN :
             past' = [past EXCEPT !.contents = {[version |-> v, data |-> 0, damaged |-> d]},
                                  !.firsts = {0}]
      BY <1>2, Zenon DEF Find
    <3>2. v \in Nat  OBVIOUS
    <3>3. [version |-> v, data |-> 0, damaged |-> d] \in Content  BY <3>2, Zenon DEF Content
    <3> QED  BY <1>2, <3>1, <3>3 DEF Find
  <2>2. PICK x \in SUBSET Content : past' = [past EXCEPT !.contents = x, !.firsts = {0}]  BY <2>1
  <2>3. past' \in KnownPast /\ past'.upgrades = past.upgrades /\ past'.edits = past.edits
    <3>1. {0} \in SUBSET Nat  OBVIOUS
    <3> QED  BY <2>2, <3>1, Zenon DEF KnownPast
  <2> QED  BY <2>1, <2>3
<1>3. CASE FirstChanges
  <2>1. catalogs.first \in Nat /\ past.firsts \subseteq Nat  BY SMT DEF Catalogs, KnownPast
  <2>2. catalogs' \in Catalogs
    <3>1. catalogs' = [catalogs EXCEPT !.first = catalogs.first + 1] /\ catalogs.first + 1 \in Nat
      BY <1>3, <2>1 DEF FirstChanges
    <3> QED  BY <3>1, Zenon DEF Catalogs
  <2>3. past' = [past EXCEPT !.firsts = past.firsts \cup {catalogs.first + 1}]  BY <1>3 DEF FirstChanges
  <2>4. past' \in KnownPast /\ past'.upgrades = past.upgrades /\ past'.edits = past.edits
    <3>1. past.firsts \cup {catalogs.first + 1} \in SUBSET Nat  BY <2>1
    <3> QED  BY <2>3, <3>1, Zenon DEF KnownPast
  <2> QED  BY <1>3, <2>2, <2>4 DEF FirstChanges
<1>4. ASSUME NEW p \in Programs, Guard(p) PROVE KnownTyping'  BY <1>4, SMT DEF Guard, Way
<1>5. ASSUME NEW p \in Programs, Locks(p) /\ Refused(p) PROVE KnownTyping'
  BY <1>5, SMT DEF Refused, Locks, Waits, SameFile, To, Overtaken
<1>6. ASSUME NEW p \in Programs, Locks(p) /\ NothingToDo(p) PROVE KnownTyping'
  BY <1>6, SMT DEF NothingToDo, Locks, Waits, SameFile, To, AsExpected
<1>7. ASSUME NEW p \in Programs, Locks(p) /\ HasToChange(p) PROVE KnownTyping'
  BY <1>7, SMT DEF HasToChange, Locks, Waits, SameFile, To, AsExpected
<1>8. ASSUME NEW p \in Programs, LockTimeout(p) PROVE KnownTyping'  BY <1>8, SMT DEF LockTimeout, SameFile, To
<1>9. ASSUME NEW p \in Programs, Stage(p) PROVE KnownTyping'  BY <1>9, SMT DEF Stage, To
<1>10. ASSUME NEW p \in Programs, Back(p) PROVE KnownTyping'  BY <1>10, SMT DEF Back
<1>11. ASSUME NEW p \in Programs, Change(p) PROVE KnownTyping'
  <2>1. /\ past.contents \in SUBSET Content /\ past.upgrades \in SUBSET Content
        /\ Contents \in Content /\ opener[p].known \in Nat /\ file.data \in Nat
    BY SMT DEF KnownPast, Content, Contents
  <2>2. past.upgrades \cup {Contents} \in SUBSET Content  BY <2>1
  <2>3. past.contents \cup {[version |-> opener[p].known, data |-> file.data, damaged |-> FALSE]}
           \in SUBSET Content
    <3>1. [version |-> opener[p].known, data |-> file.data, damaged |-> FALSE] \in Content  BY <2>1, Zenon DEF Content
    <3> QED  BY <2>1, <3>1
  <2>4. past' = [past EXCEPT !.contents = past.contents \cup
                   {[version |-> opener[p].known, data |-> file.data, damaged |-> FALSE]},
                 !.upgrades = past.upgrades \cup {Contents}]
    BY <1>11 DEF Change
  <2>5. past' \in KnownPast /\ past'.upgrades = past.upgrades \cup {Contents} /\ past'.edits = past.edits
    BY <2>2, <2>3, <2>4, Zenon DEF KnownPast
  <2>6. IsFiniteSet(past'.upgrades)
    <3>1. IsFiniteSet(past.upgrades \cup {Contents})  BY FS_AddElement
    <3> QED  BY <2>5, <3>1
  <2> QED  BY <1>11, <2>5, <2>6 DEF Change
<1>12. ASSUME NEW p \in Programs, Write(p) PROVE KnownTyping'
  <2>1. past.contents \in SUBSET Content /\ Contents \in Content /\ file.data \in Nat
    BY SMT DEF KnownPast, Content, Contents
  <2>2. [Contents EXCEPT !.data = file.data + 1] \in Content
    <3>1. Contents.data = file.data /\ file.data + 1 \in Nat  BY <2>1 DEF Contents
    <3> QED  BY <2>1, <3>1, Zenon DEF Content
  <2>3. past' = [past EXCEPT !.contents = past.contents \cup {[Contents EXCEPT !.data = file.data + 1]}]
    BY <1>12 DEF Write, Contents
  <2>4. past' \in KnownPast /\ past'.upgrades = past.upgrades /\ past'.edits = past.edits
    <3>1. past.contents \cup {[Contents EXCEPT !.data = file.data + 1]} \in SUBSET Content  BY <2>1, <2>2
    <3> QED  BY <2>3, <3>1, Zenon DEF KnownPast
  <2> QED  BY <1>12, <2>4 DEF Write
<1>13. ASSUME NEW p \in Programs, Stop(p) PROVE KnownTyping'  BY <1>13, SMT DEF Stop, Releases
<1>14. ASSUME NEW p \in Programs, OpenSecond(p) PROVE KnownTyping'  BY <1>14, SMT DEF OpenSecond, SnapshotOfFirst
<1>15. ASSUME NEW p \in Programs, Import(p) PROVE KnownTyping'
  <2>1. catalogs' = catalogs
        \/ catalogs' = [catalogs EXCEPT !.rows = {<<"first", opener[p].read>>}, !.marker = TRUE]
    BY <1>15, Zenon DEF Import
  <2>2. {<<"first", opener[p].read>>} \in SUBSET (({"first"} \X Nat) \cup CatalogEdits)  OBVIOUS
  <2>3. catalogs' \in Catalogs  BY <2>1, <2>2, Zenon DEF Catalogs
  <2> QED  BY <1>15, <2>3 DEF Import
<1>16. ASSUME NEW p \in Programs, EditSecond(p) PROVE KnownTyping'
  <2> DEFINE edit == <<"edit", Cardinality(past.edits) + 1>>
  <2>1. edit \in CatalogEdits  BY FS_CardinalityType, SMT DEF CatalogEdits
  <2>2. /\ catalogs' = [catalogs EXCEPT !.rows = catalogs.rows \cup {edit}]
        /\ past' = [past EXCEPT !.edits = past.edits \cup {edit}]
    BY <1>16 DEF EditSecond
  <2> HIDE DEF edit
  <2>3. catalogs.rows \cup {edit} \in SUBSET (({"first"} \X Nat) \cup CatalogEdits)  BY <2>1, SMT DEF Catalogs
  <2>4. past.edits \cup {edit} \in SUBSET CatalogEdits  BY <2>1, SMT DEF KnownPast
  <2>5. catalogs' \in Catalogs  BY <2>2, <2>3, Zenon DEF Catalogs
  <2>6. past' \in KnownPast /\ past'.upgrades = past.upgrades /\ past'.edits = past.edits \cup {edit}
    BY <2>2, <2>4, Zenon DEF KnownPast
  <2>7. IsFiniteSet(past'.edits)
    <3>1. IsFiniteSet(past.edits \cup {edit})  BY FS_AddElement
    <3> QED  BY <2>6, <3>1
  <2> QED  BY <1>16, <2>5, <2>6, <2>7 DEF EditSecond
<1> QED  BY <1>1, <1>2, <1>3, <1>4, <1>5, <1>6, <1>7, <1>8, <1>9, <1>10, <1>11, <1>12, <1>13, <1>14, <1>15, <1>16,
    MigrationCases

\* The artifacts stay finitely many, and artifacts.
LEMMA ArtifactStep ==
    ASSUME MigrationInv, [MigrationNext]_migrationVars
    PROVE  (artifacts \subseteq Artifact /\ IsFiniteSet(artifacts))'
<1> USE MigrationBounds DEF MigrationInv, MigrationTyping, FileTyping, Opener
<1>1. CASE UNCHANGED migrationVars  BY <1>1, SMT DEF migrationVars
<1>2. CASE Find  BY <1>2, SMT DEF Find
<1>3. CASE FirstChanges  BY <1>3, SMT DEF FirstChanges
<1>4. ASSUME NEW p \in Programs, Guard(p) PROVE (artifacts \subseteq Artifact /\ IsFiniteSet(artifacts))'
  BY <1>4, SMT DEF Guard, Way
<1>5. ASSUME NEW p \in Programs, Locks(p) /\ Refused(p) PROVE (artifacts \subseteq Artifact /\ IsFiniteSet(artifacts))'
  BY <1>5, SMT DEF Refused, Locks, Waits, SameFile, To, Overtaken
<1>6. ASSUME NEW p \in Programs, Locks(p) /\ NothingToDo(p) PROVE (artifacts \subseteq Artifact /\ IsFiniteSet(artifacts))'
  BY <1>6, SMT DEF NothingToDo, Locks, Waits, SameFile, To, AsExpected
<1>7. ASSUME NEW p \in Programs, Locks(p) /\ HasToChange(p) PROVE (artifacts \subseteq Artifact /\ IsFiniteSet(artifacts))'
  BY <1>7, SMT DEF HasToChange, Locks, Waits, SameFile, To, AsExpected
<1>8. ASSUME NEW p \in Programs, LockTimeout(p) PROVE (artifacts \subseteq Artifact /\ IsFiniteSet(artifacts))'
  BY <1>8, SMT DEF LockTimeout, SameFile, To
<1>9. ASSUME NEW p \in Programs, Stage(p) PROVE (artifacts \subseteq Artifact /\ IsFiniteSet(artifacts))'
  <2>1. artifacts' = artifacts \cup
            {[by |-> p, id |-> opens, part |-> "staged", db |-> FALSE, manifest |-> FALSE,
              of |-> Contents, to |-> opener[p].known]}
    BY <1>9 DEF Stage
  <2>2. Contents \in Content /\ opener[p].known \in Nat /\ opens \in Nat  BY SMT DEF Contents, Content, KnownTyping
  <2>3. [by |-> p, id |-> opens, part |-> "staged", db |-> FALSE, manifest |-> FALSE,
         of |-> Contents, to |-> opener[p].known] \in Artifact
    BY <2>2 DEF Artifact, Making0
  <2> QED  BY <2>1, <2>2, <2>3, FS_AddElement
<1>10. ASSUME NEW p \in Programs, Back(p) PROVE (artifacts \subseteq Artifact /\ IsFiniteSet(artifacts))'
  BY <1>10 DEF Back, Marked
<1>11. ASSUME NEW p \in Programs, Change(p) PROVE (artifacts \subseteq Artifact /\ IsFiniteSet(artifacts))'
  BY <1>11, SMT DEF Change, To
<1>12. ASSUME NEW p \in Programs, Write(p) PROVE (artifacts \subseteq Artifact /\ IsFiniteSet(artifacts))'
  BY <1>12, SMT DEF Write
<1>13. ASSUME NEW p \in Programs, Stop(p) PROVE (artifacts \subseteq Artifact /\ IsFiniteSet(artifacts))'
  BY <1>13, StopMarks DEF Marked
<1>14. ASSUME NEW p \in Programs, OpenSecond(p) PROVE (artifacts \subseteq Artifact /\ IsFiniteSet(artifacts))'
  BY <1>14, SMT DEF OpenSecond, SnapshotOfFirst
<1>15. ASSUME NEW p \in Programs, Import(p) PROVE (artifacts \subseteq Artifact /\ IsFiniteSet(artifacts))'
  BY <1>15, SMT DEF Import, To
<1>16. ASSUME NEW p \in Programs, EditSecond(p) PROVE (artifacts \subseteq Artifact /\ IsFiniteSet(artifacts))'
  BY <1>16, SMT DEF EditSecond
<1> QED  BY <1>1, <1>2, <1>3, <1>4, <1>5, <1>6, <1>7, <1>8, <1>9, <1>10, <1>11, <1>12, <1>13, <1>14, <1>15, <1>16,
    MigrationCases

\* A file that is not there yet is nobody's to change.
LEMMA NewFileStep ==
    ASSUME MigrationInv, [MigrationNext]_migrationVars
    PROVE  NewFileInv'
<1> USE MigrationBounds DEF MigrationInv, MigrationTyping, FileTyping, Opener, NewFileInv
<1>1. CASE UNCHANGED migrationVars  BY <1>1, SMT DEF migrationVars, Nobody, Changing, Backing
<1>2. CASE Find  BY <1>2, SMT DEF Find, Nobody, Changing, Backing
<1>3. CASE FirstChanges  BY <1>3, SMT DEF FirstChanges, Nobody, Changing, Backing
<1>4. ASSUME NEW p \in Programs, Guard(p) PROVE NewFileInv'  BY <1>4, SMT DEF Guard, Way, Nobody, Changing, Backing
<1>5. ASSUME NEW p \in Programs, Locks(p) /\ Refused(p) PROVE NewFileInv'
  BY <1>5, SMT DEF Refused, Locks, Waits, SameFile, To, Overtaken, Nobody, Changing, Backing
<1>6. ASSUME NEW p \in Programs, Locks(p) /\ NothingToDo(p) PROVE NewFileInv'
  BY <1>6, SMT DEF NothingToDo, Locks, Waits, SameFile, To, AsExpected, Nobody, Changing, Backing
<1>7. ASSUME NEW p \in Programs, Locks(p) /\ HasToChange(p) PROVE NewFileInv'
  BY <1>7, SMT DEF HasToChange, Locks, Waits, SameFile, To, AsExpected, Nobody, Changing, Backing
<1>8. ASSUME NEW p \in Programs, LockTimeout(p) PROVE NewFileInv'
  BY <1>8, SMT DEF LockTimeout, SameFile, To, Nobody, Changing, Backing
<1>9. ASSUME NEW p \in Programs, Stage(p) PROVE NewFileInv'  BY <1>9, SMT DEF Stage, To, Nobody, Changing, Backing
<1>10. ASSUME NEW p \in Programs, Back(p) PROVE NewFileInv'  BY <1>10, SMT DEF Back, Nobody, Changing, Backing
<1>11. ASSUME NEW p \in Programs, Change(p) PROVE NewFileInv'  BY <1>11, SMT DEF Change, To, Nobody, Changing, Backing
<1>12. ASSUME NEW p \in Programs, Write(p) PROVE NewFileInv'  BY <1>12, SMT DEF Write, Nobody, Changing, Backing
<1>13. ASSUME NEW p \in Programs, Stop(p) PROVE NewFileInv'  BY <1>13, SMT DEF Stop, Releases, Nobody, Changing, Backing
<1>14. ASSUME NEW p \in Programs, OpenSecond(p) PROVE NewFileInv'
  BY <1>14, SMT DEF OpenSecond, SnapshotOfFirst, Nobody, Changing, Backing
<1>15. ASSUME NEW p \in Programs, Import(p) PROVE NewFileInv'  BY <1>15, SMT DEF Import, To, Nobody, Changing, Backing
<1>16. ASSUME NEW p \in Programs, EditSecond(p) PROVE NewFileInv'
  BY <1>16, SMT DEF EditSecond, Nobody, Changing, Backing
<1> QED  BY <1>1, <1>2, <1>3, <1>4, <1>5, <1>6, <1>7, <1>8, <1>9, <1>10, <1>11, <1>12, <1>13, <1>14, <1>15, <1>16,
    MigrationCases

\* One program at most is changing the file, and the file is as it read it.
LEMMA OpenerStep ==
    ASSUME MigrationInv, [MigrationNext]_migrationVars
    PROVE  OpenerInv'
<1> USE MigrationBounds DEF MigrationInv, MigrationTyping, FileTyping, Opener, NewFileInv, OpenerInv, OneChanger
<1>1. CASE UNCHANGED migrationVars  BY <1>1, SMT DEF migrationVars, Nobody, Changing, Backing
<1>2. CASE Find  BY <1>2, SMT DEF Find, Nobody, Changing, Backing
<1>3. CASE FirstChanges  BY <1>3, SMT DEF FirstChanges, Nobody, Changing, Backing
<1>4. ASSUME NEW p \in Programs, Guard(p) PROVE OpenerInv'  BY <1>4, SMT DEF Guard, Way, Nobody, Changing, Backing
<1>5. ASSUME NEW p \in Programs, Locks(p) /\ Refused(p) PROVE OpenerInv'
  BY <1>5, SMT DEF Refused, Locks, Waits, SameFile, To, Overtaken, Nobody, Changing, Backing
<1>6. ASSUME NEW p \in Programs, Locks(p) /\ NothingToDo(p) PROVE OpenerInv'
  BY <1>6, SMT DEF NothingToDo, Locks, Waits, SameFile, To, AsExpected, Nobody, Changing, Backing
<1>7. ASSUME NEW p \in Programs, Locks(p) /\ HasToChange(p) PROVE OpenerInv'
  BY <1>7, SMT DEF HasToChange, Locks, Waits, SameFile, To, AsExpected, Nobody, Changing, Backing
<1>8. ASSUME NEW p \in Programs, LockTimeout(p) PROVE OpenerInv'
  BY <1>8, SMT DEF LockTimeout, SameFile, To, Nobody, Changing, Backing
<1>9. ASSUME NEW p \in Programs, Stage(p) PROVE OpenerInv'  BY <1>9, SMT DEF Stage, To, Nobody, Changing, Backing
<1>10. ASSUME NEW p \in Programs, Back(p) PROVE OpenerInv'  BY <1>10, SMT DEF Back, Nobody, Changing, Backing
<1>11. ASSUME NEW p \in Programs, Change(p) PROVE OpenerInv'  BY <1>11, SMT DEF Change, To, Nobody, Changing, Backing
<1>12. ASSUME NEW p \in Programs, Write(p) PROVE OpenerInv'  BY <1>12, SMT DEF Write, Nobody, Changing, Backing
<1>13. ASSUME NEW p \in Programs, Stop(p) PROVE OpenerInv'  BY <1>13, SMT DEF Stop, Releases, Nobody, Changing, Backing
<1>14. ASSUME NEW p \in Programs, OpenSecond(p) PROVE OpenerInv'
  BY <1>14, SMT DEF OpenSecond, SnapshotOfFirst, Nobody, Changing, Backing
<1>15. ASSUME NEW p \in Programs, Import(p) PROVE OpenerInv'  BY <1>15, SMT DEF Import, To, Nobody, Changing, Backing
<1>16. ASSUME NEW p \in Programs, EditSecond(p) PROVE OpenerInv'
  BY <1>16, SMT DEF EditSecond, Nobody, Changing, Backing
<1> QED  BY <1>1, <1>2, <1>3, <1>4, <1>5, <1>6, <1>7, <1>8, <1>9, <1>10, <1>11, <1>12, <1>13, <1>14, <1>15, <1>16,
    MigrationCases

\* The artifacts in the making of a program.
LEMMA MakingHas ==
    ASSUME MigrationTyping, NEW p \in Programs, NEW a
    PROVE  a \in Making(p) <=> a \in artifacts /\ a.by = p /\ a.part \in Making0
  BY SMT DEF Making, MigrationTyping, Artifact, Making0

\* Artifacts in the making are of the file as it is.
LEMMA MakingStep ==
    ASSUME MigrationInv, [MigrationNext]_migrationVars
    PROVE  MakingInv'
<1> USE MigrationBounds DEF MigrationInv, MigrationTyping, FileTyping, Opener, NewFileInv, OpenerInv, OneChanger, MakingInv
<1>1. CASE UNCHANGED migrationVars
  BY <1>1, SMT DEF migrationVars, Making, Enumerated, Contents, Artifact, Nobody, Changing, Backing, Making0
<1>2. CASE Find  BY <1>2, SMT DEF Find, Making, Enumerated, Contents, Artifact, Nobody, Changing, Backing, Making0
<1>3. CASE FirstChanges
  BY <1>3, SMT DEF FirstChanges, Making, Enumerated, Contents, Artifact, Nobody, Changing, Backing, Making0
<1>4. ASSUME NEW p \in Programs, Guard(p) PROVE MakingInv'
  BY <1>4, SMT DEF Guard, Way, Making, Enumerated, Contents, Artifact, Nobody, Changing, Backing, Making0
<1>5. ASSUME NEW p \in Programs, Locks(p) /\ Refused(p) PROVE MakingInv'
  BY <1>5, SMT DEF Refused, Locks, Waits, SameFile, To, Overtaken, Making, Enumerated, Contents, Artifact, Nobody,
    Changing, Backing, Making0
<1>6. ASSUME NEW p \in Programs, Locks(p) /\ NothingToDo(p) PROVE MakingInv'
  BY <1>6, SMT DEF NothingToDo, Locks, Waits, SameFile, To, AsExpected, Making, Enumerated, Contents, Artifact, Nobody,
    Changing, Backing, Making0
<1>7. ASSUME NEW p \in Programs, Locks(p) /\ HasToChange(p) PROVE MakingInv'
  BY <1>7, SMT DEF HasToChange, Locks, Waits, SameFile, To, AsExpected, Making, Enumerated, Contents, Artifact, Nobody,
    Changing, Backing, Making0
<1>8. ASSUME NEW p \in Programs, LockTimeout(p) PROVE MakingInv'
  BY <1>8, SMT DEF LockTimeout, SameFile, To, Making, Enumerated, Contents, Artifact, Nobody, Changing, Backing, Making0
<1>9. ASSUME NEW p \in Programs, Stage(p) PROVE MakingInv'
  <2> DEFINE new == [by |-> p, id |-> opens, part |-> "staged", db |-> FALSE, manifest |-> FALSE,
                     of |-> Contents, to |-> opener[p].known]
  <2>1. artifacts' = artifacts \cup {new} /\ file' = file  BY <1>9 DEF Stage
  <2>2. new.by = p /\ new.of = Contents /\ new.part = "staged"  OBVIOUS
  <2> HIDE DEF new
  <2>3. /\ opener'[p].at = "reserve" /\ \A q \in Programs : q # p => opener'[q] = opener[q]
        /\ opener[p].at = "stage"
    BY <1>9, SMT DEF Stage, To
  <2>4. Contents' = Contents  BY <2>1 DEF Contents
  <2>5. \A a \in artifacts : a.by \in Programs  BY SMT DEF Artifact
  <2>6. \A a \in artifacts : a.part \in Making0 => a.by # p  BY <2>3 DEF Backing
  <2>7. \A a \in artifacts' : a.part \in Making0 => opener'[a.by].at \in Backing /\ a.of = Contents'
    BY <2>1, <2>2, <2>3, <2>4, <2>5, <2>6, SMT DEF Backing
  <2>8. \A q \in Programs : opener'[q].at \in Backing => Making(q)' # {}  BY <2>1, <2>2, <2>3, SMT DEF Making
  <2>9. \A a \in Enumerated : a \in Enumerated'  BY <2>1 DEF Enumerated
  <2> QED  BY <2>1, <2>3, <2>4, <2>7, <2>8, <2>9
<1>10. ASSUME NEW p \in Programs, Back(p) PROVE MakingInv'
  <2>1. PICK part \in Making0 \cup {"complete"}, at \in Backing \cup {"change"} :
           /\ opener[p].at \in Backing /\ opener' = [opener EXCEPT ![p].at = at]
           /\ part = "complete" <=> at = "change"
           /\ Marked(p, part)
           /\ UNCHANGED <<file, writer, catalogs, opens, failures, past>>
    BY <1>10 DEF Back
  <2>2. Contents' = Contents  BY <2>1 DEF Contents
  <2>3. opener'[p].at = at /\ \A q \in Programs : q # p => opener'[q] = opener[q]  BY <2>1, SMT
  <2>4. (at = "change" /\ part = "complete") \/ (at \in Backing /\ part \in Making0)  BY <2>1
  <2>5. "complete" \notin Making0 /\ "change" \notin Backing  BY DEF Making0, Backing
  <2>6. ASSUME NEW a \in artifacts', a.part \in Making0 PROVE opener'[a.by].at \in Backing /\ a.of = Contents'
    <3>1. CASE a \in artifacts /\ a.by = p
      <4>1. a \in Making(p)  BY <2>6, <3>1, MakingHas
      <4>2. a.part = part  BY <4>1, <2>1 DEF Marked
      <4> QED  BY <2>2, <2>3, <2>4, <2>5, <2>6, <3>1, <4>2
    <3>2. CASE a \in artifacts /\ a.by # p
      <4>1. a.by \in Programs  BY <3>2, SMT DEF Artifact
      <4> QED  BY <2>2, <2>3, <2>6, <3>2, <4>1
    <3>3. CASE a \notin artifacts
      <4>1. PICK c \in Making(p) : a.of = c.of  BY <3>3, <2>1 DEF Marked
      <4>2. a.by = p /\ a.part = part  BY <3>3, <2>1 DEF Marked
      <4> QED  BY <2>2, <2>3, <2>4, <2>5, <2>6, <4>1, <4>2, MakingHas
    <3> QED  BY <3>1, <3>2, <3>3
  <2>7. ASSUME NEW q \in Programs, opener'[q].at \in Backing PROVE Making(q)' # {}
    <3>1. CASE q = p
      <4>1. PICK a \in Making(p) : TRUE  BY <2>1
      <4>2. PICK b \in artifacts' : b.by = p /\ b.part = part  BY <4>1, <2>1 DEF Marked
      <4>3. part \notin {"complete", "left"}  BY <2>3, <2>4, <2>5, <2>7, <3>1 DEF Making0
      <4> QED  BY <3>1, <4>2, <4>3 DEF Making
    <3>2. CASE q # p
      <4>1. PICK a \in Making(q) : TRUE  BY <2>3, <2>7, <3>2
      <4>2. a \in artifacts /\ a.by = q /\ a.part \notin {"complete", "left"}  BY <4>1 DEF Making
      <4>3. a \in artifacts'  BY <3>2, <4>2, <2>1 DEF Marked, Making
      <4> QED  BY <4>2, <4>3 DEF Making
    <3> QED  BY <3>1, <3>2
  <2>8. ASSUME NEW q \in Programs, opener'[q].at = "change"
        PROVE  (file.version = 0 \/ \E a \in Enumerated : a.of = Contents)'
    <3>1. CASE q = p
      <4>1. PICK a \in Making(p) : TRUE  BY <2>1
      <4>2. PICK b \in artifacts' : b.part = part /\ (part = "complete" => b.db /\ b.manifest) /\ b.of = a.of
        BY <4>1, <2>1 DEF Marked
      <4>3. part = "complete"  BY <2>1, <2>3, <2>8, <3>1
      <4>4. a.of = Contents  BY <4>1, MakingHas
      <4> QED  BY <2>2, <4>2, <4>3, <4>4 DEF Enumerated
    <3>2. CASE q # p
      <4>1. opener[q].at = "change"  BY <2>3, <2>8, <3>2
      <4> QED  BY <2>1, <2>2, <4>1 DEF Enumerated, Marked, Making
    <3> QED  BY <3>1, <3>2
  <2> QED  BY <2>6, <2>7, <2>8
<1>11. ASSUME NEW p \in Programs, Change(p) PROVE MakingInv'
  BY <1>11, SMT DEF Change, To, Making, Enumerated, Contents, Artifact, Nobody, Changing, Backing, Making0
<1>12. ASSUME NEW p \in Programs, Write(p) PROVE MakingInv'
  BY <1>12, SMT DEF Write, Making, Enumerated, Contents, Artifact, Nobody, Changing, Backing, Making0
<1>13. ASSUME NEW p \in Programs, Stop(p) PROVE MakingInv'
  BY <1>13, SMT DEF Stop, Releases, Making, Enumerated, Contents, Artifact, Nobody, Changing, Backing, Making0
<1>14. ASSUME NEW p \in Programs, OpenSecond(p) PROVE MakingInv'
  BY <1>14, SMT DEF OpenSecond, SnapshotOfFirst, Making, Enumerated, Contents, Artifact, Nobody, Changing, Backing,
    Making0
<1>15. ASSUME NEW p \in Programs, Import(p) PROVE MakingInv'
  BY <1>15, SMT DEF Import, To, Making, Enumerated, Contents, Artifact, Nobody, Changing, Backing, Making0
<1>16. ASSUME NEW p \in Programs, EditSecond(p) PROVE MakingInv'
  BY <1>16, SMT DEF EditSecond, Making, Enumerated, Contents, Artifact, Nobody, Changing, Backing, Making0
<1> QED  BY <1>1, <1>2, <1>3, <1>4, <1>5, <1>6, <1>7, <1>8, <1>9, <1>10, <1>11, <1>12, <1>13, <1>14, <1>15, <1>16,
    MigrationCases

\* A publication keeps what can be adopted.
LEMMA MarkedKeeps == ASSUME NEW p, NEW part, Marked(p, part) PROVE Enumerated \subseteq Enumerated'
  BY DEF Marked, Enumerated, Making

\* What was upgraded is behind the file, or can be had back.
LEMMA PastStep ==
    ASSUME MigrationInv, [MigrationNext]_migrationVars
    PROVE  PastInv'
<1> USE MigrationBounds DEF MigrationInv, MigrationTyping, FileTyping, Opener, NewFileInv, OpenerInv, OneChanger, MakingInv, PastInv, EveryUpgradeIsBackedUp
<1>1. CASE UNCHANGED migrationVars
  BY <1>1, SMT DEF migrationVars, Making, Enumerated, Contents, Artifact, Nobody, Changing, Backing, Making0, KnownPast,
    KnownTyping
<1>2. CASE Find
  BY <1>2, SMT DEF Find, Making, Enumerated, Contents, Artifact, Nobody, Changing, Backing, Making0, KnownPast,
    KnownTyping
<1>3. CASE FirstChanges
  BY <1>3, SMT DEF FirstChanges, Making, Enumerated, Contents, Artifact, Nobody, Changing, Backing, Making0, KnownPast,
    KnownTyping
<1>4. ASSUME NEW p \in Programs, Guard(p) PROVE PastInv'
  BY <1>4, SMT DEF Guard, Way, Making, Enumerated, Contents, Artifact, Nobody, Changing, Backing, Making0, KnownPast,
    KnownTyping
<1>5. ASSUME NEW p \in Programs, Locks(p) /\ Refused(p) PROVE PastInv'
  BY <1>5, SMT DEF Refused, Locks, Waits, SameFile, To, Overtaken, Making, Enumerated, Contents, Artifact, Nobody,
    Changing, Backing, Making0, KnownPast, KnownTyping
<1>6. ASSUME NEW p \in Programs, Locks(p) /\ NothingToDo(p) PROVE PastInv'
  BY <1>6, SMT DEF NothingToDo, Locks, Waits, SameFile, To, AsExpected, Making, Enumerated, Contents, Artifact, Nobody,
    Changing, Backing, Making0, KnownPast, KnownTyping
<1>7. ASSUME NEW p \in Programs, Locks(p) /\ HasToChange(p) PROVE PastInv'
  BY <1>7, SMT DEF HasToChange, Locks, Waits, SameFile, To, AsExpected, Making, Enumerated, Contents, Artifact, Nobody,
    Changing, Backing, Making0, KnownPast, KnownTyping
<1>8. ASSUME NEW p \in Programs, LockTimeout(p) PROVE PastInv'
  BY <1>8, SMT DEF LockTimeout, SameFile, To, Making, Enumerated, Contents, Artifact, Nobody, Changing, Backing,
    Making0, KnownPast, KnownTyping
<1>9. ASSUME NEW p \in Programs, Stage(p) PROVE PastInv'
  BY <1>9, SMT DEF Stage, To, Making, Enumerated, Contents, Artifact, Nobody, Changing, Backing, Making0, KnownPast,
    KnownTyping
<1>10. ASSUME NEW p \in Programs, Back(p) PROVE PastInv'
  <2>1. PICK part : Marked(p, part)  BY <1>10 DEF Back
  <2>2. UNCHANGED <<file, past>> /\ Contents' = Contents  BY <1>10 DEF Back, Contents
  <2>3. EveryUpgradeIsBackedUp'  BY <2>1, <2>2, MarkedKeeps
  <2>4. \A a \in Making(p) : a \in artifacts  BY DEF Making
  <2>5. \A a \in artifacts' : a.of \in past.contents /\ (a.of.version < a.to \/ a.of.damaged)
    <3>1. SUFFICES ASSUME NEW a \in artifacts', a \notin artifacts
                   PROVE  a.of \in past.contents /\ (a.of.version < a.to \/ a.of.damaged)
      OBVIOUS
    <3>2. PICK c \in Making(p) : a.of = c.of /\ a.to = c.to  BY <2>1, <3>1 DEF Marked
    <3> QED  BY <2>4, <3>2
  <2> QED  BY <2>2, <2>3, <2>5
<1>11. ASSUME NEW p \in Programs, Change(p) PROVE PastInv'
  <2>1. /\ file' = [file EXCEPT !.version = opener[p].known, !.damaged = FALSE]
        /\ past'.contents = past.contents \cup
             {[version |-> opener[p].known, data |-> file.data, damaged |-> FALSE]}
        /\ past'.upgrades = past.upgrades \cup {Contents}
        /\ artifacts' = artifacts /\ opener[p].at = "change"
    BY <1>11, SMT DEF Change, KnownTyping, KnownPast
  <2>2. file'.version = opener[p].known /\ file'.data = file.data /\ ~file'.damaged
        /\ file'.damaged = FALSE
    BY <2>1, SMT
  <2>3. Contents' = [version |-> opener[p].known, data |-> file.data, damaged |-> FALSE]  BY <2>2, Zenon DEF Contents
  <2>4. Contents.version = file.version /\ (Contents.damaged <=> file.damaged)  BY DEF Contents
  <2>5. file.version < opener[p].known \/ (file.version = opener[p].known /\ file.damaged)  BY <2>1 DEF Changing
  <2>6. \A c \in past'.upgrades :
           \/ c.version < file'.version
           \/ c.version = file'.version /\ c.damaged /\ ~file'.damaged
    <3>1. ASSUME NEW c \in past.upgrades PROVE c.version \in Nat /\ file.version \in Nat /\ opener[p].known \in Nat
      BY SMT DEF KnownTyping, KnownPast, Content
    <3>2. ASSUME NEW c \in past.upgrades
          PROVE  \/ c.version < file'.version
                 \/ c.version = file'.version /\ c.damaged /\ ~file'.damaged
      BY <2>2, <2>5, <3>1, SMT
    <3> QED  BY <2>1, <3>2, <2>2, <2>4, <2>5
  <2>7. Contents' \in past'.contents  BY <2>1, <2>3
  <2>8. Enumerated' = Enumerated  BY <2>1 DEF Enumerated
  <2>9. EveryUpgradeIsBackedUp'  BY <2>1, <2>4, <2>8
  <2> QED  BY <2>6, <2>7, <2>1, <2>9
<1>12. ASSUME NEW p \in Programs, Write(p) PROVE PastInv'
  BY <1>12, SMT DEF Write, Making, Enumerated, Contents, Artifact, Nobody, Changing, Backing, Making0, KnownPast,
    KnownTyping
<1>13. ASSUME NEW p \in Programs, Stop(p) PROVE PastInv'
  <2>1. Marked(p, "left")  BY <1>13, StopMarks
  <2>2. UNCHANGED <<file, past>> /\ Contents' = Contents  BY <1>13 DEF Stop, Contents
  <2>3. EveryUpgradeIsBackedUp'  BY <2>1, <2>2, MarkedKeeps
  <2>4. \A a \in Making(p) : a \in artifacts  BY DEF Making
  <2>5. \A a \in artifacts' : a.of \in past.contents /\ (a.of.version < a.to \/ a.of.damaged)
    <3>1. SUFFICES ASSUME NEW a \in artifacts', a \notin artifacts
                   PROVE  a.of \in past.contents /\ (a.of.version < a.to \/ a.of.damaged)
      OBVIOUS
    <3>2. PICK c \in Making(p) : a.of = c.of /\ a.to = c.to  BY <2>1, <3>1 DEF Marked
    <3> QED  BY <2>4, <3>2
  <2> QED  BY <2>2, <2>3, <2>5
<1>14. ASSUME NEW p \in Programs, OpenSecond(p) PROVE PastInv'
  BY <1>14, SMT DEF OpenSecond, SnapshotOfFirst, Making, Enumerated, Contents, Artifact, Nobody, Changing, Backing,
    Making0, KnownPast, KnownTyping
<1>15. ASSUME NEW p \in Programs, Import(p) PROVE PastInv'
  BY <1>15, SMT DEF Import, To, Making, Enumerated, Contents, Artifact, Nobody, Changing, Backing, Making0, KnownPast,
    KnownTyping
<1>16. ASSUME NEW p \in Programs, EditSecond(p) PROVE PastInv'
  BY <1>16, SMT DEF EditSecond, Making, Enumerated, Contents, Artifact, Nobody, Changing, Backing, Making0, KnownPast,
    KnownTyping
<1> QED  BY <1>1, <1>2, <1>3, <1>4, <1>5, <1>6, <1>7, <1>8, <1>9, <1>10, <1>11, <1>12, <1>13, <1>14, <1>15, <1>16,
    MigrationCases

\* The first catalog was read at one moment.
LEMMA ImportStep ==
    ASSUME MigrationInv, [MigrationNext]_migrationVars
    PROVE  ImportInv'
<1> USE MigrationBounds DEF MigrationInv, MigrationTyping, FileTyping, Opener, KnownTyping, NewFileInv, ImportInv
<1>1. CASE UNCHANGED migrationVars
  BY <1>1, SMT DEF migrationVars, Catalogs, CatalogEdits, KnownPast, Nobody, Changing, Backing
<1>2. CASE Find  BY <1>2, SMT DEF Find, Catalogs, CatalogEdits, KnownPast, Nobody, Changing, Backing
<1>3. CASE FirstChanges  BY <1>3, SMT DEF FirstChanges, Catalogs, CatalogEdits, KnownPast, Nobody, Changing, Backing
<1>4. ASSUME NEW p \in Programs, Guard(p) PROVE ImportInv'
  BY <1>4, SMT DEF Guard, Way, Catalogs, CatalogEdits, KnownPast, Nobody, Changing, Backing
<1>5. ASSUME NEW p \in Programs, Locks(p) /\ Refused(p) PROVE ImportInv'
  BY <1>5, SMT DEF Refused, Locks, Waits, SameFile, To, Overtaken, Catalogs, CatalogEdits, KnownPast, Nobody, Changing,
    Backing
<1>6. ASSUME NEW p \in Programs, Locks(p) /\ NothingToDo(p) PROVE ImportInv'
  BY <1>6, SMT DEF NothingToDo, Locks, Waits, SameFile, To, AsExpected, Catalogs, CatalogEdits, KnownPast, Nobody,
    Changing, Backing
<1>7. ASSUME NEW p \in Programs, Locks(p) /\ HasToChange(p) PROVE ImportInv'
  BY <1>7, SMT DEF HasToChange, Locks, Waits, SameFile, To, AsExpected, Catalogs, CatalogEdits, KnownPast, Nobody,
    Changing, Backing
<1>8. ASSUME NEW p \in Programs, LockTimeout(p) PROVE ImportInv'
  BY <1>8, SMT DEF LockTimeout, SameFile, To, Catalogs, CatalogEdits, KnownPast, Nobody, Changing, Backing
<1>9. ASSUME NEW p \in Programs, Stage(p) PROVE ImportInv'
  BY <1>9, SMT DEF Stage, To, Catalogs, CatalogEdits, KnownPast, Nobody, Changing, Backing
<1>10. ASSUME NEW p \in Programs, Back(p) PROVE ImportInv'
  BY <1>10, SMT DEF Back, Catalogs, CatalogEdits, KnownPast, Nobody, Changing, Backing
<1>11. ASSUME NEW p \in Programs, Change(p) PROVE ImportInv'
  BY <1>11, SMT DEF Change, To, Catalogs, CatalogEdits, KnownPast, Nobody, Changing, Backing
<1>12. ASSUME NEW p \in Programs, Write(p) PROVE ImportInv'
  BY <1>12, SMT DEF Write, Catalogs, CatalogEdits, KnownPast, Nobody, Changing, Backing
<1>13. ASSUME NEW p \in Programs, Stop(p) PROVE ImportInv'
  BY <1>13, SMT DEF Stop, Releases, Catalogs, CatalogEdits, KnownPast, Nobody, Changing, Backing
<1>14. ASSUME NEW p \in Programs, OpenSecond(p) PROVE ImportInv'
  BY <1>14, SMT DEF OpenSecond, SnapshotOfFirst, Catalogs, CatalogEdits, KnownPast, Nobody, Changing, Backing
<1>15. ASSUME NEW p \in Programs, Import(p) PROVE ImportInv'
  <2>1. UNCHANGED <<file, past>>
        /\ \A q \in Programs : opener'[q].at = "import" => opener[q].at = "import" /\ opener'[q].read = opener[q].read
    BY <1>15, SMT DEF Import, To
  <2>2. CASE catalogs' = catalogs  BY <2>1, <2>2, SMT
  <2>3. CASE catalogs.rows = {} /\ catalogs' = [catalogs EXCEPT !.rows = {<<"first", opener[p].read>>}, !.marker = TRUE]
    <3>1. catalogs'.rows = {<<"first", opener[p].read>>} /\ catalogs'.marker /\ catalogs'.first = catalogs.first
      BY <2>3, SMT DEF Catalogs
    <3>2. past.edits = {}  BY <2>3
    <3>3. opener[p].read \in past.firsts  BY <1>15 DEF Import
    <3> QED  BY <2>1, <3>1, <3>2, <3>3
  <2>4. \/ catalogs' = catalogs
        \/ catalogs.rows = {} /\ catalogs' = [catalogs EXCEPT !.rows = {<<"first", opener[p].read>>}, !.marker = TRUE]
    BY <1>15, Zenon DEF Import
  <2> QED  BY <2>2, <2>3, <2>4
<1>16. ASSUME NEW p \in Programs, EditSecond(p) PROVE ImportInv'
  BY <1>16, SMT DEF EditSecond, Catalogs, CatalogEdits, KnownPast, Nobody, Changing, Backing
<1> QED  BY <1>1, <1>2, <1>3, <1>4, <1>5, <1>6, <1>7, <1>8, <1>9, <1>10, <1>11, <1>12, <1>13, <1>14, <1>15, <1>16,
    MigrationCases

\* An attempt that is at work has made at most one artifact more than was used.
LEMMA CountStep ==
    ASSUME MigrationInv, [MigrationNext]_migrationVars
    PROVE  CountInv'
<1> USE MigrationBounds DEF MigrationInv, MigrationTyping, FileTyping, Opener, OpenerInv, OneChanger
<1> DEFINE Old == IF AtWork THEN 1 ELSE 0
           New == IF AtWork' THEN 1 ELSE 0
<1>1. /\ Cardinality(artifacts) \in Nat /\ Cardinality(past.upgrades) \in Nat /\ failures \in Nat
      /\ Cardinality(artifacts) <= Cardinality(past.upgrades) + failures + Old
  BY FS_CardinalityType DEF CountInv, KnownTyping
<1>2. Old \in {0, 1} /\ New \in {0, 1}  OBVIOUS
<1>3. /\ Cardinality(artifacts') \in Nat /\ Cardinality(past'.upgrades) \in Nat /\ failures' \in Nat
  BY ArtifactStep, KnownTypingStep, FS_CardinalityType DEF KnownTyping
<1>4. ASSUME Cardinality(artifacts') - Cardinality(artifacts) <=
                (Cardinality(past'.upgrades) - Cardinality(past.upgrades))
                + (failures' - failures) + (New - Old)
      PROVE  CountInv'
  <2> HIDE DEF Old, New
  <2> USE DEF New
  <2> QED  BY <1>1, <1>2, <1>3, <1>4 DEF CountInv
<1> DEFINE AsItWas == artifacts' = artifacts /\ past'.upgrades = past.upgrades /\ failures' = failures
<1>5. ASSUME AsItWas, \A q \in Programs : opener[q].at = "change" => opener'[q].at = "change"
      PROVE  CountInv'
  <2>1. AtWork => AtWork'  BY <1>5 DEF AtWork, Making
  <2>2. Old <= New  BY <2>1
  <2> HIDE DEF Old, New
  <2> QED  BY <1>1, <1>2, <1>3, <1>4, <1>5, <2>2
<1>6. CASE UNCHANGED migrationVars  BY <1>5, <1>6 DEF migrationVars
<1>7. CASE Find
  <2>1. past'.upgrades = past.upgrades  BY <1>7, SMT DEF Find, KnownTyping, KnownPast
  <2> QED  BY <1>5, <1>7, <2>1 DEF Find
<1>8. CASE FirstChanges
  <2>1. past'.upgrades = past.upgrades  BY <1>8, SMT DEF FirstChanges, KnownTyping, KnownPast
  <2> QED  BY <1>5, <1>8, <2>1 DEF FirstChanges
<1>9. ASSUME NEW p \in Programs, Guard(p) PROVE CountInv'
  <2>1. \A q \in Programs : opener[q].at = "change" => opener'[q].at = "change"  BY <1>9, SMT DEF Guard, Way
  <2>2. AsItWas  BY <1>9 DEF Guard
  <2> QED  BY <1>5, <2>1, <2>2
<1>10. ASSUME NEW p \in Programs, Locks(p) /\ Refused(p) PROVE CountInv'
  <2>1. \A q \in Programs : opener[q].at = "change" => opener'[q].at = "change"
    BY <1>10, SMT DEF Refused, Locks, Waits, SameFile, To, Overtaken
  <2>2. AsItWas  BY <1>10 DEF Refused, Locks, SameFile
  <2> QED  BY <1>5, <2>1, <2>2
<1>11. ASSUME NEW p \in Programs, Locks(p) /\ NothingToDo(p) PROVE CountInv'
  <2>1. \A q \in Programs : opener[q].at = "change" => opener'[q].at = "change"
    BY <1>11, SMT DEF NothingToDo, Locks, Waits, SameFile, To, AsExpected
  <2>2. AsItWas  BY <1>11 DEF NothingToDo, Locks, SameFile
  <2> QED  BY <1>5, <2>1, <2>2
<1>12. ASSUME NEW p \in Programs, Locks(p) /\ HasToChange(p) PROVE CountInv'
  <2>1. \A q \in Programs : opener[q].at = "change" => opener'[q].at = "change"
    BY <1>12, SMT DEF HasToChange, Locks, Waits, SameFile, To, AsExpected
  <2>2. AsItWas  BY <1>12 DEF HasToChange, Locks, SameFile
  <2> QED  BY <1>5, <2>1, <2>2
<1>13. ASSUME NEW p \in Programs, LockTimeout(p) PROVE CountInv'
  <2>1. \A q \in Programs : opener[q].at = "change" => opener'[q].at = "change"
    BY <1>13, SMT DEF LockTimeout, SameFile, To
  <2>2. AsItWas  BY <1>13 DEF LockTimeout, SameFile
  <2> QED  BY <1>5, <2>1, <2>2
<1>14. ASSUME NEW p \in Programs, OpenSecond(p) PROVE CountInv'
  <2>1. \A q \in Programs : opener[q].at = "change" => opener'[q].at = "change"
    BY <1>14, SMT DEF OpenSecond, SnapshotOfFirst
  <2>2. AsItWas  BY <1>14 DEF OpenSecond
  <2> QED  BY <1>5, <2>1, <2>2
<1>15. ASSUME NEW p \in Programs, Import(p) PROVE CountInv'
  <2>1. \A q \in Programs : opener[q].at = "change" => opener'[q].at = "change"  BY <1>15, SMT DEF Import, To
  <2>2. AsItWas  BY <1>15 DEF Import
  <2> QED  BY <1>5, <2>1, <2>2
<1>16. ASSUME NEW p \in Programs, Write(p) PROVE CountInv'
  <2>1. AsItWas  BY <1>16, SMT DEF Write, KnownTyping, KnownPast
  <2> QED  BY <1>5, <1>16, <2>1 DEF Write
<1>17. ASSUME NEW p \in Programs, EditSecond(p) PROVE CountInv'
  <2>1. AsItWas  BY <1>17, SMT DEF EditSecond, KnownTyping, KnownPast
  <2> QED  BY <1>5, <1>17, <2>1 DEF EditSecond
<1>18. ASSUME NEW p \in Programs, Stage(p) PROVE CountInv'
  <2> DEFINE new == [by |-> p, id |-> opens, part |-> "staged", db |-> FALSE, manifest |-> FALSE,
                     of |-> Contents, to |-> opener[p].known]
  <2>1. artifacts' = artifacts \cup {new} /\ new.by = p /\ new.part = "staged"
        /\ past' = past /\ failures' = failures /\ opener[p].at = "stage"
    BY <1>18 DEF Stage
  <2> HIDE DEF new
  <2>2. Cardinality(artifacts') <= Cardinality(artifacts) + 1
    <3>1. Cardinality(artifacts \cup {new}) <= Cardinality(artifacts) + 1
      <4>1. Cardinality(artifacts \cup {new})
              = IF new \in artifacts THEN Cardinality(artifacts) ELSE Cardinality(artifacts) + 1
        BY FS_AddElement
      <4> QED  BY <1>1, <4>1
    <3> QED  BY <2>1, <3>1
  <2>3. ~AtWork
    <3>1. writer = p  BY <2>1
    <3> QED  BY MakingHas, <2>1, <3>1 DEF AtWork, Backing, MakingInv
  <2>4. AtWork'  BY <2>1, SMT DEF AtWork, Making
  <2> QED  BY <1>1, <1>2, <1>3, <1>4, <2>1, <2>2, <2>3, <2>4
<1>19. ASSUME NEW p \in Programs, Back(p) PROVE CountInv'
  <2>1. MakingInv'  BY MakingStep
  <2>2. past' = past /\ failures' = failures /\ opener'[p].at \in Backing \cup {"change"}  BY <1>19, SMT DEF Back
  <2>3. AtWork'  BY <2>1, <2>2 DEF AtWork, MakingInv
  <2> QED  BY <1>1, <1>2, <1>3, <1>4, <2>2, <2>3, <1>19 DEF Back, Marked
<1>20. ASSUME NEW p \in Programs, Change(p) PROVE CountInv'
  <2>1. /\ artifacts' = artifacts /\ failures' = failures
        /\ past'.upgrades = past.upgrades \cup {Contents} /\ opener[p].at = "change"
    BY <1>20, SMT DEF Change, KnownTyping, KnownPast
  <2>2. Contents \notin past.upgrades
    <3>1. file.version < opener[p].known \/ (file.version = opener[p].known /\ file.damaged)  BY <2>1 DEF Changing
    <3>2. Contents.version = file.version /\ (Contents.damaged <=> file.damaged) /\ file.version \in Nat
      BY SMT DEF Contents
    <3>3. SUFFICES ASSUME Contents \in past.upgrades PROVE FALSE  OBVIOUS
    <3> QED  BY <3>2, <3>3 DEF PastInv
  <2>3. Cardinality(past'.upgrades) = Cardinality(past.upgrades) + 1
    <3>1. Cardinality(past.upgrades \cup {Contents}) = Cardinality(past.upgrades) + 1
      BY <2>2, FS_AddElement DEF KnownTyping
    <3> QED  BY <2>1, <3>1
  <2>4. New - Old >= -1  BY <1>2
  <2> HIDE DEF New, Old
  <2> QED  BY <1>1, <1>2, <1>3, <1>4, <2>1, <2>3, <2>4
<1>21. ASSUME NEW p \in Programs, Stop(p) PROVE CountInv'
  <2>1. past' = past /\ Cardinality(artifacts') <= Cardinality(artifacts)  BY <1>21, StopMarks DEF Stop, Marked
  <2>2. CASE opener[p].at = "change" \/ Making(p) # {}
    <3>1. failures' = failures + 1  BY <1>21, <2>2, Zenon DEF Stop
    <3> QED  BY <1>1, <1>2, <1>3, <1>4, <2>1, <3>1
  <2>3. CASE ~(opener[p].at = "change" \/ Making(p) # {})
    <3>1. failures' = failures  BY <1>21, <2>3, Zenon DEF Stop
    <3>2. AtWork => AtWork'
      <4>1. SUFFICES ASSUME NEW q \in Programs, Making(q) # {} \/ opener[q].at = "change", q # p
                     PROVE  Making(q)' # {} \/ opener'[q].at = "change"
        BY <2>3 DEF AtWork
      <4>2. CASE opener[q].at = "change"  BY <1>21, <4>1, <4>2, SMT DEF Stop
      <4>3. CASE Making(q) # {}
        <5>1. PICK a \in artifacts : a \in Making(q) /\ a \notin Making(p)  BY <2>3, <4>3 DEF Making
        <5>2. a \in artifacts'  BY <1>21, <5>1, StopMarks DEF Marked
        <5> QED  BY <5>1, <5>2 DEF Making
      <4> QED  BY <4>1, <4>2, <4>3
    <3> QED  BY <1>1, <1>2, <1>3, <1>4, <2>1, <3>1, <3>2
  <2> QED  BY <2>2, <2>3
<1> HIDE DEF AsItWas
<1> QED  BY <1>6, <1>7, <1>8, <1>9, <1>10, <1>11, <1>12, <1>13, <1>14, <1>15, <1>16, <1>17, <1>18, <1>19, <1>20,
    <1>21, MigrationCases

\* The joint invariant of file, lock, backups and catalogs is inductive.
THEOREM MigrationInductive == MigrationSpec => []MigrationInv
<1>1. MigrationInv /\ [MigrationNext]_migrationVars => MigrationInv'
  BY FileTypingStep, KnownTypingStep, ArtifactStep, NewFileStep, OpenerStep, MakingStep, PastStep, CountStep, ImportStep
    DEF MigrationInv, MigrationTyping
<1> QED  BY MigrationBegins, <1>1, PTL DEF MigrationSpec

\* Whatever was upgraded can be had back, a backup is true, none is made without need, one
\* program changes the schema at a time, and the second catalog is filled once, for any
\* programs, versions and numbers of attempts and writes.
THEOREM MigrationIsSafe == MigrationSpec => []MigrationSafety
<1>1. ASSUME MigrationInv PROVE MigrationSafety
  <2> USE <1>1 DEF MigrationInv
  <2>1. Cardinality({p \in Programs : Making(p) # {} \/ opener[p].at = "change"})
          = IF AtWork THEN 1 ELSE 0
    <3> DEFINE S == {p \in Programs : Making(p) # {} \/ opener[p].at = "change"}
    <3>1. CASE ~AtWork
      <4>1. S = {}  BY <3>1 DEF AtWork
      <4> QED  BY <3>1, <4>1, FS_EmptySet
    <3>2. CASE AtWork
      <4>1. \A q \in S : writer = q  BY MakingHas DEF MakingInv, OpenerInv, OneChanger, Backing, MigrationTyping
      <4>2. S = {writer}  BY <3>2, <4>1 DEF AtWork
      <4> QED  BY <3>2, <4>2, FS_Singleton
    <3> QED  BY <3>1, <3>2
  <2>2. NoNeedlessBackup  BY <2>1 DEF NoNeedlessBackup, PastInv, CountInv
  <2>3. ImportedOnce
    <3> DEFINE firsts == {r \in catalogs.rows : r[1] = "first"}
    <3>1. firsts = {} \/ \E r : firsts = {r}  BY DEF ImportInv
    <3>2. Cardinality(firsts) <= 1  BY <3>1, FS_EmptySet, FS_Singleton
    <3>3. /\ \A r \in firsts : r[2] \in past.firsts
          /\ catalogs.marker <=> firsts # {}
          /\ past.edits \subseteq catalogs.rows
      BY DEF ImportInv
    <3> HIDE DEF firsts
    <3>4. \A S : S = firsts => Cardinality(S) <= 1  BY <3>2
    <3> USE DEF firsts
    <3> QED  BY <3>2, <3>3, Zenon DEF ImportedOnce
  <2> QED  BY <2>2, <2>3 DEF MigrationSafety, PastInv, OpenerInv, ArtifactsAreTrue, Enumerated
<1> QED  BY MigrationInductive, <1>1, PTL

\* A schema never goes back, and an artifact that can be adopted stays as it is.
THEOREM SchemaNeverGoesBackAlways == MigrationSpec => SchemaNeverGoesBack
<1> DEFINE Kept == /\ file.kind # "none" => file'.version >= file.version
                   /\ Enumerated \subseteq Enumerated'
<1>1. ASSUME MigrationInv, [MigrationNext]_migrationVars PROVE Kept
  <2> USE <1>1, MigrationBounds DEF MigrationInv, MigrationTyping, FileTyping
  <2>1. file.version \in Nat  BY SMT
  <2>2. ASSUME UNCHANGED <<file, artifacts>> PROVE Kept  BY <2>1, <2>2 DEF Enumerated
  <2>3. CASE UNCHANGED migrationVars  BY <2>2, <2>3 DEF migrationVars
  <2>4. CASE Find  BY <2>4 DEF Find, Enumerated
  <2>5. CASE FirstChanges  BY <2>2, <2>5 DEF FirstChanges
  <2>6. ASSUME NEW p \in Programs,
               Guard(p) \/ Locks(p) \/ LockTimeout(p) \/ OpenSecond(p) \/ Import(p) \/ EditSecond(p)
        PROVE  Kept
    BY <2>2, <2>6 DEF Guard, Locks, SameFile, LockTimeout, OpenSecond, Import, EditSecond
  <2>7. ASSUME NEW p \in Programs, Stage(p) PROVE Kept  BY <2>1, <2>7 DEF Stage, Enumerated
  <2>8. ASSUME NEW p \in Programs, Back(p) PROVE Kept  BY <2>1, <2>8, MarkedKeeps DEF Back
  <2>9. ASSUME NEW p \in Programs, Stop(p) PROVE Kept
    <3>1. file' = file  BY <2>9 DEF Stop
    <3>2. Enumerated \subseteq Enumerated'  BY <2>9, StopMarks, MarkedKeeps
    <3> QED  BY <2>1, <3>1, <3>2
  <2>10. ASSUME NEW p \in Programs, Write(p) PROVE Kept
    <3>1. file'.version = file.version /\ artifacts' = artifacts  BY <2>10, SMT DEF Write
    <3> QED  BY <2>1, <3>1 DEF Enumerated
  <2>11. ASSUME NEW p \in Programs, Change(p) PROVE Kept
    <3>1. file'.version = opener[p].known /\ artifacts' = artifacts /\ opener[p].at = "change"  BY <2>11, SMT DEF Change
    <3>2. file.version <= opener[p].known /\ opener[p].known \in Nat  BY <3>1, SMT DEF OpenerInv, Changing, Opener
    <3> QED  BY <2>1, <3>1, <3>2 DEF Enumerated
  <2> HIDE DEF Kept
  <2> QED  BY <2>3, <2>4, <2>5, <2>6, <2>7, <2>8, <2>9, <2>10, <2>11, MigrationCases
<1>2. MigrationInv /\ [MigrationNext]_migrationVars => [Kept]_migrationVars  BY <1>1
<1> QED  BY MigrationInductive, <1>2, PTL DEF MigrationSpec, SchemaNeverGoesBack

----
(* A command on a run passes its gate.                                     *)

TaskRow == [rev : Nat \ {0}, paused : BOOLEAN,
            status : RunOver \cup {"draft", "ready", "running", "needs-you"}]
GraphRow == [status : {"active", "superseded", "draft", "cancelled"},
             by : {"start", "proposal", "patch"}]
StepRow == [rev : Nat, status : RowStatuses]
TryRow == [at : Nat \X RunSteps, rev : Nat, status : TryStatuses]
SessionRow == [rev : Nat, status : {"working", "waiting"}]
AskRow == [run : Nat, status : {"open", "accepted", "answered"}]

Snapshot == [stage : {"rows", "read"}, task : TaskRow, graph : Nat, rows : [RunSteps -> StepRow],
             tries : Seq(TryRow), sessions : Seq(SessionRow), asks : SUBSET Nat, drafts : SUBSET Nat]

RunTyping ==
    /\ gateTask \in TaskRow
    /\ gateGraphs \in Seq(GraphRow) /\ Len(gateGraphs) > 0
    /\ gateRows \in Seq([RunSteps -> StepRow]) /\ Len(gateRows) = Len(gateGraphs)
    /\ gateTries \in Seq(TryRow) /\ Len(gateTries) <= MaxTries
    /\ \A i \in 1..Len(gateTries) : gateTries[i].at[1] \in 1..Len(gateGraphs)
    /\ gateSessions \in Seq(SessionRow) /\ Len(gateSessions) = Len(gateTries)
    /\ gateAsks \in Seq(AskRow)
    /\ \A q \in 1..Len(gateAsks) : gateAsks[q].run \in 1..Len(gateTries)
    /\ \A v, w \in Actives : v = w

GateTyping ==
    /\ RunTyping
    /\ pump \in [pc : {"idle", "askStep", "askTask", "exitStep", "exitTask"}, run : 0..MaxTries]
    /\ pump.pc # "idle" => pump.run \in 1..Len(gateTries)
    /\ moves \in 0..MaxMoves /\ gateTask.rev <= moves + 1

StepAt(v, s) == gateRows[v][s]

\* What was seen at the revision that a row has now is what the row says; while the run keeps
\* its revision, no proposal is new, what became active was a patch, and a question that was
\* open is open unless its step has moved.
SeenInv ==
    seen.stage # "none" =>
        /\ seen \in Snapshot
        /\ seen.task.rev <= gateTask.rev
        /\ seen.graph \in 1..Len(gateGraphs)
        /\ DOMAIN seen.tries \subseteq 1..Len(gateTries)
        /\ \A i \in DOMAIN seen.tries :
              /\ seen.tries[i].at = gateTries[i].at /\ seen.tries[i].rev <= gateTries[i].rev
              /\ seen.tries[i].rev = gateTries[i].rev => seen.tries[i].status = gateTries[i].status
        /\ \A q \in seen.asks : q \in 1..Len(gateAsks) /\ gateAsks[q].run \in DOMAIN seen.tries
        /\ seen.task.rev = gateTask.rev =>
              /\ seen.task.status = gateTask.status
              /\ \A s \in RunSteps :
                    /\ seen.rows[s].rev <= StepAt(seen.graph, s).rev
                    /\ seen.rows[s].rev = StepAt(seen.graph, s).rev =>
                          seen.rows[s].status = StepAt(seen.graph, s).status
              /\ \A v \in Actives : v = seen.graph \/ gateGraphs[v].by = "patch"
              /\ seen.stage = "read" => Drafts0 \subseteq seen.drafts
              /\ \A q \in seen.asks, s \in RunSteps :
                    /\ gateTries[gateAsks[q].run].at = <<seen.graph, s>>
                    /\ seen.rows[s].rev = StepAt(seen.graph, s).rev
                    /\ StepAt(seen.graph, s).status = "needs-input"
                    => gateAsks[q].status # "answered"

GateInv == GateTyping /\ SeenInv /\ ActsOnWhatWasSeen

----
\* What a write of the run may do.
TaskGoes ==
    /\ gateTask' \in TaskRow
    /\ gateTask'.rev \in gateTask.rev..(gateTask.rev + 1)
    /\ gateTask'.rev = gateTask.rev => gateTask'.status = gateTask.status

\* While the run keeps its revision.
RowsGo ==
    \A v \in 1..Len(gateRows), s \in RunSteps :
        /\ StepAt(v, s).rev <= gateRows'[v][s].rev
        /\ StepAt(v, s).rev = gateRows'[v][s].rev => gateRows'[v][s] = StepAt(v, s)

TriesGo ==
    /\ Len(gateTries) <= Len(gateTries')
    /\ \A i \in 1..Len(gateTries) :
          /\ gateTries'[i].at = gateTries[i].at /\ gateTries[i].rev <= gateTries'[i].rev
          /\ gateTries[i].rev = gateTries'[i].rev => gateTries'[i].status = gateTries[i].status

GraphsGo ==
    /\ \A v \in Actives' :
           \/ v \in Actives /\ gateGraphs'[v].by = gateGraphs[v].by
           \/ gateGraphs'[v].by = "patch"
    /\ Drafts0' \subseteq Drafts0

AsksGo ==
    /\ Len(gateAsks) <= Len(gateAsks')
    /\ \A q \in 1..Len(gateAsks) :
          /\ gateAsks'[q].run = gateAsks[q].run
          /\ gateAsks'[q].status = "answered" /\ gateAsks[q].status # "answered" =>
                LET p == gateTries[gateAsks[q].run].at
                IN  RowOf(p).status = "needs-input" => gateRows'[p[1]][p[2]].rev > RowOf(p).rev

RunGoes ==
    /\ TaskGoes /\ TriesGo /\ AsksGo
    /\ Len(gateGraphs) <= Len(gateGraphs')
    /\ gateTask'.rev = gateTask.rev => RowsGo /\ GraphsGo


----
\* A step that is written has a new revision, and no other row is touched.
LEMMA SetStepRow ==
    ASSUME RunTyping, NEW p \in AllRows, NEW st \in RowStatuses
    PROVE  /\ SetStep(p, st) \in Seq([RunSteps -> StepRow]) /\ Len(SetStep(p, st)) = Len(gateRows)
           /\ SetStep(p, st)[p[1]][p[2]] = [rev |-> RowOf(p).rev + 1, status |-> st]
           /\ \A v \in 1..Len(gateRows), s \in RunSteps :
                 v # p[1] \/ s # p[2] => SetStep(p, st)[v][s] = StepAt(v, s)
<1> DEFINE r == [rev |-> RowOf(p).rev + 1, status |-> st]
<1>1. /\ p[1] \in 1..Len(gateRows) /\ p[2] \in RunSteps
      /\ gateRows \in [1..Len(gateRows) -> [RunSteps -> StepRow]]
  BY DEF RunTyping, AllRows
<1>2. RowOf(p) \in StepRow  BY <1>1 DEF RowOf
<1>3. r \in StepRow  BY <1>2 DEF StepRow
<1>4. SetStep(p, st) = [gateRows EXCEPT ![p[1]][p[2]] = r]  BY DEF SetStep, RowOf
<1> HIDE DEF r
<1> DEFINE f == [gateRows[p[1]] EXCEPT ![p[2]] = r]
<1>5. f \in [RunSteps -> StepRow] /\ f[p[2]] = r /\ \A s \in RunSteps : s # p[2] => f[s] = gateRows[p[1]][s]
  BY <1>1, <1>3
<1>6. SetStep(p, st) = [gateRows EXCEPT ![p[1]] = f]  BY <1>4
<1> HIDE DEF f
<1>7. /\ SetStep(p, st) \in [1..Len(gateRows) -> [RunSteps -> StepRow]]
      /\ SetStep(p, st)[p[1]] = f
      /\ \A v \in 1..Len(gateRows) : v # p[1] => SetStep(p, st)[v] = gateRows[v]
  BY <1>1, <1>5, <1>6
<1>8. SetStep(p, st) \in Seq([RunSteps -> StepRow]) /\ Len(SetStep(p, st)) = Len(gateRows)
  BY <1>1, <1>7, SeqDef, LenProperties DEF RunTyping
<1>9. QED  BY <1>5, <1>7, <1>8 DEF StepAt, r

\* Attempts that are written have a new revision, and no other attempt is touched.
LEMMA SetTriesRows ==
    ASSUME RunTyping, NEW I, NEW st \in TryStatuses
    PROVE  /\ SetTries(I, st) \in Seq(TryRow) /\ Len(SetTries(I, st)) = Len(gateTries)
           /\ \A i \in 1..Len(gateTries) :
                 /\ SetTries(I, st)[i].at = gateTries[i].at
                 /\ i \in I => SetTries(I, st)[i].rev = gateTries[i].rev + 1
                               /\ SetTries(I, st)[i].status = st
                 /\ i \notin I => SetTries(I, st)[i] = gateTries[i]
<1> DEFINE T == SetTries(I, st)
           W(i) == [gateTries[i] EXCEPT !.rev = @ + 1, !.status = st]
<1>1. gateTries \in [1..Len(gateTries) -> TryRow] /\ DOMAIN gateTries = 1..Len(gateTries) /\ Len(gateTries) \in Nat
  BY DEF RunTyping
<1>2. ASSUME NEW i \in 1..Len(gateTries)
      PROVE  /\ W(i) \in TryRow /\ W(i).at = gateTries[i].at
             /\ W(i).rev = gateTries[i].rev + 1 /\ W(i).status = st
  <2> DEFINE c == gateTries[i]
  <2>1. c \in TryRow /\ c.rev + 1 \in Nat  BY <1>1, <1>2 DEF TryRow
  <2> HIDE DEF c
  <2> QED  BY <2>1 DEF TryRow, c
<1>3. T = [i \in 1..Len(gateTries) |-> IF i \in I THEN W(i) ELSE gateTries[i]]  BY <1>1 DEF SetTries
<1> HIDE DEF W
<1>4. T \in [1..Len(gateTries) -> TryRow]  BY <1>1, <1>2, <1>3
<1>5. T \in Seq(TryRow) /\ Len(T) = Len(gateTries)  BY <1>1, <1>3, <1>4, SeqDef, LenProperties
<1>6. ASSUME NEW i \in 1..Len(gateTries)
      PROVE  T[i] = IF i \in I THEN W(i) ELSE gateTries[i]
  BY <1>3, <1>6
<1>7. QED  BY <1>2, <1>5, <1>6

\* The run that is written has a new revision.
LEMMA SetTaskRow ==
    ASSUME RunTyping, NEW st \in RunOver \cup {"draft", "ready", "running", "needs-you"}
    PROVE  /\ SetTask(st) \in TaskRow /\ SetTask(st).rev = gateTask.rev + 1
           /\ gateTask.rev \in Nat \ {0} /\ SetTask(st).status = st /\ SetTask(st).paused = gateTask.paused
<1>1. gateTask \in TaskRow /\ gateTask.rev \in Nat \ {0} /\ gateTask.rev + 1 \in Nat \ {0}  BY DEF RunTyping, TaskRow
<1> DEFINE r == gateTask.rev + 1
<1>2. r \in Nat \ {0}  BY <1>1
<1>3. SetTask(st) = [gateTask EXCEPT !.rev = r, !.status = st]  BY DEF SetTask
<1> HIDE DEF r
<1>4. SetTask(st) \in TaskRow /\ SetTask(st).rev = r /\ SetTask(st).status = st /\ SetTask(st).paused = gateTask.paused
  BY <1>1, <1>2, <1>3, Zenon DEF TaskRow
<1>5. QED  BY <1>1, <1>4 DEF r

----
\* A run that is left alone or written goes on.
LEMMA TaskStays ==
    ASSUME RunTyping, UNCHANGED gateTask
    PROVE  TaskGoes
<1> QED  BY DEF TaskGoes, RunTyping, TaskRow

\* A task that is written has another revision.
LEMMA TaskWritten ==
    ASSUME RunTyping, NEW st \in RunOver \cup {"draft", "ready", "running", "needs-you"}, gateTask' = SetTask(st)
    PROVE  TaskGoes /\ gateTask'.rev # gateTask.rev
<1> QED  BY SetTaskRow DEF TaskGoes

\* Attempts that are left alone or written go on.
LEMMA TriesStay ==
    ASSUME RunTyping, UNCHANGED gateTries
    PROVE  /\ gateTries' \in Seq(TryRow) /\ Len(gateTries') = Len(gateTries) /\ TriesGo
           /\ \A i \in 1..Len(gateTries) : gateTries'[i].at = gateTries[i].at
<1>1. gateTries \in [1..Len(gateTries) -> TryRow] /\ Len(gateTries) \in Nat  BY DEF RunTyping
<1>2. \A i \in 1..Len(gateTries) : gateTries[i].rev \in Nat  BY <1>1 DEF TryRow
<1> QED  BY <1>1, <1>2 DEF TriesGo, RunTyping

\* Attempts that are written have another revision.
LEMMA TriesWritten ==
    ASSUME RunTyping, NEW I, NEW st \in TryStatuses, gateTries' = SetTries(I, st)
    PROVE  /\ gateTries' \in Seq(TryRow) /\ Len(gateTries') = Len(gateTries) /\ TriesGo
           /\ \A i \in 1..Len(gateTries) : gateTries'[i].at = gateTries[i].at
<1>0. gateTries \in [1..Len(gateTries) -> TryRow] /\ Len(gateTries) \in Nat  BY DEF RunTyping
<1>1. \A i \in 1..Len(gateTries) : gateTries[i].rev \in Nat  BY <1>0 DEF TryRow
<1>2. /\ gateTries' \in Seq(TryRow) /\ Len(gateTries') = Len(gateTries)
      /\ \A i \in 1..Len(gateTries) :
                 /\ gateTries'[i].at = gateTries[i].at
                 /\ i \in I => gateTries'[i].rev = gateTries[i].rev + 1
                 /\ i \notin I => gateTries'[i] = gateTries[i]
  BY SetTriesRows
<1>3. TriesGo  BY <1>0, <1>1, <1>2 DEF TriesGo
<1> QED  BY <1>2, <1>3

\* Steps that are left alone or written go on.
LEMMA RowsStay ==
    ASSUME RunTyping, UNCHANGED gateRows
    PROVE  RowsGo
<1> QED  BY DEF RowsGo, StepAt, StepRow, RunTyping

\* A row that is written has another revision.
LEMMA RowsWritten ==
    ASSUME RunTyping, NEW p \in AllRows, NEW st \in RowStatuses, gateRows' = SetStep(p, st)
    PROVE  /\ gateRows' \in Seq([RunSteps -> StepRow]) /\ Len(gateRows') = Len(gateRows) /\ RowsGo
           /\ RowOf(p).rev \in Nat /\ gateRows'[p[1]][p[2]].rev = RowOf(p).rev + 1
           /\ gateRows'[p[1]][p[2]].status = st
<1>1. \A v \in 1..Len(gateRows), s \in RunSteps : StepAt(v, s).rev \in Nat  BY DEF StepAt, StepRow, RunTyping
<1>2. /\ gateRows' \in Seq([RunSteps -> StepRow]) /\ Len(gateRows') = Len(gateRows)
      /\ gateRows'[p[1]][p[2]] = [rev |-> RowOf(p).rev + 1, status |-> st]
      /\ \A v \in 1..Len(gateRows), s \in RunSteps :
            v # p[1] \/ s # p[2] => gateRows'[v][s] = StepAt(v, s)
  BY SetStepRow
<1>3. p[1] \in 1..Len(gateRows) /\ p[2] \in RunSteps /\ RowOf(p) = StepAt(p[1], p[2])
  BY DEF RunTyping, AllRows, RowOf, StepAt
<1>4. gateRows'[p[1]][p[2]].rev = RowOf(p).rev + 1 /\ gateRows'[p[1]][p[2]].status = st  BY <1>2
<1>5. ASSUME NEW v \in 1..Len(gateRows), NEW s \in RunSteps
      PROVE  /\ StepAt(v, s).rev <= gateRows'[v][s].rev
             /\ StepAt(v, s).rev = gateRows'[v][s].rev => gateRows'[v][s] = StepAt(v, s)
  <2>1. CASE v = p[1] /\ s = p[2]  BY <1>1, <1>3, <1>4, <2>1
  <2>2. CASE v # p[1] \/ s # p[2]  BY <1>1, <1>2, <2>2
  <2> QED  BY <2>1, <2>2
<1>6. RowsGo  BY <1>5 DEF RowsGo
<1>7. RowOf(p).rev \in Nat  BY <1>1, <1>3
<1> QED  BY <1>2, <1>4, <1>6, <1>7

\* Questions and graphs that are left alone go on.
LEMMA AsksStay ==
    ASSUME RunTyping, UNCHANGED gateAsks
    PROVE  AsksGo
<1>1. Len(gateAsks) \in Nat  BY DEF RunTyping
<1> QED  BY <1>1 DEF AsksGo

\* Graphs that are left alone.
LEMMA GraphsStay ==
    ASSUME RunTyping, UNCHANGED gateGraphs
    PROVE  GraphsGo /\ Actives' = Actives /\ Len(gateGraphs) <= Len(gateGraphs')
<1>1. Len(gateGraphs) \in Nat  BY DEF RunTyping
<1> QED  BY <1>1 DEF GraphsGo, Actives, Drafts0

\* An attempt is of a step of the run.
LEMMA TryAt ==
    ASSUME RunTyping, NEW i \in 1..Len(gateTries)
    PROVE  /\ gateTries[i] \in TryRow /\ gateTries[i].at \in AllRows
           /\ gateTries[i].status \in TryStatuses /\ gateTries[i].rev \in Nat
<1>1. gateTries[i] \in TryRow /\ gateTries[i].at[1] \in 1..Len(gateGraphs) /\ DOMAIN gateGraphs = 1..Len(gateGraphs)
  BY DEF RunTyping
<1> QED  BY <1>1 DEF TryRow, AllRows

\* The active graph is one of the run's.
LEMMA ActiveIs ==
    ASSUME RunTyping, Actives # {}
    PROVE  Active \in Actives /\ Actives = {Active} /\ Active \in 1..Len(gateGraphs)
<1>1. Active \in Actives  BY DEF Active
<1>2. \A v, w \in Actives : v = w  BY DEF RunTyping
<1>3. DOMAIN gateGraphs = 1..Len(gateGraphs)  BY DEF RunTyping
<1> QED  BY <1>1, <1>2, <1>3 DEF Actives

----
\* What is not written keeps its typing; the length of what an append gives.
LEMMA RunSizes ==
    ASSUME RunTyping
    PROVE  /\ Len(gateGraphs) \in Nat /\ Len(gateRows) \in Nat /\ Len(gateTries) \in Nat
           /\ Len(gateSessions) \in Nat /\ Len(gateAsks) \in Nat /\ MaxTries \in Nat
           /\ DOMAIN gateGraphs = 1..Len(gateGraphs) /\ DOMAIN gateTries = 1..Len(gateTries)
           /\ DOMAIN gateAsks = 1..Len(gateAsks) /\ DOMAIN gateSessions = 1..Len(gateSessions)
           /\ DOMAIN gateRows = 1..Len(gateRows)
BY GateBounds DEF RunTyping

\* A launch is an attempt more.
LEMMA LaunchGoes ==
    ASSUME RunTyping, NEW s \in RunSteps, Launch(s)
    PROVE  RunTyping' /\ RunGoes
<1> DEFINE p == <<Active, s>>
           t == [at |-> p, rev |-> 1, status |-> "running"]
           c == [rev |-> 1, status |-> "working"]
<1>0. /\ Len(gateTries) < MaxTries /\ Actives # {} /\ gateRows' = SetStep(p, "running")
      /\ gateTries' = Append(gateTries, t) /\ gateSessions' = Append(gateSessions, c)
      /\ UNCHANGED <<gateTask, gateGraphs, gateAsks>>
  BY DEF Launch
<1>1. p \in AllRows /\ "running" \in RowStatuses  BY <1>0, ActiveIs, RunSizes DEF AllRows, RowStatuses
<1>2. gateRows' \in Seq([RunSteps -> StepRow]) /\ Len(gateRows') = Len(gateRows) /\ RowsGo  BY <1>0, <1>1, RowsWritten
<1>3. t \in TryRow /\ c \in SessionRow  BY <1>0, ActiveIs, RunSizes DEF TryRow, TryStatuses, SessionRow
<1> HIDE DEF t, c
<1>4. /\ gateTries' \in Seq(TryRow) /\ Len(gateTries') = Len(gateTries) + 1
      /\ \A i \in 1..Len(gateTries) : gateTries'[i] = gateTries[i]
      /\ gateTries'[Len(gateTries) + 1] = t
  BY <1>0, <1>3, AppendProperties DEF RunTyping
<1>5. /\ gateSessions' \in Seq(SessionRow) /\ Len(gateSessions') = Len(gateSessions) + 1
  BY <1>0, <1>3, AppendProperties DEF RunTyping
<1>6. TriesGo
  <2>1. \A i \in 1..Len(gateTries) : gateTries[i].rev \in Nat  BY TryAt
  <2> QED  BY <1>4, <2>1, RunSizes DEF TriesGo
<1>7. TaskGoes /\ AsksGo /\ GraphsGo /\ Actives' = Actives /\ Len(gateGraphs) <= Len(gateGraphs')
  BY <1>0, TaskStays, AsksStay, GraphsStay
<1>8. \A i \in 1..Len(gateTries') : gateTries'[i].at[1] \in 1..Len(gateGraphs')
  <2>1. t.at[1] \in 1..Len(gateGraphs)  BY <1>0, ActiveIs DEF t
  <2> QED  BY <1>0, <1>4, <2>1, RunSizes DEF RunTyping
<1>9. RunTyping'
  <2>1. gateTask' \in TaskRow /\ gateGraphs' \in Seq(GraphRow) /\ Len(gateGraphs') > 0 /\ gateAsks' \in Seq(AskRow)
    BY <1>0 DEF RunTyping
  <2>2. \A q \in 1..Len(gateAsks') : gateAsks'[q].run \in 1..Len(gateTries')  BY <1>0, <1>4, RunSizes DEF RunTyping
  <2>3. \A v, w \in Actives' : v = w  BY <1>7 DEF RunTyping
  <2>4. Len(gateRows') = Len(gateGraphs') /\ Len(gateSessions') = Len(gateTries') /\ Len(gateTries') <= MaxTries
    BY <1>0, <1>2, <1>4, <1>5, RunSizes DEF RunTyping
  <2> QED  BY <1>2, <1>4, <1>5, <1>8, <2>1, <2>2, <2>3, <2>4 DEF RunTyping
<1> QED  BY <1>2, <1>6, <1>7, <1>9 DEF RunGoes

\* The parts of the typing that a write without a new attempt has to show.
LEMMA TypingFromParts ==
    ASSUME RunTyping, gateTask' \in TaskRow, gateGraphs' \in Seq(GraphRow), Len(gateGraphs') >= Len(gateGraphs),
           gateRows' \in Seq([RunSteps -> StepRow]), Len(gateRows') = Len(gateGraphs'),
           gateTries' \in Seq(TryRow), Len(gateTries') = Len(gateTries),
           \A i \in 1..Len(gateTries) : gateTries'[i].at = gateTries[i].at,
           gateSessions' \in Seq(SessionRow), Len(gateSessions') = Len(gateSessions),
           gateAsks' \in Seq(AskRow), \A q \in 1..Len(gateAsks') : gateAsks'[q].run \in 1..Len(gateTries),
           \A v, w \in Actives' : v = w
    PROVE  RunTyping'
<1>1. \A i \in 1..Len(gateTries') : gateTries'[i].at[1] \in 1..Len(gateGraphs')
  <2>1. Len(gateGraphs') \in Nat  OBVIOUS
  <2> SUFFICES ASSUME NEW i \in 1..Len(gateTries')
               PROVE  gateTries'[i].at[1] \in 1..Len(gateGraphs')
    OBVIOUS
  <2>2. i \in 1..Len(gateTries) /\ gateTries'[i].at = gateTries[i].at  OBVIOUS
  <2>3. gateTries[i].at[1] \in 1..Len(gateGraphs)  BY <2>2 DEF RunTyping
  <2> DEFINE v == gateTries[i].at[1]
  <2>4. gateTries'[i].at[1] = v /\ v \in 1..Len(gateGraphs)  BY <2>2, <2>3
  <2> HIDE DEF v
  <2>5. v \in 1..Len(gateGraphs')  BY <2>1, <2>4, RunSizes
  <2> QED  BY <2>4, <2>5
<1> QED  BY RunSizes, <1>1 DEF RunTyping

\* A question more.
LEMMA AskGoes ==
    ASSUME RunTyping, NEW i \in 1..Len(gateTries), Ask(i)
    PROVE  RunTyping' /\ RunGoes
<1> DEFINE a == [run |-> i, status |-> "open"]
<1>0. gateAsks' = Append(gateAsks, a) /\ UNCHANGED <<gateTask, gateGraphs, gateRows, gateTries, gateSessions>>
  BY DEF Ask
<1>1. a \in AskRow /\ a.run = i  BY RunSizes DEF AskRow
<1> HIDE DEF a
<1>2. /\ gateAsks' \in Seq(AskRow) /\ Len(gateAsks') = Len(gateAsks) + 1
      /\ \A q \in 1..Len(gateAsks) : gateAsks'[q] = gateAsks[q]
      /\ gateAsks'[Len(gateAsks) + 1] = a
  BY <1>0, <1>1, AppendProperties DEF RunTyping
<1>3. AsksGo  BY <1>2, RunSizes DEF AsksGo
<1>4. \A q \in 1..Len(gateAsks') : gateAsks'[q].run \in 1..Len(gateTries)
  <2>1. \A q \in 1..Len(gateAsks) : gateAsks[q].run \in 1..Len(gateTries)  BY DEF RunTyping
  <2>2. Len(gateAsks) \in Nat  BY RunSizes
  <2>3. ASSUME NEW q \in 1..Len(gateAsks') PROVE gateAsks'[q].run \in 1..Len(gateTries)
    <3>1. q \in 1..Len(gateAsks) \/ q = Len(gateAsks) + 1  BY <1>2, <2>2
    <3> QED  BY <1>1, <1>2, <2>1, <3>1
  <2> QED  BY <2>3
<1>5. RunTyping'  BY <1>0, <1>2, <1>4, GraphsStay, RunSizes, TypingFromParts DEF RunTyping
<1> QED  BY <1>0, <1>3, <1>5, TaskStays, TriesStay, RowsStay, GraphsStay DEF RunGoes

\* The orchestrator marks an attempt, a step, a run, a session.
LEMMA ExitGoes ==
    ASSUME RunTyping, NEW i \in 1..Len(gateTries), Exit(i)
    PROVE  RunTyping' /\ RunGoes
<1>0. gateTries' = SetTries({i}, "awaiting") /\ UNCHANGED <<gateTask, gateGraphs, gateRows, gateSessions, gateAsks>>
  BY DEF Exit
<1>1. /\ gateTries' \in Seq(TryRow) /\ Len(gateTries') = Len(gateTries) /\ TriesGo
      /\ \A j \in 1..Len(gateTries) : gateTries'[j].at = gateTries[j].at
  BY <1>0, TriesWritten DEF TryStatuses
<1>2. RunTyping'  BY <1>0, <1>1, GraphsStay, RunSizes, TypingFromParts DEF RunTyping
<1> QED  BY <1>0, <1>1, <1>2, TaskStays, RowsStay, GraphsStay, AsksStay DEF RunGoes

\* The row of an attempt that waits is marked.
LEMMA MarkStepGoes ==
    ASSUME RunTyping, pump.run \in 1..Len(gateTries), MarkStep
    PROVE  RunTyping' /\ RunGoes
<1> DEFINE p == gateTries[pump.run].at
<1>0. /\ gateRows' = gateRows \/ gateRows' = SetStep(p, "awaiting") \/ gateRows' = SetStep(p, "needs-input")
      /\ UNCHANGED <<gateTask, gateGraphs, gateTries, gateSessions, gateAsks>>
  BY DEF MarkStep
<1>1. p \in AllRows  BY TryAt
<1> HIDE DEF p
<1>2. gateRows' \in Seq([RunSteps -> StepRow]) /\ Len(gateRows') = Len(gateRows) /\ RowsGo
  <2>1. CASE gateRows' = gateRows  BY <2>1, RowsStay DEF RunTyping
  <2>2. CASE gateRows' = SetStep(p, "awaiting")  BY <1>1, <2>2, RowsWritten DEF RowStatuses
  <2>3. CASE gateRows' = SetStep(p, "needs-input")  BY <1>1, <2>3, RowsWritten DEF RowStatuses
  <2> QED  BY <1>0, <2>1, <2>2, <2>3
<1>3. RunTyping'  BY <1>0, <1>2, GraphsStay, RunSizes, TypingFromParts DEF RunTyping
<1> QED  BY <1>0, <1>2, <1>3, TaskStays, TriesStay, GraphsStay, AsksStay DEF RunGoes

\* The task is marked when its user is needed.
LEMMA MarkTaskGoes ==
    ASSUME RunTyping, MarkTask
    PROVE  RunTyping' /\ RunGoes
<1>0. /\ gateTask' = gateTask \/ gateTask' = SetTask("needs-you")
      /\ UNCHANGED <<gateGraphs, gateRows, gateTries, gateSessions, gateAsks>>
  BY DEF MarkTask
<1>1. TaskGoes  BY <1>0, TaskStays, TaskWritten
<1>2. RunTyping'  BY <1>0, <1>1, GraphsStay, RunSizes, TypingFromParts DEF RunTyping, TaskGoes
<1> QED  BY <1>0, <1>1, <1>2, RowsStay, TriesStay, GraphsStay, AsksStay DEF RunGoes

\* A session waits, under another revision.
LEMMA SessionGoes ==
    ASSUME RunTyping, NEW i \in 1..Len(gateTries), SessionMoves(i)
    PROVE  RunTyping' /\ RunGoes
<1> DEFINE c == [rev |-> gateSessions[i].rev + 1, status |-> "waiting"]
<1>0. /\ gateSessions' = [gateSessions EXCEPT ![i] = c]
      /\ UNCHANGED <<gateTask, gateGraphs, gateRows, gateTries, gateAsks>>
  BY DEF SessionMoves
<1>1. i \in 1..Len(gateSessions) /\ gateSessions[i] \in SessionRow  BY DEF RunTyping
<1>2. c \in SessionRow  BY <1>1 DEF SessionRow
<1> HIDE DEF c
<1>3. RunTyping'  BY <1>0, <1>1, <1>2, ExceptSeq, GraphsStay, RunSizes, TypingFromParts DEF RunTyping
<1> QED  BY <1>0, <1>3, TaskStays, RowsStay, TriesStay, GraphsStay, AsksStay DEF RunGoes

\* A person pauses the run.
LEMMA PauseGoes ==
    ASSUME RunTyping, PauseRun
    PROVE  RunTyping' /\ RunGoes
<1>0. gateTask' = [gateTask EXCEPT !.paused = TRUE] /\ UNCHANGED <<gateGraphs, gateRows, gateTries, gateSessions, gateAsks>>
  BY DEF PauseRun
<1>1. gateTask \in TaskRow  BY DEF RunTyping
<1>2. gateTask' \in TaskRow  BY <1>0, <1>1, Zenon DEF TaskRow
<1>3. gateTask'.rev = gateTask.rev /\ gateTask'.status = gateTask.status  BY <1>0, <1>1, Zenon DEF TaskRow
<1>4. gateTask.rev \in Nat  BY <1>1 DEF TaskRow
<1>5. TaskGoes  BY <1>2, <1>3, <1>4 DEF TaskGoes
<1>6. RunTyping'  BY <1>0, <1>2, GraphsStay, RunSizes, TypingFromParts DEF RunTyping
<1> QED  BY <1>0, <1>5, <1>6, RowsStay, TriesStay, GraphsStay, AsksStay DEF RunGoes

\* The question q gets the status st.
LEMMA AskWritten ==
    ASSUME RunTyping, NEW q \in 1..Len(gateAsks), NEW st \in {"open", "accepted", "answered"},
           gateAsks' = [gateAsks EXCEPT ![q].status = st]
    PROVE  /\ gateAsks' \in Seq(AskRow) /\ Len(gateAsks') = Len(gateAsks)
           /\ \A r \in 1..Len(gateAsks') : gateAsks'[r].run = gateAsks[r].run /\ gateAsks'[r].run \in 1..Len(gateTries)
           /\ gateAsks'[q].status = st
           /\ \A r \in 1..Len(gateAsks) : r # q => gateAsks'[r] = gateAsks[r]
<1> DEFINE a == [gateAsks[q] EXCEPT !.status = st]
<1>0. gateAsks[q] \in AskRow /\ gateAsks \in Seq(AskRow)  BY DEF RunTyping
<1>1. a \in AskRow /\ a.run = gateAsks[q].run /\ a.status = st  BY <1>0, Zenon DEF AskRow
<1>2. gateAsks' = [gateAsks EXCEPT ![q] = a]  OBVIOUS
<1> HIDE DEF a
<1>3. /\ gateAsks' \in Seq(AskRow) /\ Len(gateAsks') = Len(gateAsks)
      /\ \A r \in 1..Len(gateAsks) : gateAsks'[r] = IF r = q THEN a ELSE gateAsks[r]
  BY <1>0, <1>1, <1>2, ExceptSeq
<1>4. \A r \in 1..Len(gateAsks) : gateAsks[r].run \in 1..Len(gateTries)  BY DEF RunTyping
<1> QED  BY <1>1, <1>3, <1>4

\* The host takes an answer: the step that waits for it moves.
LEMMA ArrivalGoes ==
    ASSUME RunTyping, NEW q \in 1..Len(gateAsks), AnswerArrives(q)
    PROVE  RunTyping' /\ RunGoes
<1> DEFINE p == gateTries[gateAsks[q].run].at
<1>0. /\ gateAsks' = [gateAsks EXCEPT ![q].status = "answered"]
      /\ gateRows' = IF RowOf(p).status = "needs-input" THEN SetStep(p, "running") ELSE gateRows
      /\ gateTask' = gateTask \/ gateTask' = SetTask("running")
      /\ UNCHANGED <<gateGraphs, gateTries, gateSessions>>
  BY DEF AnswerArrives
<1>1. p \in AllRows  BY TryAt DEF RunTyping
<1>2. p = gateTries[gateAsks[q].run].at  OBVIOUS
<1> HIDE DEF p
<1>3. /\ gateRows' \in Seq([RunSteps -> StepRow]) /\ Len(gateRows') = Len(gateRows) /\ RowsGo
      /\ RowOf(p).status = "needs-input" => gateRows'[p[1]][p[2]].rev > RowOf(p).rev
  <2>1. CASE RowOf(p).status # "needs-input"  BY <1>0, <2>1, RowsStay DEF RunTyping
  <2>2. CASE RowOf(p).status = "needs-input"  BY <1>1, <1>0, <2>2, RowsWritten DEF RowStatuses
  <2> QED  BY <2>1, <2>2
<1>4. TaskGoes  BY <1>0, TaskStays, TaskWritten
<1>5. /\ gateAsks' \in Seq(AskRow) /\ Len(gateAsks') = Len(gateAsks)
      /\ \A r \in 1..Len(gateAsks') : gateAsks'[r].run = gateAsks[r].run /\ gateAsks'[r].run \in 1..Len(gateTries)
      /\ \A r \in 1..Len(gateAsks) : r # q => gateAsks'[r] = gateAsks[r]
  BY <1>0, AskWritten
<1>6. AsksGo
  <2>1. Len(gateAsks) <= Len(gateAsks')  BY <1>5, RunSizes
  <2>2. ASSUME NEW r \in 1..Len(gateAsks), gateAsks'[r].status = "answered", gateAsks[r].status # "answered"
        PROVE  LET x == gateTries[gateAsks[r].run].at
               IN  RowOf(x).status = "needs-input" => gateRows'[x[1]][x[2]].rev > RowOf(x).rev
    <3>1. r = q  BY <1>5, <2>2
    <3> QED  BY <1>2, <1>3, <3>1
  <2> QED  BY <1>5, <2>1, <2>2 DEF AsksGo
<1>7. RunTyping'  BY <1>0, <1>3, <1>4, <1>5, GraphsStay, RunSizes, TypingFromParts DEF RunTyping, TaskGoes
<1> QED  BY <1>0, <1>3, <1>4, <1>6, <1>7, TriesStay, GraphsStay DEF RunGoes

\* A settlement goes to a row of the run.
LEMMA SettledAt ==
    ASSUME RunTyping, NEW i \in 1..Len(gateTries)
    PROVE  SettledRow(i) \in AllRows
<1>1. gateTries[i].at \in AllRows  BY TryAt
<1>2. CASE Actives # {}  BY <1>2, <1>1, ActiveIs, RunSizes DEF SettledRow, AllRows
<1>3. CASE Actives = {}  BY <1>1, <1>3 DEF SettledRow
<1> QED  BY <1>2, <1>3

\* An attempt is settled with its row and its task.
LEMMA SettleGoes ==
    ASSUME RunTyping, NEW i \in 1..Len(gateTries), NEW o \in {"succeeded", "failed"}, Settles(i, o)
    PROVE  RunTyping' /\ RunGoes
<1> DEFINE p == SettledRow(i)
<1>0. /\ gateTries' = SetTries({i}, o)
      /\ gateRows' = gateRows \/ gateRows' = SetStep(p, o)
      /\ gateTask' = gateTask \/ gateTask' = SetTask("needs-you")
      /\ UNCHANGED <<gateGraphs, gateSessions, gateAsks>>
  BY DEF Settles
<1>1. p \in AllRows /\ o \in RowStatuses /\ o \in TryStatuses  BY SettledAt DEF RowStatuses, StepOver, TryStatuses
<1> HIDE DEF p
<1>2. gateRows' \in Seq([RunSteps -> StepRow]) /\ Len(gateRows') = Len(gateRows) /\ RowsGo
  <2>1. CASE gateRows' = gateRows  BY <2>1, RowsStay DEF RunTyping
  <2>2. CASE gateRows' = SetStep(p, o)  BY <1>1, <2>2, RowsWritten
  <2> QED  BY <1>0, <2>1, <2>2
<1>3. TaskGoes  BY <1>0, TaskStays, TaskWritten
<1>4. /\ gateTries' \in Seq(TryRow) /\ Len(gateTries') = Len(gateTries) /\ TriesGo
      /\ \A j \in 1..Len(gateTries) : gateTries'[j].at = gateTries[j].at
  BY <1>0, <1>1, TriesWritten
<1>5. RunTyping'  BY <1>0, <1>2, <1>3, <1>4, GraphsStay, RunSizes, TypingFromParts DEF RunTyping, TaskGoes
<1> QED  BY <1>0, <1>2, <1>3, <1>4, <1>5, GraphsStay, AsksStay DEF RunGoes

\* A retry gives up what the step has running, and the step is ready.
LEMMA RetryGoes ==
    ASSUME RunTyping, NEW p \in AllRows, Retries(p)
    PROVE  RunTyping' /\ RunGoes
<1>0. /\ gateTries' = SetTries(LiveAt({p}), "cancelled") /\ gateRows' = SetStep(p, "ready")
      /\ gateTask' = gateTask \/ gateTask' = SetTask("running") \/ gateTask' = SetTask(gateTask.status)
      /\ UNCHANGED <<gateGraphs, gateSessions, gateAsks>>
  BY DEF Retries
<1>1. gateRows' \in Seq([RunSteps -> StepRow]) /\ Len(gateRows') = Len(gateRows) /\ RowsGo
  BY <1>0, RowsWritten DEF RowStatuses
<1>2. TaskGoes  BY <1>0, TaskStays, TaskWritten DEF RunTyping, TaskRow
<1>3. /\ gateTries' \in Seq(TryRow) /\ Len(gateTries') = Len(gateTries) /\ TriesGo
      /\ \A j \in 1..Len(gateTries) : gateTries'[j].at = gateTries[j].at
  BY <1>0, TriesWritten DEF TryStatuses
<1>4. RunTyping'  BY <1>0, <1>1, <1>2, <1>3, GraphsStay, RunSizes, TypingFromParts DEF RunTyping, TaskGoes
<1> QED  BY <1>0, <1>1, <1>2, <1>3, <1>4, GraphsStay, AsksStay DEF RunGoes

\* A row is skipped.
LEMMA SkipGoes ==
    ASSUME RunTyping, NEW p \in AllRows, Skips(p)
    PROVE  RunTyping' /\ RunGoes
<1>0. /\ gateRows' = SetStep(p, "skipped")
      /\ \E st \in {"running", "succeeded", "failed"} : gateTask' = SetTask(st)
      /\ UNCHANGED <<gateGraphs, gateTries, gateSessions, gateAsks>>
  BY DEF Skips
<1>1. gateRows' \in Seq([RunSteps -> StepRow]) /\ Len(gateRows') = Len(gateRows) /\ RowsGo
  BY <1>0, RowsWritten DEF RowStatuses, StepOver
<1>2. TaskGoes  BY <1>0, TaskWritten DEF RunOver
<1>3. RunTyping'  BY <1>0, <1>1, <1>2, GraphsStay, RunSizes, TypingFromParts DEF RunTyping, TaskGoes
<1> QED  BY <1>0, <1>1, <1>2, <1>3, TriesStay, GraphsStay, AsksStay DEF RunGoes

\* An answer is accepted: the question and the attempt that asked it move.
LEMMA AskedGoes ==
    ASSUME RunTyping, NEW q \in 1..Len(gateAsks), Answers0(q)
    PROVE  RunTyping' /\ RunGoes
<1> DEFINE i == gateAsks[q].run
<1>0. /\ gateAsks' = [gateAsks EXCEPT ![q].status = "accepted"]
      /\ gateTries' = SetTries({i}, gateTries[i].status)
      /\ UNCHANGED <<gateTask, gateGraphs, gateRows, gateSessions>>
  BY DEF Answers0, AcceptMoves
<1>1. i \in 1..Len(gateTries)  BY DEF RunTyping
<1> HIDE DEF i
<1>2. /\ gateTries' \in Seq(TryRow) /\ Len(gateTries') = Len(gateTries) /\ TriesGo
      /\ \A j \in 1..Len(gateTries) : gateTries'[j].at = gateTries[j].at
  <2>1. gateTries[i].status \in TryStatuses  BY <1>1, TryAt
  <2> QED  BY <1>0, <2>1, TriesWritten
<1>3. /\ gateAsks' \in Seq(AskRow) /\ Len(gateAsks') = Len(gateAsks) /\ gateAsks'[q].status = "accepted"
      /\ \A r \in 1..Len(gateAsks') : gateAsks'[r].run = gateAsks[r].run /\ gateAsks'[r].run \in 1..Len(gateTries)
      /\ \A r \in 1..Len(gateAsks) : r # q => gateAsks'[r] = gateAsks[r]
  BY <1>0, AskWritten
<1>4. AsksGo
  <2>1. \A r \in 1..Len(gateAsks) : gateAsks'[r].status = "answered" => gateAsks[r].status = "answered"  BY <1>3
  <2> QED  BY <1>3, <2>1, RunSizes DEF AsksGo
<1>5. RunTyping'  BY <1>0, <1>2, <1>3, GraphsStay, RunSizes, TypingFromParts DEF RunTyping
<1> QED  BY <1>0, <1>2, <1>4, <1>5, TaskStays, RowsStay, GraphsStay DEF RunGoes

\* A cancellation ends every step of the active graph that is not over, and the graph.
LEMMA CancelGoes ==
    ASSUME RunTyping, Cancels
    PROVE  RunTyping' /\ RunGoes
<1> DEFINE R(v) == [s \in RunSteps |->
               IF v \in Actives /\ gateRows[v][s].status \notin StepOver
               THEN [rev |-> gateRows[v][s].rev + 1, status |-> "cancelled"] ELSE gateRows[v][s]]
           G(v) == IF v \in Actives THEN [gateGraphs[v] EXCEPT !.status = "cancelled"] ELSE gateGraphs[v]
<1>0. /\ gateTries' = SetTries(LiveAt(AllRows), "cancelled")
      /\ gateRows' = [v \in 1..Len(gateRows) |-> R(v)]
      /\ gateGraphs' = [v \in 1..Len(gateGraphs) |-> G(v)]
      /\ gateTask' = [SetTask("cancelled") EXCEPT !.paused = FALSE]
      /\ UNCHANGED <<gateSessions, gateAsks>>
  BY RunSizes DEF Cancels
<1>1. TaskGoes /\ gateTask'.rev # gateTask.rev
  <2> DEFINE t == SetTask("cancelled")
  <2>1. t \in TaskRow /\ t.rev = gateTask.rev + 1 /\ gateTask.rev \in Nat  BY SetTaskRow DEF RunOver
  <2>2. gateTask' = [t EXCEPT !.paused = FALSE]  BY <1>0
  <2> HIDE DEF t
  <2>3. gateTask' \in TaskRow  BY <2>1, <2>2, Zenon DEF TaskRow
  <2>4. gateTask'.rev = t.rev  BY <2>1, <2>2, Zenon DEF TaskRow
  <2> QED  BY <2>1, <2>3, <2>4 DEF TaskGoes
<1>2. /\ gateTries' \in Seq(TryRow) /\ Len(gateTries') = Len(gateTries) /\ TriesGo
      /\ \A j \in 1..Len(gateTries) : gateTries'[j].at = gateTries[j].at
  BY <1>0, TriesWritten DEF TryStatuses
<1>3. gateRows' \in Seq([RunSteps -> StepRow]) /\ Len(gateRows') = Len(gateRows)
  <2>1. ASSUME NEW v \in 1..Len(gateRows) PROVE R(v) \in [RunSteps -> StepRow]
    <3>1. gateRows[v] \in [RunSteps -> StepRow]  BY DEF RunTyping
    <3>2. ASSUME NEW s \in RunSteps PROVE R(v)[s] \in StepRow  BY <3>1 DEF StepRow, RowStatuses, StepOver
    <3> QED  BY <3>2
  <2> HIDE DEF R
  <2>2. Len(gateRows) \in Nat  BY RunSizes
  <2> QED  BY <1>0, <2>1, <2>2
<1>4. /\ gateGraphs' \in Seq(GraphRow) /\ Len(gateGraphs') = Len(gateGraphs) /\ DOMAIN gateGraphs' = 1..Len(gateGraphs)
      /\ \A v \in 1..Len(gateGraphs) : gateGraphs'[v].status # "active"
  <2>1. ASSUME NEW v \in 1..Len(gateGraphs) PROVE G(v) \in GraphRow /\ G(v).status # "active"
    <3>1. gateGraphs[v] \in GraphRow /\ v \in DOMAIN gateGraphs  BY DEF RunTyping
    <3> DEFINE c == [gateGraphs[v] EXCEPT !.status = "cancelled"]
    <3>2. c \in GraphRow /\ c.status = "cancelled"  BY <3>1, Zenon DEF GraphRow
    <3> HIDE DEF c
    <3> QED  BY <3>1, <3>2 DEF c, Actives
  <2> HIDE DEF G
  <2>2. Len(gateGraphs) \in Nat  BY RunSizes
  <2> QED  BY <2>1, <1>0, <2>2
<1>5. Actives' = {}  BY <1>4 DEF Actives
<1>6. RunTyping'
  <2>1. gateTask' \in TaskRow /\ Len(gateGraphs') >= Len(gateGraphs) /\ Len(gateRows') = Len(gateGraphs')
    BY <1>1, <1>3, <1>4, RunSizes DEF TaskGoes, RunTyping
  <2>2. \A v, w \in Actives' : v = w  BY <1>5
  <2> QED  BY <1>2, <1>3, <1>4, <2>1, <1>0, <2>2, TypingFromParts DEF RunTyping
<1>7. Len(gateGraphs) <= Len(gateGraphs')  BY <1>4, RunSizes
<1> QED  BY <1>0, <1>1, <1>2, <1>6, <1>7, AsksStay DEF RunGoes

\* There is a newest proposal.
LEMMA NewestIs ==
    ASSUME RunTyping, Drafts0 # {}
    PROVE  Newest0(Drafts0) \in Drafts0
<1> DEFINE n == Len(gateGraphs)
           T == {n - x : x \in Drafts0}
<1>0. n \in Nat /\ \A x \in Drafts0 : x \in 1..n  BY RunSizes DEF Drafts0
<1> HIDE DEF n
<1>1. T \in SUBSET Nat /\ T # {}  BY <1>0
<1>2. ASSUME NEW S \in SUBSET Nat, S # {}
      PROVE  \E m \in S : \A k \in S : m <= k
  <2>1. PICK m \in S : \A k \in S : <<k, m>> \notin OpToRel(<, Nat)  BY <1>2, NatLessThanWellFounded, WFMin
  <2>2. \A k \in S : ~(k < m)  BY <1>2, <2>1 DEF OpToRel
  <2> QED  BY <1>2, <2>2
<1>3. PICK m \in T : \A k \in T : m <= k  BY <1>1, <1>2
<1>4. PICK x \in Drafts0 : m = n - x  OBVIOUS
<1>5. \A y \in Drafts0 : y <= x
  <2> TAKE y \in Drafts0
  <2>1. n - x <= n - y  BY <1>3, <1>4
  <2> QED  BY <1>0, <2>1
<1> QED  BY <1>4, <1>5 DEF Newest0

\* A proposal becomes the graph of the run.
LEMMA ConfirmGoes ==
    ASSUME RunTyping, Confirms
    PROVE  RunTyping' /\ RunGoes
<1>1. CASE Drafts0 = {}
  <2>1. UNCHANGED <<gateTask, gateGraphs, gateRows, gateTries, gateSessions, gateAsks>>  BY <1>1 DEF Confirms, gateRun
  <2>2. RunTyping'  BY <2>1, GraphsStay, RunSizes, TypingFromParts DEF RunTyping
  <2> QED  BY <2>1, <2>2, TaskStays, RowsStay, TriesStay, GraphsStay, AsksStay DEF RunGoes
<1>2. CASE Drafts0 # {}
  <2> DEFINE d == Newest0(Drafts0)
             G(v) == IF v = d THEN [gateGraphs[v] EXCEPT !.status = "active"]
                     ELSE IF v \in Actives THEN [gateGraphs[v] EXCEPT !.status = "superseded"] ELSE gateGraphs[v]
  <2>0. /\ gateGraphs' = [v \in 1..Len(gateGraphs) |-> G(v)]
        /\ gateRows' = [gateRows EXCEPT ![d] = RowsOf("ready")] /\ gateTask' = SetTask("ready")
        /\ UNCHANGED <<gateTries, gateSessions, gateAsks>>
    BY <1>2, RunSizes DEF Confirms
  <2>1. d \in 1..Len(gateGraphs) /\ d \in 1..Len(gateRows)  BY <1>2, NewestIs, RunSizes DEF Drafts0, RunTyping
  <2> HIDE DEF d
  <2>2. TaskGoes /\ gateTask'.rev # gateTask.rev  BY <2>0, TaskWritten
  <2>3. RowsOf("ready") \in [RunSteps -> StepRow]  BY DEF RowsOf, StepRow, RowStatuses
  <2>4. gateRows' \in Seq([RunSteps -> StepRow]) /\ Len(gateRows') = Len(gateRows)
    BY <2>0, <2>1, <2>3, ExceptSeq DEF RunTyping
  <2>5. /\ gateGraphs' \in Seq(GraphRow) /\ Len(gateGraphs') = Len(gateGraphs) /\ DOMAIN gateGraphs' = 1..Len(gateGraphs)
        /\ \A v \in 1..Len(gateGraphs) : v # d => gateGraphs'[v].status # "active"
    <3>1. ASSUME NEW v \in 1..Len(gateGraphs) PROVE G(v) \in GraphRow /\ (v # d => G(v).status # "active")
      <4>1. gateGraphs[v] \in GraphRow /\ v \in DOMAIN gateGraphs  BY DEF RunTyping
      <4> DEFINE b == [gateGraphs[v] EXCEPT !.status = "active"]
                 c == [gateGraphs[v] EXCEPT !.status = "superseded"]
      <4>2. b \in GraphRow  BY <4>1, Zenon DEF GraphRow
      <4>3. c \in GraphRow /\ c.status = "superseded"  BY <4>1, Zenon DEF GraphRow
      <4>4. G(v) = IF v = d THEN b ELSE IF v \in Actives THEN c ELSE gateGraphs[v]  OBVIOUS
      <4> HIDE DEF b, c, G
      <4>5. v \notin Actives => gateGraphs[v].status # "active"  BY <4>1 DEF Actives
      <4> QED  BY <4>1, <4>2, <4>3, <4>4, <4>5
    <3> HIDE DEF G
    <3>2. Len(gateGraphs) \in Nat  BY RunSizes
    <3> QED  BY <3>1, <2>0, <3>2
  <2>6. \A v, w \in Actives' : v = w  BY <2>5 DEF Actives
  <2>7. RunTyping'
    <3>1. gateTask' \in TaskRow /\ Len(gateGraphs') >= Len(gateGraphs) /\ Len(gateRows') = Len(gateGraphs')
      BY <2>2, <2>4, <2>5, RunSizes DEF TaskGoes, RunTyping
    <3> QED  BY <2>0, <2>4, <2>5, <2>6, <3>1, TriesStay, TypingFromParts DEF RunTyping
  <2>8. Len(gateGraphs) <= Len(gateGraphs')  BY <2>5, RunSizes
  <2> QED  BY <2>0, <2>2, <2>7, <2>8, TriesStay, AsksStay DEF RunGoes
<1> QED  BY <1>1, <1>2

\* A proposal more: the run goes back to draft.
LEMMA ProposeGoes ==
    ASSUME RunTyping, NEW i \in 1..Len(gateTries), AgentProposes(i)
    PROVE  RunTyping' /\ RunGoes
<1> DEFINE g == [status |-> "draft", by |-> "proposal"]
<1>0. /\ gateGraphs' = Append(gateGraphs, g) /\ gateRows' = Append(gateRows, RowsOf("pending"))
      /\ gateTask' = SetTask("draft") /\ UNCHANGED <<gateTries, gateSessions, gateAsks>>
  BY DEF AgentProposes, ProposeMoves
<1>1. g \in GraphRow /\ g.status # "active" /\ RowsOf("pending") \in [RunSteps -> StepRow]
  BY DEF GraphRow, RowsOf, StepRow, RowStatuses
<1> HIDE DEF g
<1>2. /\ gateGraphs' \in Seq(GraphRow) /\ Len(gateGraphs') = Len(gateGraphs) + 1
      /\ \A v \in 1..Len(gateGraphs) : gateGraphs'[v] = gateGraphs[v]
      /\ gateGraphs'[Len(gateGraphs) + 1] = g
  BY <1>0, <1>1, AppendProperties DEF RunTyping
<1>3. gateRows' \in Seq([RunSteps -> StepRow]) /\ Len(gateRows') = Len(gateRows) + 1
  BY <1>0, <1>1, AppendProperties DEF RunTyping
<1>4. TaskGoes /\ gateTask'.rev # gateTask.rev  BY <1>0, TaskWritten
<1>5. Actives' \subseteq Actives
  <2>1. DOMAIN gateGraphs' = 1..(Len(gateGraphs) + 1)  BY <1>2
  <2> QED  BY <1>1, <1>2, <2>1, RunSizes DEF Actives
<1>6. RunTyping'
  <2>1. /\ gateTask' \in TaskRow /\ Len(gateGraphs') >= Len(gateGraphs) /\ Len(gateRows') = Len(gateGraphs')
    BY <1>2, <1>3, <1>4, RunSizes DEF TaskGoes, RunTyping
  <2>2. \A v, w \in Actives' : v = w  BY <1>5 DEF RunTyping
  <2> QED  BY <1>0, <1>2, <1>3, <2>1, <2>2, TriesStay, TypingFromParts DEF RunTyping
<1>7. Len(gateGraphs) <= Len(gateGraphs')  BY <1>2, RunSizes
<1> QED  BY <1>0, <1>4, <1>6, <1>7, TriesStay, AsksStay DEF RunGoes

\* A patch replaces the active graph, and the run keeps its revision.
LEMMA PatchGoes ==
    ASSUME RunTyping, PatchGraph
    PROVE  RunTyping' /\ RunGoes
<1> DEFINE c == [gateGraphs[Active] EXCEPT !.status = "superseded"]
           old == [gateGraphs EXCEPT ![Active] = c]
           g == [status |-> "active", by |-> "patch"]
           rs == [s \in RunSteps |-> [rev |-> 1, status |-> gateRows[Active][s].status]]
<1>0. /\ Actives # {} /\ gateGraphs' = Append(old, g) /\ gateRows' = Append(gateRows, rs)
      /\ UNCHANGED <<gateTask, gateTries, gateSessions, gateAsks>>
  BY DEF PatchGraph
<1>1. /\ Active \in 1..Len(gateGraphs) /\ Actives = {Active} /\ gateGraphs[Active] \in GraphRow
      /\ gateRows[Active] \in [RunSteps -> StepRow]
  BY <1>0, ActiveIs DEF RunTyping
<1>2. c \in GraphRow /\ c.status = "superseded"  BY <1>1, Zenon DEF GraphRow
<1>3. g \in GraphRow /\ g.status = "active" /\ g.by = "patch"  BY DEF GraphRow
<1>4. rs \in [RunSteps -> StepRow]  BY <1>1 DEF StepRow
<1> HIDE DEF c, g, rs
<1>5. /\ old \in Seq(GraphRow) /\ Len(old) = Len(gateGraphs)
      /\ \A v \in 1..Len(gateGraphs) : old[v] = IF v = Active THEN c ELSE gateGraphs[v]
  BY <1>1, <1>2, ExceptSeq DEF RunTyping
<1> HIDE DEF old
<1>6. /\ gateGraphs' \in Seq(GraphRow) /\ Len(gateGraphs') = Len(gateGraphs) + 1
      /\ \A v \in 1..Len(gateGraphs) : gateGraphs'[v] = old[v]
      /\ gateGraphs'[Len(gateGraphs) + 1] = g
  BY <1>0, <1>3, <1>5, AppendProperties
<1>7. /\ gateRows' \in Seq([RunSteps -> StepRow]) /\ Len(gateRows') = Len(gateRows) + 1
      /\ \A v \in 1..Len(gateRows) : gateRows'[v] = gateRows[v]
  BY <1>0, <1>4, AppendProperties DEF RunTyping
<1>8. DOMAIN gateGraphs' = 1..(Len(gateGraphs) + 1)  BY <1>6
<1>9. ASSUME NEW v \in 1..(Len(gateGraphs) + 1), v # Len(gateGraphs) + 1
      PROVE  gateGraphs'[v].status # "active" /\ (gateGraphs'[v].status = "draft" => v \in Drafts0)
  <2>1. v \in 1..Len(gateGraphs)  BY <1>9, RunSizes
  <2>2. v # Active => v \notin Actives  BY <1>1
  <2> QED  BY <1>2, <1>5, <1>6, <2>1, <2>2, RunSizes DEF Actives, Drafts0
<1>10. Actives' = {Len(gateGraphs) + 1}
  <2>1. Len(gateGraphs) + 1 \in 1..(Len(gateGraphs) + 1)  BY RunSizes
  <2> QED  BY <1>3, <1>6, <1>8, <1>9, <2>1 DEF Actives
<1>11. GraphsGo
  <2>1. \A v \in Actives' : gateGraphs'[v].by = "patch"  BY <1>3, <1>6, <1>10
  <2>2. Drafts0' \subseteq Drafts0  BY <1>3, <1>6, <1>8, <1>9 DEF Drafts0
  <2> QED  BY <2>1, <2>2 DEF GraphsGo
<1>12. RowsGo
  <2>1. \A v \in 1..Len(gateRows), s \in RunSteps : StepAt(v, s).rev \in Nat  BY DEF RunTyping, StepAt, StepRow
  <2> QED  BY <1>7, <2>1 DEF RowsGo, StepAt
<1>13. RunTyping'
  <2>1. /\ gateTask' \in TaskRow /\ Len(gateGraphs') >= Len(gateGraphs) /\ Len(gateRows') = Len(gateGraphs')
    BY <1>0, <1>6, <1>7, RunSizes DEF RunTyping
  <2>2. \A v, w \in Actives' : v = w  BY <1>10
  <2>3. /\ gateSessions' \in Seq(SessionRow) /\ Len(gateSessions') = Len(gateSessions) /\ gateAsks' \in Seq(AskRow)
        /\ \A q \in 1..Len(gateAsks') : gateAsks'[q].run \in 1..Len(gateTries)
    BY <1>0 DEF RunTyping
  <2> QED  BY <1>0, <1>6, <1>7, <2>1, <2>2, <2>3, TriesStay, TypingFromParts
<1>14. Len(gateGraphs) <= Len(gateGraphs')  BY <1>6, RunSizes
<1> QED  BY <1>0, <1>11, <1>12, <1>13, <1>14, TaskStays, TriesStay, AsksStay DEF RunGoes

----
(* What was seen stays an image of the run, or can no longer be quoted.    *)

\* A write of the run keeps the snapshot honest.
LEMMA SeenStays ==
    ASSUME GateTyping, SeenInv, RunTyping', RunGoes, UNCHANGED seen
    PROVE  SeenInv'
<1> SUFFICES ASSUME seen.stage # "none" PROVE SeenInv'  BY DEF SeenInv
<1>0. /\ RunTyping /\ TaskGoes /\ TriesGo /\ AsksGo
      /\ Len(gateGraphs) <= Len(gateGraphs') /\ (gateTask'.rev = gateTask.rev => RowsGo /\ GraphsGo)
  BY DEF GateTyping, RunGoes
<1>1. /\ seen \in Snapshot /\ seen.task.rev \in Nat /\ seen.rows \in [RunSteps -> StepRow]
      /\ seen.tries \in Seq(TryRow) /\ seen.task.rev <= gateTask.rev
      /\ seen.graph \in 1..Len(gateGraphs)
      /\ DOMAIN seen.tries \subseteq 1..Len(gateTries)
  BY DEF SeenInv, Snapshot, TaskRow
<1>2. gateTask.rev \in Nat /\ gateTask'.rev \in Nat /\ gateTask.rev <= gateTask'.rev
  BY <1>0 DEF TaskGoes, RunTyping, TaskRow
<1>3. /\ Len(gateGraphs') \in Nat /\ Len(gateTries') \in Nat /\ Len(gateAsks') \in Nat
      /\ Len(gateGraphs) \in Nat /\ Len(gateTries) \in Nat /\ Len(gateAsks) \in Nat
  BY <1>0 DEF RunTyping
<1>4. /\ seen'.graph \in 1..Len(gateGraphs') /\ DOMAIN seen'.tries \subseteq 1..Len(gateTries')
      /\ seen'.task.rev <= gateTask'.rev
  BY <1>0, <1>1, <1>2, <1>3 DEF TriesGo
<1>5. ASSUME NEW i \in DOMAIN seen'.tries
      PROVE  /\ seen'.tries[i].at = gateTries'[i].at /\ seen'.tries[i].rev <= gateTries'[i].rev
             /\ seen'.tries[i].rev = gateTries'[i].rev => seen'.tries[i].status = gateTries'[i].status
  <2>1. /\ i \in DOMAIN seen.tries /\ i \in 1..Len(gateTries) /\ i \in 1..Len(gateTries')  BY <1>1, <1>4, <1>5
  <2>2. /\ seen.tries[i].at = gateTries[i].at /\ seen.tries[i].rev <= gateTries[i].rev
        /\ seen.tries[i].rev = gateTries[i].rev => seen.tries[i].status = gateTries[i].status
    BY <2>1 DEF SeenInv
  <2>3. /\ gateTries'[i].at = gateTries[i].at /\ gateTries[i].rev <= gateTries'[i].rev
        /\ gateTries[i].rev = gateTries'[i].rev => gateTries'[i].status = gateTries[i].status
    BY <1>0, <2>1 DEF TriesGo
  <2>4. seen.tries[i].rev \in Nat /\ gateTries[i].rev \in Nat /\ gateTries'[i].rev \in Nat
    <3>1. seen.tries[i] \in TryRow /\ gateTries[i] \in TryRow /\ gateTries'[i] \in TryRow
      BY <1>0, <1>1, <2>1 DEF RunTyping
    <3> QED  BY <3>1 DEF TryRow
  <2> QED  BY <2>2, <2>3, <2>4
<1>6. \A q \in seen'.asks : q \in 1..Len(gateAsks') /\ gateAsks'[q].run \in DOMAIN seen'.tries
  BY <1>0, <1>3 DEF AsksGo, SeenInv
<1>7. ASSUME seen'.task.rev = gateTask'.rev
      PROVE  /\ seen'.task.status = gateTask'.status
             /\ \A s \in RunSteps :
                    /\ seen'.rows[s].rev <= StepAt(seen.graph, s)'.rev
                    /\ seen'.rows[s].rev = StepAt(seen.graph, s)'.rev => seen'.rows[s].status = StepAt(seen.graph, s)'.status
             /\ \A v \in Actives' : v = seen'.graph \/ gateGraphs'[v].by = "patch"
             /\ seen'.stage = "read" => Drafts0' \subseteq seen'.drafts
             /\ \A q \in seen'.asks, s \in RunSteps :
                    /\ gateTries'[gateAsks'[q].run].at = <<seen.graph, s>>
                    /\ seen'.rows[s].rev = StepAt(seen.graph, s)'.rev
                    /\ StepAt(seen.graph, s)'.status = "needs-input"
                    => gateAsks'[q].status # "answered"
  <2>0. gateTask'.rev = gateTask.rev /\ seen.task.rev = gateTask.rev  BY <1>1, <1>2, <1>7
  <2>1. RowsGo /\ GraphsGo /\ gateTask'.status = gateTask.status  BY <1>0, <2>0 DEF TaskGoes
  <2>2. /\ seen.task.status = gateTask.status
        /\ \A s \in RunSteps :
              /\ seen.rows[s].rev <= StepAt(seen.graph, s).rev
              /\ seen.rows[s].rev = StepAt(seen.graph, s).rev => seen.rows[s].status = StepAt(seen.graph, s).status
        /\ \A v \in Actives : v = seen.graph \/ gateGraphs[v].by = "patch"
        /\ seen.stage = "read" => Drafts0 \subseteq seen.drafts
        /\ \A q \in seen.asks, s \in RunSteps :
              /\ gateTries[gateAsks[q].run].at = <<seen.graph, s>>
              /\ seen.rows[s].rev = StepAt(seen.graph, s).rev
              /\ StepAt(seen.graph, s).status = "needs-input"
              => gateAsks[q].status # "answered"
    BY <2>0 DEF SeenInv
  <2>3. ASSUME NEW s \in RunSteps
        PROVE  /\ StepAt(seen.graph, s).rev \in Nat /\ StepAt(seen.graph, s)'.rev \in Nat /\ seen.rows[s].rev \in Nat
               /\ StepAt(seen.graph, s).rev <= StepAt(seen.graph, s)'.rev
               /\ StepAt(seen.graph, s).rev = StepAt(seen.graph, s)'.rev => StepAt(seen.graph, s)' = StepAt(seen.graph, s)
               /\ StepAt(seen.graph, s)' = gateRows'[seen.graph][s]
    <3>1. seen.graph \in 1..Len(gateRows) /\ seen.graph \in 1..Len(gateRows')  BY <1>0, <1>1, <1>4 DEF RunTyping
    <3>2. gateRows[seen.graph] \in [RunSteps -> StepRow] /\ gateRows'[seen.graph] \in [RunSteps -> StepRow]
      BY <1>0, <3>1 DEF RunTyping
    <3>3. StepAt(seen.graph, s) \in StepRow /\ gateRows'[seen.graph][s] \in StepRow /\ seen.rows[s] \in StepRow
      BY <1>1, <3>2 DEF StepAt
    <3>4. StepAt(seen.graph, s)' = gateRows'[seen.graph][s]  BY DEF StepAt
    <3>5. /\ StepAt(seen.graph, s).rev <= gateRows'[seen.graph][s].rev
          /\ StepAt(seen.graph, s).rev = gateRows'[seen.graph][s].rev => gateRows'[seen.graph][s] = StepAt(seen.graph, s)
      BY <2>1, <3>1 DEF RowsGo
    <3> QED  BY <3>3, <3>4, <3>5 DEF StepRow
  <2>4. ASSUME NEW s \in RunSteps
        PROVE  /\ seen.rows[s].rev <= StepAt(seen.graph, s)'.rev
               /\ seen.rows[s].rev = StepAt(seen.graph, s)'.rev =>
                     StepAt(seen.graph, s)' = StepAt(seen.graph, s) /\ seen.rows[s].rev = StepAt(seen.graph, s).rev
    <3>1. seen.rows[s].rev <= StepAt(seen.graph, s).rev  BY <2>2
    <3> QED  BY <3>1, <2>3
  <2>5. ASSUME NEW q \in seen.asks, NEW s \in RunSteps,
               gateTries'[gateAsks'[q].run].at = <<seen.graph, s>>,
               seen.rows[s].rev = StepAt(seen.graph, s)'.rev, StepAt(seen.graph, s)'.status = "needs-input"
        PROVE  gateAsks'[q].status # "answered"
    <3>1. q \in 1..Len(gateAsks) /\ gateAsks[q].run \in DOMAIN seen.tries  BY DEF SeenInv
    <3>2. gateTries[gateAsks[q].run].at = <<seen.graph, s>>  BY <1>0, <2>5, <1>1, <3>1 DEF TriesGo, AsksGo
    <3>3. seen.rows[s].rev = StepAt(seen.graph, s).rev /\ StepAt(seen.graph, s)' = StepAt(seen.graph, s)  BY <2>4, <2>5
    <3>4. gateAsks[q].status # "answered"  BY <2>2, <2>5, <3>2, <3>3
    <3> SUFFICES ASSUME gateAsks'[q].status = "answered" PROVE FALSE  OBVIOUS
    <3>5. RowOf(<<seen.graph, s>>) = StepAt(seen.graph, s)  BY DEF RowOf, StepAt
    <3>6. gateRows'[seen.graph][s].rev > StepAt(seen.graph, s).rev
      <4> DEFINE p == gateTries[gateAsks[q].run].at
      <4>1. p[1] = seen.graph /\ p[2] = s /\ RowOf(p).status = "needs-input"  BY <2>5, <3>2, <3>3, <3>5
      <4>2. RowOf(p).status = "needs-input" => gateRows'[p[1]][p[2]].rev > RowOf(p).rev  BY <1>0, <3>1, <3>4 DEF AsksGo
      <4> QED  BY <3>2, <3>5, <4>1, <4>2
    <3> QED  BY <2>3, <3>3, <3>6
  <2> QED  BY <2>1, <2>2, <2>4, <2>5 DEF GraphsGo
<1> QED  BY <1>1, <1>4, <1>5, <1>6, <1>7 DEF SeenInv, StepAt

\* A snapshot is of the run as it is when the rows are read.
LEMMA ReadIsTrue ==
    ASSUME GateTyping, ReadRun
    PROVE  SeenInv'
<1> DEFINE v == IF Actives # {} THEN Active ELSE Len(gateGraphs)
           Q == {q \in DOMAIN gateAsks : gateAsks[q].status # "answered"}
<1>0. /\ seen' = [stage |-> "rows", task |-> gateTask, graph |-> v, rows |-> gateRows[v],
                  tries |-> gateTries, sessions |-> gateSessions, asks |-> Q, drafts |-> {}]
      /\ UNCHANGED <<gateTask, gateGraphs, gateRows, gateTries, gateSessions, gateAsks>>
  BY DEF ReadRun, gateRun
<1>1. RunTyping  BY DEF GateTyping
<1>2. v \in 1..Len(gateGraphs) /\ \A w \in Actives : w = v
  <2>1. Len(gateGraphs) > 0  BY <1>1 DEF RunTyping
  <2> QED  BY <1>1, <2>1, ActiveIs, RunSizes
<1> HIDE DEF v
<1>3. /\ seen'.stage = "rows" /\ seen'.task = gateTask /\ seen'.graph = v /\ seen'.rows = gateRows[v]
      /\ seen'.tries = gateTries /\ seen'.asks = Q
  BY <1>0
<1>4. /\ gateTask.rev \in Nat /\ gateRows[v] \in [RunSteps -> StepRow] /\ gateTries \in Seq(TryRow)
      /\ DOMAIN gateTries = 1..Len(gateTries) /\ DOMAIN gateAsks = 1..Len(gateAsks)
      /\ \A i \in 1..Len(gateTries) : gateTries[i].rev \in Nat
      /\ \A q \in 1..Len(gateAsks) : gateAsks[q].run \in 1..Len(gateTries)
      /\ \A s \in RunSteps : gateRows[v][s].rev \in Nat
  <2>1. gateRows[v] \in [RunSteps -> StepRow]  BY <1>1, <1>2 DEF RunTyping
  <2>2. gateTask.rev \in Nat  BY <1>1 DEF RunTyping, TaskRow
  <2> QED  BY <1>1, <2>1, <2>2, TryAt, RunSizes DEF RunTyping, StepRow
<1>5. \A q \in Q : q \in 1..Len(gateAsks) /\ gateAsks[q].status # "answered"  BY <1>4
<1>6. /\ gateTask \in TaskRow /\ gateSessions \in Seq(SessionRow) /\ v \in Nat /\ Q \in SUBSET Nat
  BY <1>1, <1>2, <1>4 DEF RunTyping
<1> HIDE DEF Q
<1>7. seen' \in Snapshot  BY <1>0, <1>4, <1>6 DEF Snapshot
<1>8. Actives' = Actives /\ Drafts0' = Drafts0  BY <1>0 DEF Actives, Drafts0
<1> QED  BY <1>0, <1>7, <1>2, <1>3, <1>4, <1>5, <1>8 DEF SeenInv, StepAt

\* The proposals that are read are those there are.
LEMMA ProposalsAreTrue ==
    ASSUME GateTyping, SeenInv, ReadProposals
    PROVE  SeenInv'
<1>0. /\ seen.stage = "rows" /\ seen' = [seen EXCEPT !.stage = "read", !.drafts = Drafts0]
      /\ UNCHANGED <<gateTask, gateGraphs, gateRows, gateTries, gateSessions, gateAsks>>
  BY DEF ReadProposals, gateRun
<1>1. Actives' = Actives /\ Drafts0' = Drafts0  BY <1>0 DEF Actives, Drafts0
<1>2. seen \in Snapshot /\ Drafts0 \in SUBSET Nat
  <2>1. DOMAIN gateGraphs \subseteq Nat  BY RunSizes DEF GateTyping
  <2> QED  BY <1>0, <2>1 DEF SeenInv, Drafts0
<1>3. seen' \in Snapshot  BY <1>0, <1>2, Zenon DEF Snapshot
<1>4. /\ seen'.drafts = Drafts0 /\ seen'.task = seen.task /\ seen'.graph = seen.graph /\ seen'.rows = seen.rows
      /\ seen'.tries = seen.tries /\ seen'.asks = seen.asks
  BY <1>0, <1>2, Zenon DEF Snapshot
<1>5. QED  BY <1>0, <1>1, <1>3, <1>4 DEF SeenInv, StepAt

----
(* The gate.                                                               *)

\* What the snapshot names is of the run.
LEMMA SeenIs ==
    ASSUME GateTyping, SeenInv, seen.stage = "read"
    PROVE  /\ seen.graph \in 1..Len(gateGraphs) /\ DOMAIN seen.tries \subseteq 1..Len(gateTries)
           /\ \A s \in RunSteps : <<seen.graph, s>> \in AllRows
           /\ \A i \in DOMAIN seen.tries : seen.tries[i].at = gateTries[i].at
           /\ \A q \in seen.asks : q \in DOMAIN gateAsks
<1> QED  BY RunSizes DEF SeenInv, GateTyping, AllRows

\* Which question is meant: one that is open at the step.
LEMMA MeantIs ==
    ASSUME RunTyping, NEW p, Cardinality(OpenAt(p)) = 1
    PROVE  /\ (CHOOSE x \in OpenAt(p) : TRUE) \in OpenAt(p) /\ (CHOOSE x \in OpenAt(p) : TRUE) \in DOMAIN gateAsks
           /\ \A x \in OpenAt(p) : x = CHOOSE y \in OpenAt(p) : TRUE
<1>1. OpenAt(p) \subseteq 1..Len(gateAsks) /\ OpenAt(p) \subseteq DOMAIN gateAsks  BY RunSizes DEF OpenAt
<1>2. IsFiniteSet(OpenAt(p))
  <2>1. IsFiniteSet(1..Len(gateAsks))  BY RunSizes, FS_Interval
  <2> QED  BY <1>1, <2>1, FS_Subset
<1>3. \E x : OpenAt(p) = {x}  BY <1>2, FS_Singleton
<1> QED  BY <1>1, <1>3

\* Every step writes the run, which goes on, or only reads it.
PumpMoves ==
    \/ UNCHANGED pump \/ pump' = [pc |-> "idle", run |-> 0]
    \/ \E i \in 1..Len(gateTries), at \in {"askStep", "exitStep"} : pump' = [pc |-> at, run |-> i]
    \/ pump.pc # "idle" /\ \E at \in {"askTask", "exitTask"} : pump' = [pump EXCEPT !.pc = at]

\* A step either writes rows and leaves what was seen, or sees and leaves the rows.
LEMMA GateCases ==
    ASSUME GateTyping, SeenInv, GateNext
    PROVE  \/ RunTyping' /\ RunGoes /\ UNCHANGED seen /\ Counts /\ PumpMoves
           \/ UNCHANGED <<gateRun, pump, unseen, moves>> /\ (ReadRun \/ ReadProposals \/ Forget)
<1> USE DEF PumpMoves
<1> DEFINE RunActs == RunTyping' /\ RunGoes /\ UNCHANGED seen /\ Counts /\ PumpMoves
<1>0. /\ RunTyping /\ DOMAIN gateTries = 1..Len(gateTries) /\ DOMAIN gateAsks = 1..Len(gateAsks)
      /\ pump.pc # "idle" => pump.run \in 1..Len(gateTries)
  BY RunSizes DEF GateTyping
<1>1. ASSUME NEW s \in RunSteps, Launch(s) PROVE RunActs  BY <1>0, <1>1, LaunchGoes DEF Launch, ByOthers
<1>2. ASSUME NEW s \in RunSteps, SendRetry(s) PROVE RunActs  BY <1>0, <1>2, SeenIs, RetryGoes DEF SendRetry, Sends
<1>3. ASSUME NEW s \in RunSteps, SendSkip(s) PROVE RunActs  BY <1>0, <1>3, SeenIs, SkipGoes DEF SendSkip, Sends
<1>4. ASSUME NEW i \in 1..Len(gateTries), Ask(i) PROVE RunActs  BY <1>0, <1>4, AskGoes DEF Ask, ByOthers
<1>5. ASSUME NEW i \in 1..Len(gateTries), Exit(i) PROVE RunActs  BY <1>0, <1>5, ExitGoes DEF Exit, ByOthers
<1>6. ASSUME NEW i \in 1..Len(gateTries), SessionMoves(i) PROVE RunActs
  BY <1>0, <1>6, SessionGoes DEF SessionMoves, ByOthers
<1>7. ASSUME NEW i \in 1..Len(gateTries), AgentProposes(i) PROVE RunActs
  BY <1>0, <1>7, ProposeGoes DEF AgentProposes, ByOthers
<1>8. ASSUME NEW i \in 1..Len(gateTries), NEW o \in {"succeeded", "failed"}, AgentSettles(i, o) PROVE RunActs
  BY <1>0, <1>8, SettleGoes DEF AgentSettles, ByOthers
<1>9. ASSUME NEW i \in 1..Len(gateTries), NEW o \in {"succeeded", "failed"}, SendSettle(i, o) PROVE RunActs
  BY <1>0, <1>9, SettleGoes DEF SendSettle, Sends
<1>10. ASSUME MarkStep PROVE RunActs  BY <1>0, <1>10, MarkStepGoes DEF MarkStep, ByOthers
<1>11. ASSUME MarkTask PROVE RunActs  BY <1>0, <1>11, MarkTaskGoes DEF MarkTask, ByOthers
<1>12. ASSUME NEW q \in 1..Len(gateAsks), AnswerArrives(q) PROVE RunActs
  BY <1>0, <1>12, ArrivalGoes DEF AnswerArrives, ByOthers
<1>13. ASSUME NEW q \in 1..Len(gateAsks), NEW s \in RunSteps, SendRespond(s, q) PROVE RunActs
  <2> DEFINE meant == CHOOSE x \in OpenAt(<<seen.graph, s>>) : TRUE
  <2>1. Cardinality(OpenAt(<<seen.graph, s>>)) = 1 /\ Answers0(meant)  BY <1>13 DEF SendRespond, RespondScope
  <2>2. meant \in 1..Len(gateAsks)  BY <1>0, <2>1, MeantIs
  <2> HIDE DEF meant
  <2> QED  BY <1>0, <1>13, <2>1, <2>2, AskedGoes DEF SendRespond, Sends
<1>14. ASSUME PauseRun PROVE RunActs  BY <1>0, <1>14, PauseGoes DEF PauseRun, ByOthers
<1>15. ASSUME PatchGraph PROVE RunActs  BY <1>0, <1>15, PatchGoes DEF PatchGraph, ByOthers
<1>16. ASSUME SendCancel PROVE RunActs  BY <1>0, <1>16, CancelGoes DEF SendCancel, Sends
<1>17. ASSUME SendConfirm PROVE RunActs  BY <1>0, <1>17, ConfirmGoes DEF SendConfirm, Sends
<1>18. ASSUME ReadRun \/ ReadProposals \/ Forget PROVE UNCHANGED <<gateRun, pump, unseen, moves>>
  BY <1>18 DEF ReadRun, ReadProposals, Forget
<1> HIDE DEF RunActs
<1>19. RunActs \/ ReadRun \/ ReadProposals \/ Forget
  BY <1>0, <1>1, <1>2, <1>3, <1>4, <1>5, <1>6, <1>7, <1>8, <1>9, <1>10, <1>11, <1>12, <1>13, <1>14, <1>15, <1>16, <1>17
    DEF GateNext
<1> QED  BY <1>18, <1>19 DEF RunActs

\* The typing is kept.
LEMMA GateTypingStep ==
    ASSUME GateTyping, SeenInv, [GateNext]_gateVars
    PROVE  GateTyping'
<1> DEFINE Pumps == [pc : {"idle", "askStep", "askTask", "exitStep", "exitTask"}, run : 0..MaxTries]
<1>0. /\ RunTyping /\ pump \in Pumps /\ (pump.pc # "idle" => pump.run \in 1..Len(gateTries))
      /\ moves \in 0..MaxMoves /\ gateTask.rev <= moves + 1 /\ gateTask.rev \in Nat
  BY DEF GateTyping, RunTyping, TaskRow
<1>1. CASE UNCHANGED <<gateRun, pump, moves>>
  <2>1. UNCHANGED <<gateTask, gateGraphs, gateRows, gateTries, gateSessions, gateAsks, pump, moves>>
    BY <1>1 DEF gateRun
  <2>2. RunTyping'  BY <1>0, <2>1, GraphsStay, RunSizes, TypingFromParts DEF RunTyping
  <2> QED  BY <1>0, <2>1, <2>2 DEF GateTyping
<1>2. CASE RunTyping' /\ RunGoes /\ Counts /\ PumpMoves
  <2>0. Len(gateTries) \in Nat /\ MaxTries \in Nat /\ RunTyping' /\ RunGoes  BY <1>0, <1>2, RunSizes
  <2>1. Len(gateTries') \in Nat  BY <2>0 DEF RunTyping
  <2>2. Len(gateTries) <= MaxTries  BY <1>0 DEF RunTyping
  <2>3. /\ Len(gateTries) <= Len(gateTries') /\ Len(gateTries) \in Nat /\ Len(gateTries') \in Nat
        /\ Len(gateTries) <= MaxTries /\ MaxTries \in Nat
        /\ gateTask'.rev \in gateTask.rev..(gateTask.rev + 1)
    BY <2>0, <2>1, <2>2 DEF RunGoes, TriesGo, TaskGoes
  <2>4. moves' \in 0..MaxMoves /\ moves' = moves + 1  BY <1>0, <1>2, GateBounds DEF Counts
  <2>5. gateTask'.rev <= moves' + 1  BY <1>0, <2>3, <2>4
  <2>6. pump' \in Pumps /\ (pump'.pc # "idle" => pump'.run \in 1..Len(gateTries'))
    <3>1. CASE UNCHANGED pump  BY <1>0, <2>3, <3>1
    <3>2. CASE pump' = [pc |-> "idle", run |-> 0]  BY <2>3, <3>2
    <3>3. ASSUME NEW i \in 1..Len(gateTries), NEW at \in {"askStep", "exitStep"}, pump' = [pc |-> at, run |-> i]
          PROVE  pump' \in Pumps /\ pump'.run \in 1..Len(gateTries')
      BY <2>3, <3>3
    <3>4. ASSUME pump.pc # "idle", NEW at \in {"askTask", "exitTask"}, pump' = [pump EXCEPT !.pc = at]
          PROVE  pump' \in Pumps /\ pump'.run \in 1..Len(gateTries')
      <4>1. pump' \in Pumps /\ pump'.run = pump.run  BY <1>0, <3>4, Zenon
      <4> QED  BY <1>0, <2>3, <3>4, <4>1
    <3> HIDE DEF Pumps
    <3> QED  BY <1>2, <3>1, <3>2, <3>3, <3>4 DEF PumpMoves
  <2> QED  BY <1>2, <2>4, <2>5, <2>6 DEF GateTyping
<1> QED  BY <1>1, <1>2, GateCases DEF gateVars

\* The snapshot stays honest.
LEMMA SeenStep ==
    ASSUME GateTyping, SeenInv, [GateNext]_gateVars
    PROVE  SeenInv'
<1>1. CASE UNCHANGED gateVars
  <2>1. /\ UNCHANGED <<gateTask, gateGraphs, gateRows, gateTries, gateSessions, gateAsks, seen>>
    BY <1>1 DEF gateVars, gateRun
  <2>2. Actives' = Actives /\ Drafts0' = Drafts0  BY <2>1 DEF Actives, Drafts0
  <2> QED  BY <2>1, <2>2 DEF SeenInv, StepAt
<1>2. CASE RunTyping' /\ RunGoes /\ UNCHANGED seen  BY <1>2, SeenStays
<1>3. CASE ReadRun  BY <1>3, ReadIsTrue
<1>4. CASE ReadProposals  BY <1>4, ProposalsAreTrue
<1>5. CASE Forget
  <2>1. seen'.stage = "none"  BY <1>5 DEF Forget, NoneSeen
  <2> QED  BY <2>1 DEF SeenInv
<1> QED  BY <1>1, <1>2, <1>3, <1>4, <1>5, GateCases

\* What is quoted with its revision is what was seen.
LEMMA QuotedIsSeen ==
    ASSUME GateTyping, SeenInv, seen.stage = "read", seen.task.rev = gateTask.rev, NEW Quoted, NEW I,
           \A x \in Quoted : \E s \in RunSteps : x = <<seen.graph, s>> /\ seen.rows[s].rev = RowOf(x).rev,
           \A i \in I : i \in DOMAIN seen.tries /\ seen.tries[i].rev = gateTries[i].rev
    PROVE  Unlike(Quoted, I) = {}
<1>1. seen.task.status = gateTask.status  BY DEF SeenInv
<1>2. ASSUME NEW x \in Quoted PROVE x[1] = seen.graph /\ seen.rows[x[2]].status = RowOf(x).status
  <2>1. PICK s \in RunSteps : x = <<seen.graph, s>> /\ seen.rows[s].rev = RowOf(x).rev  OBVIOUS
  <2> QED  BY <2>1 DEF SeenInv, RowOf, StepAt
<1>3. ASSUME NEW i \in I PROVE i \in DOMAIN seen.tries /\ seen.tries[i].status = gateTries[i].status
  BY <1>3 DEF SeenInv
<1>4. {gateTask.status} \ {seen.task.status} = {}  BY <1>1
<1> QED  BY <1>2, <1>3, <1>4 DEF Unlike

\* Nothing lands on what its sender had not seen.
LEMMA UnseenStep ==
    ASSUME GateInv, [GateNext]_gateVars
    PROVE  ActsOnWhatWasSeen'
<1>0. /\ GateTyping /\ SeenInv /\ unseen = {} /\ RunTyping
      /\ DOMAIN gateTries = 1..Len(gateTries) /\ DOMAIN gateAsks = 1..Len(gateAsks)
  BY RunSizes DEF GateInv, ActsOnWhatWasSeen, GateTyping
<1>1. ASSUME NEW s \in RunSteps, SendRetry(s) PROVE unseen' = {}
  <2> DEFINE p == <<seen.graph, s>>
             I == LiveAt({p})
  <2>1. /\ seen.stage = "read" /\ Current({s}, SeenLive({s})) /\ I = SeenLive({s})
        /\ unseen' = unseen \cup Unlike({p}, I)
    BY <1>1 DEF SendRetry, Sends, RetryScope, Records
  <2>2. seen.task.rev = gateTask.rev /\ seen.rows[s].rev = RowOf(p).rev  BY <2>1 DEF Current
  <2>3. \A i \in I : i \in DOMAIN seen.tries /\ seen.tries[i].rev = gateTries[i].rev  BY <2>1 DEF Current, SeenLive
  <2>4. \A x \in {p} : \E t \in RunSteps : x = <<seen.graph, t>> /\ seen.rows[t].rev = RowOf(x).rev  BY <2>2
  <2> HIDE DEF p, I
  <2>5. Unlike({p}, I) = {}  BY <1>0, <2>1, <2>2, <2>3, <2>4, QuotedIsSeen
  <2> QED  BY <1>0, <2>1, <2>5
<1>2. ASSUME NEW s \in RunSteps, SendSkip(s) PROVE unseen' = {}
  <2> DEFINE p == <<seen.graph, s>>
  <2>1. seen.stage = "read" /\ Current({s}, SeenLive({s})) /\ unseen' = unseen \cup Unlike({p}, {})
    BY <1>2 DEF SendSkip, Sends, Records
  <2>2. seen.task.rev = gateTask.rev /\ seen.rows[s].rev = RowOf(p).rev  BY <2>1 DEF Current
  <2>3. \A x \in {p} : \E t \in RunSteps : x = <<seen.graph, t>> /\ seen.rows[t].rev = RowOf(x).rev  BY <2>2
  <2> HIDE DEF p
  <2>4. Unlike({p}, {}) = {}  BY <1>0, <2>1, <2>2, <2>3, QuotedIsSeen
  <2> QED  BY <1>0, <2>1, <2>4
<1>3. ASSUME NEW i \in 1..Len(gateTries), NEW o \in {"succeeded", "failed"}, SendSettle(i, o) PROVE unseen' = {}
  <2> DEFINE s == seen.tries[i].at[2]
             p == SettledRow(i)
  <2>1. /\ seen.stage = "read" /\ i \in DOMAIN seen.tries /\ Current({s}, {i}) /\ seen.graph \in Actives
        /\ unseen' = unseen \cup Unlike({p}, {i})
    BY <1>3 DEF SendSettle, Sends, SettleScope, Records
  <2>2. /\ seen.task.rev = gateTask.rev /\ seen.rows[s].rev = RowOf(<<seen.graph, s>>).rev
        /\ seen.tries[i].rev = gateTries[i].rev
    BY <2>1 DEF Current
  <2>3. Actives # {} /\ Active = seen.graph  BY <1>0, <2>1, ActiveIs
  <2>4. p = <<seen.graph, s>> /\ s \in RunSteps  BY <1>0, <2>1, SeenIs, TryAt, <2>3 DEF SettledRow, AllRows
  <2> HIDE DEF s, p
  <2>5. \A x \in {p} : \E t \in RunSteps : x = <<seen.graph, t>> /\ seen.rows[t].rev = RowOf(x).rev  BY <2>2, <2>4
  <2>6. \A j \in {i} : j \in DOMAIN seen.tries /\ seen.tries[j].rev = gateTries[j].rev  BY <2>1, <2>2
  <2>7. Unlike({p}, {i}) = {}  BY <1>0, <2>1, <2>2, <2>5, <2>6, QuotedIsSeen
  <2> QED  BY <1>0, <2>1, <2>7
<1>4. ASSUME NEW q \in 1..Len(gateAsks), NEW s \in RunSteps, SendRespond(s, q) PROVE unseen' = {}
  <2> DEFINE p == <<seen.graph, s>>
             meant == CHOOSE x \in OpenAt(p) : TRUE
             i == gateAsks[q].run
  <2>1. /\ seen.stage = "read" /\ q \in seen.asks /\ seen.tries[i].at = p
        /\ Current({s}, {i}) /\ Cardinality(OpenAt(p)) = 1 /\ RowOf(p).status = "needs-input"
        /\ unseen' = unseen \cup (Unlike({p}, {gateAsks[meant].run}) \cup {"question" : x \in {meant} \ {q}})
    BY <1>4 DEF SendRespond, Sends, RespondScope, Records
  <2>2. /\ seen.task.rev = gateTask.rev /\ seen.rows[s].rev = RowOf(p).rev
        /\ seen.tries[i].rev = gateTries[i].rev
    BY <2>1 DEF Current
  <2>3. i \in DOMAIN seen.tries /\ gateTries[i].at = p  BY <1>0, <2>1, SeenIs DEF SeenInv
  <2>4. RowOf(p) = StepAt(seen.graph, s)  BY DEF RowOf, StepAt
  <2>5. gateAsks[q].status # "answered"  BY <1>0, <2>1, <2>2, <2>3, <2>4 DEF SeenInv
  <2>6. q \in OpenAt(p)  BY <1>0, <2>3, <2>5 DEF OpenAt
  <2>7. q = meant  BY <1>0, <2>1, <2>6, MeantIs
  <2>8. \A x \in {p} : \E t \in RunSteps : x = <<seen.graph, t>> /\ seen.rows[t].rev = RowOf(x).rev  BY <2>2
  <2> HIDE DEF p, meant, i
  <2>9. gateAsks[meant].run = i  BY <2>7 DEF i
  <2>10. \A j \in {i} : j \in DOMAIN seen.tries /\ seen.tries[j].rev = gateTries[j].rev  BY <2>2, <2>3
  <2>11. Unlike({p}, {i}) = {}  BY <1>0, <2>1, <2>2, <2>8, <2>10, QuotedIsSeen
  <2> QED  BY <1>0, <2>1, <2>7, <2>9, <2>11
<1>5. ASSUME SendCancel PROVE unseen' = {}
  <2> DEFINE S == {s \in RunSteps : seen.rows[s].status \notin StepOver}
             Quoted == {p \in Actives \X RunSteps : RowOf(p).status \notin StepOver}
             I == LiveAt(AllRows)
  <2>1. /\ seen.stage = "read" /\ Current(S, SeenLiveAny) /\ {<<seen.graph, s>> : s \in S} = Quoted
        /\ SeenLiveAny = I /\ unseen' = unseen \cup Unlike(Quoted, I)
    BY <1>5 DEF SendCancel, Sends, CancelScope, Records
  <2>2. seen.task.rev = gateTask.rev /\ \A s \in S : seen.rows[s].rev = RowOf(<<seen.graph, s>>).rev
    BY <2>1 DEF Current
  <2>3. \A i \in I : i \in DOMAIN seen.tries /\ seen.tries[i].rev = gateTries[i].rev  BY <2>1 DEF Current, SeenLiveAny
  <2>4. \A x \in Quoted : \E t \in RunSteps : x = <<seen.graph, t>> /\ seen.rows[t].rev = RowOf(x).rev  BY <2>1, <2>2
  <2> HIDE DEF S, Quoted, I
  <2>5. Unlike(Quoted, I) = {}  BY <1>0, <2>1, <2>2, <2>3, <2>4, QuotedIsSeen
  <2> QED  BY <1>0, <2>1, <2>5
<1>6. ASSUME SendConfirm PROVE unseen' = {}
  <2>1. /\ seen.stage = "read" /\ Current({}, {})
        /\ unseen' = unseen
               \cup ({"proposal" : d \in {x \in Drafts0 : x = Newest0(Drafts0)} \ seen.drafts}
               \cup {"graph" : v \in {x \in Actives : gateGraphs[x].by # "patch"} \ {seen.graph}})
    BY <1>6 DEF SendConfirm, Sends, Records
  <2>2. seen.task.rev = gateTask.rev  BY <2>1 DEF Current
  <2> QED  BY <1>0, <2>1, <2>2 DEF SeenInv
<1>7. CASE UNCHANGED unseen  BY <1>0, <1>7 DEF ActsOnWhatWasSeen
<1>8. \/ UNCHANGED unseen \/ SendCancel \/ SendConfirm
      \/ \E s \in RunSteps : SendRetry(s) \/ SendSkip(s)
      \/ \E i \in 1..Len(gateTries), o \in {"succeeded", "failed"} : SendSettle(i, o)
      \/ \E q \in 1..Len(gateAsks), s \in RunSteps : SendRespond(s, q)
  BY <1>0 DEF gateVars, GateNext, Launch, Ask, Exit, SessionMoves, AgentProposes, AgentSettles, MarkStep, MarkTask,
    AnswerArrives, PauseRun, PatchGraph, ReadRun, ReadProposals, Forget, ByOthers
<1> QED  BY <1>1, <1>2, <1>3, <1>4, <1>5, <1>6, <1>7, <1>8 DEF ActsOnWhatWasSeen

\* A run that has been started has one active graph with steps that are ready.
LEMMA GateBegins == GateInit => GateInv
<1> SUFFICES ASSUME GateInit PROVE GateInv  OBVIOUS
<1> USE DEF GateInit
<1> DEFINE g == [status |-> "active", by |-> "start"]
<1>1. g \in GraphRow /\ gateGraphs = <<g>> /\ gateTask \in TaskRow /\ RowsOf("ready") \in [RunSteps -> StepRow]
  BY DEF GraphRow, TaskRow, RowsOf, StepRow, RowStatuses
<1> HIDE DEF g
<1>2. /\ gateGraphs \in Seq(GraphRow) /\ Len(gateGraphs) = 1
      /\ gateRows \in Seq([RunSteps -> StepRow]) /\ Len(gateRows) = 1
      /\ gateTries \in Seq(TryRow) /\ Len(gateTries) = 0 /\ gateSessions \in Seq(SessionRow) /\ Len(gateSessions) = 0
      /\ gateAsks \in Seq(AskRow) /\ Len(gateAsks) = 0 /\ DOMAIN gateGraphs = {1}
  BY <1>1
<1>3. \A v, w \in Actives : v = w  BY <1>2 DEF Actives
<1>4. RunTyping  BY <1>1, <1>2, <1>3, GateBounds DEF RunTyping
<1>5. GateTyping  BY <1>4, GateBounds DEF GateTyping
<1>6. SeenInv  BY DEF SeenInv, NoneSeen
<1> QED  BY <1>5, <1>6 DEF GateInv, ActsOnWhatWasSeen

\* The typing of the module is part of the typing of the proof.
LEMMA GateTypes == GateTyping => GateTypeOK
<1> SUFFICES ASSUME GateTyping PROVE GateTypeOK  OBVIOUS
<1>0. /\ RunTyping /\ DOMAIN gateTries = 1..Len(gateTries) /\ DOMAIN gateAsks = 1..Len(gateAsks)
      /\ DOMAIN gateSessions = 1..Len(gateSessions) /\ DOMAIN gateGraphs = 1..Len(gateGraphs)
      /\ Len(gateTries) = Len(gateSessions) /\ Len(gateRows) = Len(gateGraphs)
  BY RunSizes DEF GateTyping, RunTyping
<1>1. gateTask \in [rev : 1..(MaxMoves + 1), paused : BOOLEAN,
                    status : RunOver \cup {"draft", "ready", "running", "needs-you"}]
  <2>1. gateTask \in TaskRow /\ gateTask.rev <= moves + 1 /\ moves \in 0..MaxMoves  BY <1>0 DEF GateTyping, RunTyping
  <2>2. gateTask.rev \in 1..(MaxMoves + 1)  BY <2>1, GateBounds DEF TaskRow
  <2> QED  BY <2>1, <2>2, Zenon DEF TaskRow
<1>2. \A v \in DOMAIN gateGraphs : gateGraphs[v] \in GraphRow  BY <1>0 DEF RunTyping
<1>3. Cardinality(Actives) <= 1
  <2>1. CASE Actives = {}  BY <2>1, FS_EmptySet
  <2>2. CASE Actives # {}
    <3>1. Cardinality({Active}) = 1  BY FS_Singleton
    <3>2. Actives = {Active}  BY <1>0, <2>2, ActiveIs
    <3> QED  BY <3>1, <3>2
  <2> QED  BY <2>1, <2>2
<1>4. \A p \in AllRows : RowOf(p).status \in RowStatuses /\ RowOf(p).rev \in Nat
  <2> TAKE p \in AllRows
  <2>1. p[1] \in 1..Len(gateRows) /\ p[2] \in RunSteps  BY <1>0 DEF AllRows
  <2>2. gateRows[p[1]] \in [RunSteps -> StepRow]  BY <1>0, <2>1 DEF RunTyping
  <2> QED  BY <2>1, <2>2 DEF RowOf, StepRow
<1>5. \A i \in DOMAIN gateTries : gateTries[i].at \in AllRows /\ gateTries[i].status \in TryStatuses  BY <1>0, TryAt
<1>6. \A q \in DOMAIN gateAsks : gateAsks[q].status \in {"open", "accepted", "answered"}
  <2>1. \A q \in 1..Len(gateAsks) : gateAsks[q] \in AskRow  BY <1>0 DEF RunTyping
  <2> QED  BY <1>0, <2>1 DEF AskRow
<1>7. pump.run \in 0..MaxTries  BY DEF GateTyping
<1> QED  BY <1>0, <1>1, <1>2, <1>3, <1>4, <1>5, <1>6, <1>7 DEF GateTypeOK, GraphRow

\* The joint invariant of the rows and of what was seen of them is inductive.
THEOREM GateInductive == GateSpec => []GateInv
<1>1. GateInv /\ [GateNext]_gateVars => GateInv'  BY GateTypingStep, SeenStep, UnseenStep DEF GateInv
<1> QED  BY <1>1, GateBegins, PTL DEF GateSpec

\* A command on a run changes only what its sender saw, and saw as it is, for any run, snapshot
\* and writes in between.
THEOREM GateIsSafe == GateSpec => []GateSafety
<1>1. GateInv => GateSafety  BY GateTypes DEF GateInv, GateSafety
<1> QED  BY <1>1, GateInductive, PTL

----
(* What a run asks of its user.                                            *)

PlanNodes == UNION {DOMAIN g : g \in Plans}
PlanSpots == (Nat \ {0}) \X PlanNodes
BoardStatuses == Terminal \cup {"pending", "ready", "running", "needs-input", "awaiting-outcome", "blocked"}
BoardRow == [status : BoardStatuses, attempts : Nat]
LaunchStatuses == {"running", "awaiting-outcome", "interrupted", "succeeded", "failed", "cancelled"}
LaunchRow == [at : PlanSpots, status : LaunchStatuses]
Question == [at : PlanSpots, open : BOOLEAN]
Sheet == [at : PlanSpots, review : {"none", "awaiting", "confirmed"}, used : BOOLEAN]
Status(n) == board[Now][n].status

Boards == UNION {[DOMAIN g -> BoardRow] : g \in Plans}

\* The rows of a board are those of the graphs.
BoardFits(b) ==
    /\ b \in [1..Now -> Boards]
    /\ \A v \in 1..Now : b[v] \in [DOMAIN plans[v] -> BoardRow]

LaunchesFit(l) == l \in Seq(LaunchRow) /\ \A r \in DOMAIN l : l[r].at \in Spots
AskedFit(a) == a \in Seq(Question) /\ \A q \in DOMAIN a : a[q].at \in Spots
SheetsFit(s) == s \in Seq(Sheet) /\ \A i \in DOMAIN s : s[i].at \in Spots
PaneFits(p) ==
    /\ p \in [pc : {"closed", "reviews", "latest", "shown"}, v : Nat, quiet : SUBSET PlanNodes,
              waits : SUBSET PlanNodes, true : SUBSET PlanSpots]
    /\ p.pc # "closed" => p.v \in 1..Now

NeedsTyping ==
    /\ plans \in Seq(Plans) /\ Now > 0
    /\ BoardFits(board) /\ LaunchesFit(launches) /\ AskedFit(asked) /\ SheetsFit(sheets)
    /\ clashes \subseteq PlanNodes
    /\ life \in {"open", "succeeded", "failed", "cancelled"} /\ halted \in BOOLEAN
    /\ PaneFits(pane)

\* A node that was started stays in the graph.
StartedInv ==
    \A r \in DOMAIN launches :
        launches[r].at[2] \in DOMAIN Plan /\ board[Now][launches[r].at[2]].attempts > 0

\* A row that is at work has an attempt that is, or was.
WorkingInv ==
    \A n \in DOMAIN Plan : Status(n) \in {"running", "needs-input"} =>
        \/ Misdirected
        \/ \E r \in DOMAIN launches : launches[r].at[2] = n /\
              launches[r].status \in {"running", "awaiting-outcome", "interrupted"}

\* Only the end of the run cancels a node.
CancelInv == \A n \in DOMAIN Plan : Status(n) = "cancelled" => life = "cancelled"

\* A node that may start was moved, or some other node was tried again and will move it.
DepsDone(b, n) == \A d \in Plan[n] : b[Now][d].status \in Settled
Stirred(b) ==
    \E k \in DOMAIN Plan : /\ b[Now][k].attempts > 0
                           /\ b[Now][k].status \in {"ready", "running", "needs-input", "awaiting-outcome", "failed"}
WaitingInv ==
    \A n \in DOMAIN Plan : DepsDone(board, n) =>
        /\ Status(n) # "pending"
        /\ Status(n) = "blocked" => life = "cancelled" \/ Belated \/ Stirred(board)

\* Of a graph that nobody replaced, a run that is done is over.
DoneInv ==
    Now = 1 /\ clashes = {} /\ (\A n \in DOMAIN Plan : Status(n) \in Settled) => life # "open"

\* What awaits a review is the latest input of its node, and of the active graph.
SheetInv ==
    /\ \A i \in DOMAIN sheets : sheets[i].at[2] \in Guarded
    /\ \A i, j \in DOMAIN sheets : i <= j => sheets[i].at[1] <= sheets[j].at[1]
    /\ \A i \in DOMAIN sheets : sheets[i].review = "awaiting" =>
          ~sheets[i].used /\ sheets[i].at[1] = Now /\ Newer(i)

\* A review that the details are about to show could be given, or will not be shown.
PaneInv ==
    /\ pane.pc = "latest" => \A n \in pane.waits :
          \/ <<pane.v, n>> \in pane.true
          \/ \E i \in DOMAIN sheets : sheets[i].at[2] = n /\ sheets[i].at[1] > pane.v
    /\ pane.pc = "shown" => \A n \in pane.waits : <<pane.v, n>> \in pane.true

\* Of the run, of what is reviewed, and together.
RunInv == StartedInv /\ WorkingInv /\ CancelInv /\ WaitingInv /\ DoneInv
NeedsInv == NeedsTyping /\ RunInv /\ SheetInv /\ PaneInv

----
\* A sequence some of whose elements are replaced is a sequence.
LEMMA SeqReplaced ==
    ASSUME NEW S, NEW s \in Seq(S), NEW t, t = [i \in DOMAIN s |-> t[i]], \A i \in DOMAIN s : t[i] \in S
    PROVE  t \in Seq(S) /\ Len(t) = Len(s) /\ DOMAIN t = DOMAIN s
<1>1. Len(s) \in Nat /\ DOMAIN s = 1..Len(s)  OBVIOUS
<1>2. t \in [1..Len(s) -> S]  BY <1>1
<1>3. t \in Seq(S)  BY <1>1, <1>2, SeqDef
<1>4. Len(t) = Len(s)  BY <1>1, <1>2, <1>3
<1> QED  BY <1>1, <1>2, <1>3, <1>4

\* A sequence grows by its last element.
LEMMA SeqGrown ==
    ASSUME NEW S, NEW s \in Seq(S), NEW x \in S
    PROVE  /\ Append(s, x) \in Seq(S) /\ Len(Append(s, x)) = Len(s) + 1 /\ Len(s) \in Nat
           /\ DOMAIN s = 1..Len(s) /\ DOMAIN Append(s, x) = DOMAIN s \cup {Len(s) + 1}
           /\ \A i \in DOMAIN s : Append(s, x)[i] = s[i]
           /\ Append(s, x)[Len(s) + 1] = x
<1>1. /\ Append(s, x) \in Seq(S) /\ Len(Append(s, x)) = Len(s) + 1 /\ Len(s) \in Nat
      /\ DOMAIN s = 1..Len(s)
  OBVIOUS
<1>2. \A i \in DOMAIN s : Append(s, x)[i] = s[i]  BY <1>1
<1>3. Append(s, x)[Len(s) + 1] = x  BY <1>1
<1> QED  BY <1>1, <1>2, <1>3

\* The graphs of the run, and the places of their rows.
LEMMA PlanFacts ==
    ASSUME NeedsTyping
    PROVE  /\ Now \in Nat /\ Now \in 1..Now /\ DOMAIN plans = 1..Now
           /\ Plan \in Plans /\ Plan \in [DOMAIN Plan -> SUBSET DOMAIN Plan] /\ DOMAIN Plan \subseteq PlanNodes
           /\ \A v \in 1..Now : plans[v] \in Plans /\ plans[v] \in [DOMAIN plans[v] -> SUBSET DOMAIN plans[v]]
           /\ \A v \in 1..Now : \A n \in DOMAIN plans[v] :
                 <<v, n>> \in Spots /\ <<v, n>> \in PlanSpots /\ board[v][n] \in BoardRow
           /\ \A p \in Spots : p[1] \in 1..Now /\ p[2] \in DOMAIN plans[p[1]] /\ p = <<p[1], p[2]>>
<1>1. Now \in Nat /\ Now \in 1..Now /\ DOMAIN plans = 1..Now  BY DEF NeedsTyping, Now
<1>2. \A v \in 1..Now : plans[v] \in Plans  BY <1>1 DEF NeedsTyping
<1> QED  BY <1>1, <1>2, NeedsAssumption DEF Plan, Spots, PlanSpots, PlanNodes, ValidPlan, NeedsTyping, BoardFits

\* A row as a record.
LEMMA BoardRows ==
    ASSUME NEW x \in BoardRow
    PROVE  /\ x.status \in BoardStatuses /\ x.attempts \in Nat
           /\ x = [status |-> x.status, attempts |-> x.attempts]
           /\ \A st \in BoardStatuses, k \in Nat : [status |-> st, attempts |-> k] \in BoardRow
           /\ \A st \in BoardStatuses : [x EXCEPT !.status = st] = [status |-> st, attempts |-> x.attempts]
BY DEF BoardRow

\* The rows of one graph are written.
LEMMA PutFits ==
    ASSUME NeedsTyping, NEW b, BoardFits(b), NEW v \in 1..Now, NEW x \in [DOMAIN plans[v] -> BoardRow],
           NEW c, \A y \in Boards : y = x => c \in [1..Now -> Boards], c[v] = x, \A u \in 1..Now : u # v => c[u] = b[u]
    PROVE  BoardFits(c)
<1>1. x \in Boards  BY PlanFacts DEF Boards
<1> QED  BY <1>1 DEF BoardFits

\* One row is written.
LEMMA SetFits ==
    ASSUME NeedsTyping, NEW p \in Spots, NEW st \in BoardStatuses
    PROVE  /\ BoardFits(SetRow(p, st))
           /\ \A v \in 1..Now : \A n \in DOMAIN plans[v] :
                 SetRow(p, st)[v][n] = IF p = <<v, n>> THEN [status |-> st, attempts |-> board[v][n].attempts]
                                       ELSE board[v][n]
<1> DEFINE b == SetRow(p, st)
<1>1. /\ p[1] \in 1..Now /\ p[2] \in DOMAIN plans[p[1]] /\ p = <<p[1], p[2]>>  BY PlanFacts
<1>2. DOMAIN board = 1..Now /\ \A v \in 1..Now : board[v] \in [DOMAIN plans[v] -> BoardRow]
  BY DEF NeedsTyping, BoardFits
<1> DEFINE x == [board[p[1]] EXCEPT ![p[2]] = [board[p[1]][p[2]] EXCEPT !.status = st]]
<1>3. b = [board EXCEPT ![p[1]] = x]  BY <1>1, <1>2 DEF SetRow
<1>4. [board[p[1]][p[2]] EXCEPT !.status = st] = [status |-> st, attempts |-> board[p[1]][p[2]].attempts]
  BY <1>1, <1>2, BoardRows
<1>5. x \in [DOMAIN plans[p[1]] -> BoardRow]  BY <1>1, <1>2, <1>4, BoardRows
<1> HIDE DEF b, x
<1>6. BoardFits(b) /\ b[p[1]] = x /\ \A v \in 1..Now : v # p[1] => b[v] = board[v]
  <2> BoardFits(board)  BY DEF NeedsTyping
  <2>1. board \in [1..Now -> Boards]  BY PlanFacts DEF BoardFits
  <2>2. b[p[1]] = x /\ \A u \in 1..Now : u # p[1] => b[u] = board[u]  BY <2>1, <1>1, <1>3
  <2>3. \A y \in Boards : y = x => b \in [1..Now -> Boards]  BY <2>1, <1>1, <1>3
  <2>4. BoardFits(b)  BY <2>2, <2>3, <1>1, <1>5, PutFits
  <2> QED  BY <2>2, <2>4
<1>7. \A v \in 1..Now : \A n \in DOMAIN plans[v] :
         b[v][n] = IF p = <<v, n>> THEN [status |-> st, attempts |-> board[v][n].attempts] ELSE board[v][n]
  <2> SUFFICES ASSUME NEW v \in 1..Now, NEW n \in DOMAIN plans[v]
               PROVE  b[v][n] = IF p = <<v, n>> THEN [status |-> st, attempts |-> board[v][n].attempts]
                                ELSE board[v][n]
    OBVIOUS
  <2>1. CASE v # p[1]  BY <2>1, <1>1, <1>6
  <2>2. CASE v = p[1] /\ n # p[2]  BY <2>2, <1>1, <1>2, <1>6 DEF x
  <2>3. CASE v = p[1] /\ n = p[2]  BY <2>3, <1>1, <1>2, <1>6, <1>4 DEF x
  <2> QED  BY <2>1, <2>2, <2>3
<1> QED  BY <1>7, <1>6 DEF b

\* ... unless it is over.
LEMMA UnsettledFits ==
    ASSUME NeedsTyping, NEW p \in Spots, NEW st \in BoardStatuses
    PROVE  /\ BoardFits(Unsettled(p, st))
           /\ \A v \in 1..Now : \A n \in DOMAIN plans[v] :
                 Unsettled(p, st)[v][n] =
                    IF p = <<v, n>> /\ board[v][n].status \notin Terminal
                    THEN [status |-> st, attempts |-> board[v][n].attempts] ELSE board[v][n]
<1>1. /\ p[1] \in 1..Now /\ p[2] \in DOMAIN plans[p[1]] /\ p = <<p[1], p[2]>>  BY PlanFacts
<1>2. BoardFits(board)  BY DEF NeedsTyping
<1>3. CASE RowHas(p).status \in Terminal
  <2>1. Unsettled(p, st) = board  BY <1>3 DEF Unsettled
  <2> QED  BY <2>1, <1>1, <1>2, <1>3 DEF RowHas
<1>4. CASE RowHas(p).status \notin Terminal
  <2>1. Unsettled(p, st) = SetRow(p, st)  BY <1>4 DEF Unsettled
  <2>2. board[p[1]][p[2]].status \notin Terminal  BY <1>4 DEF RowHas
  <2> QED  BY <2>1, <2>2, <1>1, SetFits
<1> QED  BY <1>3, <1>4

\* What the nodes that may start become.
LEMMA FreedFits ==
    ASSUME NeedsTyping, NEW b, BoardFits(b)
    PROVE  /\ BoardFits(Freed(b))
           /\ \A v \in 1..Now : v # Now => Freed(b)[v] = b[v]
           /\ \A n \in DOMAIN Plan :
                 /\ b[Now][n].status \in {"pending", "blocked"} /\ DepsDone(b, n) =>
                       Freed(b)[Now][n] = [status |-> "ready", attempts |-> b[Now][n].attempts]
                 /\ ~(b[Now][n].status \in {"pending", "blocked"} /\ DepsDone(b, n)) =>
                       Freed(b)[Now][n] = b[Now][n]
<1>1. Now \in 1..Now /\ Plan = plans[Now] /\ b[Now] \in [DOMAIN Plan -> BoardRow] /\ DOMAIN b = 1..Now
  BY PlanFacts DEF BoardFits, Plan
<1> DEFINE row(n) == IF b[Now][n].status \in {"pending", "blocked"} /\ DepsDone(b, n)
                     THEN [b[Now][n] EXCEPT !.status = "ready"] ELSE b[Now][n]
<1>2. Freed(b) = [b EXCEPT ![Now] = [n \in DOMAIN Plan |-> row(n)]]  BY DEF Freed, DepsDone
<1>3. \A n \in DOMAIN Plan : b[Now][n] \in BoardRow  BY <1>1
<1>4. \A n \in DOMAIN Plan : [b[Now][n] EXCEPT !.status = "ready"] = [status |-> "ready", attempts |-> b[Now][n].attempts]
  BY <1>3, BoardRows DEF BoardStatuses
<1>5. \A n \in DOMAIN Plan : row(n) \in BoardRow  BY <1>3, <1>4, BoardRows DEF BoardStatuses
<1> HIDE DEF row
<1> DEFINE x == [n \in DOMAIN Plan |-> row(n)]
<1>6. x \in [DOMAIN plans[Now] -> BoardRow]  BY <1>1, <1>5
<1>7. Freed(b) = [b EXCEPT ![Now] = x]  BY <1>2
<1>8. \A n \in DOMAIN Plan : x[n] = row(n)  OBVIOUS
<1> HIDE DEF x
<1>9. BoardFits(Freed(b)) /\ Freed(b)[Now] = x /\ \A v \in 1..Now : v # Now => Freed(b)[v] = b[v]
  <2>1. b \in [1..Now -> Boards]  BY PlanFacts DEF BoardFits
  <2>2. Freed(b)[Now] = x /\ \A u \in 1..Now : u # Now => Freed(b)[u] = b[u]  BY <2>1, <1>1, <1>7
  <2>3. \A y \in Boards : y = x => Freed(b) \in [1..Now -> Boards]  BY <2>1, <1>1, <1>7
  <2>4. BoardFits(Freed(b))  BY <2>2, <2>3, <1>1, <1>6, PutFits
  <2> QED  BY <2>2, <2>4
<1> QED  BY <1>4, <1>9, <1>8 DEF row

\* What the nodes behind a failed one become.
LEMMA StoppedFits ==
    ASSUME NeedsTyping, NEW b, BoardFits(b), NEW k
    PROVE  /\ BoardFits(Stopped(k, b))
           /\ \A v \in 1..Now : v # Now => Stopped(k, b)[v] = b[v]
           /\ \A n \in DOMAIN Plan :
                 \/ Stopped(k, b)[Now][n] = b[Now][n]
                 \/ /\ b[Now][n].status \in {"pending", "ready"}
                    /\ Stopped(k, b)[Now][n] = [status |-> "blocked", attempts |-> b[Now][n].attempts]
<1>1. Now \in 1..Now /\ Plan = plans[Now] /\ b[Now] \in [DOMAIN Plan -> BoardRow] /\ DOMAIN b = 1..Now
  BY PlanFacts DEF BoardFits, Plan
<1> DEFINE row(n) == IF n \in Behind(k) /\ b[Now][n].status \in {"pending", "ready"}
                     THEN [b[Now][n] EXCEPT !.status = "blocked"] ELSE b[Now][n]
<1>2. Stopped(k, b) = [b EXCEPT ![Now] = [n \in DOMAIN Plan |-> row(n)]]  BY DEF Stopped
<1>3. \A n \in DOMAIN Plan : b[Now][n] \in BoardRow  BY <1>1
<1>4. \A n \in DOMAIN Plan : [b[Now][n] EXCEPT !.status = "blocked"] = [status |-> "blocked", attempts |-> b[Now][n].attempts]
  BY <1>3, BoardRows DEF BoardStatuses
<1>5. \A n \in DOMAIN Plan : row(n) \in BoardRow  BY <1>3, <1>4, BoardRows DEF BoardStatuses
<1> HIDE DEF row
<1> DEFINE x == [n \in DOMAIN Plan |-> row(n)]
<1>6. x \in [DOMAIN plans[Now] -> BoardRow]  BY <1>1, <1>5
<1>7. Stopped(k, b) = [b EXCEPT ![Now] = x]  BY <1>2
<1>8. \A n \in DOMAIN Plan : x[n] = row(n)  OBVIOUS
<1> HIDE DEF x
<1>9. BoardFits(Stopped(k, b)) /\ Stopped(k, b)[Now] = x /\ \A v \in 1..Now : v # Now => Stopped(k, b)[v] = b[v]
  <2>1. b \in [1..Now -> Boards]  BY PlanFacts DEF BoardFits
  <2>2. Stopped(k, b)[Now] = x /\ \A u \in 1..Now : u # Now => Stopped(k, b)[u] = b[u]  BY <2>1, <1>1, <1>7
  <2>3. \A y \in Boards : y = x => Stopped(k, b) \in [1..Now -> Boards]  BY <2>1, <1>1, <1>7
  <2>4. BoardFits(Stopped(k, b))  BY <2>2, <2>3, <1>1, <1>6, PutFits
  <2> QED  BY <2>2, <2>4
<1> QED  BY <1>4, <1>9, <1>8 DEF row

----
\* The row of a node that is launched.
LEMMA LaunchRows ==
    ASSUME NeedsTyping, NEW n \in DOMAIN Plan, LaunchNode(n)
    PROVE  /\ BoardFits(board')
           /\ \A v \in 1..Now : \A m \in DOMAIN plans[v] :
                 board'[v][m] = IF v = Now /\ m = n
                                THEN [status |-> "running", attempts |-> board[Now][n].attempts + 1]
                                ELSE board[v][m]
<1>1. Now \in 1..Now /\ Plan = plans[Now] /\ board[Now][n] \in BoardRow /\ board[Now] \in [DOMAIN Plan -> BoardRow]
  BY PlanFacts DEF Plan, NeedsTyping, BoardFits
<1> DEFINE new == [status |-> "running", attempts |-> board[Now][n].attempts + 1]
<1>2. new \in BoardRow  BY <1>1, BoardRows DEF BoardStatuses
<1>3. board' = [board EXCEPT ![Now] = [board[Now] EXCEPT ![n] = new]]  BY <1>1 DEF LaunchNode, NeedsTyping, BoardFits
<1> HIDE DEF new
<1> DEFINE x == [board[Now] EXCEPT ![n] = new]
<1>4. x \in [DOMAIN plans[Now] -> BoardRow] /\ \A m \in DOMAIN Plan : x[m] = IF m = n THEN new ELSE board[Now][m]
  BY <1>1, <1>2
<1>5. board' = [board EXCEPT ![Now] = x] /\ BoardFits(board)  BY <1>3 DEF NeedsTyping
<1> HIDE DEF x
<1>6. BoardFits(board') /\ board'[Now] = x /\ \A v \in 1..Now : v # Now => board'[v] = board[v]
  <2>1. board \in [1..Now -> Boards]  BY <1>5 DEF BoardFits
  <2>2. board'[Now] = x /\ \A u \in 1..Now : u # Now => board'[u] = board[u]  BY <2>1, <1>1, <1>5
  <2>3. \A y \in Boards : y = x => board' \in [1..Now -> Boards]  BY <2>1, <1>1, <1>5
  <2>4. BoardFits(board) /\ Now \in 1..Now /\ x \in [DOMAIN plans[Now] -> BoardRow]  BY <1>1, <1>4, <1>5
  <2>5. BoardFits(board')  BY <2>2, <2>3, <2>4, PutFits
  <2> QED  BY <2>2, <2>5
<1> QED  BY <1>1, <1>4, <1>6 DEF new

\* The rows of a run that is cancelled.
LEMMA CancelRows ==
    ASSUME NeedsTyping, CancelAll
    PROVE  /\ BoardFits(board')
           /\ \A n \in DOMAIN Plan :
                 board'[Now][n] = IF board[Now][n].status \in Terminal THEN board[Now][n]
                                  ELSE [status |-> "cancelled", attempts |-> board[Now][n].attempts]
<1>1. Now \in 1..Now /\ Plan = plans[Now] /\ board[Now] \in [DOMAIN Plan -> BoardRow]
      /\ \A n \in DOMAIN Plan : board[Now][n] \in BoardRow
  BY PlanFacts DEF Plan, NeedsTyping, BoardFits
<1> DEFINE row(n) == IF board[Now][n].status \in Terminal THEN board[Now][n]
                     ELSE [board[Now][n] EXCEPT !.status = "cancelled"]
<1>2. \A n \in DOMAIN Plan :
         /\ [board[Now][n] EXCEPT !.status = "cancelled"] = [status |-> "cancelled", attempts |-> board[Now][n].attempts]
         /\ [status |-> "cancelled", attempts |-> board[Now][n].attempts] \in BoardRow
  BY <1>1, BoardRows DEF BoardStatuses, Terminal
<1>3. \A n \in DOMAIN Plan : row(n) \in BoardRow  BY <1>1, <1>2
<1>4. board' = [board EXCEPT ![Now] = [n \in DOMAIN Plan |-> row(n)]]  BY <1>1 DEF CancelAll, NeedsTyping, BoardFits
<1> HIDE DEF row
<1> DEFINE x == [n \in DOMAIN Plan |-> row(n)]
<1>5. x \in [DOMAIN plans[Now] -> BoardRow]  BY <1>1, <1>3
<1>6. board' = [board EXCEPT ![Now] = x] /\ BoardFits(board) /\ \A n \in DOMAIN Plan : x[n] = row(n)
  BY <1>4 DEF NeedsTyping
<1> HIDE DEF x
<1>7. BoardFits(board') /\ board'[Now] = x
  <2>1. board \in [1..Now -> Boards]  BY <1>6 DEF BoardFits
  <2>2. board'[Now] = x /\ \A u \in 1..Now : u # Now => board'[u] = board[u]  BY <2>1, <1>1, <1>6
  <2>3. \A y \in Boards : y = x => board' \in [1..Now -> Boards]  BY <2>1, <1>1, <1>6
  <2>4. BoardFits(board) /\ Now \in 1..Now /\ x \in [DOMAIN plans[Now] -> BoardRow]  BY <1>1, <1>5, <1>6
  <2>5. BoardFits(board')  BY <2>2, <2>3, <2>4, PutFits
  <2> QED  BY <2>2, <2>5
<1>8. \A n \in DOMAIN Plan : board'[Now][n] = row(n)  BY <1>7, <1>6
<1> QED  BY <1>2, <1>7, <1>8 DEF row

\* The attempts that a restart loses, and those whose outcome is awaited.
LostAt(v, n) == \E r \in DOMAIN launches : launches[r].at = <<v, n>> /\ launches[r].status = "running"
AwaitedAt(v, n) == \E r \in DOMAIN launches : launches[r].at = <<v, n>> /\ launches[r].status = "awaiting-outcome"

\* What a restart makes of the rows.
LEMMA RestartRows ==
    ASSUME NeedsTyping, Restart
    PROVE  /\ BoardFits(board')
           /\ \A v \in 1..Now : \A n \in DOMAIN plans[v] :
                 board'[v][n] = IF LostAt(v, n) /\ board[v][n].status \notin Terminal
                                THEN [status |-> "awaiting-outcome", attempts |-> board[v][n].attempts]
                                ELSE IF board[v][n].status \in {"running", "needs-input"} /\ ~AwaitedAt(v, n)
                                THEN [status |-> "failed", attempts |-> board[v][n].attempts]
                                ELSE board[v][n]
<1>1. DOMAIN board = 1..Now /\ \A v \in 1..Now : board[v] \in [DOMAIN plans[v] -> BoardRow]
  BY DEF NeedsTyping, BoardFits
<1> DEFINE row(v, n) == IF LostAt(v, n) /\ board[v][n].status \notin Terminal
                        THEN [board[v][n] EXCEPT !.status = "awaiting-outcome"]
                        ELSE IF board[v][n].status \in {"running", "needs-input"} /\ ~AwaitedAt(v, n)
                        THEN [board[v][n] EXCEPT !.status = "failed"] ELSE board[v][n]
<1>2. board' = [v \in DOMAIN board |-> [n \in DOMAIN board[v] |-> row(v, n)]]  BY DEF Restart, LostAt, AwaitedAt
<1>3. \A v \in 1..Now : \A n \in DOMAIN plans[v] : board[v][n] \in BoardRow  BY <1>1
<1>4. \A v \in 1..Now : \A n \in DOMAIN plans[v] : row(v, n) \in BoardRow
  <2> SUFFICES ASSUME NEW v \in 1..Now, NEW n \in DOMAIN plans[v] PROVE row(v, n) \in BoardRow  OBVIOUS
  <2> DEFINE x == board[v][n]
             w == [x EXCEPT !.status = "awaiting-outcome"]
             f == [x EXCEPT !.status = "failed"]
  <2>1. x \in BoardRow  BY <1>3
  <2>2. w \in BoardRow /\ f \in BoardRow  BY <2>1, BoardRows DEF BoardStatuses, Terminal
  <2>3. row(v, n) \in {x, w, f}  OBVIOUS
  <2> QED  BY <2>1, <2>3, <2>2
<1> HIDE DEF row
<1>5. board' = [v \in 1..Now |-> [n \in DOMAIN plans[v] |-> row(v, n)]]  BY <1>1, <1>2
<1>6. BoardFits(board')  BY <1>5, <1>4, PlanFacts DEF BoardFits, Boards
<1> QED  BY <1>3, BoardRows, <1>6, <1>5 DEF row, BoardStatuses, Terminal

\* A new graph, and the rows it inherits.
LEMMA ReplaceRows ==
    ASSUME NeedsTyping, NEW g \in Plans, Replace(g)
    PROVE  /\ plans' \in Seq(Plans) /\ Now' = Now + 1 /\ Plan' = g
           /\ \A v \in 1..Now : plans'[v] = plans[v] /\ board'[v] = board[v]
           /\ BoardFits(board)'
           /\ \A n \in DOMAIN g :
                 LET old == IF n \in DOMAIN Plan THEN board[Now][n] ELSE EmptyRow
                 IN  IF old.status \in Terminal \/ old.attempts > 0 THEN board'[Now + 1][n] = old
                     ELSE /\ board'[Now + 1][n].attempts = 0
                          /\ board'[Now + 1][n].status =
                                IF \A d \in g[n] : (IF d \in DOMAIN Plan THEN board[Now][d] ELSE EmptyRow).status \in Settled
                                THEN "ready" ELSE "pending"
<1>1. plans \in Seq(Plans) /\ Now \in Nat /\ Now > 0 /\ Plan = plans[Now] /\ Now \in 1..Now
  BY PlanFacts DEF NeedsTyping, Plan
<1>2. /\ plans' \in Seq(Plans) /\ Len(plans') = Now + 1 /\ plans'[Now + 1] = g
      /\ \A v \in 1..Now : plans'[v] = plans[v]
  BY <1>1, SeqGrown DEF Replace, Now
<1>3. Now' = Now + 1 /\ Plan' = g  BY <1>2 DEF Now, Plan
<1>4. DOMAIN board = 1..Now /\ \A v \in 1..Now : board[v] \in [DOMAIN plans[v] -> BoardRow]
  BY DEF NeedsTyping, BoardFits
<1> DEFINE old(n) == IF n \in DOMAIN Plan THEN board[Now][n] ELSE EmptyRow
           rows == [n \in DOMAIN g |-> old(n)]
           new(n) == IF rows[n].status \in Terminal \/ rows[n].attempts > 0 THEN rows[n]
                     ELSE [rows[n] EXCEPT !.status = IF \A d \in g[n] : rows[d].status \in Settled THEN "ready" ELSE "pending"]
           top == [n \in DOMAIN g |-> new(n)]
<1>5. \A n \in DOMAIN g : old(n) \in BoardRow
  <2>1. EmptyRow \in BoardRow  BY DEF EmptyRow, BoardRow, BoardStatuses
  <2> QED  BY <2>1, <1>1, <1>4
<1>6. g \in [DOMAIN g -> SUBSET DOMAIN g]  BY NeedsAssumption DEF ValidPlan
<1>7. \A n \in DOMAIN g : rows[n] = old(n)  OBVIOUS
<1>8. board' = Append(board, top)  BY DEF Replace, Gate
<1> HIDE DEF rows, old
<1>9. \A n \in DOMAIN g :
         new(n) = IF old(n).status \in Terminal \/ old(n).attempts > 0 THEN old(n)
                  ELSE [old(n) EXCEPT !.status = IF \A d \in g[n] : old(d).status \in Settled THEN "ready" ELSE "pending"]
  BY <1>6, <1>7
<1>10. \A n \in DOMAIN g :
         /\ [old(n) EXCEPT !.status = "ready"] = [status |-> "ready", attempts |-> old(n).attempts]
         /\ [status |-> "ready", attempts |-> old(n).attempts] \in BoardRow
         /\ [old(n) EXCEPT !.status = "pending"] = [status |-> "pending", attempts |-> old(n).attempts]
         /\ [status |-> "pending", attempts |-> old(n).attempts] \in BoardRow
  BY <1>5, BoardRows DEF BoardStatuses
<1> HIDE DEF new
<1>11. \A n \in DOMAIN g :
         /\ new(n) \in BoardRow
         /\ IF old(n).status \in Terminal \/ old(n).attempts > 0 THEN new(n) = old(n)
            ELSE new(n) = [status |-> IF \A d \in g[n] : old(d).status \in Settled THEN "ready" ELSE "pending",
                           attempts |-> old(n).attempts]
  BY <1>5, <1>9, <1>10
<1>12. top \in [DOMAIN g -> BoardRow] /\ \A n \in DOMAIN g : top[n] = new(n)  BY <1>11
<1> HIDE DEF top
<1>13. board' \in [1..(Now + 1) -> Boards] /\ board'[Now + 1] = top /\ \A v \in 1..Now : board'[v] = board[v]
  <2>1. board \in [1..Now -> Boards]  BY DEF NeedsTyping, BoardFits
  <2>2. board \in Seq(Boards)  BY <1>1, <2>1, SeqDef
  <2>3. Len(board) = Now  BY <1>1, <1>4, <2>2
  <2>4. top \in Boards  BY <1>12 DEF Boards
  <2>5. Append(board, top) \in Seq(Boards) /\ Len(Append(board, top)) = Now + 1
        /\ Append(board, top)[Now + 1] = top /\ \A v \in 1..Now : Append(board, top)[v] = board[v]
    BY <1>4, <2>2, <2>3, <2>4, SeqGrown
  <2>6. Append(board, top) \in [1..(Now + 1) -> Boards]
    <3>1. \A t \in Seq(Boards) : t \in [1..Len(t) -> Boards]  OBVIOUS
    <3> QED  BY <2>5, <3>1
  <2> QED  BY <1>8, <2>5, <2>6
<1>14. BoardFits(board)'
  <2>1. \A v \in 1..Now' : board'[v] \in [DOMAIN plans'[v] -> BoardRow]
    <3> SUFFICES ASSUME NEW v \in 1..(Now + 1) PROVE board'[v] \in [DOMAIN plans'[v] -> BoardRow]  BY <1>3
    <3>1. CASE v \in 1..Now  BY <3>1, <1>2, <1>4, <1>13
    <3>2. CASE v = Now + 1  BY <3>2, <1>2, <1>12, <1>13
    <3> QED  BY <3>1, <3>2, <1>1
  <2> QED  BY <1>3, <1>13, <2>1 DEF BoardFits
<1> QED  BY <1>2, <1>3, <1>11, <1>13, <1>14, <1>5, <1>12 DEF old, BoardRow

----
(* What steps have in common.                                              *)

\* Attempts are kept, with their rows, and what is over of them stays over.
LaunchesStay ==
    \A r \in DOMAIN launches :
        /\ r \in DOMAIN launches' /\ launches'[r].at = launches[r].at
        /\ launches[r].status \in {"cancelled", "failed"} => launches'[r].status = launches[r].status

\* An attempt that was taken from a row by mistake stays so.
LEMMA MisdirectedStays ==
    ASSUME NeedsTyping, Misdirected, LaunchesStay, Now' \in Nat, Now <= Now'
    PROVE  Misdirected'
<1>1. PICK r \in DOMAIN launches : launches[r].status = "cancelled" /\ launches[r].at[1] < Now  BY DEF Misdirected
<1>2. r \in DOMAIN launches' /\ launches'[r].at = launches[r].at /\ launches'[r].status = "cancelled"
  BY <1>1 DEF LaunchesStay
<1>3. launches'[r].at[1] < Now'  BY <1>1, <1>2, PlanFacts DEF NeedsTyping, LaunchesFit
<1> QED  BY <1>2, <1>3 DEF Misdirected

\* An attempt that was settled too late stays so.
LEMMA BelatedStays ==
    ASSUME StartedInv, Belated, LaunchesStay,
           \A n \in DOMAIN Plan : board[Now][n].attempts > 0 =>
               n \in DOMAIN Plan' /\ (Status(n) \in Settled => board'[Now'][n].status \in Settled)
    PROVE  Belated'
<1>1. PICK r \in DOMAIN launches : launches[r].status = "failed" /\ RowHas(RowNow(launches[r].at)).status \in Settled
  BY DEF Belated
<1> DEFINE n == launches[r].at[2]
<1>2. n \in DOMAIN Plan /\ board[Now][n].attempts > 0  BY DEF StartedInv
<1>3. r \in DOMAIN launches' /\ launches'[r].at = launches[r].at /\ launches'[r].status = "failed"
  BY <1>1 DEF LaunchesStay
<1> QED  BY <1>3, <1>1, <1>2 DEF Belated, Settled, RowHas, RowNow, Status

\* A row is kept, or a node that is not done is stirred.
StirredStatuses == {"ready", "running", "needs-input", "awaiting-outcome", "failed"}
PlainRows ==
    \A n \in DOMAIN Plan :
        \/ board'[Now][n] = board[Now][n]
        \/ /\ Status(n) \notin Settled /\ board'[Now][n].status \in StirredStatuses
           /\ board'[Now][n].attempts >= board[Now][n].attempts

\* Steps that only stir nodes leave none waiting in vain, and cancel none.
LEMMA PlainSteps ==
    ASSUME NeedsTyping, StartedInv, CancelInv, WaitingInv, plans' = plans, LaunchesStay, BoardFits(board'),
           PlainRows, life = "cancelled" => life' = "cancelled"
    PROVE  WaitingInv' /\ CancelInv'
<1>1. \A n \in DOMAIN Plan : board'[Now][n] \in BoardRow  BY PlanFacts DEF BoardFits, Plan
<1>2. Now' = Now /\ Plan' = Plan /\ Plan \in [DOMAIN Plan -> SUBSET DOMAIN Plan]  BY PlanFacts DEF Now, Plan
<1>3. \A n \in DOMAIN Plan : board'[Now][n].status \in Settled <=> Status(n) \in Settled
  BY DEF PlainRows, StirredStatuses, Settled, Status
<1>4. \A n \in DOMAIN Plan : board'[Now][n].status \in {"pending", "blocked", "cancelled"} =>
         board'[Now][n] = board[Now][n]
  BY DEF PlainRows, StirredStatuses
<1>5. CancelInv'  BY <1>2, <1>4 DEF CancelInv, Status
<1>6. Belated => Belated'  BY <1>2, <1>3, BelatedStays
<1>7. Stirred(board) => Stirred(board)'
  <2> SUFFICES ASSUME NEW k \in DOMAIN Plan, board[Now][k].attempts > 0, board[Now][k].status \in StirredStatuses
               PROVE  board'[Now][k].attempts > 0 /\ board'[Now][k].status \in StirredStatuses
    BY <1>2 DEF Stirred, StirredStatuses
  <2>1. board[Now][k] \in BoardRow  BY PlanFacts DEF NeedsTyping, BoardFits, Plan
  <2>2. CASE board'[Now][k] = board[Now][k]  BY <2>2
  <2>3. CASE board'[Now][k].status \in StirredStatuses /\ board'[Now][k].attempts >= board[Now][k].attempts
    BY <2>3, <2>1, <1>1 DEF BoardRow
  <2> QED  BY <2>2, <2>3 DEF PlainRows
<1>8. WaitingInv'
  <2> SUFFICES ASSUME NEW n \in DOMAIN Plan, DepsDone(board, n)
               PROVE  /\ board'[Now][n].status # "pending"
                      /\ board'[Now][n].status = "blocked" => life' = "cancelled" \/ Belated' \/ Stirred(board)'
    BY <1>2, <1>3 DEF WaitingInv, Status, DepsDone, Settled
  <2> QED  BY <1>4, <1>6, <1>7 DEF WaitingInv, Status
<1> QED  BY <1>5, <1>8

\* Nodes that are moved on are not left waiting.
LEMMA FreedSteps ==
    ASSUME NeedsTyping, plans' = plans, NEW b, BoardFits(b), board' = Freed(b)
    PROVE  /\ WaitingInv'
           /\ \A n \in DOMAIN Plan : board'[Now][n].status \in Settled <=> b[Now][n].status \in Settled
           /\ \A n \in DOMAIN Plan : board'[Now][n].attempts = b[Now][n].attempts
           /\ \A n \in DOMAIN Plan : board'[Now][n].status \notin {"ready"} => board'[Now][n].status = b[Now][n].status
<1>1. \A n \in DOMAIN Plan :
         /\ b[Now][n].status \in {"pending", "blocked"} /\ DepsDone(b, n) =>
               board'[Now][n] = [status |-> "ready", attempts |-> b[Now][n].attempts]
         /\ ~(b[Now][n].status \in {"pending", "blocked"} /\ DepsDone(b, n)) => board'[Now][n] = b[Now][n]
  BY FreedFits
<1>2. ASSUME NEW n \in DOMAIN Plan
      PROVE  \/ board'[Now][n] = b[Now][n] /\ ~(b[Now][n].status \in {"pending", "blocked"} /\ DepsDone(b, n))
             \/ /\ b[Now][n].status \in {"pending", "blocked"}
                /\ board'[Now][n].status = "ready" /\ board'[Now][n].attempts = b[Now][n].attempts
  <2>1. CASE b[Now][n].status \in {"pending", "blocked"} /\ DepsDone(b, n)
    <3>1. board'[Now][n] = [status |-> "ready", attempts |-> b[Now][n].attempts]  BY <2>1, <1>1
    <3> QED  BY <2>1, <3>1
  <2>2. CASE ~(b[Now][n].status \in {"pending", "blocked"} /\ DepsDone(b, n))  BY <2>2, <1>1
  <2> QED  BY <2>1, <2>2
<1>3. \A n \in DOMAIN Plan : board'[Now][n].status \in Settled <=> b[Now][n].status \in Settled  BY <1>2 DEF Settled
<1>4. WaitingInv'  BY PlanFacts, <1>3, <1>2 DEF WaitingInv, Status, DepsDone, Settled, Now, Plan
<1> QED  BY <1>3, <1>2, <1>4

----
(* The frame of a step that does not replace the graph.                    *)

\* What is typed of the variables is typed of the state.
LEMMA SameGraphTyping ==
    ASSUME NeedsTyping, plans' = plans, BoardFits(board'), LaunchesFit(launches'), AskedFit(asked'),
           SheetsFit(sheets'), clashes' \subseteq PlanNodes,
           life' \in {"open", "succeeded", "failed", "cancelled"}, halted' \in BOOLEAN, PaneFits(pane')
    PROVE  NeedsTyping'
<1>1. Now' = Now /\ Spots' = Spots  BY DEF Now, Spots
<1>2. BoardFits(board)'  BY <1>1 DEF BoardFits
<1>3. PaneFits(pane)'  BY <1>1 DEF PaneFits
<1> QED  BY <1>1, <1>2, <1>3 DEF NeedsTyping, LaunchesFit, AskedFit, SheetsFit

\* Attempts, questions and sheets hang on rows.
LEMMA ElementFacts ==
    ASSUME NeedsTyping
    PROVE  /\ \A r \in DOMAIN launches : /\ launches[r].at \in Spots /\ launches[r].at \in PlanSpots
                                        /\ launches[r].status \in LaunchStatuses
           /\ \A q \in DOMAIN asked : /\ asked[q].at \in Spots /\ asked[q].at \in PlanSpots
                                     /\ asked[q].open \in BOOLEAN
           /\ \A i \in DOMAIN sheets :
                 /\ sheets[i].at \in Spots /\ sheets[i].at \in PlanSpots
                 /\ sheets[i].review \in {"none", "awaiting", "confirmed"} /\ sheets[i].used \in BOOLEAN
<1>1. \A r \in DOMAIN launches : launches[r] \in LaunchRow  BY DEF NeedsTyping, LaunchesFit
<1>2. \A q \in DOMAIN asked : asked[q] \in Question  BY DEF NeedsTyping, AskedFit
<1>3. \A i \in DOMAIN sheets : sheets[i] \in Sheet  BY DEF NeedsTyping, SheetsFit
<1>4. \A q \in DOMAIN asked : /\ asked[q].at \in Spots /\ asked[q].at \in PlanSpots /\ asked[q].open \in BOOLEAN
  BY <1>2 DEF NeedsTyping, AskedFit, Question
<1> QED  BY <1>1, <1>4, <1>3 DEF NeedsTyping, SheetsFit, Sheet, LaunchesFit, LaunchRow

\* Attempts whose status is written.
MarkedLaunches(T, st) ==
    [r \in DOMAIN launches |-> IF r \in T THEN [launches[r] EXCEPT !.status = st] ELSE launches[r]]

\* Writing a status keeps the attempts, and where they are.
LEMMA MarkedFits ==
    ASSUME NeedsTyping, NEW T, NEW st \in LaunchStatuses
    PROVE  /\ LaunchesFit(MarkedLaunches(T, st)) /\ DOMAIN MarkedLaunches(T, st) = DOMAIN launches
           /\ \A r \in DOMAIN launches :
                 /\ MarkedLaunches(T, st)[r].at = launches[r].at
                 /\ MarkedLaunches(T, st)[r].status = IF r \in T THEN st ELSE launches[r].status
<1>1. launches \in Seq(LaunchRow) /\ \A r \in DOMAIN launches : launches[r] \in LaunchRow /\ launches[r].at \in Spots
  BY DEF NeedsTyping, LaunchesFit
<1> DEFINE t == MarkedLaunches(T, st)
<1>2. \A r \in DOMAIN launches : t[r] = IF r \in T THEN [launches[r] EXCEPT !.status = st] ELSE launches[r]
  BY DEF MarkedLaunches
<1>3. t = [r \in DOMAIN launches |-> t[r]] /\ DOMAIN t = DOMAIN launches  BY DEF MarkedLaunches
<1> HIDE DEF t
<1>4. \A r \in DOMAIN launches :
         /\ t[r] \in LaunchRow /\ t[r].at = launches[r].at
         /\ t[r].status = IF r \in T THEN st ELSE launches[r].status
  <2> SUFFICES ASSUME NEW r \in DOMAIN launches
               PROVE  /\ t[r] \in LaunchRow /\ t[r].at = launches[r].at
                      /\ t[r].status = IF r \in T THEN st ELSE launches[r].status
    OBVIOUS
  <2>1. CASE r \in T  BY <2>1, <1>1, <1>2 DEF LaunchRow
  <2>2. CASE r \notin T  BY <2>2, <1>1, <1>2
  <2> QED  BY <2>1, <2>2
<1>5. t \in Seq(LaunchRow)  BY <1>1, <1>3, <1>4, SeqReplaced
<1> QED  BY <1>1, <1>3, <1>4, <1>5 DEF LaunchesFit, t

\* The status of one attempt is written.
LEMMA OneMarked ==
    ASSUME NeedsTyping, NEW r \in DOMAIN launches, NEW st \in LaunchStatuses
    PROVE  [launches EXCEPT ![r].status = st] = MarkedLaunches({r}, st)
<1> QED  BY DEF MarkedLaunches, NeedsTyping, LaunchesFit

\* Steps that leave the sheets and the details alone.
LEMMA SheetFrame ==
    ASSUME SheetInv, PaneInv, plans' = plans, sheets' = sheets, pane' = pane
    PROVE  SheetInv' /\ PaneInv'
<1>1. SheetInv'  BY DEF SheetInv, Now, Newer
<1> QED  BY <1>1 DEF PaneInv

\* Steps that leave the run alone.
LEMMA RunFrame ==
    ASSUME RunInv, UNCHANGED <<plans, board, launches, clashes, life>>
    PROVE  RunInv'
<1>1. Now' = Now /\ Plan' = Plan  BY DEF Now, Plan
<1>2. \A n \in DOMAIN Plan : Status(n)' = Status(n) /\ (DepsDone(board, n)' <=> DepsDone(board, n))
  BY <1>1 DEF Status, DepsDone
<1>3. Belated' <=> Belated  BY <1>1 DEF Belated, RowHas, RowNow
<1>4. StartedInv' /\ CancelInv' /\ DoneInv'  BY <1>1, <1>2 DEF RunInv, StartedInv, CancelInv, DoneInv
<1>5. WorkingInv' /\ WaitingInv'  BY <1>1, <1>2, <1>3 DEF RunInv, WorkingInv, WaitingInv, Misdirected, Stirred
<1> QED  BY <1>4, <1>5 DEF RunInv

\* A node that was started stays so.
LEMMA StartedSteps ==
    ASSUME NeedsTyping, StartedInv, plans' = plans, BoardFits(board'), DOMAIN launches' = DOMAIN launches,
           \A r \in DOMAIN launches : launches'[r].at = launches[r].at,
           \A n \in DOMAIN Plan : board'[Now][n].attempts >= board[Now][n].attempts
    PROVE  StartedInv'
<1>1. Now' = Now /\ Plan' = Plan  BY DEF Now, Plan
<1>2. \A n \in DOMAIN Plan : board[Now][n].attempts > 0 => board'[Now][n].attempts > 0
  BY PlanFacts DEF BoardFits, Plan, NeedsTyping, BoardRow
<1> QED  BY <1>1, <1>2 DEF StartedInv

\* A run that goes on is not done, if no node became so.
LEMMA DoneSteps ==
    ASSUME DoneInv, plans' = plans, life' = life, clashes' = clashes,
           \A n \in DOMAIN Plan : board'[Now][n].status \in Settled => Status(n) \in Settled
    PROVE  DoneInv'
<1>1. Now' = Now /\ Plan' = Plan  BY DEF Now, Plan
<1> QED  BY <1>1 DEF DoneInv, Status

\* The end of a run is what its rows say.
LEMMA ConvergedFacts ==
    ASSUME NEW b, NEW cs, life \in {"open", "succeeded", "failed", "cancelled"}
    PROVE  /\ Converged(b, cs) \in {"open", "succeeded", "failed", "cancelled"}
           /\ life = "cancelled" => Converged(b, cs) = "cancelled"
           /\ cs = {} /\ (\A n \in DOMAIN Plan : b[Now][n].status \in Settled) => Converged(b, cs) # "open"
BY DEF Converged, Terminal, Settled

----
(* The steps of the run.                                                   *)

\* One row is stirred.
LEMMA SetPlain ==
    ASSUME NeedsTyping, plans' = plans, NEW p \in Spots, NEW st \in StirredStatuses,
           RowHas(p).status \notin Settled, board' = SetRow(p, st)
    PROVE  /\ BoardFits(board') /\ PlainRows
           /\ \A n \in DOMAIN Plan :
                 /\ board'[Now][n].attempts = board[Now][n].attempts
                 /\ board'[Now][n].status = IF p = <<Now, n>> THEN st ELSE Status(n)
<1>1. Now \in 1..Now /\ Plan = plans[Now] /\ st \in BoardStatuses
  BY PlanFacts DEF Plan, StirredStatuses, BoardStatuses, Terminal
<1>2. BoardFits(board')  BY <1>1, SetFits
<1>3. \A n \in DOMAIN Plan :
         board'[Now][n] = IF p = <<Now, n>> THEN [status |-> st, attempts |-> board[Now][n].attempts] ELSE board[Now][n]
  BY <1>1, SetFits
<1>4. ASSUME NEW n \in DOMAIN Plan
      PROVE  /\ board'[Now][n].attempts = board[Now][n].attempts
             /\ board'[Now][n].status = IF p = <<Now, n>> THEN st ELSE Status(n)
             /\ p # <<Now, n>> => board'[Now][n] = board[Now][n]
             /\ p = <<Now, n>> => Status(n) \notin Settled
             /\ board[Now][n].attempts \in Nat
  <2>1. board[Now][n].attempts \in Nat  BY <1>1, PlanFacts DEF BoardRow
  <2>2. CASE p = <<Now, n>>
    <3>1. board'[Now][n] = [status |-> st, attempts |-> board[Now][n].attempts]  BY <2>2, <1>3
    <3>2. RowHas(p).status = Status(n)  BY <2>2 DEF RowHas, Status
    <3> QED  BY <2>1, <2>2, <3>1, <3>2
  <2>3. CASE p # <<Now, n>>  BY <2>1, <2>3, <1>3 DEF Status
  <2> QED  BY <2>2, <2>3
<1>5. PlainRows
  <2> SUFFICES ASSUME NEW n \in DOMAIN Plan
               PROVE  \/ board'[Now][n] = board[Now][n]
                      \/ /\ Status(n) \notin Settled /\ board'[Now][n].status \in StirredStatuses
                         /\ board'[Now][n].attempts >= board[Now][n].attempts
    BY DEF PlainRows
  <2> QED  BY <1>4
<1> QED  BY <1>2, <1>4, <1>5

\* ... unless it is over.
LEMMA UnsettledPlain ==
    ASSUME NeedsTyping, plans' = plans, NEW p \in Spots, NEW st \in StirredStatuses,
           board' = Unsettled(p, st)
    PROVE  /\ BoardFits(board') /\ PlainRows
           /\ \A n \in DOMAIN Plan :
                 /\ board'[Now][n].attempts = board[Now][n].attempts
                 /\ board'[Now][n].status = IF p = <<Now, n>> /\ Status(n) \notin Terminal THEN st ELSE Status(n)
<1>1. CASE RowHas(p).status \in Terminal
  <2>1. board' = board  BY <1>1 DEF Unsettled
  <2> QED  BY <2>1, <1>1 DEF NeedsTyping, PlainRows, Status, RowHas
<1>2. CASE RowHas(p).status \notin Terminal  BY <1>2, SetPlain DEF RowHas, Status, Unsettled, Terminal
<1> QED  BY <1>1, <1>2

\* An agent asks.
LEMMA AskUserStep ==
    ASSUME NeedsInv, NEW r \in DOMAIN launches, AskUser(r)
    PROVE  NeedsInv'
<1> DEFINE p == launches[r].at
<1> USE DEF NeedsInv
<1>1. p \in Spots /\ p \in PlanSpots /\ plans' = plans /\ launches' = launches /\ life' = life /\ clashes' = clashes
  BY ElementFacts DEF AskUser
<1>2. /\ BoardFits(board') /\ PlainRows
      /\ \A n \in DOMAIN Plan :
            /\ board'[Now][n].attempts = board[Now][n].attempts
            /\ board'[Now][n].status = IF p = <<Now, n>> /\ Status(n) \notin Terminal THEN "needs-input" ELSE Status(n)
  <2>1. board' = Unsettled(p, "needs-input") /\ "needs-input" \in StirredStatuses  BY DEF AskUser, StirredStatuses
  <2> HIDE DEF p
  <2> QED  BY <1>1, <2>1, UnsettledPlain
<1>3. AskedFit(asked')
  <2>1. [at |-> p, open |-> TRUE] \in Question  BY <1>1 DEF Question
  <2> QED  BY <1>1, <2>1, SeqGrown DEF AskedFit, AskUser, NeedsTyping
<1>4. NeedsTyping'  BY <1>1, <1>2, <1>3, SameGraphTyping DEF AskUser, NeedsTyping
<1>5. LaunchesStay  BY <1>1 DEF LaunchesStay
<1>6. WaitingInv' /\ CancelInv'  BY <1>1, <1>2, <1>5, PlainSteps DEF RunInv
<1>7. \A n \in DOMAIN Plan : board[Now][n].attempts \in Nat  BY PlanFacts DEF Plan, BoardRow
<1>8. StartedInv'  BY <1>1, <1>2, <1>7, StartedSteps DEF RunInv
<1>9. DoneInv'  BY <1>1, <1>2, DoneSteps DEF RunInv, Settled
<1>10. WorkingInv'
  <2> SUFFICES ASSUME NEW n \in DOMAIN Plan, board'[Now][n].status \in {"running", "needs-input"}
               PROVE  \/ Misdirected
                      \/ \E i \in DOMAIN launches : launches[i].at[2] = n /\
                            launches[i].status \in {"running", "awaiting-outcome", "interrupted"}
    BY <1>1 DEF WorkingInv, Status, Now, Plan, Misdirected
  <2>1. CASE p = <<Now, n>>  BY <2>1 DEF AskUser
  <2>2. CASE p # <<Now, n>>  BY <2>2, <1>2 DEF RunInv, WorkingInv
  <2> QED  BY <2>1, <2>2
<1>11. SheetInv' /\ PaneInv'  BY SheetFrame DEF AskUser
<1> QED  BY <1>4, <1>6, <1>8, <1>9, <1>10, <1>11 DEF RunInv

\* A question is answered.
LEMMA AnswerStep ==
    ASSUME NeedsInv, NEW q \in DOMAIN asked, Answer(q)
    PROVE  NeedsInv'
<1> DEFINE p == asked[q].at
<1> USE DEF NeedsInv
<1>1. p \in Spots /\ plans' = plans /\ launches' = launches /\ life' = life /\ clashes' = clashes
  BY ElementFacts DEF Answer
<1>2. /\ BoardFits(board') /\ PlainRows
      /\ \A n \in DOMAIN Plan :
            /\ board'[Now][n].attempts = board[Now][n].attempts
            /\ board'[Now][n].status = IF p = <<Now, n>> /\ Status(n) = "needs-input" THEN "running" ELSE Status(n)
  <2>1. CASE RowHas(p).status = "needs-input"
    <3>1. board' = SetRow(p, "running") /\ "running" \in StirredStatuses /\ RowHas(p).status \notin Settled
      BY <2>1 DEF Answer, StirredStatuses, Settled
    <3> HIDE DEF p
    <3> QED  BY <2>1, <1>1, <3>1, SetPlain DEF RowHas, Status
  <2>2. CASE RowHas(p).status # "needs-input"
    <3>1. board' = board  BY <2>2 DEF Answer
    <3> QED  BY <3>1, <2>2 DEF NeedsTyping, PlainRows, Status, RowHas
  <2> QED  BY <2>1, <2>2
<1>3. AskedFit(asked')
  <2>1. asked \in Seq(Question) /\ \A i \in DOMAIN asked : asked[i] \in Question /\ asked[i].at \in Spots
    BY DEF NeedsTyping, AskedFit
  <2>2. [asked[q] EXCEPT !.open = FALSE] \in Question /\ [asked[q] EXCEPT !.open = FALSE].at = p  BY <2>1 DEF Question
  <2> QED  BY <2>2, <2>1, <1>1 DEF AskedFit, Answer
<1>4. NeedsTyping'  BY <1>1, <1>2, <1>3, SameGraphTyping DEF Answer, NeedsTyping
<1>5. LaunchesStay  BY <1>1 DEF LaunchesStay
<1>6. WaitingInv' /\ CancelInv'  BY <1>1, <1>2, <1>5, PlainSteps DEF RunInv
<1>7. \A n \in DOMAIN Plan : board[Now][n].attempts \in Nat  BY PlanFacts DEF Plan, BoardRow
<1>8. StartedInv'  BY <1>1, <1>2, <1>7, StartedSteps DEF RunInv
<1>9. DoneInv'  BY <1>1, <1>2, DoneSteps DEF RunInv, Settled
<1>10. WorkingInv'  BY <1>1, <1>2 DEF RunInv, WorkingInv, Status, Now, Plan, Misdirected
<1>11. SheetInv' /\ PaneInv'  BY SheetFrame DEF Answer
<1> QED  BY <1>4, <1>6, <1>8, <1>9, <1>10, <1>11 DEF RunInv

\* An agent ends without a settlement.
LEMMA ReportEndStep ==
    ASSUME NeedsInv, NEW r \in DOMAIN launches, ReportEnd(r)
    PROVE  NeedsInv'
<1> DEFINE p == launches[r].at
<1> USE DEF NeedsInv
<1>1. p \in Spots /\ plans' = plans /\ life' = life /\ clashes' = clashes  BY ElementFacts DEF ReportEnd
<1>2. /\ BoardFits(board') /\ PlainRows
      /\ \A n \in DOMAIN Plan :
            /\ board'[Now][n].attempts = board[Now][n].attempts
            /\ board'[Now][n].status = IF p = <<Now, n>> /\ Status(n) \notin Terminal THEN "awaiting-outcome" ELSE Status(n)
  <2>1. board' = Unsettled(p, "awaiting-outcome") /\ "awaiting-outcome" \in StirredStatuses
    BY DEF ReportEnd, StirredStatuses
  <2> HIDE DEF p
  <2> QED  BY <1>1, <2>1, UnsettledPlain
<1>3. /\ LaunchesFit(launches') /\ DOMAIN launches' = DOMAIN launches
      /\ \A i \in DOMAIN launches :
            /\ launches'[i].at = launches[i].at
            /\ launches'[i].status = IF i = r THEN "awaiting-outcome" ELSE launches[i].status
  <2>1. launches' = MarkedLaunches({r}, "awaiting-outcome") /\ "awaiting-outcome" \in LaunchStatuses
    BY OneMarked DEF ReportEnd, LaunchStatuses
  <2> QED  BY <2>1, MarkedFits
<1>4. NeedsTyping'  BY <1>1, <1>2, <1>3, SameGraphTyping DEF ReportEnd, NeedsTyping
<1>5. LaunchesStay /\ launches[r].status \in {"running", "interrupted"}  BY <1>3 DEF LaunchesStay, ReportEnd
<1>6. WaitingInv' /\ CancelInv'  BY <1>1, <1>2, <1>5, PlainSteps DEF RunInv
<1>7. \A n \in DOMAIN Plan : board[Now][n].attempts \in Nat  BY PlanFacts DEF Plan, BoardRow
<1>8. StartedInv'  BY <1>1, <1>2, <1>3, <1>7, StartedSteps DEF RunInv
<1>9. DoneInv'  BY <1>1, <1>2, DoneSteps DEF RunInv, Settled
<1>10. WorkingInv'
  <2>1. Now' = Now /\ Plan' = Plan /\ Now \in Nat  BY <1>1, PlanFacts DEF Now, Plan
  <2>2. Misdirected => Misdirected'  BY <2>1, <1>5, MisdirectedStays
  <2> QED  BY <1>3, <2>1, <2>2, <1>2 DEF RunInv, WorkingInv, Status
<1>11. SheetInv' /\ PaneInv'  BY SheetFrame DEF ReportEnd
<1> QED  BY <1>4, <1>6, <1>8, <1>9, <1>10, <1>11 DEF RunInv

\* A failed or blocked node is tried again.
LEMMA RetryStep ==
    ASSUME NeedsInv, NEW p \in Spots, Retry(p)
    PROVE  NeedsInv'
<1> DEFINE T == {r \in DOMAIN launches : launches[r].at = p /\ Live(r)}
<1> USE DEF NeedsInv
<1>1. /\ plans' = plans /\ life' = "open" /\ clashes' = clashes /\ life # "cancelled"
      /\ RowHas(p).status \notin Settled /\ board' = SetRow(p, "ready") /\ "ready" \in StirredStatuses
  BY DEF Retry, Settled, StirredStatuses
<1>2. /\ BoardFits(board') /\ PlainRows
      /\ \A n \in DOMAIN Plan :
            /\ board'[Now][n].attempts = board[Now][n].attempts
            /\ board'[Now][n].status = IF p = <<Now, n>> THEN "ready" ELSE Status(n)
  BY <1>1, SetPlain
<1>3. /\ LaunchesFit(launches') /\ DOMAIN launches' = DOMAIN launches
      /\ \A i \in DOMAIN launches :
            /\ launches'[i].at = launches[i].at
            /\ launches'[i].status = IF i \in T THEN "cancelled" ELSE launches[i].status
  <2>1. launches' = MarkedLaunches(T, "cancelled") /\ "cancelled" \in LaunchStatuses
    BY DEF Retry, MarkedLaunches, LaunchStatuses
  <2> HIDE DEF T
  <2> QED  BY <2>1, MarkedFits
<1>4. NeedsTyping'  BY <1>1, <1>2, <1>3, SameGraphTyping DEF Retry, NeedsTyping
<1>5. LaunchesStay  BY <1>3 DEF LaunchesStay, Live
<1>6. WaitingInv' /\ CancelInv'  BY <1>1, <1>2, <1>5, PlainSteps DEF RunInv
<1>7. \A n \in DOMAIN Plan : board[Now][n].attempts \in Nat  BY PlanFacts DEF Plan, BoardRow
<1>8. StartedInv'  BY <1>1, <1>2, <1>3, <1>7, StartedSteps DEF RunInv
<1>9. Now' = Now /\ Plan' = Plan /\ Now \in Nat  BY <1>1, PlanFacts DEF Now, Plan
<1>10. p[1] \in 1..Now /\ p[2] \in DOMAIN plans[p[1]] /\ p = <<p[1], p[2]>>  BY PlanFacts
<1>11. DoneInv'
  <2>1. Now = 1 => p[1] = Now  BY <1>10
  <2> QED  BY <1>9, <1>2, <1>10, <2>1 DEF DoneInv, Status, Settled, Plan
<1>12. WorkingInv'
  <2>1. Misdirected => Misdirected'  BY <1>5, <1>9, MisdirectedStays
  <2> SUFFICES ASSUME NEW n \in DOMAIN Plan, board'[Now][n].status \in {"running", "needs-input"}
               PROVE  \/ Misdirected'
                      \/ \E i \in DOMAIN launches' : launches'[i].at[2] = n /\
                            launches'[i].status \in {"running", "awaiting-outcome", "interrupted"}
    BY <1>9 DEF WorkingInv, Status
  <2>2. p # <<Now, n>> /\ Status(n) \in {"running", "needs-input"}  BY <1>2
  <2>3. CASE Misdirected  BY <2>1, <2>3
  <2>4. ASSUME NEW i \in DOMAIN launches, launches[i].at[2] = n,
               launches[i].status \in {"running", "awaiting-outcome", "interrupted"}
        PROVE  \/ Misdirected'
               \/ \E j \in DOMAIN launches' : launches'[j].at[2] = n /\
                     launches'[j].status \in {"running", "awaiting-outcome", "interrupted"}
    <3>1. CASE i \notin T  BY <1>3, <2>4, <3>1
    <3>2. CASE i \in T
      <4>1. Misdirected'  BY <1>3, <1>9, <1>10, <3>2, <2>2, <2>4 DEF Misdirected
      <4> QED  BY <4>1
    <3> QED  BY <3>1, <3>2
  <2> QED  BY <2>2, <2>3, <2>4 DEF RunInv, WorkingInv
<1>13. SheetInv' /\ PaneInv'  BY SheetFrame DEF Retry
<1> QED  BY <1>4, <1>6, <1>8, <1>11, <1>12, <1>13 DEF RunInv

\* A restart.
LEMMA RestartStep ==
    ASSUME NeedsInv, Restart
    PROVE  NeedsInv'
<1> DEFINE T == {r \in DOMAIN launches : launches[r].status = "running"}
<1> USE DEF NeedsInv
<1>1. plans' = plans /\ life' = life /\ clashes' = clashes /\ sheets' = sheets /\ pane' = Closed  BY DEF Restart
<1>2. Now' = Now /\ Plan' = Plan /\ Now \in Nat /\ Now \in 1..Now /\ Plan = plans[Now]  BY <1>1, PlanFacts DEF Now, Plan
<1>3. \A n \in DOMAIN Plan : board[Now][n].attempts \in Nat  BY PlanFacts DEF Plan, BoardRow
<1>4. BoardFits(board')  BY RestartRows
<1>5. ASSUME NEW n \in DOMAIN Plan
       PROVE  /\ board'[Now][n].attempts = board[Now][n].attempts
              /\ \/ board'[Now][n] = board[Now][n]
                 \/ Status(n) \notin Settled /\ board'[Now][n].status \in {"awaiting-outcome", "failed"}
  <2>1. board'[Now][n] = IF LostAt(Now, n) /\ board[Now][n].status \notin Terminal
                         THEN [status |-> "awaiting-outcome", attempts |-> board[Now][n].attempts]
                         ELSE IF board[Now][n].status \in {"running", "needs-input"} /\ ~AwaitedAt(Now, n)
                         THEN [status |-> "failed", attempts |-> board[Now][n].attempts]
                         ELSE board[Now][n]
    BY <1>2, RestartRows
  <2>2. CASE LostAt(Now, n) /\ board[Now][n].status \notin Terminal  BY <2>1, <2>2 DEF Status, Terminal
  <2>3. CASE /\ ~(LostAt(Now, n) /\ board[Now][n].status \notin Terminal)
             /\ board[Now][n].status \in {"running", "needs-input"} /\ ~AwaitedAt(Now, n)
    BY <2>1, <2>3 DEF Status, Settled
  <2>4. CASE /\ ~(LostAt(Now, n) /\ board[Now][n].status \notin Terminal)
             /\ ~(board[Now][n].status \in {"running", "needs-input"} /\ ~AwaitedAt(Now, n))
    BY <2>1, <2>4
  <2> QED  BY <2>2, <2>3, <2>4
<1>6. PlainRows  BY <1>3, <1>5 DEF PlainRows, StirredStatuses
<1>7. /\ LaunchesFit(launches') /\ DOMAIN launches' = DOMAIN launches
      /\ \A i \in DOMAIN launches :
            /\ launches'[i].at = launches[i].at
            /\ launches'[i].status = IF i \in T THEN "interrupted" ELSE launches[i].status
  <2>1. launches' = MarkedLaunches(T, "interrupted") /\ "interrupted" \in LaunchStatuses
    BY DEF Restart, MarkedLaunches, LaunchStatuses
  <2> HIDE DEF T
  <2> QED  BY <2>1, MarkedFits
<1>8. PaneFits(pane')  BY <1>1 DEF PaneFits, Closed
<1>9. NeedsTyping'  BY <1>1, <1>4, <1>7, <1>8, SameGraphTyping DEF Restart, NeedsTyping
<1>10. LaunchesStay  BY <1>7 DEF LaunchesStay
<1>11. WaitingInv' /\ CancelInv'  BY <1>1, <1>4, <1>10, <1>6, PlainSteps DEF RunInv
<1>12. StartedInv'  BY <1>1, <1>4, <1>7, <1>3, <1>5, StartedSteps DEF RunInv
<1>13. DoneInv'  BY <1>1, <1>5, DoneSteps DEF RunInv, Settled, Status
<1>14. WorkingInv'
  <2>1. Misdirected => Misdirected'  BY <1>10, <1>2, MisdirectedStays
  <2> QED  BY <1>7, <1>2, <2>1, <1>5 DEF RunInv, WorkingInv, Status
<1>15. SheetInv' /\ PaneInv'
  <2>1. SheetInv'  BY <1>1, <1>2 DEF SheetInv, Newer
  <2> QED  BY <1>1, <2>1 DEF PaneInv, Closed
<1> QED  BY <1>9, <1>11, <1>12, <1>13, <1>14, <1>15 DEF RunInv

\* A run is cancelled.
LEMMA CancelAllStep ==
    ASSUME NeedsInv, CancelAll
    PROVE  NeedsInv'
<1> DEFINE T == {r \in DOMAIN launches : Live(r)}
<1> USE DEF NeedsInv
<1>1. plans' = plans /\ life' = "cancelled" /\ clashes' = clashes  BY DEF CancelAll
<1>2. Now' = Now /\ Plan' = Plan /\ Now \in Nat  BY <1>1, PlanFacts DEF Now, Plan
<1>3. \A n \in DOMAIN Plan : board[Now][n].attempts \in Nat  BY PlanFacts DEF Plan, BoardRow
<1>4. BoardFits(board')  BY CancelRows
<1>5. ASSUME NEW n \in DOMAIN Plan
       PROVE  board'[Now][n].attempts = board[Now][n].attempts /\ board'[Now][n].status \in Terminal
  <2>1. board'[Now][n] = IF board[Now][n].status \in Terminal THEN board[Now][n]
                         ELSE [status |-> "cancelled", attempts |-> board[Now][n].attempts]
    BY CancelRows
  <2> QED  BY <2>1 DEF Terminal
<1>6. /\ LaunchesFit(launches') /\ DOMAIN launches' = DOMAIN launches
      /\ \A i \in DOMAIN launches :
            /\ launches'[i].at = launches[i].at
            /\ launches'[i].status = IF i \in T THEN "cancelled" ELSE launches[i].status
  <2>1. launches' = MarkedLaunches(T, "cancelled") /\ "cancelled" \in LaunchStatuses
    BY DEF CancelAll, MarkedLaunches, LaunchStatuses
  <2> HIDE DEF T
  <2> QED  BY <2>1, MarkedFits
<1>7. NeedsTyping'  BY <1>1, <1>4, <1>6, SameGraphTyping DEF CancelAll, NeedsTyping
<1>8. StartedInv'  BY <1>1, <1>4, <1>6, <1>3, <1>5, StartedSteps DEF RunInv
<1>9. DoneInv' /\ CancelInv'  BY <1>1 DEF DoneInv, CancelInv
<1>10. WorkingInv' /\ WaitingInv'  BY <1>1, <1>2, <1>5 DEF WorkingInv, WaitingInv, Status, Terminal, Settled
<1>11. SheetInv' /\ PaneInv'  BY SheetFrame DEF CancelAll
<1> QED  BY <1>7, <1>8, <1>9, <1>10, <1>11 DEF RunInv

\* Sheets that are used up, and sheets whose review is written.
UsedUp(T) ==
    [i \in DOMAIN sheets |-> IF i \in T THEN [sheets[i] EXCEPT !.used = TRUE] ELSE sheets[i]]
Reviewed(T, rv) ==
    [i \in DOMAIN sheets |-> IF i \in T THEN [sheets[i] EXCEPT !.review = rv] ELSE sheets[i]]

\* Using inputs up keeps them, and what was reviewed of them.
LEMMA UsedUpFits ==
    ASSUME NeedsTyping, NEW T
    PROVE  /\ SheetsFit(UsedUp(T)) /\ DOMAIN UsedUp(T) = DOMAIN sheets
           /\ \A i \in DOMAIN sheets :
                 /\ UsedUp(T)[i].at = sheets[i].at /\ UsedUp(T)[i].review = sheets[i].review
                 /\ i \in T => UsedUp(T)[i].used = TRUE
                 /\ i \notin T => UsedUp(T)[i].used = sheets[i].used
<1>1. sheets \in Seq(Sheet) /\ \A i \in DOMAIN sheets : sheets[i] \in Sheet /\ sheets[i].at \in Spots
  BY DEF NeedsTyping, SheetsFit
<1> DEFINE t == UsedUp(T)
<1>2. \A i \in DOMAIN sheets : t[i] = IF i \in T THEN [sheets[i] EXCEPT !.used = TRUE] ELSE sheets[i]  BY DEF UsedUp
<1>3. t = [i \in DOMAIN sheets |-> t[i]] /\ DOMAIN t = DOMAIN sheets  BY DEF UsedUp
<1> HIDE DEF t
<1>4. \A x \in Sheet : /\ [x EXCEPT !.used = TRUE] \in Sheet /\ [x EXCEPT !.used = TRUE].at = x.at
                       /\ [x EXCEPT !.used = TRUE].review = x.review /\ [x EXCEPT !.used = TRUE].used = TRUE
  BY DEF Sheet
<1>5. \A i \in DOMAIN sheets :
         /\ t[i] \in Sheet /\ t[i].at = sheets[i].at /\ t[i].review = sheets[i].review
         /\ i \in T => t[i].used = TRUE
         /\ i \notin T => t[i].used = sheets[i].used
  <2> SUFFICES ASSUME NEW i \in DOMAIN sheets
               PROVE  /\ t[i] \in Sheet /\ t[i].at = sheets[i].at /\ t[i].review = sheets[i].review
                      /\ i \in T => t[i].used = TRUE
                      /\ i \notin T => t[i].used = sheets[i].used
    OBVIOUS
  <2>1. CASE i \in T  BY <2>1, <1>1, <1>2, <1>4
  <2>2. CASE i \notin T  BY <2>2, <1>1, <1>2
  <2> QED  BY <2>1, <2>2
<1>6. t \in Seq(Sheet)  BY <1>1, <1>3, <1>5, SeqReplaced
<1> QED  BY <1>1, <1>3, <1>5, <1>6 DEF SheetsFit, t

\* Writing a review keeps the inputs, and whether they were used.
LEMMA ReviewedFits ==
    ASSUME NeedsTyping, NEW T, NEW rv \in {"none", "awaiting", "confirmed"}
    PROVE  /\ SheetsFit(Reviewed(T, rv)) /\ DOMAIN Reviewed(T, rv) = DOMAIN sheets
           /\ \A i \in DOMAIN sheets :
                 /\ Reviewed(T, rv)[i].at = sheets[i].at /\ Reviewed(T, rv)[i].used = sheets[i].used
                 /\ Reviewed(T, rv)[i].review = IF i \in T THEN rv ELSE sheets[i].review
<1>1. sheets \in Seq(Sheet) /\ \A i \in DOMAIN sheets : sheets[i] \in Sheet /\ sheets[i].at \in Spots
  BY DEF NeedsTyping, SheetsFit
<1> DEFINE t == Reviewed(T, rv)
<1>2. \A i \in DOMAIN sheets : t[i] = IF i \in T THEN [sheets[i] EXCEPT !.review = rv] ELSE sheets[i]  BY DEF Reviewed
<1>3. t = [i \in DOMAIN sheets |-> t[i]] /\ DOMAIN t = DOMAIN sheets  BY DEF Reviewed
<1> HIDE DEF t
<1>4. \A x \in Sheet : /\ [x EXCEPT !.review = rv] \in Sheet /\ [x EXCEPT !.review = rv].at = x.at
                       /\ [x EXCEPT !.review = rv].used = x.used /\ [x EXCEPT !.review = rv].review = rv
  BY DEF Sheet
<1>5. \A i \in DOMAIN sheets :
         /\ t[i] \in Sheet /\ t[i].at = sheets[i].at /\ t[i].used = sheets[i].used
         /\ t[i].review = IF i \in T THEN rv ELSE sheets[i].review
  <2> SUFFICES ASSUME NEW i \in DOMAIN sheets
               PROVE  /\ t[i] \in Sheet /\ t[i].at = sheets[i].at /\ t[i].used = sheets[i].used
                      /\ t[i].review = IF i \in T THEN rv ELSE sheets[i].review
    OBVIOUS
  <2>1. CASE i \in T  BY <2>1, <1>1, <1>2, <1>4
  <2>2. CASE i \notin T  BY <2>2, <1>1, <1>2
  <2> QED  BY <2>1, <2>2
<1>6. t \in Seq(Sheet)  BY <1>1, <1>3, <1>5, SeqReplaced
<1> QED  BY <1>1, <1>3, <1>5, <1>6 DEF SheetsFit, t

\* What the details show stays true while sheets come, and keep their places.
LEMMA PaneFrame ==
    ASSUME PaneInv, pane' = pane,
           \A i \in DOMAIN sheets : i \in DOMAIN sheets' /\ sheets'[i].at = sheets[i].at
    PROVE  PaneInv'
BY DEF PaneInv

\* An agent is started.
LEMMA LaunchStep ==
    ASSUME NeedsInv, NEW n \in DOMAIN Plan, LaunchNode(n)
    PROVE  NeedsInv'
<1> DEFINE T == Pending(<<Now, n>>)
           new == [at |-> <<Now, n>>, status |-> "running"]
           k == Len(launches) + 1
<1> USE DEF NeedsInv
<1>1. /\ plans' = plans /\ life' = life /\ clashes' = clashes /\ pane' = pane /\ Status(n) = "ready"
      /\ n \in Guarded => \E i \in T : sheets[i].review = "confirmed"
  BY DEF LaunchNode, Due, Status
<1>2. Now' = Now /\ Plan' = Plan /\ Now \in Nat /\ Now \in 1..Now /\ Plan = plans[Now]  BY <1>1, PlanFacts DEF Now, Plan
<1>3. \A m \in DOMAIN Plan : board[Now][m].attempts \in Nat  BY PlanFacts DEF Plan, BoardRow
<1>4. BoardFits(board')  BY LaunchRows
<1>5. ASSUME NEW m \in DOMAIN Plan
       PROVE  /\ m # n => board'[Now][m] = board[Now][m]
              /\ m = n => board'[Now][m].status = "running" /\ board'[Now][m].attempts = board[Now][m].attempts + 1
  <2>1. board'[Now][m] = IF m = n THEN [status |-> "running", attempts |-> board[Now][n].attempts + 1]
                         ELSE board[Now][m]
    BY <1>2, LaunchRows
  <2> QED  BY <2>1
<1>6. PlainRows  BY <1>1, <1>3, <1>5 DEF PlainRows, StirredStatuses, Settled
<1>7. /\ LaunchesFit(launches') /\ DOMAIN launches' = DOMAIN launches \cup {k}
      /\ \A i \in DOMAIN launches : launches'[i] = launches[i]
      /\ k \in DOMAIN launches' /\ launches'[k].at = <<Now, n>> /\ launches'[k].status = "running"
  <2>1. <<Now, n>> \in Spots /\ <<Now, n>> \in PlanSpots  BY <1>2, PlanFacts
  <2>2. new \in LaunchRow  BY <2>1 DEF LaunchRow, LaunchStatuses
  <2>3. launches' = Append(launches, new) /\ launches \in Seq(LaunchRow) /\ \A r \in DOMAIN launches : launches[r].at \in Spots
    BY DEF LaunchNode, NeedsTyping, LaunchesFit
  <2>4. new.at = <<Now, n>> /\ new.status = "running"  OBVIOUS
  <2> HIDE DEF new
  <2>5. /\ launches' \in Seq(LaunchRow) /\ DOMAIN launches' = DOMAIN launches \cup {k}
        /\ \A i \in DOMAIN launches : launches'[i] = launches[i]
        /\ launches'[k] = new
    BY <2>2, <2>3, SeqGrown
  <2> QED  BY <2>5, <2>1, <2>3, <2>4 DEF LaunchesFit
<1>8. /\ SheetsFit(sheets') /\ DOMAIN sheets' = DOMAIN sheets
       /\ \A i \in DOMAIN sheets :
             /\ sheets'[i].at = sheets[i].at /\ sheets'[i].review = sheets[i].review
             /\ i \in T => sheets'[i].used = TRUE
             /\ i \notin T => sheets'[i].used = sheets[i].used
  <2>1. sheets' = UsedUp(T)  BY DEF LaunchNode, UsedUp
  <2> HIDE DEF T
  <2> QED  BY <2>1, UsedUpFits
<1>9. NeedsTyping'  BY <1>1, <1>4, <1>7, <1>8, SameGraphTyping DEF LaunchNode, NeedsTyping
<1>10. LaunchesStay  BY <1>7 DEF LaunchesStay
<1>11. WaitingInv' /\ CancelInv'  BY <1>1, <1>4, <1>10, <1>6, PlainSteps DEF RunInv
<1>12. StartedInv'
  <2>1. \A m \in DOMAIN Plan : board[Now][m].attempts > 0 \/ m = n => board'[Now][m].attempts > 0  BY <1>3, <1>5
  <2> SUFFICES ASSUME NEW r \in DOMAIN launches'
               PROVE  launches'[r].at[2] \in DOMAIN Plan /\ board'[Now][launches'[r].at[2]].attempts > 0
    BY <1>2 DEF StartedInv
  <2>2. CASE r \in DOMAIN launches  BY <2>1, <2>2, <1>7 DEF RunInv, StartedInv
  <2>3. CASE r = k  BY <2>1, <2>3, <1>7
  <2> QED  BY <2>2, <2>3, <1>7
<1>13. DoneInv'  BY <1>1, <1>5, DoneSteps DEF RunInv, Settled, Status
<1>14. WorkingInv'
  <2>1. Misdirected => Misdirected'  BY <1>10, <1>2, MisdirectedStays
  <2> SUFFICES ASSUME NEW m \in DOMAIN Plan, board'[Now][m].status \in {"running", "needs-input"}
               PROVE  \/ Misdirected'
                      \/ \E i \in DOMAIN launches' : launches'[i].at[2] = m /\
                            launches'[i].status \in {"running", "awaiting-outcome", "interrupted"}
    BY <1>2 DEF WorkingInv, Status
  <2>2. CASE m = n  BY <2>2, <1>7
  <2>3. CASE m # n
    <3>1. Status(m) \in {"running", "needs-input"}  BY <2>3, <1>5 DEF Status
    <3> QED  BY <3>1, <2>1, <1>7 DEF RunInv, WorkingInv
  <2> QED  BY <2>2, <2>3
<1>15. SheetInv'
  <2>1. ASSUME NEW i \in T, sheets[i].review = "awaiting"
        PROVE  FALSE
    <3>1. i \in DOMAIN sheets /\ sheets[i].at = <<Now, n>> /\ Newer(i) /\ n \in Guarded  BY <2>1 DEF Pending, SheetInv
    <3>2. PICK j \in T : sheets[j].review = "confirmed"  BY <1>1, <3>1
    <3>3. j \in DOMAIN sheets /\ sheets[j].at = <<Now, n>> /\ Newer(j)  BY DEF Pending
    <3>4. i <= j /\ j <= i  BY <3>1, <3>3 DEF Newer
    <3>5. i \in Nat /\ j \in Nat  BY <3>1, <3>3 DEF NeedsTyping, SheetsFit
    <3>6. i = j  BY <3>4, <3>5
    <3> QED  BY <2>1, <3>2, <3>6
  <2> HIDE DEF T
  <2> QED  BY <1>2, <1>8, <2>1 DEF SheetInv, Newer
<1>16. PaneInv'  BY <1>1, <1>8, PaneFrame
<1> QED  BY <1>9, <1>11, <1>12, <1>13, <1>14, <1>15, <1>16 DEF RunInv

\* Where a settlement lands.
LEMMA SettleRow ==
    ASSUME NeedsInv, NEW r \in DOMAIN launches, NEW o \in {"succeeded", "failed"}, NEW c \in BOOLEAN,
           Settle(r, o, c)
    PROVE  LET n == launches[r].at[2]
               after == Unsettled(<<Now, n>>, o)
           IN  /\ n \in DOMAIN Plan /\ board[Now][n].attempts > 0
               /\ RowNow(launches[r].at) = <<Now, n>> /\ BoardFits(after)
               /\ \A m \in DOMAIN Plan :
                     /\ after[Now][m].attempts = board[Now][m].attempts
                     /\ after[Now][m].status = IF m = n /\ Status(n) \notin Terminal THEN o ELSE Status(m)
               /\ LaunchesFit(launches') /\ DOMAIN launches' = DOMAIN launches
               /\ \A i \in DOMAIN launches :
                     /\ launches'[i].at = launches[i].at
                     /\ launches'[i].status = IF i = r THEN o ELSE launches[i].status
               /\ LaunchesStay
<1> DEFINE n == launches[r].at[2]
           after == Unsettled(<<Now, n>>, o)
<1> USE DEF NeedsInv
<1>1. n \in DOMAIN Plan /\ board[Now][n].attempts > 0  BY DEF RunInv, StartedInv
<1>2. RowNow(launches[r].at) = <<Now, n>>  BY <1>1 DEF RowNow
<1>3. Now \in 1..Now /\ Plan = plans[Now] /\ <<Now, n>> \in Spots /\ o \in BoardStatuses
  BY PlanFacts, <1>1 DEF Plan, BoardStatuses, Terminal, Settled
<1> HIDE DEF n
<1>4. /\ BoardFits(after)
      /\ \A v \in 1..Now : \A m \in DOMAIN plans[v] :
            after[v][m] = IF <<Now, n>> = <<v, m>> /\ board[v][m].status \notin Terminal
                          THEN [status |-> o, attempts |-> board[v][m].attempts] ELSE board[v][m]
  BY <1>3, UnsettledFits
<1> HIDE DEF after
<1>5. ASSUME NEW m \in DOMAIN Plan
      PROVE  /\ after[Now][m].attempts = board[Now][m].attempts
             /\ after[Now][m].status = IF m = n /\ Status(n) \notin Terminal THEN o ELSE Status(m)
  <2>1. after[Now][m] = IF m = n /\ board[Now][m].status \notin Terminal
                        THEN [status |-> o, attempts |-> board[Now][m].attempts] ELSE board[Now][m]
    BY <1>3, <1>4
  <2>2. CASE m = n /\ board[Now][m].status \notin Terminal  BY <2>2, <2>1 DEF Status
  <2>3. CASE ~(m = n /\ board[Now][m].status \notin Terminal)  BY <2>1, <2>3 DEF Status
  <2> QED  BY <2>2, <2>3
<1>6. /\ LaunchesFit(launches') /\ DOMAIN launches' = DOMAIN launches
      /\ \A i \in DOMAIN launches :
            /\ launches'[i].at = launches[i].at
            /\ launches'[i].status = IF i = r THEN o ELSE launches[i].status
  <2>1. o \in LaunchStatuses  BY DEF LaunchStatuses
  <2>2. launches' = MarkedLaunches({r}, o)  BY <2>1, OneMarked DEF Settle
  <2> QED  BY <2>1, <2>2, MarkedFits
<1>7. LaunchesStay  BY <1>6 DEF LaunchesStay, Settle
<1> QED  BY <1>1, <1>2, <1>4, <1>5, <1>6, <1>7 DEF n, after

\* No node is left at work by a settlement of its last attempt.
LEMMA SettleWorking ==
    ASSUME NeedsInv, NEW r \in DOMAIN launches, NEW o \in {"succeeded", "failed"}, NEW c \in BOOLEAN,
           Settle(r, o, c), plans' = plans,
           \A m \in DOMAIN Plan : board'[Now][m].status \in {"running", "needs-input"} =>
               board'[Now][m].status = Unsettled(<<Now, launches[r].at[2]>>, o)[Now][m].status
    PROVE  WorkingInv'
<1> DEFINE n == launches[r].at[2]
           after == Unsettled(<<Now, n>>, o)
<1> USE DEF NeedsInv
<1>1. Now' = Now /\ Plan' = Plan /\ Now \in Nat  BY PlanFacts DEF Now, Plan
<1>2. /\ \A m \in DOMAIN Plan :
            after[Now][m].status = IF m = n /\ Status(n) \notin Terminal THEN o ELSE Status(m)
      /\ DOMAIN launches' = DOMAIN launches /\ LaunchesStay
      /\ \A i \in DOMAIN launches :
            /\ launches'[i].at = launches[i].at
            /\ launches'[i].status = IF i = r THEN o ELSE launches[i].status
  BY SettleRow
<1>3. Misdirected => Misdirected'  BY <1>1, <1>2, MisdirectedStays
<1> HIDE DEF after
<1> SUFFICES ASSUME NEW m \in DOMAIN Plan, board'[Now][m].status \in {"running", "needs-input"}
             PROVE  \/ Misdirected'
                    \/ \E i \in DOMAIN launches' : launches'[i].at[2] = m /\
                          launches'[i].status \in {"running", "awaiting-outcome", "interrupted"}
  BY <1>1 DEF WorkingInv, Status
<1>4. m # n /\ Status(m) \in {"running", "needs-input"}
  <2>1. after[Now][m].status \in {"running", "needs-input"}  BY DEF after
  <2>2. m # n \/ Status(n) \in Terminal  BY <1>2, <2>1
  <2>3. Status(m) \in {"running", "needs-input"}  BY <1>2, <2>1, <2>2
  <2> QED  BY <2>2, <2>3 DEF Terminal, Settled
<1> QED  BY <1>2, <1>3, <1>4 DEF RunInv, WorkingInv

\* An attempt succeeds.
LEMMA SucceedStep ==
    ASSUME NeedsInv, NEW r \in DOMAIN launches, NEW c \in BOOLEAN, Settle(r, "succeeded", c)
    PROVE  NeedsInv'
<1> DEFINE n == launches[r].at[2]
           after == Unsettled(<<Now, n>>, "succeeded")
<1> USE DEF NeedsInv
<1>1. /\ n \in DOMAIN Plan /\ RowNow(launches[r].at) = <<Now, n>> /\ BoardFits(after)
      /\ \A m \in DOMAIN Plan :
            /\ after[Now][m].attempts = board[Now][m].attempts
            /\ after[Now][m].status = IF m = n /\ Status(n) \notin Terminal THEN "succeeded" ELSE Status(m)
      /\ LaunchesFit(launches') /\ DOMAIN launches' = DOMAIN launches
      /\ \A i \in DOMAIN launches :
            /\ launches'[i].at = launches[i].at
            /\ launches'[i].status = IF i = r THEN "succeeded" ELSE launches[i].status
  BY SettleRow
<1>2. /\ plans' = plans /\ board' = Freed(after)
      /\ clashes' = IF c THEN clashes \cup {n} ELSE clashes
      /\ life' = Converged(board', clashes')
  BY <1>1 DEF Settle
<1>3. Now' = Now /\ Plan' = Plan  BY <1>2 DEF Now, Plan
<1> HIDE DEF after
<1>4. BoardFits(board')  BY <1>1, <1>2, FreedFits
<1>5. /\ WaitingInv'
      /\ \A m \in DOMAIN Plan : board'[Now][m].attempts = after[Now][m].attempts
      /\ \A m \in DOMAIN Plan : board'[Now][m].status # "ready" => board'[Now][m].status = after[Now][m].status
  BY <1>1, <1>2, FreedSteps
<1>6. /\ life' \in {"open", "succeeded", "failed", "cancelled"} /\ (life = "cancelled" => life' = "cancelled")
      /\ clashes' = {} /\ (\A m \in DOMAIN Plan : board'[Now][m].status \in Settled) => life' # "open"
  BY <1>2, ConvergedFacts DEF NeedsTyping
<1>7. clashes' \subseteq PlanNodes  BY <1>1, <1>2, PlanFacts DEF NeedsTyping
<1>8. NeedsTyping'  BY <1>1, <1>2, <1>4, <1>6, <1>7, SameGraphTyping DEF Settle, NeedsTyping
<1>9. StartedInv'
  <2>1. \A m \in DOMAIN Plan : board[Now][m].attempts \in Nat  BY PlanFacts DEF Plan, BoardRow
  <2> QED  BY <2>1, <1>1, <1>5, <1>2, <1>4, StartedSteps DEF RunInv
<1>10. DoneInv'  BY <1>6, <1>3 DEF DoneInv, Status
<1>11. CancelInv'  BY <1>1, <1>5, <1>6, <1>3 DEF RunInv, CancelInv, Status
<1>12. WorkingInv'  BY <1>5, <1>2, SettleWorking DEF after
<1>13. SheetInv' /\ PaneInv'  BY SheetFrame DEF Settle
<1> QED  BY <1>5, <1>8, <1>9, <1>10, <1>11, <1>12, <1>13 DEF RunInv

\* An attempt fails: the nodes behind it wait for it, or for what was settled before it.
LEMMA FailStep ==
    ASSUME NeedsInv, NEW r \in DOMAIN launches, NEW c \in BOOLEAN, Settle(r, "failed", c)
    PROVE  NeedsInv'
<1> DEFINE n == launches[r].at[2]
           after == Unsettled(<<Now, n>>, "failed")
<1> USE DEF NeedsInv
<1>1. /\ n \in DOMAIN Plan /\ RowNow(launches[r].at) = <<Now, n>> /\ BoardFits(after)
      /\ board[Now][n].attempts > 0
      /\ \A m \in DOMAIN Plan :
            /\ after[Now][m].attempts = board[Now][m].attempts
            /\ after[Now][m].status = IF m = n /\ Status(n) \notin Terminal THEN "failed" ELSE Status(m)
      /\ LaunchesFit(launches') /\ DOMAIN launches' = DOMAIN launches
      /\ \A i \in DOMAIN launches :
            /\ launches'[i].at = launches[i].at
            /\ launches'[i].status = IF i = r THEN "failed" ELSE launches[i].status
      /\ LaunchesStay
  BY SettleRow
<1>2. plans' = plans /\ board' = Stopped(n, after) /\ clashes' = clashes /\ life' = life  BY <1>1 DEF Settle
<1>3. Now' = Now /\ Plan' = Plan /\ Plan \in [DOMAIN Plan -> SUBSET DOMAIN Plan]  BY <1>2, PlanFacts DEF Now, Plan
<1> HIDE DEF after
<1>4. BoardFits(board')  BY <1>1, <1>2, StoppedFits
<1>5. ASSUME NEW m \in DOMAIN Plan
      PROVE  /\ board'[Now][m].attempts = board[Now][m].attempts
             /\ \/ board'[Now][m].status = after[Now][m].status
                \/ after[Now][m].status \in {"pending", "ready"} /\ board'[Now][m].status = "blocked"
  <2>1. CASE board'[Now][m] = after[Now][m]  BY <2>1, <1>1
  <2>2. CASE /\ after[Now][m].status \in {"pending", "ready"}
             /\ board'[Now][m] = [status |-> "blocked", attempts |-> after[Now][m].attempts]
    BY <2>2, <1>1
  <2> QED  BY <1>1, <1>2, StoppedFits, <2>1, <2>2
<1>6. \A m \in DOMAIN Plan : board'[Now][m].status \in Settled <=> Status(m) \in Settled
  <2> SUFFICES ASSUME NEW m \in DOMAIN Plan PROVE board'[Now][m].status \in Settled <=> Status(m) \in Settled  OBVIOUS
  <2> QED  BY <1>1, <1>5 DEF Settled, Terminal
<1>7. NeedsTyping'  BY <1>1, <1>2, <1>4, SameGraphTyping DEF Settle, NeedsTyping
<1>8. StartedInv'
  <2>1. \A m \in DOMAIN Plan : board[Now][m].attempts \in Nat  BY PlanFacts DEF Plan, BoardRow
  <2> QED  BY <2>1, <1>5, <1>1, <1>2, <1>4, StartedSteps DEF RunInv
<1>9. DoneInv'  BY <1>2, <1>6, DoneSteps DEF RunInv
<1>10. CancelInv'
  <2>1. \A m \in DOMAIN Plan : board'[Now][m].status = "cancelled" => Status(m) = "cancelled"  BY <1>1, <1>5
  <2> QED  BY <2>1, <1>2, <1>3 DEF RunInv, CancelInv, Status
<1>11. WorkingInv'  BY <1>5, <1>2, SettleWorking DEF after
<1>12. life' = "cancelled" \/ Belated' \/ Stirred(board)'
  <2>1. CASE board'[Now][n].status = "failed"
    <3>1. board'[Now][n].attempts > 0  BY <1>1, <1>5
    <3> QED  BY <2>1, <3>1, <1>1, <1>3 DEF Stirred
  <2>2. CASE Status(n) = "failed"
    <3>1. after[Now][n].status = "failed"  BY <2>2, <1>1
    <3>2. board'[Now][n].status = "failed"  BY <3>1, <1>1, <1>5
    <3> QED  BY <2>1, <3>2
  <2>3. CASE Status(n) = "cancelled"  BY <2>3, <1>1, <1>2 DEF RunInv, CancelInv
  <2>4. CASE Status(n) \in Settled
    <3>1. board'[Now][n].status \in Settled  BY <2>4, <1>1, <1>6
    <3> QED  BY <1>1, <3>1, <1>3 DEF Belated, Settled, RowHas, RowNow
  <2> QED  BY <1>1, <1>5, <2>1, <2>2, <2>3, <2>4 DEF Terminal
<1>13. WaitingInv'  BY <1>6, <1>3, <1>1, <1>5, <1>12 DEF WaitingInv, Status, RunInv, DepsDone
<1>14. SheetInv' /\ PaneInv'  BY SheetFrame DEF Settle
<1> QED  BY <1>7, <1>8, <1>9, <1>10, <1>11, <1>14, <1>13 DEF RunInv

\* A merge that clashed is over.
LEMMA ResolveStep ==
    ASSUME NeedsInv, NEW n \in clashes, Resolve(n)
    PROVE  NeedsInv'
<1> USE DEF NeedsInv
<1>1. plans' = plans /\ launches' = launches /\ clashes' = clashes \ {n} /\ BoardFits(board)
  BY DEF Resolve, NeedsTyping
<1>2. Now' = Now /\ Plan' = Plan  BY <1>1 DEF Now, Plan
<1>3. LaunchesStay  BY <1>1 DEF LaunchesStay
<1>4. /\ BoardFits(board') /\ WaitingInv'
      /\ \A m \in DOMAIN Plan :
            /\ board'[Now][m].attempts = board[Now][m].attempts
            /\ board'[Now][m].status # "ready" => board'[Now][m].status = Status(m)
  <2>1. CASE clashes' = {}
    <3>1. board' = Freed(board)  BY <2>1 DEF Resolve
    <3> QED  BY <3>1, <1>1, FreedFits, FreedSteps DEF Status
  <2>2. CASE clashes' # {}
    <3>1. board' = board /\ life' = life  BY <2>2 DEF Resolve
    <3>2. PlainRows  BY <3>1 DEF PlainRows
    <3> QED  BY <3>1, <3>2, <1>1, <1>3, PlainSteps DEF RunInv, Status
  <2> QED  BY <2>1, <2>2
<1>5. /\ life' \in {"open", "succeeded", "failed", "cancelled"} /\ (life = "cancelled" => life' = "cancelled")
      /\ clashes' = {} /\ (\A m \in DOMAIN Plan : board'[Now][m].status \in Settled) => life' # "open"
  <2>1. CASE clashes' = {}
    <3>1. life' = Converged(board', {})  BY <2>1 DEF Resolve
    <3> QED  BY <3>1, ConvergedFacts DEF NeedsTyping
  <2>2. CASE clashes' # {}
    <3>1. life' = life  BY <2>2 DEF Resolve
    <3> QED  BY <2>2, <3>1 DEF NeedsTyping
  <2> QED  BY <2>1, <2>2
<1>6. NeedsTyping'  BY <1>1, <1>4, <1>5, SameGraphTyping DEF Resolve, NeedsTyping
<1>7. StartedInv'
  <2>1. \A m \in DOMAIN Plan : board[Now][m].attempts \in Nat  BY PlanFacts DEF Plan, BoardRow
  <2> QED  BY <2>1, <1>4, <1>1, StartedSteps DEF RunInv
<1>8. DoneInv'  BY <1>5, <1>2 DEF DoneInv, Status
<1>9. CancelInv'  BY <1>4, <1>5, <1>2 DEF RunInv, CancelInv, Status
<1>10. WorkingInv'
  <2>1. Misdirected => Misdirected'  BY <1>1, <1>2 DEF Misdirected
  <2> QED  BY <1>1, <1>2, <2>1, <1>4 DEF RunInv, WorkingInv, Status
<1>11. SheetInv' /\ PaneInv'  BY SheetFrame DEF Resolve
<1> QED  BY <1>4, <1>6, <1>7, <1>8, <1>9, <1>10, <1>11 DEF RunInv

\* A node is skipped.
LEMMA SkipStep ==
    ASSUME NeedsInv, NEW n \in DOMAIN Plan, Skip(n)
    PROVE  NeedsInv'
<1> DEFINE after == SetRow(<<Now, n>>, "skipped")
<1> USE DEF NeedsInv
<1>1. /\ plans' = plans /\ launches' = launches /\ clashes' = clashes /\ board' = Freed(after)
      /\ life # "cancelled"
      /\ life' = IF clashes # {} \/ \E m \in DOMAIN Plan : board'[Now][m].status \notin Terminal
                 THEN "open" ELSE Converged(board', {})
  BY DEF Skip
<1>2. Now' = Now /\ Plan' = Plan  BY <1>1 DEF Now, Plan
<1>3. /\ BoardFits(after)
      /\ \A m \in DOMAIN Plan :
            /\ after[Now][m].attempts = board[Now][m].attempts
            /\ after[Now][m].status = IF m = n THEN "skipped" ELSE Status(m)
  <2>1. Now \in 1..Now /\ Plan = plans[Now] /\ "skipped" \in BoardStatuses
    BY PlanFacts DEF Plan, BoardStatuses, Terminal, Settled
  <2>2. <<Now, n>> \in Spots  BY <2>1, PlanFacts
  <2>3. /\ BoardFits(after)
        /\ \A v \in 1..Now : \A m \in DOMAIN plans[v] :
              after[v][m] = IF <<Now, n>> = <<v, m>> THEN [status |-> "skipped", attempts |-> board[v][m].attempts]
                            ELSE board[v][m]
    BY <2>1, <2>2, SetFits
  <2> HIDE DEF after
  <2>4. ASSUME NEW m \in DOMAIN Plan
        PROVE  /\ after[Now][m].attempts = board[Now][m].attempts
               /\ after[Now][m].status = IF m = n THEN "skipped" ELSE Status(m)
    <3>1. after[Now][m] = IF m = n THEN [status |-> "skipped", attempts |-> board[Now][m].attempts]
                          ELSE board[Now][m]
      BY <2>1, <2>3
    <3>2. CASE m = n  BY <3>2, <3>1
    <3>3. CASE m # n  BY <3>1, <3>3 DEF Status
    <3> QED  BY <3>2, <3>3
  <2> QED  BY <2>3, <2>4
<1> HIDE DEF after
<1>4. BoardFits(board')  BY <1>1, <1>3, FreedFits
<1>5. /\ WaitingInv'
      /\ \A m \in DOMAIN Plan : board'[Now][m].attempts = after[Now][m].attempts
      /\ \A m \in DOMAIN Plan : board'[Now][m].status # "ready" => board'[Now][m].status = after[Now][m].status
  BY <1>1, <1>3, FreedSteps
<1>6. /\ life' \in {"open", "succeeded", "failed", "cancelled"}
      /\ clashes' = {} /\ (\A m \in DOMAIN Plan : board'[Now][m].status \in Settled) => life' # "open"
  <2>1. Settled \subseteq Terminal  BY DEF Terminal
  <2> QED  BY <1>1, <2>1, ConvergedFacts DEF NeedsTyping
<1>7. NeedsTyping'  BY <1>1, <1>4, <1>6, SameGraphTyping DEF Skip, NeedsTyping
<1>8. StartedInv'
  <2>1. \A m \in DOMAIN Plan : board[Now][m].attempts \in Nat  BY PlanFacts DEF Plan, BoardRow
  <2> QED  BY <2>1, <1>3, <1>5, <1>1, <1>4, StartedSteps DEF RunInv
<1>9. DoneInv'  BY <1>6, <1>2 DEF DoneInv, Status
<1>10. CancelInv'
  <2>1. \A m \in DOMAIN Plan : board'[Now][m].status = "cancelled" => Status(m) = "cancelled"  BY <1>3, <1>5
  <2> QED  BY <2>1, <1>1, <1>2 DEF RunInv, CancelInv, Status
<1>11. WorkingInv'
  <2>1. Misdirected => Misdirected'  BY <1>1, <1>2 DEF Misdirected
  <2> QED  BY <1>1, <1>2, <2>1, <1>3, <1>5 DEF RunInv, WorkingInv, Status
<1>12. SheetInv' /\ PaneInv'  BY SheetFrame DEF Skip
<1> QED  BY <1>5, <1>7, <1>8, <1>9, <1>10, <1>11, <1>12 DEF RunInv

\* An input is put up for review.
LEMMA OfferStep ==
    ASSUME NeedsInv, NEW n \in DOMAIN Plan, OfferInput(n)
    PROVE  NeedsInv'
<1> DEFINE new == [at |-> <<Now, n>>, review |-> "awaiting", used |-> FALSE]
           k == Len(sheets) + 1
<1> USE DEF NeedsInv
<1>1. plans' = plans /\ pane' = pane /\ n \in Guarded /\ Pending(<<Now, n>>) = {}  BY DEF OfferInput
<1>2. Now' = Now /\ Now \in Nat /\ <<Now, n>> \in Spots /\ <<Now, n>> \in PlanSpots
  <2>1. Now' = Now /\ Now \in Nat /\ Now \in 1..Now /\ Plan = plans[Now]  BY <1>1, PlanFacts DEF Now, Plan
  <2> QED  BY <2>1, PlanFacts
<1>3. /\ SheetsFit(sheets') /\ DOMAIN sheets = 1..Len(sheets) /\ Len(sheets) \in Nat
      /\ DOMAIN sheets' = DOMAIN sheets \cup {k}
      /\ \A i \in DOMAIN sheets : sheets'[i] = sheets[i]
      /\ sheets'[k].at = <<Now, n>> /\ sheets'[k].review = "awaiting" /\ sheets'[k].used = FALSE
  <2>1. new \in Sheet  BY <1>2 DEF Sheet
  <2>2. sheets' = Append(sheets, new) /\ sheets \in Seq(Sheet) /\ \A i \in DOMAIN sheets : sheets[i].at \in Spots
    BY DEF OfferInput, NeedsTyping, SheetsFit
  <2>3. new.at = <<Now, n>> /\ new.review = "awaiting" /\ new.used = FALSE  OBVIOUS
  <2> HIDE DEF new
  <2>4. /\ sheets' \in Seq(Sheet) /\ DOMAIN sheets' = DOMAIN sheets \cup {k}
        /\ DOMAIN sheets = 1..Len(sheets) /\ Len(sheets) \in Nat
        /\ \A i \in DOMAIN sheets : sheets'[i] = sheets[i]
        /\ sheets'[k] = new
    BY <2>1, <2>2, SeqGrown
  <2> QED  BY <2>3, <2>4, <1>2, <2>2 DEF SheetsFit
<1>4. NeedsTyping'  BY <1>1, <1>3, SameGraphTyping DEF OfferInput, NeedsTyping
<1>5. RunInv'  BY RunFrame DEF OfferInput
<1>6. SheetInv'
  <2>1. \A i \in DOMAIN sheets : sheets[i].at[1] \in Nat /\ sheets[i].at[1] <= Now /\ sheets[i].at = <<sheets[i].at[1], sheets[i].at[2]>>
    BY PlanFacts, ElementFacts
  <2>2. \A i, j \in DOMAIN sheets' : i <= j => sheets'[i].at[1] <= sheets'[j].at[1]
    <3> SUFFICES ASSUME NEW i \in DOMAIN sheets', NEW j \in DOMAIN sheets', i <= j
                 PROVE  sheets'[i].at[1] <= sheets'[j].at[1]
      OBVIOUS
    <3>1. CASE i \in DOMAIN sheets /\ j \in DOMAIN sheets  BY <3>1, <1>3 DEF SheetInv
    <3>2. CASE i \in DOMAIN sheets /\ j = k  BY <3>2, <1>3, <2>1
    <3>3. CASE i = k
      <4>1. j = k  BY <3>3, <1>3
      <4> QED  BY <3>3, <4>1, <1>2, <1>3
    <3> QED  BY <3>1, <3>2, <3>3, <1>3
  <2>3. ASSUME NEW i \in DOMAIN sheets', sheets'[i].review = "awaiting"
        PROVE  /\ ~sheets'[i].used /\ sheets'[i].at[1] = Now
               /\ \A j \in DOMAIN sheets' : sheets'[j].at[2] = sheets'[i].at[2] => j <= i
    <3>1. CASE i = k  BY <3>1, <1>2, <1>3
    <3>2. CASE i \in DOMAIN sheets
      <4>1. sheets'[i] = sheets[i] /\ sheets[i].review = "awaiting"  BY <2>3, <3>2, <1>3
      <4>2. ~sheets[i].used /\ sheets[i].at[1] = Now /\ Newer(i)  BY <3>2, <4>1 DEF SheetInv
      <4>3. sheets[i].at[2] # n  BY <1>1, <2>1, <3>2, <4>2 DEF Pending
      <4> QED  BY <4>1, <4>2, <1>3, <4>3 DEF Newer
    <3> QED  BY <3>1, <3>2, <1>3
  <2> QED  BY <1>2, <1>1, <1>3, <2>2, <2>3 DEF SheetInv, Newer
<1>7. PaneInv'  BY <1>1, <1>3, PaneFrame
<1> QED  BY <1>4, <1>5, <1>6, <1>7

\* An input is agreed to.
LEMMA AgreeStep ==
    ASSUME NeedsInv, NEW i \in DOMAIN sheets, AgreeInput(i)
    PROVE  NeedsInv'
<1> USE DEF NeedsInv
<1>1. plans' = plans /\ pane' = pane /\ sheets' = [sheets EXCEPT ![i].review = "confirmed"]  BY DEF AgreeInput
<1>2. Now' = Now  BY <1>1 DEF Now
<1>3. /\ SheetsFit(sheets') /\ DOMAIN sheets' = DOMAIN sheets
      /\ \A j \in DOMAIN sheets :
            /\ sheets'[j].at = sheets[j].at /\ sheets'[j].used = sheets[j].used
            /\ sheets'[j].review = IF j \in {i} THEN "confirmed" ELSE sheets[j].review
  <2>1. sheets = [j \in DOMAIN sheets |-> sheets[j]]  BY DEF NeedsTyping, SheetsFit
  <2>2. sheets' = Reviewed({i}, "confirmed")  BY <1>1, <2>1 DEF Reviewed
  <2> QED  BY <2>2, ReviewedFits
<1>4. NeedsTyping'  BY <1>1, <1>3, SameGraphTyping DEF AgreeInput, NeedsTyping
<1>5. RunInv'  BY RunFrame DEF AgreeInput
<1>6. SheetInv'  BY <1>2, <1>3 DEF SheetInv, Newer
<1>7. PaneInv'  BY <1>1, <1>3, PaneFrame
<1> QED  BY <1>4, <1>5, <1>6, <1>7

\* The graph is replaced: what was started is kept, with what it depends on.
LEMMA ReplaceStep ==
    ASSUME NeedsInv, NEW g \in Plans, Replace(g)
    PROVE  NeedsInv'
<1> DEFINE T == {i \in DOMAIN sheets : sheets[i].review = "awaiting" /\ ~sheets[i].used}
           old(n) == IF n \in DOMAIN Plan THEN board[Now][n] ELSE EmptyRow
           new(n) == board'[Now + 1][n]
<1> USE DEF NeedsInv
<1>1. /\ launches' = launches /\ asked' = asked /\ clashes' = clashes /\ life' = life /\ life = "open"
      /\ halted' = halted /\ pane' = pane
      /\ \A n \in DOMAIN Plan : board[Now][n].attempts > 0 => n \in DOMAIN g /\ g[n] = Plan[n]
  BY DEF Replace
<1>2. /\ plans' \in Seq(Plans) /\ Now' = Now + 1 /\ Plan' = g
      /\ \A v \in 1..Now : plans'[v] = plans[v]
      /\ BoardFits(board)'
      /\ \A n \in DOMAIN g :
            IF old(n).status \in Terminal \/ old(n).attempts > 0 THEN new(n) = old(n)
            ELSE /\ new(n).attempts = 0
                 /\ new(n).status = IF \A d \in g[n] : old(d).status \in Settled THEN "ready" ELSE "pending"
  BY ReplaceRows
<1>3. /\ Now \in Nat /\ Now > 0 /\ g \in [DOMAIN g -> SUBSET DOMAIN g] /\ Plan \in [DOMAIN Plan -> SUBSET DOMAIN Plan]
      /\ \A n \in DOMAIN Plan : board[Now][n].attempts \in Nat
  BY PlanFacts, NeedsAssumption DEF NeedsTyping, Plan, BoardRow, ValidPlan
<1>4. /\ SheetsFit(sheets') /\ DOMAIN sheets' = DOMAIN sheets
      /\ \A i \in DOMAIN sheets :
            /\ sheets'[i].at = sheets[i].at /\ sheets'[i].used = sheets[i].used
            /\ sheets'[i].review = IF i \in T THEN "none" ELSE sheets[i].review
  <2>1. sheets' = Reviewed(T, "none")  BY DEF Replace, Reviewed
  <2> HIDE DEF T
  <2> QED  BY <2>1, ReviewedFits
<1>5. NeedsTyping'
  <2>1. Spots \subseteq Spots'
    <3> SUFFICES ASSUME NEW p \in Spots PROVE p \in Spots'  OBVIOUS
    <3> QED  BY PlanFacts, <1>2, <1>3 DEF Spots
  <2>2. LaunchesFit(launches)'  BY <2>1, <1>1 DEF NeedsTyping, LaunchesFit
  <2>3. AskedFit(asked)'  BY <2>1, <1>1 DEF NeedsTyping, AskedFit
  <2>4. SheetsFit(sheets)'  BY <2>1, <1>4 DEF SheetsFit
  <2>5. PaneFits(pane)'
    <3>1. \A v \in 1..Now : v \in 1..Now'  BY <1>2, <1>3
    <3> QED  BY <3>1, <1>1 DEF NeedsTyping, PaneFits
  <2>6. Now' > 0  BY <1>2, <1>3
  <2> QED  BY <1>1, <1>2, <2>2, <2>3, <2>4, <2>5, <2>6 DEF NeedsTyping
<1>6. LaunchesStay  BY <1>1 DEF LaunchesStay
<1> HIDE DEF old, new
<1>7. \A n \in DOMAIN Plan : board[Now][n].attempts > 0 => n \in DOMAIN g /\ g[n] = Plan[n] /\ new(n) = board[Now][n]
  BY <1>1, <1>2 DEF old
<1>8. StartedInv'  BY <1>7, <1>1, <1>2 DEF StartedInv, new, RunInv
<1>9. ASSUME NEW n \in DOMAIN g, new(n).status \notin {"ready", "pending"}
      PROVE  n \in DOMAIN Plan /\ new(n) = board[Now][n]
  <2>1. new(n) = old(n) /\ (old(n).status \in Terminal \/ old(n).attempts > 0)  BY <1>2, <1>9
  <2>2. n \in DOMAIN Plan  BY <2>1 DEF old, EmptyRow, Terminal, Settled
  <2> QED  BY <2>1, <2>2 DEF old
<1>10. WorkingInv'
  <2>1. Misdirected => Misdirected'  BY <1>2, <1>3, <1>6, MisdirectedStays
  <2> SUFFICES ASSUME NEW n \in DOMAIN g, new(n).status \in {"running", "needs-input"}
               PROVE  \/ Misdirected'
                      \/ \E i \in DOMAIN launches' : launches'[i].at[2] = n /\
                            launches'[i].status \in {"running", "awaiting-outcome", "interrupted"}
    BY <1>2 DEF WorkingInv, Status, new
  <2> QED  BY <2>1, <1>9, <1>1 DEF RunInv, WorkingInv, Status
<1>11. CancelInv'  BY <1>9, <1>1, <1>2 DEF RunInv, CancelInv, Status, new
<1>12. DoneInv'  BY <1>2, <1>3 DEF DoneInv
<1>13. Belated => Belated'  BY <1>2, <1>7, <1>6, BelatedStays DEF RunInv, Status, new
<1>14. Stirred(board) => Stirred(board)'
  <2> SUFFICES ASSUME NEW k \in DOMAIN Plan, board[Now][k].attempts > 0,
                      board[Now][k].status \in {"ready", "running", "needs-input", "awaiting-outcome", "failed"}
               PROVE  Stirred(board)'
    BY DEF Stirred
  <2>1. k \in DOMAIN g /\ new(k) = board[Now][k]  BY <1>7
  <2> QED  BY <2>1, <1>2 DEF Stirred, new
<1>15. WaitingInv'
  <2> SUFFICES ASSUME NEW n \in DOMAIN g, \A d \in g[n] : new(d).status \in Settled
               PROVE  /\ new(n).status # "pending"
                      /\ new(n).status = "blocked" => Belated' \/ Stirred(board)'
    BY <1>2 DEF WaitingInv, DepsDone, Status, new
  <2>1. \A d \in g[n] : d \in DOMAIN g /\ d \in DOMAIN Plan /\ board[Now][d].status \in Settled
    BY <1>3, <1>9 DEF Settled
  <2>2. CASE old(n).status \in Terminal \/ old(n).attempts > 0
    <3>1. new(n) = old(n)  BY <2>2, <1>2
    <3>2. n \in DOMAIN Plan /\ old(n) = board[Now][n]  BY <2>2 DEF old, EmptyRow, Terminal, Settled
    <3>3. CASE old(n).status \in Terminal  BY <3>1, <3>3 DEF Terminal, Settled
    <3>4. CASE old(n).attempts > 0
      <4>1. g[n] = Plan[n]  BY <3>2, <3>4, <1>1
      <4>2. DepsDone(board, n)  BY <2>1, <4>1 DEF DepsDone
      <4> QED  BY <3>1, <3>2, <4>2, <1>1, <1>13, <1>14 DEF Status, RunInv, WaitingInv
    <3> QED  BY <2>2, <3>3, <3>4
  <2>3. CASE ~(old(n).status \in Terminal \/ old(n).attempts > 0)
    <3>1. \A d \in g[n] : old(d).status \in Settled  BY <2>1 DEF old
    <3>2. new(n).status = "ready"  BY <2>3, <3>1, <1>2
    <3> QED  BY <3>2
  <2> QED  BY <2>2, <2>3
<1>16. SheetInv'  BY <1>4 DEF SheetInv
<1>17. PaneInv'  BY <1>1, <1>4, PaneFrame
<1> QED  BY <1>5, <1>8, <1>10, <1>11, <1>12, <1>15, <1>16, <1>17 DEF RunInv

\* A run is paused, or goes on.
LEMMA HaltStep ==
    ASSUME NeedsInv, NEW h \in BOOLEAN, SetHalted(h)
    PROVE  NeedsInv'
<1>1. NeedsTyping'  BY SameGraphTyping DEF SetHalted, NeedsTyping, NeedsInv
<1>2. RunInv' /\ SheetInv' /\ PaneInv'  BY RunFrame, SheetFrame DEF SetHalted, NeedsInv
<1> QED  BY <1>1, <1>2 DEF NeedsInv

\* The details are opened, or closed.
LEMMA OpenStep ==
    ASSUME NeedsInv, OpenPane \/ ClosePane
    PROVE  NeedsInv'
<1> USE DEF NeedsInv
<1>1. UNCHANGED <<plans, board, launches, asked, sheets, clashes, life, halted>>  BY DEF OpenPane, ClosePane
<1>2. PaneFits(pane') /\ pane'.pc \notin {"latest", "shown"}
  <2>1. CASE ClosePane  BY <2>1 DEF ClosePane, Closed, PaneFits
  <2>2. CASE OpenPane
    <3>1. Now \in Nat /\ Now \in 1..Now /\ QuietNodes \subseteq PlanNodes /\ DOMAIN Plan \subseteq PlanNodes
      BY PlanFacts DEF QuietNodes
    <3> DEFINE q == IF life = "open" THEN QuietNodes ELSE DOMAIN Plan
    <3>2. q \subseteq PlanNodes  BY <3>1
    <3> HIDE DEF q
    <3> QED  BY <3>1, <3>2, <2>2 DEF PaneFits, OpenPane, Closed
  <2> QED  BY <2>1, <2>2
<1>3. NeedsTyping'  BY <1>1, <1>2, SameGraphTyping DEF NeedsTyping
<1>4. RunInv'  BY <1>1, RunFrame
<1>5. SheetInv'  BY <1>1 DEF SheetInv, Now, Newer
<1> QED  BY <1>2, <1>3, <1>4, <1>5 DEF PaneInv

\* The details read which inputs await a review, and which of them are the latest.
LEMMA ReadStep ==
    ASSUME NeedsInv, ReadReviews \/ ReadLatest
    PROVE  NeedsInv'
<1> USE DEF NeedsInv
<1>1. UNCHANGED <<plans, board, launches, asked, sheets, clashes, life, halted>>  BY DEF ReadReviews, ReadLatest
<1>2. /\ pane = [pc |-> pane.pc, v |-> pane.v, quiet |-> pane.quiet, waits |-> pane.waits, true |-> pane.true]
      /\ pane.v \in Nat /\ pane.quiet \subseteq PlanNodes /\ pane.waits \subseteq PlanNodes
      /\ pane.true \subseteq PlanSpots /\ (pane.pc # "closed" => pane.v \in 1..Now)
  BY DEF NeedsTyping, PaneFits
<1>3. RunInv'  BY <1>1, RunFrame
<1>4. SheetInv'  BY <1>1 DEF SheetInv, Now, Newer
<1>5. CASE ReadReviews
  <2> DEFINE w == (Awaited \cap DOMAIN plans[pane.v]) \ pane.quiet
             t == {sheets[i].at : i \in {j \in DOMAIN sheets : Agreed(j)}}
  <2>1. pane.pc = "reviews"  BY <1>5 DEF ReadReviews
  <2>2. pane' = [pane EXCEPT !.pc = "latest", !.waits = w, !.true = t]  BY <1>5 DEF ReadReviews
  <2>3. w \subseteq PlanNodes
    <3>1. pane.v \in 1..Now  BY <2>1, <1>2
    <3>2. plans[pane.v] \in Plans  BY <3>1, PlanFacts
    <3> QED  BY <3>2 DEF PlanNodes
  <2>4. t \subseteq PlanSpots  BY ElementFacts
  <2>5. ASSUME NEW n \in w
        PROVE  <<pane.v, n>> \in t \/ \E i \in DOMAIN sheets : sheets[i].at[2] = n /\ sheets[i].at[1] > pane.v
    <3>1. PICK i \in DOMAIN sheets : sheets[i].review = "awaiting" /\ sheets[i].at[2] = n  BY DEF Awaited
    <3>2. Agreed(i) /\ sheets[i].at[1] = Now  BY <3>1 DEF Agreed, SheetInv
    <3>3. sheets[i].at = <<Now, n>>  BY <3>1, <3>2, ElementFacts, PlanFacts
    <3>4. pane.v = Now \/ Now > pane.v  BY <2>1, <1>2, PlanFacts
    <3> QED  BY <3>1, <3>2, <3>3, <3>4
  <2> HIDE DEF w, t
  <2>6. pane' = [pc |-> "latest", v |-> pane.v, quiet |-> pane.quiet, waits |-> w, true |-> t]  BY <1>2, <2>2
  <2>7. PaneFits(pane')  BY <1>2, <2>1, <2>3, <2>4, <2>6 DEF PaneFits
  <2>8. NeedsTyping'  BY <1>1, <2>7, SameGraphTyping DEF NeedsTyping
  <2>9. PaneInv'  BY <1>1, <2>5, <2>6 DEF PaneInv
  <2> QED  BY <1>3, <1>4, <2>8, <2>9
<1>6. CASE ReadLatest
  <2> DEFINE w == {n \in pane.waits : StillLatest(n, pane.v)}
  <2>1. pane.pc = "latest" /\ pane' = [pane EXCEPT !.pc = "shown", !.waits = w]  BY <1>6 DEF ReadLatest
  <2>2. w \subseteq PlanNodes  BY <1>2
  <2>3. ASSUME NEW n \in w
        PROVE  <<pane.v, n>> \in pane.true
    <3>1. PICK i \in DOMAIN sheets : sheets[i].at[2] = n /\ Newer(i) /\ sheets[i].at[1] = pane.v  BY DEF StillLatest
    <3>2. ASSUME NEW j \in DOMAIN sheets, sheets[j].at[2] = n, sheets[j].at[1] > pane.v
          PROVE  FALSE
      <4>1. j <= i  BY <3>1, <3>2 DEF Newer
      <4>2. sheets[j].at[1] <= sheets[i].at[1]  BY <4>1 DEF SheetInv
      <4>3. sheets[j].at[1] \in Nat  BY ElementFacts, PlanFacts
      <4> QED  BY <3>1, <3>2, <4>2, <4>3, <1>2
    <3> QED  BY <3>2, <2>1 DEF PaneInv
  <2> HIDE DEF w
  <2>4. pane' = [pc |-> "shown", v |-> pane.v, quiet |-> pane.quiet, waits |-> w, true |-> pane.true]  BY <1>2, <2>1
  <2>5. PaneFits(pane')  BY <1>2, <2>1, <2>2, <2>4 DEF PaneFits
  <2>6. NeedsTyping'  BY <1>1, <2>5, SameGraphTyping DEF NeedsTyping
  <2>7. PaneInv'  BY <1>1, <2>3, <2>4 DEF PaneInv
  <2> QED  BY <1>3, <1>4, <2>6, <2>7
<1> QED  BY <1>5, <1>6

\* The run as it is created.
LEMMA NeedsStarts == NeedsInit => NeedsInv
<1> SUFFICES ASSUME NeedsInit PROVE NeedsInv  OBVIOUS
<1> DEFINE rows == [n \in DOMAIN FirstPlan |-> EmptyRow]
           top == Gate(FirstPlan, rows)
<1>1. /\ plans = <<FirstPlan>> /\ board = <<top>> /\ launches = <<>> /\ asked = <<>> /\ sheets = <<>>
      /\ clashes = {} /\ life = "open" /\ halted = FALSE /\ pane = Closed
  BY DEF NeedsInit
<1>2. FirstPlan \in Plans /\ FirstPlan \in [DOMAIN FirstPlan -> SUBSET DOMAIN FirstPlan] /\ DOMAIN FirstPlan # {}
  BY NeedsAssumption DEF ValidPlan
<1>3. plans \in Seq(Plans) /\ Now = 1 /\ Plan = FirstPlan  BY <1>1, <1>2 DEF Now, Plan
<1>4. \A n \in DOMAIN FirstPlan :
         top[n] = [EmptyRow EXCEPT !.status = IF \A d \in FirstPlan[n] : rows[d].status \in Settled THEN "ready" ELSE "pending"]
  BY DEF Gate, EmptyRow, Terminal, Settled
<1>5. DOMAIN top = DOMAIN FirstPlan /\ top = [n \in DOMAIN FirstPlan |-> top[n]]  BY DEF Gate
<1>6. EmptyRow = [status |-> "pending", attempts |-> 0]  BY DEF EmptyRow
<1>7. \A n \in DOMAIN FirstPlan :
         top[n] = [status |-> IF FirstPlan[n] = {} THEN "ready" ELSE "pending", attempts |-> 0]
  BY <1>4, <1>2, <1>6 DEF EmptyRow, Settled
<1> HIDE DEF top, rows
<1>8. \A n \in DOMAIN FirstPlan : top[n] \in BoardRow /\ top[n].status = IF FirstPlan[n] = {} THEN "ready" ELSE "pending"
  <2>1. [status |-> "ready", attempts |-> 0] \in BoardRow /\ [status |-> "pending", attempts |-> 0] \in BoardRow
    BY DEF BoardRow, BoardStatuses
  <2> QED  BY <1>7, <2>1
<1>9. BoardFits(board)
  <2>1. top \in [DOMAIN FirstPlan -> BoardRow]  BY <1>5, <1>8
  <2>2. top \in Boards  BY <2>1, <1>2 DEF Boards
  <2> QED  BY <1>1, <1>3, <2>1, <2>2 DEF BoardFits
<1>10. LaunchesFit(launches) /\ AskedFit(asked) /\ SheetsFit(sheets)  BY <1>1 DEF LaunchesFit, AskedFit, SheetsFit
<1>11. PaneFits(pane) /\ PaneInv  BY <1>1 DEF PaneFits, PaneInv, Closed
<1>12. NeedsTyping
  <2>1. /\ clashes \subseteq PlanNodes /\ life \in {"open", "succeeded", "failed", "cancelled"}
        /\ halted \in BOOLEAN
    BY <1>1
  <2>2. Now > 0  BY <1>3
  <2> QED  BY <2>1, <2>2, <1>3, <1>9, <1>10, <1>11 DEF NeedsTyping
<1>13. \A n \in DOMAIN Plan : Status(n) = IF Plan[n] = {} THEN "ready" ELSE "pending"  BY <1>1, <1>3, <1>8 DEF Status
<1>14. \A n \in DOMAIN Plan : Status(n) = "pending" => ~DepsDone(board, n)
  <2> SUFFICES ASSUME NEW n \in DOMAIN Plan, Status(n) = "pending" PROVE \E d \in Plan[n] : Status(d) \notin Settled
    BY DEF DepsDone, Status
  <2>1. PICK d \in Plan[n] : TRUE  BY <1>13
  <2>2. d \in DOMAIN Plan  BY <1>2, <1>3, <2>1
  <2> QED  BY <2>1, <2>2, <1>13 DEF Settled
<1>15. StartedInv /\ SheetInv  BY <1>1 DEF StartedInv, SheetInv
<1>16. WorkingInv /\ CancelInv /\ WaitingInv  BY <1>13, <1>14 DEF WorkingInv, CancelInv, WaitingInv
<1>17. DoneInv  BY <1>2, <1>3, <1>13 DEF DoneInv, Settled
<1> QED  BY <1>11, <1>12, <1>15, <1>16, <1>17 DEF NeedsInv, RunInv

\* Every step keeps all of this.
LEMMA NeedsSteps == NeedsInv /\ [NeedsNext]_needsVars => NeedsInv'
<1> SUFFICES ASSUME NeedsInv, [NeedsNext]_needsVars PROVE NeedsInv'  OBVIOUS
<1>1. CASE UNCHANGED needsVars
  <2>1. NeedsTyping'  BY <1>1, SameGraphTyping DEF needsVars, NeedsTyping, NeedsInv
  <2>2. RunInv' /\ SheetInv' /\ PaneInv'  BY <1>1, RunFrame, SheetFrame DEF needsVars, NeedsInv
  <2> QED  BY <2>1, <2>2 DEF NeedsInv
<1>2. CASE ClosePane  BY <1>2, OpenStep
<1>3. CASE NeedsMoves
  <2>1. CASE \E h \in BOOLEAN : SetHalted(h)  BY <2>1, HaltStep
  <2>2. CASE \E n \in DOMAIN Plan : OfferInput(n) \/ LaunchNode(n) \/ Skip(n)  BY <2>2, OfferStep, LaunchStep, SkipStep
  <2>3. CASE \E i \in DOMAIN sheets : AgreeInput(i)  BY <2>3, AgreeStep
  <2>4. CASE \E r \in DOMAIN launches : AskUser(r) \/ ReportEnd(r)  BY <2>4, AskUserStep, ReportEndStep
  <2>5. CASE \E r \in DOMAIN launches : \E c \in BOOLEAN : Settle(r, "succeeded", c) \/ Settle(r, "failed", c)
    BY <2>5, SucceedStep, FailStep
  <2>6. CASE \E q \in DOMAIN asked : Answer(q)  BY <2>6, AnswerStep
  <2>7. CASE \E n \in clashes : Resolve(n)  BY <2>7, ResolveStep
  <2>8. CASE \E p \in Spots : Retry(p)  BY <2>8, RetryStep
  <2>9. CASE \E g \in Plans : Replace(g)  BY <2>9, ReplaceStep
  <2>10. CASE CancelAll \/ Restart  BY <2>10, CancelAllStep, RestartStep
  <2>11. CASE OpenPane \/ ReadReviews \/ ReadLatest  BY <2>11, OpenStep, ReadStep
  <2> QED  BY <1>3, <2>1, <2>2, <2>3, <2>4, <2>5, <2>6, <2>7, <2>8, <2>9, <2>10, <2>11 DEF NeedsMoves
<1> QED  BY <1>1, <1>2, <1>3 DEF NeedsNext

----
(* What the user is told.                                                  *)

\* The two views read the same of reviews, and of attempts.
LEMMA ViewFacts ==
    ASSUME NeedsInv
    PROVE  ListReviews = DetailReviews /\ ListRunReasons = DetailRunReasons
<1> USE DEF NeedsInv
<1>1. ListRunReasons = DetailRunReasons  BY DEF ListRunReasons, DetailRunReasons, OfGraph, RowNow, RunInv, StartedInv
<1>2. ASSUME NEW i \in DOMAIN sheets, sheets[i].review = "awaiting"
      PROVE  sheets[i].at = <<Now, sheets[i].at[2]>> /\ StillLatest(sheets[i].at[2], Now)
  <2>1. sheets[i].at[1] = Now /\ Newer(i)  BY <1>2 DEF SheetInv
  <2>2. sheets[i].at = <<sheets[i].at[1], sheets[i].at[2]>>  BY ElementFacts, PlanFacts
  <2> QED  BY <2>1, <2>2 DEF StillLatest
<1>3. ListReviews \subseteq DetailReviews
  <2> SUFFICES ASSUME NEW i \in DOMAIN sheets, life = "open", sheets[i].review = "awaiting",
                      sheets[i].at[2] \in DOMAIN Plan \ QuietNodes
               PROVE  Reason(0, "input-review", sheets[i].at) \in DetailReviews
    BY DEF ListReviews
  <2> QED  BY <1>2 DEF DetailReviews, Awaited
<1>4. DetailReviews \subseteq ListReviews
  <2> SUFFICES ASSUME NEW n \in (Awaited \cap DOMAIN Plan) \ QuietNodes, life = "open"
               PROVE  Reason(0, "input-review", <<Now, n>>) \in ListReviews
    BY DEF DetailReviews
  <2>1. PICK i \in DOMAIN sheets : sheets[i].review = "awaiting" /\ sheets[i].at[2] = n  BY DEF Awaited
  <2> QED  BY <2>1, <1>2 DEF ListReviews
<1> QED  BY <1>1, <1>3, <1>4

\* The two views agree.
LEMMA ViewsAgree ==
    ASSUME NeedsInv
    PROVE  SameView
<1>1. ListReviews = DetailReviews /\ ListRunReasons = DetailRunReasons  BY ViewFacts
<1>2. ListQuestions = {} <=> DetailQuestions = {}  BY DEF ListQuestions, DetailQuestions
<1>3. Now > 0 /\ Now \in Nat  BY PlanFacts DEF NeedsInv, NeedsTyping
<1> QED  BY <1>1, <1>2, <1>3 DEF SameView, Needs, ListReasons, DetailReasons, ListQuestions, DetailQuestions, Reason,
    Nowhere

\* A run that stands still says so: of the nodes that are not done one depends on none of them,
\* and that one is a reason, or there is one in what it waits for.
LEMMA StopsAreTold ==
    ASSUME NeedsInv
    PROVE  NoSilentStop
<1> USE DEF NeedsInv
<1> SUFFICES ASSUME life = "open", ~DoneByRemoval, ~Misdirected, ~Belated,
                    \A r \in DOMAIN launches : launches[r].status # "running",
                    \A n \in DOMAIN Plan : Status(n) = "ready" =>
                        \E i \in Pending(<<Now, n>>) : sheets[i].review = "awaiting",
                    ListReasons = {}
             PROVE  FALSE
  BY DEF NoSilentStop, Overview, Tallied, Needs, Status
<1>1. GraphReasons = {} /\ ListRunReasons = {} /\ ClashReasons = {} /\ ListReviews = {}  BY DEF ListReasons
<1>2. \A n \in DOMAIN Plan : Status(n) \notin {"needs-input", "awaiting-outcome", "failed"}
  <2> SUFFICES ASSUME NEW n \in DOMAIN Plan, Status(n) \in {"needs-input", "awaiting-outcome", "failed"}
               PROVE  StepReasons(<<Now, n>>) # {}
    BY <1>1 DEF GraphReasons
  <2>1. RowHas(<<Now, n>>).status = Status(n)  BY DEF RowHas, Status
  <2> QED  BY <2>1 DEF StepReasons
<1>3. \A r \in DOMAIN launches : launches[r].status \notin {"awaiting-outcome", "interrupted"}
  <2> SUFFICES ASSUME NEW r \in DOMAIN launches, launches[r].status \in {"awaiting-outcome", "interrupted"}
               PROVE  RunReasons(r, OfGraph(launches[r].at)) # {}
    BY <1>1 DEF ListRunReasons
  <2> QED  BY DEF RunReasons
<1>4. clashes = {}  BY <1>1 DEF ClashReasons
<1>5. \A n \in DOMAIN Plan : Status(n) # "ready"
  <2> SUFFICES ASSUME NEW n \in DOMAIN Plan, Status(n) = "ready" PROVE FALSE  OBVIOUS
  <2>1. PICK i \in Pending(<<Now, n>>) : sheets[i].review = "awaiting"  OBVIOUS
  <2>2. n \notin QuietNodes  BY DEF QuietNodes, Status, Terminal, Settled
  <2> QED  BY <2>1, <2>2, <1>1 DEF ListReviews, Pending
<1>6. \A n \in DOMAIN Plan : Status(n) \notin {"running", "cancelled"}  BY <1>3 DEF RunInv, WorkingInv, CancelInv
<1>7. \A n \in DOMAIN Plan : Status(n) \in Settled \cup {"pending", "blocked"}
  BY PlanFacts, <1>2, <1>5, <1>6 DEF BoardStatuses, Terminal, Plan, Status, BoardRow
<1> DEFINE U == {n \in DOMAIN Plan : Status(n) \notin Settled}
<1>8. U # {}
  <2> SUFFICES ASSUME U = {} PROVE FALSE  OBVIOUS
  <2>1. \A n \in DOMAIN Plan : Status(n) \in Settled  OBVIOUS
  <2>2. Now = 1  BY <2>1, PlanFacts DEF DoneByRemoval, NeedsTyping, Status, Terminal
  <2> QED  BY <2>1, <2>2, <1>4 DEF RunInv, DoneInv
<1>9. PICK n \in U : Plan[n] \cap U = {}
  <2>1. Plan \in Plans /\ U \in SUBSET DOMAIN Plan  BY PlanFacts
  <2> HIDE DEF U
  <2> QED  BY <2>1, <1>8, NeedsAssumption DEF ValidPlan
<1>10. DepsDone(board, n)
  <2>1. n \in DOMAIN Plan /\ Plan[n] \subseteq DOMAIN Plan  BY PlanFacts
  <2>2. \A d \in Plan[n] : Status(d) \in Settled  BY <2>1, <1>9
  <2> QED  BY <2>2 DEF DepsDone, Status
<1>11. Status(n) = "blocked" /\ Stirred(board)  BY <1>7, <1>10 DEF RunInv, WaitingInv
<1>12. PICK k \in DOMAIN Plan : Status(k) \in {"ready", "running", "needs-input", "awaiting-outcome", "failed"}
  BY <1>11 DEF Stirred, Status
<1> QED  BY <1>2, <1>5, <1>6, <1>12

\* A review that is asked for can be given.
LEMMA ReviewsCanBeGiven ==
    ASSUME NeedsInv
    PROVE  ReviewsAreOpen
<1> USE DEF NeedsInv
<1> QED  BY DEF ReviewsAreOpen, ListReviews, Reason, Agreed, SheetInv, PaneInv

\* The variables keep their types.
LEMMA NeedsTypes ==
    ASSUME NeedsInv
    PROVE  NeedsTypeOK
<1> USE DEF NeedsInv
<1>1. plans \in Seq(Plans) /\ Len(board) = Now
  <2>1. board \in [1..Now -> Boards] /\ Now \in Nat  BY PlanFacts DEF NeedsTyping, BoardFits
  <2>2. board \in Seq(Boards)  BY <2>1, SeqDef
  <2> QED  BY <2>1, <2>2 DEF NeedsTyping
<1> QED  BY <1>1, PlanFacts, ElementFacts DEF NeedsTypeOK, NeedsTyping, LaunchStatuses, RowHas, BoardRow, BoardStatuses,
    PaneFits

\* The two views of a run agree, a run that stands still says so, and a review that is asked
\* for can be given (workspace_projection.rs, run_projection.rs), for any graphs and bounds.
THEOREM NeedsIsSafe == NeedsSpec => []NeedsSafety
<1>1. NeedsInv => NeedsSafety  BY NeedsTypes, ViewsAgree, StopsAreTold, ReviewsCanBeGiven DEF NeedsSafety
<1> QED  BY <1>1, NeedsStarts, NeedsSteps, PTL DEF NeedsSpec
=============================================================================
