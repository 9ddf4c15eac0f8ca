-------------------------- MODULE QuestionJoinProofs --------------------------
(***************************************************************************)
(* Proofs about the two services that work for the steps of a run.         *)
(*                                                                         *)
(* JoinMerge, for any steps, joins, attempts, crashes and refusals: a      *)
(* lease is held until its work is merged, a join starts from the work of  *)
(* all its parents, nothing is merged twice without a crash; what needs    *)
(* its user is shown, if no step is a parent of two joins; and nothing is  *)
(* left behind, if there is one join.                                      *)
(*                                                                         *)
(* QuestionDelivery, for any answers and any number of questions: an       *)
(* answer reaches the question it was accepted for, a question is called   *)
(* answered when its agent was told, and while one is open the task asks   *)
(* for its user.                                                           *)
(***************************************************************************)
EXTENDS JoinMerge, QuestionDelivery, FiniteSetTheorems, FunctionTheorems, SequenceTheorems, TLAPS

----
(* JoinMerge: the invariants.                                              *)

WorkerPC == {"off", "next", "merge", "conclude", "conflict", "release", "mark", "project",
             "recover"}
JobKind == {"settle", "fail", "skip", "none", "tick", "start", "resolve"}
Jobs0 == JobKind \X (Lease \cup {<<0, 0>>})
WorkerRecord == [pc : WorkerPC, job : Jobs0, todo : Seq(Keys), left : SUBSET Lease]
BatchStatus == {"none", "ready", "merging", "merged", "needs_user", "resolving", "released"}
BatchRecord == [status : BatchStatus, leases : SUBSET Lease, alive : BOOLEAN]
StepStatus == {"running", "succeeded", "failed", "skipped"}
Posted == {"settle", "fail", "skip"}
MergingPC == {"merge", "conclude", "conflict"}
Steps == <<stepStatus, attempt, dispatched>>

\* The keys of a list, and those the worker still has before it.
KeysIn(s) == {s[n] : n \in DOMAIN s}
Listed == {worker.todo[n] : n \in DOMAIN worker.todo}
AtBatch == worker.pc \in {"merge", "conclude", "conflict", "release", "mark", "project"}

\* JoinTypeOK with the types of the worker, part by part.
JoinTypeInv ==
    /\ stepStatus \in [Parents -> StepStatus] /\ attempt \in [Parents -> 1..MaxAttempt]
    /\ held \subseteq Lease /\ pendingRows \subseteq Lease
    /\ batch \in [Keys -> BatchRecord]
    /\ jobs \subseteq Posted \X Lease
    /\ worker \in WorkerRecord
    /\ coreUp \in BOOLEAN /\ coreCrashes \in Nat /\ refusals \in Nat
    /\ dispatched \subseteq DOMAIN Joins /\ merged \subseteq Lease /\ mergedTwice \subseteq merged

\* A worker that is at a batch has one, and nobody works while the core is down.
WorkerInv ==
    /\ worker.pc = "off" => worker = Off
    /\ ~coreUp => worker = Off
    /\ AtBatch => worker.todo # <<>>

\* A held lease is of the current attempt of a step that runs or has succeeded.
HeldInv ==
    /\ \A l \in held : l = LeaseOf(l[1]) /\ stepStatus[l[1]] \in {"running", "succeeded"}
    /\ \A p \in Parents : stepStatus[p] = "running" => LeaseOf(p) \in held

\* What a batch is about: successful steps it owns, merged once it says so, and given back
\* once it is released.
LeasesOK(k) ==
    /\ batch[k].status = "none" => batch[k].leases = {}
    /\ \A l \in batch[k].leases :
          l = LeaseOf(l[1]) /\ stepStatus[l[1]] = "succeeded" /\ Owns(k, l[1])
    /\ batch[k].status \in {"merged", "released"} => batch[k].leases \subseteq merged
    /\ batch[k].status = "released" => batch[k].leases \cap held = {}

BatchInv == \A k \in Keys : LeasesOK(k)

\* The batch that is being merged by a living owner is the one at hand.
OwnerInv ==
    \A k \in Keys : batch[k].status \in {"merging", "resolving"} /\ batch[k].alive =>
        worker.pc \in {"merge", "conclude", "conflict"} /\ k = Key

\* The batch at hand, at each place of the worker.
KeyInv ==
    /\ worker.pc \in {"merge", "conclude", "conflict"} =>
          batch[Key].status \in {"merging", "resolving"}
    /\ worker.pc \in {"conclude", "release", "mark"} => batch[Key].leases \subseteq merged
    /\ worker.pc \in {"release", "mark"} => batch[Key].status \in {"merged", "released"}
    /\ worker.pc = "mark" => batch[Key].leases \cap held = {}
    /\ worker.pc = "project" => /\ batch[Key].status \in {"merged", "needs_user"}
                                /\ worker.left \subseteq batch[Key].leases
                                /\ Job[1] # "resolve"

\* A resolution has before it what was merged, needs its user or is already released.
ResolveInv ==
    worker.pc # "off" /\ Job[1] = "resolve" => \A k \in Listed :
        \/ AtBatch /\ k = Key
        \/ batch[k].status \in {"merged", "needs_user", "released"}

MergedInv == \A l \in merged : \E k \in Keys : l \in batch[k].leases

DispatchInv == \A j \in dispatched : \A p \in Joins[j] : stepStatus[p] \in {"succeeded", "skipped"}

\* What holds of any joins, whatever crashes.
CoreInv ==
    /\ JoinTypeInv /\ WorkerInv /\ HeldInv /\ BatchInv /\ OwnerInv /\ KeyInv /\ ResolveInv
    /\ MergedInv /\ NoWorkLost /\ DispatchInv /\ JoinSeesItsParents

\* Without a crash a lease of a batch is given back, shown, or about to be one or the other,
\* so that no second batch can claim it.
Settled(k, l) ==
    \/ l \in pendingRows \/ l \notin held
    \/ k = Key /\ worker.pc \in {"merge", "conclude", "conflict", "release"}
    \/ worker.pc = "project" /\ l \in worker.left

CalmBatch(k) ==
    /\ batch[k].status # "ready"
    /\ batch[k].status \in {"merging", "resolving"} => batch[k].alive
    /\ batch[k].status = "needs_user" => batch[k].leases \cap merged = {}
    /\ \A l \in batch[k].leases : Settled(k, l)

Apart == \A k, m \in Keys : m # k => batch[m].leases \cap batch[k].leases = {}

CalmKey ==
    /\ worker.pc \in {"merge", "conflict"} => batch[Key].leases \cap merged = {}
    /\ Job[1] = "resolve" /\ worker.pc \in {"merge", "conclude", "conflict", "release"} =>
          batch[Key].leases \cap held \subseteq pendingRows

Calm ==
    /\ coreUp /\ worker.pc # "recover" /\ mergedTwice = {}
    /\ \A k \in Keys : CalmBatch(k)
    /\ Apart /\ CalmKey

CalmInv == coreCrashes = 0 => Calm

\* No step is a parent of two joins; there is one join at most.
Disjoint == \A i, j \in DOMAIN Joins : i # j => Joins[i] \cap Joins[j] = {}
Lone == \A i, j \in DOMAIN Joins : i = j

\* An action of the outbox is about an attempt that is over.
JobFresh(job) ==
    LET p == job[2][1] IN
    /\ job[2][2] <= attempt[p]
    /\ job[2] = LeaseOf(p) => Terminal(p)
    /\ job[1] = "settle" => job[2] = LeaseOf(p) /\ stepStatus[p] = "succeeded"

JobsInv ==
    /\ \A job \in jobs : JobFresh(job)
    /\ Job[1] \in {"settle", "fail", "skip"} => Job \in jobs

\* What is resolved is a resolution's.
KindInv ==
    worker.pc \in {"merge", "conclude", "conflict"} =>
        (batch[Key].status = "resolving" <=> Job[1] = "resolve")

\* A settlement works at the batches of its step, whose lease is held until it was merged.
SettleInv ==
    Job[1] = "settle" /\ worker.pc # "off" => \A k \in Listed :
          /\ Owns(k, Job[2][1])
          /\ \/ worker.pc # "next"
             \/ Job[2] \in held \/ batch[k].status \in {"merged", "released", "needs_user"}

\* What waits to be merged is held; it is pending when the user was asked, and else it is not.
Waits(k) ==
    /\ batch[k].status \in {"ready", "merging", "needs_user", "resolving"} =>
          batch[k].leases \subseteq held
    /\ batch[k].status \in {"ready", "merging"} => batch[k].leases \cap pendingRows = {}
    /\ batch[k].status = "resolving" => batch[k].leases \subseteq pendingRows

\* What needs its user is shown, is being shown, or will be by the recovery.
Shown(k) ==
    batch[k].status = "needs_user" /\ coreUp =>
        \/ batch[k].leases \subseteq pendingRows
        \/ /\ worker.pc = "project" /\ k = Key
           /\ batch[k].leases \subseteq pendingRows \cup worker.left
        \/ worker.pc = "recover" /\ k \in Listed

WaitInv == \A k \in Keys : Waits(k) /\ Shown(k)

FullInv == \A k \in Keys : batch[k].status # "none" => batch[k].leases # {}

\* What holds of disjoint joins.
BatchesInv == CoreInv /\ JobsInv /\ KindInv /\ SettleInv /\ WaitInv /\ FullInv

\* A lease that the store would merge into a join whose parents are settled.
Ready(k) == k \in JoinKeys /\ Complete(k[2])
Stuck(l, k) == Ready(k) /\ l \in Authoritative(k)

\* The worker has the batch still before it.
Coming(k) == k \in Listed /\ (worker.pc = "next" \/ (AtBatch /\ k # Key))
Working == Job[1] \in {"settle", "fail", "skip", "tick", "start"}

\* An action that, executed from its start, comes to the batch.
Covers(job, k) ==
    /\ job \in jobs
    /\ \/ job[1] \in {"fail", "skip"}
       \/ job[1] = "settle" /\ job[2] \in held \ batch[k].leases /\ Owns(k, job[2][1])

Covered(k) == \E job \in jobs : Covers(job, k) /\ (job = Job => Coming(k))
Taken(k) == (Coming(k) /\ Working) \/ \E job \in jobs : Covers(job, k) /\ job # Job

\* A stuck lease is owed its merge: an action covers it until a batch is about it, and a batch
\* that is ready is before the worker or covered by another action.
Owed(k, l) ==
    /\ l \notin batch[k].leases => Covered(k)
    /\ l \in batch[k].leases /\ batch[k].status = "ready" /\ coreUp /\ worker.pc # "recover" =>
          Taken(k)

OweInv == \A k \in JoinKeys : \A l \in Lease : Stuck(l, k) => Owed(k, l)

\* What holds of one join.
JoinInv == BatchesInv /\ OweInv

----
(* What a step does to the worker and to the batches.                      *)

\* The worker begins a job with the keys of K,
Begun(job, K) ==
    /\ worker' \in WorkerRecord /\ worker'.pc = "next" /\ Job' = job /\ Listed' = K
    /\ worker'.left = {}

\* stays with its batch,
Moved(pc) ==
    /\ worker' \in WorkerRecord /\ worker'.pc = pc /\ Job' = Job /\ Listed' = Listed
    /\ Key' = Key /\ worker'.todo = worker.todo /\ worker'.left = worker.left

\* goes on to the next,
Advanced ==
    /\ worker' \in WorkerRecord /\ worker'.pc = "next" /\ Job' = Job /\ worker'.left = {}
    /\ Listed' \subseteq Listed /\ Listed \subseteq {Key} \cup Listed'

\* turns to the user with the leases of L,
Projects(L) ==
    /\ worker' \in WorkerRecord /\ worker'.pc = "project" /\ Job' = Job /\ Listed' = Listed
    /\ Key' = Key /\ worker'.todo = worker.todo /\ worker'.left = L

\* or stops.
Idle ==
    /\ worker' = Off /\ worker'.pc = "off" /\ worker' \in WorkerRecord
    /\ Listed' = {} /\ Job' = <<"none", <<0, 0>>>> /\ worker'.left = {}

\* One batch changes.
SetBatch(k, status, leases, alive) ==
    /\ batch' \in [Keys -> BatchRecord]
    /\ batch'[k].status = status /\ batch'[k].leases = leases /\ batch'[k].alive = alive
    /\ \A m \in Keys : m # k => batch'[m] = batch[m]

----
(* The order of the batches.                                               *)

\* The members of a finite set of numbers are numbered, each once.
LEMMA NthMembers ==
    ASSUME NEW S \in SUBSET Nat, IsFiniteSet(S)
    PROVE  /\ Cardinality(S) \in Nat
           /\ \A n \in 1..Cardinality(S) : Nth(S, n) \in S
           /\ \A x \in S : \E n \in 1..Cardinality(S) : Nth(S, n) = x
<1> DEFINE upTo(x) == {y \in S : y <= x}
           rank(x) == Cardinality(upTo(x))
           ranks == [x \in S |-> rank(x)]
<1>1. Cardinality(S) \in Nat  BY FS_CardinalityType
<1>2. ASSUME NEW x \in S
      PROVE  IsFiniteSet(upTo(x)) /\ rank(x) \in 1..Cardinality(S)
  <2>1. upTo(x) \in SUBSET S /\ x \in upTo(x)  OBVIOUS
  <2> HIDE DEF upTo
  <2> QED  BY <1>1, <2>1, FS_Subset, FS_CardinalityType, FS_EmptySet
<1>3. ASSUME NEW x \in S, NEW y \in S, x < y
      PROVE  rank(x) # rank(y)
  <2>1. ASSUME NEW z \in upTo(x) PROVE z \in upTo(y)  BY <1>3
  <2>2. y \in upTo(y) /\ y \notin upTo(x)  BY <1>3
  <2>3. IsFiniteSet(upTo(y))  BY <1>2
  <2> HIDE DEF upTo
  <2>4. upTo(x) \in SUBSET upTo(y)  BY <2>1
  <2> QED  BY <2>2, <2>3, <2>4, FS_Subset
<1>4. ASSUME NEW x \in S, NEW y \in S, rank(x) = rank(y)
      PROVE  x = y
  <2>1. ~(x < y) /\ ~(y < x)  BY <1>3, <1>4
  <2> QED  BY <2>1
<1> HIDE DEF rank
<1>5. ranks \in Injection(S, 1..Cardinality(S))  BY <1>2, <1>4 DEF Injection, IsInjective
<1>6. ranks \in Surjection(S, 1..Cardinality(S))  BY <1>5, <1>1, FS_Interval, FS_Injection
<1>7. \A n \in 1..Cardinality(S) : \E x \in S : rank(x) = n  BY <1>6 DEF Surjection
<1>8. \A n : Nth(S, n) = CHOOSE x \in S : rank(x) = n  BY DEF Nth, rank, upTo
<1>9. \A n \in 1..Cardinality(S) : Nth(S, n) \in S /\ rank(Nth(S, n)) = n  BY <1>7, <1>8
<1>10. \A x \in S : Nth(S, rank(x)) = x  BY <1>2, <1>4, <1>9
<1> QED  BY <1>1, <1>2, <1>9, <1>10

\* AsKeys lists the keys of a kind, each id of the set and nothing else.
LEMMA AsKeysMembers ==
    ASSUME NEW kind, NEW S \in SUBSET Nat, IsFiniteSet(S), NEW K,
           \A x \in S : <<kind, x>> \in K
    PROVE  /\ AsKeys(kind, S) \in Seq(K)
           /\ \A x \in S : \E n \in DOMAIN AsKeys(kind, S) : AsKeys(kind, S)[n] = <<kind, x>>
<1>1. /\ Cardinality(S) \in Nat
      /\ \A n \in 1..Cardinality(S) : Nth(S, n) \in S
      /\ \A x \in S : \E n \in 1..Cardinality(S) : Nth(S, n) = x
  BY NthMembers
<1>2. AsKeys(kind, S) = [n \in 1..Cardinality(S) |-> <<kind, Nth(S, n)>>]  BY DEF AsKeys
<1>3. AsKeys(kind, S) \in [1..Cardinality(S) -> K]  BY <1>1, <1>2
<1>4. AsKeys(kind, S) \in Seq(K)  BY <1>1, <1>3
<1>5. DOMAIN AsKeys(kind, S) = 1..Cardinality(S)  BY <1>2
<1>6. ASSUME NEW x \in S
      PROVE  \E n \in DOMAIN AsKeys(kind, S) : AsKeys(kind, S)[n] = <<kind, x>>
  BY <1>1, <1>2, <1>5
<1> QED  BY <1>4, <1>6

\* What a key is.
LEMMA KeyShape ==
    /\ \A j \in DOMAIN Joins : <<"join", j>> \in JoinKeys /\ <<"join", j>> \in Keys
    /\ \A k \in JoinKeys : k[1] = "join" /\ k[2] \in DOMAIN Joins /\ k = <<"join", k[2]>>
                           /\ k \notin SingleKeys
    /\ \A k \in SingleKeys : k[1] = "single" /\ k[2] \in Parents /\ k = <<"single", k[2]>>
                             /\ k \notin JoinKeys
    /\ Keys = JoinKeys \cup SingleKeys
<1>1. "join" # "single"  OBVIOUS
<1> QED  BY <1>1 DEF JoinKeys, Keys, SingleKeys

\* InOrder lists the keys of a set, all of them and nothing else.
LEMMA InOrderMembers ==
    ASSUME NEW K \in SUBSET Keys
    PROVE  InOrder(K) \in Seq(K) /\ KeysIn(InOrder(K)) = K
<1> DEFINE js == {j \in DOMAIN Joins : <<"join", j>> \in K}
           ps == {p \in Parents : <<"single", p>> \in K}
           a == AsKeys("join", js)
           b == AsKeys("single", ps)
<1>1. /\ js \in SUBSET Nat /\ IsFiniteSet(js)
      /\ ps \in SUBSET Nat /\ IsFiniteSet(ps)
  BY JoinAssumption, FS_Subset DEF JoinAssumption
<1>2. a \in Seq(K) /\ \A x \in js : \E n \in DOMAIN a : a[n] = <<"join", x>>
  <2> \A x \in js : <<"join", x>> \in K  OBVIOUS
  <2> QED  BY <1>1, AsKeysMembers
<1>3. b \in Seq(K) /\ \A x \in ps : \E n \in DOMAIN b : b[n] = <<"single", x>>
  <2> \A x \in ps : <<"single", x>> \in K  OBVIOUS
  <2> QED  BY <1>1, AsKeysMembers
<1>4. InOrder(K) = a \o b  BY DEF InOrder
<1>5. ASSUME NEW k \in K
      PROVE  \/ \E n \in DOMAIN a : a[n] = k
             \/ \E n \in DOMAIN b : b[n] = k
  <2>1. CASE k \in JoinKeys
    <3>1. k = <<"join", k[2]>> /\ k[2] \in js  BY <2>1, KeyShape
    <3> QED  BY <3>1, <1>2
  <2>2. CASE k \in SingleKeys
    <3>1. k = <<"single", k[2]>> /\ k[2] \in ps  BY <2>2, KeyShape
    <3> QED  BY <3>1, <1>3
  <2> QED  BY <2>1, <2>2, KeyShape
<1> HIDE DEF a, b
<1>6. /\ a \o b \in Seq(K) /\ Len(a \o b) = Len(a) + Len(b)
      /\ \A n \in 1..Len(a) : (a \o b)[n] = a[n]
      /\ \A n \in 1..Len(b) : (a \o b)[Len(a) + n] = b[n]
  BY <1>2, <1>3
<1>7. /\ Len(a) \in Nat /\ DOMAIN a = 1..Len(a)
      /\ Len(b) \in Nat /\ DOMAIN b = 1..Len(b)
      /\ DOMAIN (a \o b) = 1..Len(a \o b)
  BY <1>2, <1>3, <1>6
<1>8. ASSUME NEW k \in K
      PROVE  \E n \in DOMAIN (a \o b) : (a \o b)[n] = k
  <2>1. ASSUME NEW n \in DOMAIN a, a[n] = k
        PROVE  n \in DOMAIN (a \o b) /\ (a \o b)[n] = k
    BY <2>1, <1>6, <1>7
  <2>2. ASSUME NEW n \in DOMAIN b, b[n] = k
        PROVE  Len(a) + n \in DOMAIN (a \o b) /\ (a \o b)[Len(a) + n] = k
    BY <2>2, <1>6, <1>7
  <2> QED  BY <2>1, <2>2, <1>5
<1>9. \A n \in DOMAIN (a \o b) : (a \o b)[n] \in K  BY <1>6
<1>10. KeysIn(a \o b) = K
  <2> HIDE DEF js, ps
  <2>1. KeysIn(a \o b) \subseteq K  BY <1>9 DEF KeysIn
  <2>2. K \subseteq KeysIn(a \o b)  BY <1>8 DEF KeysIn
  <2> QED  BY <2>1, <2>2
<1> QED  BY <1>4, <1>6, <1>10

\* Taking the first key off a list.
LEMMA TakeFirst ==
    ASSUME NEW K, NEW s \in Seq(K), s # <<>>
    PROVE  /\ Head(s) \in K /\ Head(s) \in KeysIn(s) /\ Tail(s) \in Seq(K)
           /\ KeysIn(Tail(s)) \subseteq KeysIn(s)
           /\ KeysIn(s) \subseteq {Head(s)} \cup KeysIn(Tail(s))
<1>1. /\ Len(s) \in Nat \ {0} /\ DOMAIN s = 1..Len(s)
      /\ \A n \in 1..Len(s) : s[n] \in K
      /\ Head(s) = s[1] /\ Tail(s) \in Seq(K) /\ Len(Tail(s)) = Len(s) - 1
      /\ \A n \in 1..(Len(s) - 1) : Tail(s)[n] = s[n + 1]
  OBVIOUS
<1>2. DOMAIN Tail(s) = 1..(Len(s) - 1)  BY <1>1, LenProperties
<1>3. ASSUME NEW n \in DOMAIN Tail(s)
      PROVE  n + 1 \in DOMAIN s /\ Tail(s)[n] = s[n + 1]
  BY <1>1, <1>2
<1>4. ASSUME NEW n \in DOMAIN s, n # 1
      PROVE  n - 1 \in DOMAIN Tail(s) /\ Tail(s)[n - 1] = s[n]
  <2> DEFINE t == Tail(s)
  <2>1. n - 1 \in 1..(Len(s) - 1) /\ (n - 1) + 1 = n  BY <1>1, <1>4
  <2>2. \A i \in 1..(Len(s) - 1) : t[i] = s[i + 1]  BY <1>1
  <2>3. DOMAIN t = 1..(Len(s) - 1)  BY <1>2
  <2> HIDE DEF t
  <2>4. n - 1 \in DOMAIN t /\ t[n - 1] = s[n]  BY <2>1, <2>2, <2>3
  <2> QED  BY <2>4 DEF t
<1>5. 1 \in DOMAIN s  BY <1>1
<1> QED  BY <1>1, <1>3, <1>4, <1>5 DEF KeysIn

\* An empty list.
LEMMA NoKeys == KeysIn(<<>>) = {}
BY DEF KeysIn

----
(* The worker.                                                             *)

\* JoinTypeInv and WorkerInv, part by part.
LEMMA TypeParts ==
    JoinTypeInv <=>
      /\ stepStatus \in [Parents -> StepStatus] /\ attempt \in [Parents -> 1..MaxAttempt]
      /\ held \in SUBSET Lease /\ pendingRows \in SUBSET Lease
      /\ batch \in [Keys -> BatchRecord]
      /\ jobs \in SUBSET ({"settle", "fail", "skip"} \X Lease)
      /\ worker \in WorkerRecord
      /\ coreUp \in BOOLEAN /\ coreCrashes \in Nat /\ refusals \in Nat
      /\ dispatched \in SUBSET DOMAIN Joins /\ merged \in SUBSET Lease
      /\ mergedTwice \in SUBSET merged
BY DEF JoinTypeInv, Posted

\* A step has a lease of its current attempt.
LEMMA LeaseOfType ==
    ASSUME attempt \in [Parents -> 1..MaxAttempt], NEW p \in Parents
    PROVE  LeaseOf(p) \in Lease /\ LeaseOf(p)[1] = p /\ LeaseOf(p)[2] = attempt[p]
BY DEF LeaseOf, Lease

\* The worker with nothing to do.
LEMMA OffFacts ==
    /\ Off \in WorkerRecord /\ Off.pc = "off" /\ Off.job = <<"none", <<0, 0>>>>
    /\ Off.todo = <<>> /\ Off.left = {}
<1>1. <<>> \in Seq(Keys)  OBVIOUS
<1> QED  BY <1>1 DEF Off, WorkerRecord, WorkerPC, Jobs0, JobKind

\* The worker takes up a job.
LEMMA BeginMoves ==
    ASSUME NEW job \in Jobs0, NEW todo \in Seq(Keys), Begin(job, todo)
    PROVE  /\ worker' \in WorkerRecord /\ worker'.pc = "next" /\ worker'.job = job
           /\ worker'.todo = todo /\ worker'.left = {}
BY DEF Begin, WorkerRecord, WorkerPC

\* The worker goes on to another part of its batch.
LEMMA ToMoves ==
    ASSUME worker \in WorkerRecord, NEW pc \in WorkerPC, To(pc)
    PROVE  /\ worker' \in WorkerRecord /\ worker'.pc = pc /\ worker'.job = worker.job
           /\ worker'.todo = worker.todo /\ worker'.left = worker.left
BY DEF To, WorkerRecord

\* The worker goes on to its next batch.
LEMMA NextKeyMoves ==
    ASSUME worker \in WorkerRecord, worker.todo # <<>>, NextKey
    PROVE  /\ worker' \in WorkerRecord /\ worker'.pc = "next" /\ worker'.job = worker.job
           /\ worker'.todo = Tail(worker.todo) /\ worker'.left = {}
<1>1. worker.todo \in Seq(Keys)  BY DEF WorkerRecord
<1>2. Tail(worker.todo) \in Seq(Keys)  BY <1>1, HeadTailProperties
<1> QED  BY <1>2 DEF NextKey, WorkerRecord, WorkerPC

\* The worker goes on to show leases to the user.
LEMMA ProjectMoves ==
    ASSUME worker \in WorkerRecord, NEW L \in SUBSET Lease,
           worker' = [worker EXCEPT !.pc = "project", !.left = L]
    PROVE  /\ worker' \in WorkerRecord /\ worker'.pc = "project" /\ worker'.job = worker.job
           /\ worker'.todo = worker.todo /\ worker'.left = L
BY DEF WorkerRecord, WorkerPC

\* The worker shows one lease and keeps the others.
LEMMA LeftMoves ==
    ASSUME worker \in WorkerRecord, NEW l, worker' = [worker EXCEPT !.left = @ \ {l}]
    PROVE  /\ worker' \in WorkerRecord /\ worker'.pc = worker.pc /\ worker'.job = worker.job
           /\ worker'.todo = worker.todo /\ worker'.left = worker.left \ {l}
BY DEF WorkerRecord, WorkerPC

\* The recovery goes on to its next batch.
LEMMA RecoverMoves ==
    ASSUME worker \in WorkerRecord, worker.todo # <<>>,
           worker' = [worker EXCEPT !.todo = Tail(@)]
    PROVE  /\ worker' \in WorkerRecord /\ worker'.pc = worker.pc /\ worker'.job = worker.job
           /\ worker'.todo = Tail(worker.todo) /\ worker'.left = worker.left
<1>1. worker.todo \in Seq(Keys)  BY DEF WorkerRecord
<1>2. Tail(worker.todo) \in Seq(Keys)  BY <1>1, HeadTailProperties
<1> QED  BY <1>2 DEF WorkerRecord, WorkerPC

\* The recovery starts with every batch.
LEMMA StartMoves ==
    ASSUME NEW todo \in Seq(Keys), worker' = [Off EXCEPT !.pc = "recover", !.todo = todo]
    PROVE  /\ worker' \in WorkerRecord /\ worker'.pc = "recover" /\ worker'.job = Off.job
           /\ worker'.todo = todo /\ worker'.left = {}
BY DEF WorkerRecord, WorkerPC, Off, Jobs0, JobKind

\* The batch at the head of the list.
LEMMA KeyFacts ==
    ASSUME worker \in WorkerRecord, worker.todo # <<>>, batch \in [Keys -> BatchRecord]
    PROVE  /\ Key \in Keys /\ Key \in KeysIn(worker.todo)
           /\ batch[Key] \in BatchRecord /\ batch[Key].leases \in SUBSET Lease
<1>1. worker.todo \in Seq(Keys)  BY DEF WorkerRecord
<1> QED  BY <1>1, TakeFirst DEF Key, BatchRecord

\* The lists a job may be given.
LEMMA ListTypes ==
    /\ \A K \in SUBSET Keys : InOrder(K) \in Seq(Keys) /\ KeysIn(InOrder(K)) = K
    /\ JoinKeys \in SUBSET Keys /\ Undecided \in SUBSET Keys
    /\ \A p : {k \in Keys : Owns(k, p)} \in SUBSET Keys
    /\ <<>> \in Seq(Keys)
<1>1. ASSUME NEW K \in SUBSET Keys
      PROVE  InOrder(K) \in Seq(Keys) /\ KeysIn(InOrder(K)) = K
  <2>1. InOrder(K) \in Seq(K) /\ KeysIn(InOrder(K)) = K  BY InOrderMembers
  <2> QED  BY <2>1
<1> QED  BY <1>1 DEF Keys, Undecided

\* One batch is changed.
LEMMA OneBatch ==
    ASSUME batch \in [Keys -> BatchRecord], NEW k \in Keys, NEW b \in BatchRecord,
           NEW c, c = [batch EXCEPT ![k] = b]
    PROVE  /\ c \in [Keys -> BatchRecord] /\ c[k] = b
           /\ \A m \in Keys : m # k => c[m] = batch[m]
OBVIOUS

\* A job is begun with the keys of a set.
LEMMA BeginEffect ==
    ASSUME NEW job \in Jobs0, NEW K \in SUBSET Keys, Begin(job, InOrder(K))
    PROVE  Begun(job, K)
<1>1. InOrder(K) \in Seq(Keys) /\ KeysIn(InOrder(K)) = K  BY ListTypes
<1>2. Listed' = KeysIn(worker'.todo)  BY DEF Listed, KeysIn
<1> QED  BY <1>1, BeginMoves, <1>2 DEF Begun, Job

\* A job is begun with nothing to do.
LEMMA BeginNothing ==
    ASSUME NEW job \in Jobs0, Begin(job, <<>>)
    PROVE  Begun(job, {})
<1>1. Listed' = KeysIn(worker'.todo)  BY DEF Listed, KeysIn
<1> QED  BY BeginMoves, ListTypes, <1>1, NoKeys DEF Begun, Job

\* The worker stays with its batch.
LEMMA ToEffect ==
    ASSUME worker \in WorkerRecord, NEW pc \in WorkerPC, To(pc)
    PROVE  Moved(pc)
<1>1. /\ worker' \in WorkerRecord /\ worker'.pc = pc /\ worker'.job = worker.job
      /\ worker'.todo = worker.todo /\ worker'.left = worker.left
  BY ToMoves
<1>2. Key' = Key /\ Listed' = Listed /\ Job' = Job  BY <1>1 DEF Listed, Key, Job
<1> QED  BY <1>1, <1>2 DEF Moved

\* The worker leaves its batch.
LEMMA NextKeyEffect ==
    ASSUME worker \in WorkerRecord, worker.todo # <<>>, NextKey
    PROVE  Advanced
<1>1. /\ worker' \in WorkerRecord /\ worker'.pc = "next" /\ worker'.job = worker.job
      /\ worker'.todo = Tail(worker.todo) /\ worker'.left = {}
  BY NextKeyMoves
<1>2. worker.todo \in Seq(Keys)  BY DEF WorkerRecord
<1>3. /\ KeysIn(Tail(worker.todo)) \subseteq KeysIn(worker.todo)
      /\ KeysIn(worker.todo) \subseteq {Head(worker.todo)} \cup KeysIn(Tail(worker.todo))
  BY <1>2, TakeFirst
<1>4. Listed = KeysIn(worker.todo) /\ Listed' = KeysIn(Tail(worker.todo))  BY <1>1 DEF Listed, KeysIn
<1> QED  BY <1>1, <1>3, <1>4 DEF Advanced, Job, Key

\* The worker turns to the user.
LEMMA ProjectEffect ==
    ASSUME worker \in WorkerRecord, NEW L \in SUBSET Lease,
           worker' = [worker EXCEPT !.pc = "project", !.left = L]
    PROVE  Projects(L)
<1>1. /\ worker' \in WorkerRecord /\ worker'.pc = "project" /\ worker'.job = worker.job
      /\ worker'.todo = worker.todo /\ worker'.left = L
  BY ProjectMoves
<1>2. Key' = Key /\ Listed' = Listed /\ Job' = Job  BY <1>1 DEF Listed, Key, Job
<1> QED  BY <1>1, <1>2 DEF Projects

\* The worker shows one lease of several.
LEMMA LeftEffect ==
    ASSUME worker \in WorkerRecord, worker.pc = "project", NEW l,
           worker' = [worker EXCEPT !.left = @ \ {l}]
    PROVE  Projects(worker.left \ {l})
<1>1. /\ worker' \in WorkerRecord /\ worker'.pc = worker.pc /\ worker'.job = worker.job
      /\ worker'.todo = worker.todo /\ worker'.left = worker.left \ {l}
  BY LeftMoves
<1>2. Key' = Key /\ Listed' = Listed /\ Job' = Job  BY <1>1 DEF Listed, Key, Job
<1> QED  BY <1>1, <1>2 DEF Projects

\* The worker stops.
LEMMA OffEffect ==
    ASSUME worker' = Off
    PROVE  Idle
<1> QED  BY OffFacts, NoKeys DEF Idle, Listed, KeysIn, Job

\* The types after a step.
LEMMA TypeNext ==
    ASSUME stepStatus' \in [Parents -> StepStatus], attempt' \in [Parents -> 1..MaxAttempt],
           held' \in SUBSET Lease, pendingRows' \in SUBSET Lease,
           batch' \in [Keys -> BatchRecord],
           jobs' \in SUBSET ({"settle", "fail", "skip"} \X Lease),
           worker' \in WorkerRecord,
           coreUp' \in BOOLEAN, coreCrashes' \in Nat, refusals' \in Nat,
           dispatched' \in SUBSET DOMAIN Joins, merged' \in SUBSET Lease,
           mergedTwice' \in SUBSET merged'
    PROVE  JoinTypeInv'
BY DEF JoinTypeInv, Posted

\* What WorkerInv asks of the worker after a step.
LEMMA WorkerNext ==
    ASSUME worker'.pc = "off" => worker' = Off, coreUp' \/ worker' = Off,
           worker'.pc \in {"off", "next", "recover"} \/ worker'.todo # <<>>
    PROVE  WorkerInv'
BY DEF WorkerInv, AtBatch

----
(* The actions and the types.                                              *)

\* A step may fire only at a batch that is there.
LEMMA AtFacts ==
    ASSUME JoinTypeInv, WorkerInv, coreUp, AtBatch
    PROVE  /\ worker.todo # <<>> /\ Key \in Keys /\ Key \in Listed
           /\ batch[Key] \in BatchRecord /\ batch[Key].leases \in SUBSET Lease
BY KeyFacts, TypeParts DEF WorkerInv, Listed, KeysIn

\* A settlement.
LEMMA SucceedEffect ==
    ASSUME JoinTypeInv, WorkerInv, NEW p \in Parents, SucceedStep(p)
    PROVE  JoinTypeInv' /\ WorkerInv' /\ Listed' = Listed /\ Job' = Job /\ Key' = Key
           /\ stepStatus'[p] = "succeeded"
           /\ \A q \in Parents : q # p => stepStatus'[q] = stepStatus[q]
<1>1. LeaseOf(p) \in Lease  BY TypeParts, LeaseOfType
<1>2. JoinTypeInv'  BY <1>1, TypeParts, TypeNext DEF SucceedStep, faultVars, StepStatus
<1> QED  BY <1>2, TypeParts DEF SucceedStep, WorkerInv, AtBatch, faultVars, Listed, Job, Key

\* A failure.
LEMMA FailEffect ==
    ASSUME JoinTypeInv, WorkerInv, NEW p \in Parents, FailStep(p)
    PROVE  JoinTypeInv' /\ WorkerInv' /\ Listed' = Listed /\ Job' = Job /\ Key' = Key
           /\ stepStatus'[p] = "failed"
           /\ \A q \in Parents : q # p => stepStatus'[q] = stepStatus[q]
<1>1. LeaseOf(p) \in Lease  BY TypeParts, LeaseOfType
<1>2. JoinTypeInv'  BY <1>1, TypeParts, TypeNext DEF FailStep, faultVars, StepStatus
<1> QED  BY <1>2, TypeParts DEF FailStep, WorkerInv, AtBatch, faultVars, Listed, Job, Key

\* A skip.
LEMMA SkipEffect ==
    ASSUME JoinTypeInv, WorkerInv, NEW p \in Parents, SkipStep(p)
    PROVE  JoinTypeInv' /\ WorkerInv' /\ Listed' = Listed /\ Job' = Job /\ Key' = Key
           /\ stepStatus'[p] = "skipped"
           /\ \A q \in Parents : q # p => stepStatus'[q] = stepStatus[q]
<1>1. LeaseOf(p) \in Lease  BY TypeParts, LeaseOfType
<1>2. JoinTypeInv'  BY <1>1, TypeParts, TypeNext DEF SkipStep, faultVars, StepStatus
<1> QED  BY <1>2, TypeParts DEF SkipStep, WorkerInv, AtBatch, faultVars, Listed, Job, Key

\* A retry.
LEMMA RetryEffect ==
    ASSUME JoinTypeInv, WorkerInv, NEW p \in Parents, RetryStep(p)
    PROVE  JoinTypeInv' /\ WorkerInv' /\ Listed' = Listed /\ Job' = Job /\ Key' = Key
           /\ stepStatus'[p] = "running" /\ LeaseOf(p)' = <<p, attempt[p] + 1>>
           /\ LeaseOf(p)' \in Lease /\ LeaseOf(p)' # LeaseOf(p)
           /\ \A q \in Parents : q # p => stepStatus'[q] = stepStatus[q]
                                         /\ LeaseOf(q)' = LeaseOf(q)
<1>1. attempt[p] + 1 \in 1..MaxAttempt /\ attempt[p] + 1 # attempt[p]
  BY TypeParts, JoinAssumption DEF RetryStep, JoinAssumption
<1>2. <<p, attempt[p] + 1>> \in Lease  BY <1>1 DEF Lease
<1>3. JoinTypeInv'  BY <1>2, <1>1, TypeParts, TypeNext DEF RetryStep, faultVars, StepStatus
<1> QED  BY <1>1, <1>2, <1>3, TypeParts DEF RetryStep, LeaseOf, WorkerInv, AtBatch, faultVars, Listed, Job, Key

\* The dispatch of a join.
LEMMA DispatchEffect ==
    ASSUME JoinTypeInv, WorkerInv, NEW j \in DOMAIN Joins, DispatchJoin(j)
    PROVE  JoinTypeInv' /\ WorkerInv' /\ Listed' = Listed /\ Job' = Job /\ Key' = Key
<1>1. JoinTypeInv'  BY TypeParts, TypeNext DEF DispatchJoin, faultVars
<1> QED  BY <1>1 DEF DispatchJoin, WorkerInv, AtBatch, faultVars, Listed, Job, Key

\* A settled step is taken up.
LEMMA SettleEffect ==
    ASSUME JoinTypeInv, WorkerInv, NEW p \in Parents, BeginSettle(p)
    PROVE  /\ JoinTypeInv' /\ WorkerInv'
           /\ \/ LeaseOf(p) \in held
                 /\ Begun(<<"settle", LeaseOf(p)>>, {k \in Keys : Owns(k, p)})
              \/ LeaseOf(p) \notin held /\ Begun(<<"settle", LeaseOf(p)>>, {})
<1>1. <<"settle", LeaseOf(p)>> \in Jobs0  BY TypeParts, LeaseOfType DEF Jobs0, JobKind
<1>2. CASE LeaseOf(p) \in held
  BY <1>2, <1>1, BeginEffect, TypeParts, TypeNext, WorkerNext DEF BeginSettle, stepVars, faultVars, Begun, GroupsOf
<1>3. CASE LeaseOf(p) \notin held
  BY <1>3, <1>1, BeginNothing, TypeParts, TypeNext, WorkerNext DEF BeginSettle, stepVars, faultVars, Begun
<1> QED  BY <1>2, <1>3

\* A failure or a skip is taken up.
LEMMA FlushEffect ==
    ASSUME JoinTypeInv, WorkerInv, BeginFlush
    PROVE  /\ JoinTypeInv' /\ WorkerInv'
           /\ \E job \in jobs : job[1] \in {"fail", "skip"} /\ Begun(job, JoinKeys)
<1>1. PICK job \in jobs : job[1] \in {"fail", "skip"} /\ Begin(job, InOrder(JoinKeys))  BY DEF BeginFlush
<1>2. job \in Jobs0  BY TypeParts DEF Jobs0, JobKind
<1>3. Begun(job, JoinKeys)  BY <1>1, <1>2, BeginEffect, ListTypes
<1> QED  BY <1>1, <1>3, TypeParts, TypeNext, WorkerNext DEF BeginFlush, stepVars, faultVars, Begun

\* The batches whose owner is gone.
LEMMA ReclaimEffect ==
    ASSUME JoinTypeInv, WorkerInv, TickReclaims
    PROVE  /\ JoinTypeInv' /\ WorkerInv' /\ Begun(<<"tick", <<0, 0>>>>, Keys)
           /\ batch' \in [Keys -> BatchRecord]
           /\ \A k \in Keys : batch'[k].leases = batch[k].leases
                              /\ batch'[k].alive = batch[k].alive
           /\ \A k \in Keys : Orphaned(k) /\ batch[k].status = "merging"
                              => batch'[k].status = "ready"
           /\ \A k \in Keys : Orphaned(k) /\ batch[k].status = "resolving"
                              => batch'[k].status = "needs_user"
           /\ \A k \in Keys : ~Orphaned(k) => batch'[k] = batch[k]
<1>1. <<"tick", <<0, 0>>>> \in Jobs0  BY DEF Jobs0, JobKind
<1>2. Begun(<<"tick", <<0, 0>>>>, Keys)  BY <1>1, BeginEffect DEF TickReclaims
<1>3. batch \in [Keys -> BatchRecord]  BY TypeParts
<1>4. ASSUME NEW k \in Keys
      PROVE  /\ batch'[k] \in BatchRecord
             /\ batch'[k].leases = batch[k].leases /\ batch'[k].alive = batch[k].alive
             /\ Orphaned(k) /\ batch[k].status = "merging" => batch'[k].status = "ready"
             /\ Orphaned(k) /\ batch[k].status = "resolving" => batch'[k].status = "needs_user"
             /\ ~Orphaned(k) => batch'[k] = batch[k]
  BY <1>3 DEF TickReclaims, BatchRecord, BatchStatus
<1>5. batch' \in [Keys -> BatchRecord]  BY <1>4 DEF TickReclaims
<1>6. JoinTypeInv' /\ WorkerInv'
  BY <1>2, <1>5, TypeParts, TypeNext, WorkerNext DEF TickReclaims, stepVars, faultVars, Begun
<1> QED  BY <1>2, <1>4, <1>5, <1>6

\* The user resolves.
LEMMA ResolveEffect ==
    ASSUME JoinTypeInv, WorkerInv, BeginResolve
    PROVE  JoinTypeInv' /\ WorkerInv' /\ Begun(<<"resolve", <<0, 0>>>>, Undecided)
<1>1. <<"resolve", <<0, 0>>>> \in Jobs0  BY DEF Jobs0, JobKind
<1> QED  BY <1>1, BeginEffect, ListTypes, TypeParts, TypeNext, WorkerNext DEF BeginResolve, stepVars, faultVars, Begun

\* A job is over.
LEMMA EndEffect ==
    ASSUME JoinTypeInv, WorkerInv, EndJob
    PROVE  JoinTypeInv' /\ WorkerInv' /\ Idle /\ Listed = {}
<1>1. Idle  BY OffEffect DEF EndJob
<1>2. Listed = {}  BY NoKeys DEF EndJob, Listed, KeysIn
<1> QED  BY <1>1, <1>2, TypeParts, TypeNext, WorkerNext DEF EndJob, stepVars, faultVars, Idle

\* The next batch of a job is at the head of the list.
LEMMA NextFacts ==
    ASSUME JoinTypeInv, WorkerInv, worker.todo # <<>>
    PROVE  /\ Key \in Keys /\ Key \in Listed
           /\ batch[Key] \in BatchRecord /\ batch[Key].leases \in SUBSET Lease
BY KeyFacts, TypeParts DEF Listed, KeysIn

\* A batch is claimed.
LEMMA ClaimEffect ==
    ASSUME JoinTypeInv, WorkerInv, ClaimBatch
    PROVE  /\ JoinTypeInv' /\ WorkerInv' /\ Moved("merge")
           /\ Key \in Keys /\ Key \in Listed
           /\ SetBatch(Key, "merging", Authoritative(Key), TRUE)
<1>1. Key \in Keys /\ Key \in Listed  BY NextFacts DEF ClaimBatch
<1>2. Moved("merge")  BY ToEffect, TypeParts DEF ClaimBatch, WorkerPC
<1>3. Authoritative(Key) \in SUBSET Lease  BY TypeParts DEF Authoritative
<1> DEFINE b == [status |-> "merging", leases |-> Authoritative(Key), alive |-> TRUE]
<1>4. b \in BatchRecord /\ b.status = "merging" /\ b.leases = Authoritative(Key) /\ b.alive = TRUE
  BY <1>3 DEF BatchRecord, BatchStatus
<1>5. batch' = [batch EXCEPT ![Key] = b]  BY DEF ClaimBatch
<1> HIDE DEF b
<1>6. SetBatch(Key, "merging", Authoritative(Key), TRUE)  BY <1>1, <1>4, <1>5, OneBatch, TypeParts DEF SetBatch
<1>7. worker.todo # <<>>  BY DEF ClaimBatch
<1>8. JoinTypeInv' /\ WorkerInv'
  BY <1>2, <1>6, <1>7, TypeParts, TypeNext, WorkerNext DEF stepVars, faultVars, Moved, SetBatch, ClaimBatch, At
<1> QED  BY <1>1, <1>2, <1>6, <1>8

\* A claim is refused.
LEMMA RefusedEffect ==
    ASSUME JoinTypeInv, WorkerInv, ClaimRefused
    PROVE  /\ JoinTypeInv' /\ WorkerInv' /\ Key \in Keys /\ Key \in Listed
           /\ \/ Job[1] \notin {"tick", "start"} /\ Idle
              \/ Job[1] \in {"tick", "start"} /\ Key \in JoinKeys /\ Begun(Job, SingleKeys)
              \/ Job[1] \in {"tick", "start"} /\ Key \notin JoinKeys /\ Advanced
<1>1. Key \in Keys /\ Key \in Listed  BY NextFacts DEF ClaimRefused
<1>2. coreUp /\ UNCHANGED <<stepVars, batch, pendingRows, jobs, faultVars, merged, mergedTwice>>
  BY DEF ClaimRefused, At
<1>3. CASE Job[1] \notin {"tick", "start"}
  <2>1. Idle  BY <1>3, OffEffect DEF ClaimRefused, GiveUp
  <2> QED  BY <1>1, <1>2, <1>3, <2>1, TypeParts, TypeNext, WorkerNext DEF stepVars, faultVars, Idle
<1>4. CASE Job[1] \in {"tick", "start"} /\ Key \in JoinKeys
  <2>1. Begin(Job, InOrder(SingleKeys)) /\ Job \in Jobs0 /\ SingleKeys \in SUBSET Keys
    BY <1>4, TypeParts DEF ClaimRefused, Job, WorkerRecord, Keys
  <2>2. Begun(Job, SingleKeys)
    <3> DEFINE job == Job
    <3>1. job \in Jobs0 /\ Begin(job, InOrder(SingleKeys))  BY <2>1
    <3> HIDE DEF job
    <3>2. Begun(job, SingleKeys)  BY <2>1, <3>1, BeginEffect
    <3> QED  BY <3>2 DEF job
  <2> QED  BY <1>1, <1>2, <1>4, <2>2, TypeParts, TypeNext, WorkerNext DEF stepVars, faultVars, Begun
<1>5. CASE Job[1] \in {"tick", "start"} /\ Key \notin JoinKeys
  <2>1. Advanced  BY <1>5, NextKeyEffect, TypeParts DEF ClaimRefused
  <2> QED  BY <1>1, <1>2, <1>5, <2>1, TypeParts, TypeNext, WorkerNext DEF stepVars, faultVars, Advanced
<1> QED  BY <1>3, <1>4, <1>5

\* A batch is passed over.
LEMMA PassEffect ==
    ASSUME JoinTypeInv, WorkerInv, PassOver
    PROVE  JoinTypeInv' /\ WorkerInv' /\ Advanced /\ Key \in Keys /\ Key \in Listed
<1>1. Advanced  BY NextKeyEffect, TypeParts DEF PassOver
<1>2. Key \in Keys /\ Key \in Listed  BY NextFacts DEF PassOver
<1> QED  BY <1>1, <1>2, TypeParts, TypeNext, WorkerNext DEF stepVars, faultVars, Advanced, PassOver, At

\* A resolution takes its batch up.
LEMMA ResolveBatchEffect ==
    ASSUME JoinTypeInv, WorkerInv, ResolveBatch
    PROVE  /\ JoinTypeInv' /\ WorkerInv' /\ Key \in Keys /\ Key \in Listed
           /\ \/ /\ batch[Key].status = "needs_user" /\ batch[Key].leases \subseteq pendingRows
                 /\ Moved("merge") /\ SetBatch(Key, "resolving", batch[Key].leases, TRUE)
              \/ batch[Key].status # "needs_user" /\ batch' = batch /\ Moved("release")
<1>1. Key \in Keys /\ Key \in Listed /\ batch[Key] \in BatchRecord  BY NextFacts DEF ResolveBatch
<1>2. worker.todo # <<>> /\ coreUp
      /\ UNCHANGED <<stepVars, pendingRows, jobs, faultVars, merged, mergedTwice>>
  BY DEF ResolveBatch, At
<1>3. CASE batch[Key].status = "needs_user"
  <2>1. /\ batch[Key].leases \subseteq pendingRows /\ To("merge")
        /\ batch' = [batch EXCEPT ![Key].status = "resolving", ![Key].alive = TRUE]
    BY <1>3 DEF ResolveBatch
  <2>2. Moved("merge")  BY <2>1, ToEffect, TypeParts DEF WorkerPC
  <2>3. SetBatch(Key, "resolving", batch[Key].leases, TRUE)
    BY <2>1, <1>1, TypeParts DEF SetBatch, BatchRecord, BatchStatus
  <2>4. JoinTypeInv' /\ WorkerInv'
    BY <2>2, <2>3, <1>2, TypeParts, TypeNext, WorkerNext DEF stepVars, faultVars, Moved, SetBatch
  <2> QED  BY <2>1, <2>2, <2>3, <2>4, <1>1, <1>3
<1>4. CASE batch[Key].status # "needs_user"
  <2>1. batch' = batch /\ To("release")  BY <1>4 DEF ResolveBatch
  <2>2. Moved("release")  BY <2>1, ToEffect, TypeParts DEF WorkerPC
  <2>3. JoinTypeInv' /\ WorkerInv'  BY <2>1, <2>2, <1>2, TypeParts, TypeNext, WorkerNext DEF stepVars, faultVars, Moved
  <2> QED  BY <2>1, <2>2, <2>3, <1>1, <1>4
<1> QED  BY <1>3, <1>4

\* The provider merges.
LEMMA MergesEffect ==
    ASSUME JoinTypeInv, WorkerInv, ProviderMerges
    PROVE  JoinTypeInv' /\ WorkerInv' /\ Moved("conclude") /\ Key \in Keys /\ Key \in Listed
<1>1. AtBatch /\ coreUp  BY DEF ProviderMerges, At, AtBatch
<1>2. Moved("conclude")  BY ToEffect, TypeParts DEF ProviderMerges, WorkerPC
<1> QED  BY <1>1, AtFacts, <1>2, TypeParts, TypeNext, WorkerNext DEF ProviderMerges, stepVars, faultVars, Moved

\* The provider reports conflicts.
LEMMA ConflictsEffect ==
    ASSUME JoinTypeInv, WorkerInv, ProviderConflicts
    PROVE  JoinTypeInv' /\ WorkerInv' /\ Moved("conflict") /\ Key \in Keys /\ Key \in Listed
<1>1. AtBatch /\ coreUp  BY DEF ProviderConflicts, At, AtBatch
<1>2. Moved("conflict")  BY ToEffect, TypeParts DEF ProviderConflicts, WorkerPC
<1>3. refusals' \in Nat  BY TypeParts DEF ProviderConflicts
<1> QED  BY <1>1, AtFacts, <1>2, <1>3, TypeParts, TypeNext, WorkerNext DEF ProviderConflicts, stepVars, Moved

\* A merge is concluded.
LEMMA MergedEffect ==
    ASSUME JoinTypeInv, WorkerInv, ConcludeMerged
    PROVE  /\ JoinTypeInv' /\ WorkerInv' /\ Moved("release") /\ Key \in Keys /\ Key \in Listed
           /\ SetBatch(Key, "merged", batch[Key].leases, FALSE)
<1>1. AtBatch /\ coreUp  BY DEF ConcludeMerged, At, AtBatch
<1>2. Key \in Keys /\ Key \in Listed /\ worker.todo # <<>> /\ batch[Key] \in BatchRecord  BY <1>1, AtFacts
<1>3. Moved("release")  BY ToEffect, TypeParts DEF ConcludeMerged, WorkerPC
<1>4. SetBatch(Key, "merged", batch[Key].leases, FALSE)
  BY <1>2, TypeParts DEF ConcludeMerged, SetBatch, BatchRecord, BatchStatus
<1>5. JoinTypeInv' /\ WorkerInv'
  BY <1>1, <1>2, <1>3, <1>4, TypeParts, TypeNext, WorkerNext DEF stepVars, faultVars, Moved, SetBatch, ConcludeMerged
<1> QED  BY <1>2, <1>3, <1>4, <1>5

\* A conflict is concluded.
LEMMA ConflictEffect ==
    ASSUME JoinTypeInv, WorkerInv, ConcludeConflict
    PROVE  /\ JoinTypeInv' /\ WorkerInv' /\ Key \in Keys /\ Key \in Listed
           /\ SetBatch(Key, "needs_user", batch[Key].leases, FALSE)
           /\ \/ Job[1] = "resolve" /\ Advanced
              \/ Job[1] # "resolve" /\ Projects(batch[Key].leases)
<1>1. AtBatch /\ coreUp  BY DEF ConcludeConflict, At, AtBatch
<1>2. Key \in Keys /\ Key \in Listed /\ worker.todo # <<>> /\ batch[Key] \in BatchRecord
      /\ batch[Key].leases \in SUBSET Lease
  BY <1>1, AtFacts
<1>3. SetBatch(Key, "needs_user", batch[Key].leases, FALSE)
  BY <1>2, TypeParts DEF ConcludeConflict, SetBatch, BatchRecord, BatchStatus
<1>4. UNCHANGED <<stepVars, pendingRows, jobs, faultVars, merged, mergedTwice>>  BY DEF ConcludeConflict
<1>5. CASE Job[1] = "resolve"
  <2>1. Advanced  BY <1>5, <1>2, NextKeyEffect, TypeParts DEF ConcludeConflict
  <2>2. JoinTypeInv' /\ WorkerInv'
    BY <2>1, <1>1, <1>2, <1>3, <1>4, TypeParts, TypeNext, WorkerNext DEF stepVars, faultVars, Advanced, SetBatch
  <2> QED  BY <2>1, <2>2, <1>2, <1>3, <1>5
<1>6. CASE Job[1] # "resolve"
  <2>1. Projects(batch[Key].leases)  BY <1>6, <1>2, ProjectEffect, TypeParts DEF ConcludeConflict
  <2>2. JoinTypeInv' /\ WorkerInv'
    BY <2>1, <1>1, <1>2, <1>3, <1>4, TypeParts, TypeNext, WorkerNext DEF stepVars, faultVars, Projects, SetBatch
  <2> QED  BY <2>1, <2>2, <1>2, <1>3, <1>6
<1> QED  BY <1>5, <1>6

\* The leases of a batch are released, all but some.
LEMMA ReleaseEffect ==
    ASSUME JoinTypeInv, WorkerInv, ReleaseBatch
    PROVE  /\ JoinTypeInv' /\ WorkerInv' /\ Key \in Keys /\ Key \in Listed
           /\ \E kept \in SUBSET (batch[Key].leases \cap held) :
                 /\ held' = held \ (batch[Key].leases \ kept)
                 /\ \/ kept = {} /\ Moved("mark")
                    \/ kept # {} /\ Job[1] = "resolve" /\ Idle
                    \/ kept # {} /\ Job[1] # "resolve" /\ Projects(kept)
<1>1. AtBatch /\ coreUp  BY DEF ReleaseBatch, At, AtBatch
<1>2. Key \in Keys /\ Key \in Listed /\ worker.todo # <<>> /\ batch[Key].leases \in SUBSET Lease  BY <1>1, AtFacts
<1>3. /\ UNCHANGED <<stepStatus, attempt, dispatched, batch, pendingRows, jobs, coreUp,
                     coreCrashes, merged, mergedTwice>>
  BY DEF ReleaseBatch
<1>4. PICK kept \in SUBSET (batch[Key].leases \cap held) :
          /\ refusals' = IF kept = {} THEN refusals ELSE refusals + 1
          /\ held' = held \ (batch[Key].leases \ kept)
          /\ IF kept = {} THEN To("mark")
             ELSE IF Job[1] = "resolve" THEN GiveUp
             ELSE worker' = [worker EXCEPT !.pc = "project", !.left = kept]
  BY DEF ReleaseBatch
<1>5. refusals' \in Nat /\ held' \in SUBSET Lease /\ kept \in SUBSET Lease  BY <1>2, <1>4, TypeParts
<1>6. CASE kept = {}
  <2>1. Moved("mark")  BY <1>4, <1>6, ToEffect, TypeParts DEF WorkerPC
  <2>2. JoinTypeInv' /\ WorkerInv'  BY <2>1, <1>1, <1>2, <1>3, <1>5, TypeParts, TypeNext, WorkerNext DEF Moved
  <2> QED  BY <2>1, <2>2, <1>2, <1>4, <1>6
<1>7. CASE kept # {} /\ Job[1] = "resolve"
  <2>1. Idle  BY <1>4, <1>7, OffEffect DEF GiveUp
  <2>2. JoinTypeInv' /\ WorkerInv'  BY <2>1, <1>1, <1>2, <1>3, <1>5, TypeParts, TypeNext, WorkerNext DEF Idle
  <2> QED  BY <2>1, <2>2, <1>2, <1>4, <1>7
<1>8. CASE kept # {} /\ Job[1] # "resolve"
  <2>1. Projects(kept)  BY <1>4, <1>5, <1>8, ProjectEffect, TypeParts
  <2>2. JoinTypeInv' /\ WorkerInv'  BY <2>1, <1>1, <1>2, <1>3, <1>5, TypeParts, TypeNext, WorkerNext DEF Projects
  <2> QED  BY <2>1, <2>2, <1>2, <1>4, <1>8
<1> QED  BY <1>6, <1>7, <1>8

\* A batch is marked as released.
LEMMA MarkEffect ==
    ASSUME JoinTypeInv, WorkerInv, MarkReleased
    PROVE  /\ JoinTypeInv' /\ WorkerInv' /\ Advanced /\ Key \in Keys /\ Key \in Listed
           /\ SetBatch(Key, "released", batch[Key].leases, batch[Key].alive)
<1>1. AtBatch /\ coreUp  BY DEF MarkReleased, At, AtBatch
<1>2. Key \in Keys /\ Key \in Listed /\ worker.todo # <<>> /\ batch[Key] \in BatchRecord  BY <1>1, AtFacts
<1>3. SetBatch(Key, "released", batch[Key].leases, batch[Key].alive)
  BY <1>2, TypeParts DEF MarkReleased, SetBatch, BatchRecord, BatchStatus
<1>4. Advanced  BY <1>2, NextKeyEffect, TypeParts DEF MarkReleased
<1>5. JoinTypeInv' /\ WorkerInv'
  BY <1>1, <1>2, <1>3, <1>4, TypeParts, TypeNext, WorkerNext DEF stepVars, faultVars, Advanced, SetBatch, MarkReleased
<1> QED  BY <1>2, <1>3, <1>4, <1>5

\* A lease is shown to the user.
LEMMA ShownEffect ==
    ASSUME JoinTypeInv, WorkerInv, ProjectPending
    PROVE  /\ JoinTypeInv' /\ WorkerInv' /\ Key \in Keys /\ Key \in Listed
           /\ \E l \in worker.left :
                 /\ pendingRows' = pendingRows \cup {l}
                 /\ \/ worker.left = {l} /\ Advanced
                    \/ worker.left # {l} /\ Projects(worker.left \ {l})
<1>1. AtBatch /\ coreUp /\ worker.pc = "project"  BY DEF ProjectPending, At, AtBatch
<1>2. Key \in Keys /\ Key \in Listed /\ worker.todo # <<>>  BY <1>1, AtFacts
<1>3. PICK l \in worker.left :
          /\ pendingRows' = pendingRows \cup {l}
          /\ IF worker.left = {l} THEN NextKey ELSE worker' = [worker EXCEPT !.left = @ \ {l}]
  BY DEF ProjectPending
<1>4. UNCHANGED <<stepVars, batch, jobs, faultVars, merged, mergedTwice>>  BY DEF ProjectPending
<1>5. l \in Lease  BY TypeParts DEF WorkerRecord
<1>6. pendingRows' \in SUBSET Lease  BY <1>3, <1>5, TypeParts
<1>7. CASE worker.left = {l}
  <2>1. Advanced  BY <1>2, <1>3, <1>7, NextKeyEffect, TypeParts
  <2>2. JoinTypeInv' /\ WorkerInv'
    BY <2>1, <1>1, <1>2, <1>4, <1>6, TypeParts, TypeNext, WorkerNext DEF stepVars, faultVars, Advanced
  <2> QED  BY <2>1, <2>2, <1>2, <1>3, <1>7
<1>8. CASE worker.left # {l}
  <2>1. Projects(worker.left \ {l})  BY <1>1, <1>3, <1>8, LeftEffect, TypeParts
  <2>2. JoinTypeInv' /\ WorkerInv'
    BY <2>1, <1>1, <1>2, <1>4, <1>6, TypeParts, TypeNext, WorkerNext DEF stepVars, faultVars, Projects
  <2> QED  BY <2>1, <2>2, <1>2, <1>3, <1>8
<1> QED  BY <1>7, <1>8

\* The core dies.
LEMMA DiesEffect ==
    ASSUME JoinTypeInv, WorkerInv, CoreDies
    PROVE  /\ JoinTypeInv' /\ WorkerInv' /\ Idle /\ coreCrashes' # 0
           /\ \A k \in Keys : /\ batch'[k].status = batch[k].status
                              /\ batch'[k].leases = batch[k].leases
                              /\ batch'[k].alive = FALSE
<1>1. Idle  BY OffEffect DEF CoreDies
<1>2. batch' = [k \in Keys |-> [batch[k] EXCEPT !.alive = FALSE]]  BY DEF CoreDies
<1>3. ASSUME NEW k \in Keys
      PROVE  /\ [batch[k] EXCEPT !.alive = FALSE] \in BatchRecord
             /\ batch'[k].status = batch[k].status /\ batch'[k].leases = batch[k].leases
             /\ batch'[k].alive = FALSE
  BY <1>2, TypeParts DEF BatchRecord
<1>4. batch' \in [Keys -> BatchRecord]  BY <1>2, <1>3
<1>5. coreCrashes' \in Nat /\ coreCrashes' # 0 /\ coreUp' = FALSE  BY TypeParts DEF CoreDies
<1>6. JoinTypeInv' /\ WorkerInv'  BY <1>1, <1>4, <1>5, TypeParts, TypeNext, WorkerNext DEF stepVars, Idle, CoreDies
<1> QED  BY <1>1, <1>3, <1>5, <1>6

\* The core starts.
LEMMA StartsEffect ==
    ASSUME JoinTypeInv, WorkerInv, CoreStarts
    PROVE  /\ JoinTypeInv' /\ WorkerInv' /\ worker'.pc = "recover" /\ Job' = <<"none", <<0, 0>>>>
           /\ Listed' = Keys /\ worker'.left = {}
<1>1. InOrder(Keys) \in Seq(Keys) /\ KeysIn(InOrder(Keys)) = Keys  BY ListTypes
<1>2. /\ worker' \in WorkerRecord /\ worker'.pc = "recover" /\ worker'.job = Off.job
      /\ worker'.todo = InOrder(Keys) /\ worker'.left = {}
  BY <1>1, StartMoves DEF CoreStarts
<1>3. Listed' = KeysIn(worker'.todo)  BY DEF Listed, KeysIn
<1>4. JoinTypeInv' /\ WorkerInv'  BY <1>2, TypeParts, TypeNext, WorkerNext DEF stepVars, CoreStarts
<1> QED  BY <1>1, <1>2, <1>3, <1>4, OffFacts DEF Job

\* The recovery of a batch.
LEMMA RecoverEffect ==
    ASSUME JoinTypeInv, WorkerInv, RecoverBatch
    PROVE  /\ JoinTypeInv' /\ WorkerInv' /\ Key \in Keys /\ Key \in Listed
           /\ worker'.pc = "recover" /\ Job' = Job /\ worker'.left = worker.left
           /\ Listed' \subseteq Listed /\ Listed \subseteq {Key} \cup Listed'
           /\ \/ /\ batch[Key].status = "merged" /\ pendingRows' = pendingRows
                 /\ \E kept \in SUBSET (batch[Key].leases \cap held) :
                       /\ held' = held \ (batch[Key].leases \ kept)
                       /\ \/ kept # {} /\ batch' = batch
                          \/ kept = {}
                             /\ SetBatch(Key, "released", batch[Key].leases, batch[Key].alive)
              \/ /\ batch[Key].status = "needs_user" /\ batch' = batch /\ held' = held
                 /\ \/ batch[Key].leases \subseteq held
                       /\ pendingRows' = pendingRows \cup batch[Key].leases
                    \/ ~(batch[Key].leases \subseteq held) /\ pendingRows' = pendingRows
              \/ /\ batch[Key].status \notin {"merged", "needs_user"} /\ batch' = batch
                 /\ held' = held /\ pendingRows' = pendingRows
<1>1. worker.todo # <<>> /\ coreUp /\ worker.pc = "recover"
      /\ worker' = [worker EXCEPT !.todo = Tail(@)]
      /\ UNCHANGED <<stepStatus, attempt, dispatched, jobs, coreUp, coreCrashes, merged,
                     mergedTwice>>
  BY DEF RecoverBatch, At
<1>2. Key \in Keys /\ Key \in Listed /\ batch[Key] \in BatchRecord
      /\ batch[Key].leases \in SUBSET Lease
  BY <1>1, NextFacts
<1>3. /\ worker' \in WorkerRecord /\ worker'.pc = "recover" /\ worker'.job = worker.job
      /\ worker'.todo = Tail(worker.todo) /\ worker'.left = worker.left
  BY <1>1, RecoverMoves, TypeParts
<1>4. worker.todo \in Seq(Keys)  BY TypeParts DEF WorkerRecord
<1>5. /\ KeysIn(Tail(worker.todo)) \subseteq KeysIn(worker.todo)
      /\ KeysIn(worker.todo) \subseteq {Head(worker.todo)} \cup KeysIn(Tail(worker.todo))
  BY <1>1, <1>4, TakeFirst
<1>6. Listed = KeysIn(worker.todo) /\ Listed' = KeysIn(Tail(worker.todo))  BY <1>3 DEF Listed, KeysIn
<1>7. Listed' \subseteq Listed /\ Listed \subseteq {Key} \cup Listed' /\ Job' = Job  BY <1>3, <1>5, <1>6 DEF Key, Job
<1>8. PICK kept \in SUBSET (batch[Key].leases \cap held) :
          /\ kept # {} => batch[Key].status = "merged"
          /\ refusals' = IF kept = {} THEN refusals ELSE refusals + 1
          /\ held' = IF batch[Key].status = "merged" THEN held \ (batch[Key].leases \ kept)
                     ELSE held
          /\ batch' = IF batch[Key].status = "merged" /\ kept = {}
                      THEN [batch EXCEPT ![Key].status = "released"] ELSE batch
          /\ pendingRows' = IF batch[Key].status = "needs_user" /\ batch[Key].leases \subseteq held
                            THEN pendingRows \cup batch[Key].leases ELSE pendingRows
  BY DEF RecoverBatch
<1>9. refusals' \in Nat /\ held' \in SUBSET Lease /\ pendingRows' \in SUBSET Lease  BY <1>2, <1>8, TypeParts
<1>10. CASE batch[Key].status = "merged"
  <2>1. pendingRows' = pendingRows /\ held' = held \ (batch[Key].leases \ kept)  BY <1>8, <1>10
  <2>2. CASE kept # {}
    <3>1. batch' = batch  BY <1>8, <2>2
    <3>2. JoinTypeInv' /\ WorkerInv'  BY <3>1, <1>1, <1>3, <1>9, TypeParts, TypeNext, WorkerNext
    <3> QED  BY <1>2, <1>3, <1>7, <1>10, <2>1, <2>2, <3>1, <3>2
  <2>3. CASE kept = {}
    <3>1. SetBatch(Key, "released", batch[Key].leases, batch[Key].alive)
      BY <1>8, <1>10, <2>3, <1>2, TypeParts DEF SetBatch, BatchRecord, BatchStatus
    <3>2. JoinTypeInv' /\ WorkerInv'  BY <3>1, <1>1, <1>3, <1>9, TypeParts, TypeNext, WorkerNext DEF SetBatch
    <3> QED  BY <1>2, <1>3, <1>7, <1>10, <2>1, <2>3, <3>1, <3>2
  <2> QED  BY <2>2, <2>3
<1>11. CASE batch[Key].status # "merged"
  <2>1. batch' = batch /\ held' = held  BY <1>8, <1>11
  <2>2. JoinTypeInv' /\ WorkerInv'  BY <2>1, <1>1, <1>3, <1>9, TypeParts, TypeNext, WorkerNext
  <2> QED  BY <1>2, <1>3, <1>7, <1>8, <1>11, <2>1, <2>2
<1> QED  BY <1>10, <1>11

\* The flush of the recovery.
LEMMA RecoveryFlushEffect ==
    ASSUME JoinTypeInv, WorkerInv, RecoveryFlushes
    PROVE  JoinTypeInv' /\ WorkerInv' /\ Begun(<<"start", <<0, 0>>>>, Keys) /\ Listed = {}
<1>1. <<"start", <<0, 0>>>> \in Jobs0  BY DEF Jobs0, JobKind
<1>2. Listed = {}  BY NoKeys DEF RecoveryFlushes, Listed, KeysIn
<1> QED  BY <1>1, BeginEffect, <1>2, TypeParts, TypeNext, WorkerNext DEF RecoveryFlushes, At, stepVars, faultVars, Begun

----
(* What the steps keep.                                                    *)

\* What a step leaves alone of the steps and their leases.
LEMMA StepsFrame ==
    ASSUME CoreInv, UNCHANGED <<Steps, held>>, merged \subseteq merged'
    PROVE  HeldInv' /\ NoWorkLost' /\ DispatchInv' /\ JoinSeesItsParents'
<1>1. HeldInv'  BY DEF CoreInv, HeldInv, Steps, LeaseOf
<1>2. NoWorkLost'  BY DEF CoreInv, NoWorkLost, Steps, LeaseOf
<1>3. DispatchInv' /\ JoinSeesItsParents'  BY DEF CoreInv, DispatchInv, JoinSeesItsParents, Steps, LeaseOf
<1> QED  BY <1>1, <1>2, <1>3

\* Leases may be released that are merged.
LEMMA ReleaseFrame ==
    ASSUME CoreInv, UNCHANGED <<Steps, merged>>, NEW R \in SUBSET merged, held' = held \ R,
           \A l \in R : l = LeaseOf(l[1]) /\ stepStatus[l[1]] = "succeeded"
    PROVE  HeldInv' /\ NoWorkLost' /\ DispatchInv' /\ JoinSeesItsParents'
<1>1. HeldInv'
  <2>1. ASSUME NEW p \in Parents, stepStatus'[p] = "running"
        PROVE  LeaseOf(p)' \in held'
    <3>1. stepStatus[p] = "running" /\ LeaseOf(p) \in held /\ LeaseOf(p)' = LeaseOf(p)
          /\ LeaseOf(p)[1] = p
      BY <2>1 DEF CoreInv, HeldInv, Steps, LeaseOf
    <3>2. LeaseOf(p) \notin R  BY <3>1
    <3> QED  BY <3>1, <3>2
  <2> QED  BY <2>1 DEF HeldInv, CoreInv, Steps, LeaseOf
<1>2. NoWorkLost'  BY DEF CoreInv, NoWorkLost, Steps, LeaseOf
<1>3. DispatchInv' /\ JoinSeesItsParents'  BY DEF CoreInv, DispatchInv, JoinSeesItsParents, Steps, LeaseOf
<1> QED  BY <1>1, <1>2, <1>3

\* A batch that is left alone.
LEMMA LeasesFrame ==
    ASSUME UNCHANGED Steps, held' \subseteq held, merged \subseteq merged',
           NEW k, LeasesOK(k), batch'[k].status = batch[k].status,
           batch'[k].leases = batch[k].leases
    PROVE  LeasesOK(k)'
BY DEF LeasesOK, Steps, LeaseOf

\* The batches are left alone.
LEMMA BatchFrame ==
    ASSUME BatchInv, UNCHANGED <<Steps, batch>>, held' \subseteq held, merged \subseteq merged'
    PROVE  BatchInv'
BY LeasesFrame DEF BatchInv

\* One batch is changed.
LEMMA BatchSet ==
    ASSUME BatchInv, UNCHANGED Steps, held' \subseteq held, merged \subseteq merged',
           NEW k \in Keys, NEW s, NEW L, NEW a, SetBatch(k, s, L, a), LeasesOK(k)'
    PROVE  BatchInv'
BY LeasesFrame DEF BatchInv, SetBatch

\* A batch keeps its leases and changes its status.
LEMMA StatusSet ==
    ASSUME BatchInv, UNCHANGED Steps, held' \subseteq held, merged \subseteq merged',
           NEW k \in Keys, NEW s, NEW a, SetBatch(k, s, batch[k].leases, a),
           s # "none",
           s \in {"merged", "released"} => batch[k].leases \subseteq merged',
           s = "released" => batch[k].leases \cap held' = {}
    PROVE  BatchInv'
<1>1. LeasesOK(k)'  BY DEF BatchInv, LeasesOK, SetBatch, Steps, LeaseOf
<1> QED  BY <1>1, BatchSet

\* What is merged stays in its batch.
LEMMA MergedFrame ==
    ASSUME MergedInv, merged' = merged, \A k \in Keys : batch[k].leases \subseteq batch'[k].leases
    PROVE  MergedInv'
BY DEF MergedInv

\* No batch is owned by a worker that is elsewhere.
LEMMA OwnerElsewhere ==
    ASSUME OwnerInv, worker.pc \notin MergingPC
    PROVE  \A k \in Keys : batch[k].alive => batch[k].status \notin {"merging", "resolving"}
BY DEF OwnerInv, MergingPC

\* The parts that follow a worker at no batch.
LEMMA KeyNone ==
    ASSUME worker'.pc \in {"off", "next", "recover"}
    PROVE  KeyInv'
BY DEF KeyInv

\* A job that does not resolve.
LEMMA ResolveNone ==
    ASSUME Job'[1] # "resolve" \/ worker'.pc = "off"
    PROVE  ResolveInv'
BY DEF ResolveInv

\* A new list of an unchanged resolution.
LEMMA ResolveAdvanced ==
    ASSUME ResolveInv, Job' = Job, worker.pc # "off", Listed' \subseteq Listed, NEW k0,
           \A k \in Keys : k # k0 => batch'[k].status = batch[k].status,
           Listed \subseteq Keys,
           Job[1] = "resolve" => batch'[k0].status \in {"merged", "needs_user", "released"},
           AtBatch => k0 = Key
    PROVE  ResolveInv'
BY DEF ResolveInv

\* The keys of the list are keys.
LEMMA ListedKeys ==
    ASSUME JoinTypeInv
    PROVE  Listed \subseteq Keys
<1>1. worker.todo \in Seq(Keys)  BY TypeParts DEF WorkerRecord
<1> QED  BY <1>1 DEF Listed

\* The steps of the model that leave the batches and the worker alone.
LEMMA StepCore ==
    ASSUME CoreInv, JoinTypeInv', WorkerInv', Listed' = Listed, Job' = Job, Key' = Key,
           UNCHANGED <<batch, worker, merged>>, NEW p \in Parents,
           stepStatus[p] # "succeeded",
           \A q \in Parents : q # p => stepStatus'[q] = stepStatus[q] /\ LeaseOf(q)' = LeaseOf(q),
           \A l \in held' : l[1] = p \/ l \in held,
           HeldInv', NoWorkLost', DispatchInv', JoinSeesItsParents'
    PROVE  CoreInv'
<1>1. BatchInv'
  <2>1. ASSUME NEW k \in Keys PROVE LeasesOK(k)'
    <3>1. LeasesOK(k) /\ batch[k].leases \in SUBSET Lease  BY TypeParts DEF CoreInv, BatchInv, BatchRecord
    <3>2. ASSUME NEW l \in batch[k].leases
          PROVE  /\ l[1] \in Parents /\ l[1] # p /\ l = LeaseOf(l[1])'
                 /\ stepStatus'[l[1]] = "succeeded"
      BY <3>1 DEF LeasesOK, Lease
    <3> QED  BY <3>1, <3>2 DEF LeasesOK
  <2> QED  BY <2>1 DEF BatchInv
<1>2. OwnerInv' /\ ResolveInv' /\ MergedInv'  BY DEF CoreInv, OwnerInv, ResolveInv, MergedInv, AtBatch
<1>3. KeyInv'
  <2>1. ASSUME worker.pc = "mark" PROVE batch[Key].leases \cap held' = {}
    <3>1. AtBatch /\ coreUp  BY <2>1, OffFacts DEF AtBatch, CoreInv, WorkerInv
    <3>2. \A l \in batch[Key].leases : l[1] # p  BY <3>1, AtFacts DEF CoreInv, BatchInv, LeasesOK
    <3> QED  BY <2>1, <3>2 DEF CoreInv, KeyInv
  <2> QED  BY <2>1 DEF CoreInv, KeyInv
<1> QED  BY <1>1, <1>2, <1>3 DEF CoreInv

----
(* The invariant of any joins.                                             *)

\* The leases of other steps are other leases.
LEMMA LeaseApart ==
    ASSUME NEW p, NEW q, p # q
    PROVE  LeaseOf(p) # LeaseOf(q) /\ LeaseOf(p)[1] = p
BY DEF LeaseOf

\* A dispatched join has no parent that is not settled.
LEMMA NotDispatched ==
    ASSUME CoreInv, NEW p \in Parents, stepStatus[p] \notin {"succeeded", "skipped"}
    PROVE  \A j \in dispatched : j \in DOMAIN Joins /\ p \notin Joins[j]
BY TypeParts DEF CoreInv, DispatchInv

\* The steps of a dispatched join are left alone.
LEMMA DispatchedFrame ==
    ASSUME CoreInv, NEW p \in Parents, stepStatus[p] \notin {"succeeded", "skipped"},
           \A q \in Parents : q # p => stepStatus'[q] = stepStatus[q] /\ LeaseOf(q)' = LeaseOf(q),
           UNCHANGED <<dispatched, merged>>
    PROVE  DispatchInv' /\ JoinSeesItsParents'
<1>1. \A j \in dispatched : \A q \in Joins[j] : q \in Parents /\ q # p
  BY NotDispatched, TypeParts, JoinAssumption DEF CoreInv, JoinAssumption
<1>2. DispatchInv'  BY <1>1 DEF CoreInv, DispatchInv
<1>3. JoinSeesItsParents'  BY <1>1 DEF CoreInv, JoinSeesItsParents
<1> QED  BY <1>2, <1>3

\* A settlement keeps the invariant: the lease of a running step is held.
LEMMA SucceedCore ==
    ASSUME CoreInv, NEW p \in Parents, SucceedStep(p)
    PROVE  CoreInv'
<1>1. /\ JoinTypeInv' /\ WorkerInv' /\ Listed' = Listed /\ Job' = Job /\ Key' = Key
      /\ stepStatus'[p] = "succeeded"
      /\ \A q \in Parents : q # p => stepStatus'[q] = stepStatus[q]
  BY SucceedEffect DEF CoreInv
<1>2. /\ stepStatus[p] = "running"
      /\ UNCHANGED <<attempt, held, dispatched, batch, worker, merged>>
  BY DEF SucceedStep
<1>3. \A q : LeaseOf(q)' = LeaseOf(q)  BY <1>2 DEF LeaseOf
<1>4. LeaseOf(p) \in held  BY <1>2 DEF CoreInv, HeldInv
<1>5. \A l \in held : l[1] \in Parents  BY TypeParts DEF CoreInv, Lease
<1>6. HeldInv'  BY <1>1, <1>2, <1>3, <1>4, <1>5 DEF CoreInv, HeldInv
<1>7. NoWorkLost'  BY <1>1, <1>2, <1>3, <1>4 DEF CoreInv, NoWorkLost
<1>8. DispatchInv' /\ JoinSeesItsParents'  BY <1>1, <1>2, <1>3, DispatchedFrame
<1> QED  BY <1>1, <1>2, <1>3, <1>6, <1>7, <1>8, StepCore

\* A failure keeps it: its lease was in no batch.
LEMMA FailCore ==
    ASSUME CoreInv, NEW p \in Parents, FailStep(p)
    PROVE  CoreInv'
<1>1. /\ JoinTypeInv' /\ WorkerInv' /\ Listed' = Listed /\ Job' = Job /\ Key' = Key
      /\ stepStatus'[p] = "failed"
      /\ \A q \in Parents : q # p => stepStatus'[q] = stepStatus[q]
  BY FailEffect DEF CoreInv
<1>2. /\ stepStatus[p] = "running" /\ held' = held \ {LeaseOf(p)}
      /\ UNCHANGED <<attempt, dispatched, batch, worker, merged>>
  BY DEF FailStep
<1>3. \A q : LeaseOf(q)' = LeaseOf(q)  BY <1>2 DEF LeaseOf
<1>4. HeldInv'  BY <1>1, <1>2, <1>3, TypeParts, LeaseApart DEF CoreInv, HeldInv, Lease
<1>5. NoWorkLost'  BY <1>1, <1>2, <1>3, LeaseApart DEF CoreInv, NoWorkLost
<1>6. DispatchInv' /\ JoinSeesItsParents'  BY <1>1, <1>2, <1>3, DispatchedFrame
<1> QED  BY <1>1, <1>2, <1>3, <1>4, <1>5, <1>6, StepCore

\* A retry keeps it: a failed step holds no lease of an earlier attempt.
LEMMA RetryCore ==
    ASSUME CoreInv, NEW p \in Parents, RetryStep(p)
    PROVE  CoreInv'
<1>1. /\ JoinTypeInv' /\ WorkerInv' /\ Listed' = Listed /\ Job' = Job /\ Key' = Key
      /\ stepStatus'[p] = "running" /\ LeaseOf(p)' = <<p, attempt[p] + 1>>
      /\ \A q \in Parents : q # p => stepStatus'[q] = stepStatus[q]
      /\ \A q \in Parents : q # p => LeaseOf(q)' = LeaseOf(q)
  BY RetryEffect DEF CoreInv
<1>2. /\ stepStatus[p] = "failed" /\ held' = held \cup {<<p, attempt[p] + 1>>}
      /\ UNCHANGED <<dispatched, batch, worker, merged>>
  BY DEF RetryStep
<1>3. <<p, attempt[p] + 1>>[1] = p  OBVIOUS
<1>4. HeldInv'  BY <1>1, <1>2, TypeParts, <1>3 DEF CoreInv, HeldInv, Lease
<1>5. NoWorkLost'  BY <1>1, <1>2 DEF CoreInv, NoWorkLost
<1>6. DispatchInv' /\ JoinSeesItsParents'  BY <1>1, <1>2, DispatchedFrame
<1> QED  BY <1>1, <1>2, <1>3, <1>4, <1>5, <1>6, StepCore

\* A skip keeps it.
LEMMA SkipCore ==
    ASSUME CoreInv, NEW p \in Parents, SkipStep(p)
    PROVE  CoreInv'
<1>1. /\ JoinTypeInv' /\ WorkerInv' /\ Listed' = Listed /\ Job' = Job /\ Key' = Key
      /\ stepStatus'[p] = "skipped"
      /\ \A q \in Parents : q # p => stepStatus'[q] = stepStatus[q]
  BY SkipEffect DEF CoreInv
<1>2. /\ stepStatus[p] = "failed"
      /\ UNCHANGED <<attempt, held, dispatched, batch, worker, merged>>
  BY DEF SkipStep
<1>3. \A q : LeaseOf(q)' = LeaseOf(q)  BY <1>2 DEF LeaseOf
<1>4. HeldInv'  BY <1>1, <1>2, <1>3, TypeParts DEF CoreInv, HeldInv, Lease
<1>5. NoWorkLost'  BY <1>1, <1>2, <1>3 DEF CoreInv, NoWorkLost
<1>6. DispatchInv' /\ JoinSeesItsParents'  BY <1>1, <1>2, <1>3, DispatchedFrame
<1> QED  BY <1>1, <1>2, <1>3, <1>4, <1>5, <1>6, StepCore

\* A dispatch keeps it: what is not held any more has been merged.
LEMMA DispatchCore ==
    ASSUME CoreInv, NEW j \in DOMAIN Joins, DispatchJoin(j)
    PROVE  CoreInv'
<1>1. /\ \A p \in Joins[j] : stepStatus[p] \in {"succeeded", "skipped"}
      /\ ~Gated(j) /\ dispatched' = dispatched \cup {j}
      /\ UNCHANGED <<stepStatus, attempt, held, batch, worker, merged>>
  BY DEF DispatchJoin
<1>2. \A q : LeaseOf(q)' = LeaseOf(q) /\ LeaseOf(q)[1] = q  BY <1>1 DEF LeaseOf
<1>3. ASSUME NEW p \in Joins[j], stepStatus[p] = "succeeded"
      PROVE  LeaseOf(p) \in merged
  <2>1. p \in Parents  BY JoinAssumption DEF JoinAssumption
  <2>2. LeaseOf(p) \in held \cup merged  BY <2>1, <1>3 DEF CoreInv, NoWorkLost
  <2> QED  BY <2>2, <1>1, <1>2, <1>3 DEF Gated
<1>4. JoinSeesItsParents'  BY <1>1, <1>2, <1>3 DEF CoreInv, JoinSeesItsParents
<1>5. DispatchInv'  BY <1>1 DEF CoreInv, DispatchInv
<1>6. HeldInv' /\ NoWorkLost'  BY <1>1, <1>2 DEF CoreInv, HeldInv, NoWorkLost
<1>7. BatchInv'  BY <1>1, BatchFrame DEF CoreInv, BatchInv, LeasesOK, LeaseOf
<1> QED  BY DispatchEffect, <1>4, <1>5, <1>6, <1>7, <1>1 DEF CoreInv, OwnerInv, KeyInv, ResolveInv, MergedInv, AtBatch

\* A worker that leaves the batches and the steps alone, and is at no batch afterwards.
LEMMA CalmCore ==
    ASSUME CoreInv, JoinTypeInv', WorkerInv',
           UNCHANGED <<Steps, held, batch, merged>>,
           worker.pc \notin MergingPC, worker'.pc \in {"off", "next", "recover"}, ResolveInv'
    PROVE  CoreInv'
<1>1. BatchInv' /\ MergedInv'  BY BatchFrame, MergedFrame DEF CoreInv
<1>2. OwnerInv'  BY OwnerElsewhere DEF CoreInv, OwnerInv
<1>3. KeyInv'  BY KeyNone
<1> QED  BY StepsFrame, <1>1, <1>2, <1>3 DEF CoreInv

\* The beginnings of jobs.
LEMMA BeginCore ==
    ASSUME CoreInv, JoinTypeInv', WorkerInv', NEW job, NEW K, Begun(job, K),
           job[1] = "resolve" => K \subseteq Undecided,
           UNCHANGED <<Steps, held, batch, merged>>, worker.pc \notin MergingPC
    PROVE  CoreInv'
<1>1. ResolveInv'  BY DEF ResolveInv, Begun, Undecided
<1> QED  BY <1>1, CalmCore DEF Begun

\* A settled step is taken up.
LEMMA SettleCore ==
    ASSUME CoreInv, NEW p \in Parents, BeginSettle(p)
    PROVE  CoreInv'
<1>1. <<"settle", LeaseOf(p)>>[1] # "resolve"  OBVIOUS
<1> QED  BY SettleEffect, <1>1, BeginCore DEF BeginSettle, stepVars, Steps, MergingPC, CoreInv

\* A failure or a skip is taken up.
LEMMA FlushCore ==
    ASSUME CoreInv, BeginFlush
    PROVE  CoreInv'
<1>1. PICK job \in jobs : job[1] \in {"fail", "skip"} /\ Begun(job, JoinKeys)  BY FlushEffect DEF CoreInv
<1> QED  BY <1>1, BeginCore, FlushEffect DEF CoreInv, BeginFlush, stepVars, Steps, MergingPC

\* The user resolves what needs its user, or goes on with what is merged.
LEMMA BeginResolveCore ==
    ASSUME CoreInv, BeginResolve
    PROVE  CoreInv'
<1> QED  BY ResolveEffect, BeginCore DEF BeginResolve, stepVars, Steps, MergingPC, CoreInv

\* The recovery flushes.
LEMMA RecoveryFlushCore ==
    ASSUME CoreInv, RecoveryFlushes
    PROVE  CoreInv'
<1>1. <<"start", <<0, 0>>>>[1] # "resolve"  OBVIOUS
<1> QED  BY RecoveryFlushEffect, <1>1, BeginCore DEF RecoveryFlushes, At, stepVars, Steps, MergingPC, CoreInv

\* The batches of a dead owner are taken back.
LEMMA ReclaimCore ==
    ASSUME CoreInv, TickReclaims
    PROVE  CoreInv'
<1>1. /\ JoinTypeInv' /\ WorkerInv' /\ Begun(<<"tick", <<0, 0>>>>, Keys)
      /\ \A k \in Keys : batch'[k].leases = batch[k].leases /\ batch'[k].alive = batch[k].alive
      /\ \A k \in Keys : Orphaned(k) /\ batch[k].status = "merging"
                         => batch'[k].status = "ready"
      /\ \A k \in Keys : Orphaned(k) /\ batch[k].status = "resolving"
                         => batch'[k].status = "needs_user"
      /\ \A k \in Keys : ~Orphaned(k) => batch'[k] = batch[k]
  BY ReclaimEffect DEF CoreInv
<1>2. UNCHANGED <<Steps, held, merged>> /\ worker.pc = "off"  BY DEF TickReclaims, stepVars, Steps
<1>3. ASSUME NEW k \in Keys PROVE LeasesOK(k)'
  <2>1. LeasesOK(k)  BY DEF CoreInv, BatchInv
  <2>2. CASE ~Orphaned(k)  BY <1>1, <1>2, <2>1, <2>2, LeasesFrame
  <2>3. CASE Orphaned(k)  BY <1>1, <2>3, <2>1, <1>2 DEF LeasesOK, Steps, LeaseOf, Orphaned
  <2> QED  BY <2>2, <2>3
<1>4. BatchInv'  BY <1>3 DEF BatchInv
<1>5. MergedInv'  BY <1>1, <1>2, MergedFrame DEF CoreInv
<1>6. OwnerInv'
  <2>1. ASSUME NEW k \in Keys, batch'[k].alive
        PROVE  batch'[k].status \notin {"merging", "resolving"}
    BY <1>1, <1>2, <2>1, OwnerElsewhere DEF Orphaned, CoreInv, MergingPC
  <2> QED  BY <2>1 DEF OwnerInv
<1>7. KeyInv' /\ ResolveInv'  BY <1>1, KeyNone, ResolveNone DEF Begun
<1> QED  BY <1>1, <1>2, StepsFrame, <1>4, <1>5, <1>6, <1>7 DEF CoreInv

\* A job ends.
LEMMA EndCore ==
    ASSUME CoreInv, EndJob
    PROVE  CoreInv'
<1>1. JoinTypeInv' /\ WorkerInv' /\ Idle  BY EndEffect DEF CoreInv
<1> QED  BY <1>1, CalmCore, ResolveNone DEF Idle, EndJob, At, stepVars, Steps, MergingPC

\* A claim is refused.
LEMMA RefusedCore ==
    ASSUME CoreInv, ClaimRefused
    PROVE  CoreInv'
<1>1. UNCHANGED <<Steps, held, batch, merged>> /\ worker.pc \notin MergingPC /\ Job[1] # "resolve"
  BY DEF ClaimRefused, At, stepVars, Steps, MergingPC
<1> QED  BY <1>1, RefusedEffect, CalmCore, ResolveNone DEF CoreInv, Idle, Begun, Advanced

\* A batch is passed over.
LEMMA PassCore ==
    ASSUME CoreInv, PassOver
    PROVE  CoreInv'
<1>1. JoinTypeInv' /\ WorkerInv' /\ Advanced  BY PassEffect DEF CoreInv
<1> QED  BY <1>1, CalmCore, ResolveNone DEF Advanced, PassOver, At, stepVars, Steps, MergingPC

\* What a claimed batch holds.
LEMMA AuthoritativeFacts ==
    ASSUME JoinTypeInv, NEW k \in Keys, NEW l \in Authoritative(k)
    PROVE  l \in Lease /\ l \in held /\ l \notin pendingRows /\ l = LeaseOf(l[1])
           /\ stepStatus[l[1]] = "succeeded" /\ Owns(k, l[1]) /\ l[1] \in Parents
BY TypeParts DEF Authoritative, Lease

\* A batch is claimed.
LEMMA ClaimCore ==
    ASSUME CoreInv, ClaimBatch
    PROVE  CoreInv'
<1>1. /\ JoinTypeInv' /\ WorkerInv' /\ Moved("merge") /\ Key \in Keys
      /\ SetBatch(Key, "merging", Authoritative(Key), TRUE)
  BY ClaimEffect DEF CoreInv
<1>2. /\ UNCHANGED <<Steps, held, merged>> /\ worker.pc = "next" /\ Job[1] # "resolve"
      /\ batch[Key].leases \in {{}, Authoritative(Key)}
  BY DEF ClaimBatch, At, Claimable, stepVars, Steps
<1>3. LeasesOK(Key)'
  <2> DEFINE k0 == Key
  <2>1. /\ k0' = k0 /\ batch'[k0].status = "merging" /\ batch'[k0].leases = Authoritative(Key)
    BY <1>1 DEF SetBatch, Moved
  <2>2. \A l \in batch'[k0].leases :
           l = LeaseOf(l[1])' /\ stepStatus'[l[1]] = "succeeded" /\ Owns(k0, l[1])
    BY <1>1, <1>2, AuthoritativeFacts, <2>1 DEF CoreInv, Steps, LeaseOf
  <2> HIDE DEF k0
  <2>3. LeasesOK(k0)'  BY <2>1, <2>2 DEF LeasesOK
  <2> QED  BY <2>3 DEF k0
<1>4. \A k \in {Key} : LeasesOK(k)'  BY <1>1, <1>3 DEF Moved
<1>5. BatchInv'  BY <1>1, <1>2, <1>4, BatchSet DEF CoreInv
<1>6. MergedInv'  BY <1>1, <1>2, MergedFrame DEF CoreInv, SetBatch
<1>7. OwnerInv'  BY <1>1, <1>2, OwnerElsewhere DEF CoreInv, OwnerInv, MergingPC, SetBatch, Moved
<1>8. KeyInv' /\ ResolveInv'  BY <1>1, <1>2, ResolveNone DEF KeyInv, SetBatch, Moved
<1> QED  BY <1>1, <1>2, StepsFrame, <1>5, <1>6, <1>7, <1>8 DEF CoreInv

\* A resolution takes its batch up.
LEMMA ResolveBatchCore ==
    ASSUME CoreInv, ResolveBatch
    PROVE  CoreInv'
<1>1. JoinTypeInv' /\ WorkerInv' /\ Key \in Keys /\ Key \in Listed  BY ResolveBatchEffect DEF CoreInv
<1>2. /\ UNCHANGED <<Steps, held, merged>> /\ worker.pc = "next" /\ Job[1] = "resolve"
  BY DEF ResolveBatch, At, stepVars, Steps
<1>3. HeldInv' /\ NoWorkLost' /\ DispatchInv' /\ JoinSeesItsParents'  BY <1>2, StepsFrame
<1>4. \A k \in Listed : batch[k].status \in {"merged", "needs_user", "released"}
  BY <1>2 DEF CoreInv, ResolveInv, AtBatch
<1>5. CASE batch[Key].status = "needs_user" /\ Moved("merge")
           /\ SetBatch(Key, "resolving", batch[Key].leases, TRUE)
  <2>1. BatchInv'  BY <1>1, <1>2, <1>5, StatusSet DEF CoreInv
  <2>2. MergedInv'  BY <1>2, <1>5, MergedFrame DEF CoreInv, SetBatch
  <2>3. OwnerInv'  BY <1>2, <1>5, OwnerElsewhere DEF CoreInv, OwnerInv, MergingPC, SetBatch, Moved
  <2>4. KeyInv'  BY <1>5, <1>1 DEF KeyInv, SetBatch, Moved
  <2>5. ResolveInv'  BY <1>1, <1>2, <1>4, <1>5, ListedKeys DEF CoreInv, ResolveInv, SetBatch, Moved, AtBatch
  <2> QED  BY <1>1, <1>3, <2>1, <2>2, <2>3, <2>4, <2>5 DEF CoreInv
<1>6. CASE batch[Key].status # "needs_user" /\ batch' = batch /\ Moved("release")
  <2>1. BatchInv' /\ MergedInv'  BY <1>2, <1>6, BatchFrame, MergedFrame DEF CoreInv
  <2>2. OwnerInv'  BY <1>2, <1>6, OwnerElsewhere DEF CoreInv, OwnerInv, MergingPC
  <2>3. KeyInv'  BY <1>2, <1>6, <1>1, <1>4 DEF KeyInv, Moved, CoreInv, BatchInv, LeasesOK
  <2>4. ResolveInv'  BY <1>4, <1>6 DEF ResolveInv, Moved
  <2> QED  BY <1>1, <1>3, <2>1, <2>2, <2>3, <2>4 DEF CoreInv
<1> QED  BY <1>5, <1>6, ResolveBatchEffect DEF CoreInv

\* The owner of a batch goes on with it.
LEMMA OwnerStays ==
    ASSUME OwnerInv, batch' = batch, worker'.pc \in MergingPC, Key' = Key
    PROVE  OwnerInv'
BY DEF OwnerInv, MergingPC

\* The provider merges.
LEMMA MergesCore ==
    ASSUME CoreInv, ProviderMerges
    PROVE  CoreInv'
<1>1. JoinTypeInv' /\ WorkerInv' /\ Moved("conclude") /\ Key \in Keys  BY MergesEffect DEF CoreInv
<1>2. /\ UNCHANGED <<Steps, held, batch>> /\ worker.pc = "merge"
      /\ merged' = merged \cup batch[Key].leases
  BY DEF ProviderMerges, At, stepVars, Steps
<1>3. HeldInv' /\ NoWorkLost' /\ DispatchInv' /\ JoinSeesItsParents'  BY <1>2, StepsFrame
<1>4. BatchInv'  BY <1>2, BatchFrame DEF CoreInv
<1>5. MergedInv'  BY <1>1, <1>2 DEF CoreInv, MergedInv
<1>6. OwnerInv'  BY <1>1, <1>2, OwnerStays DEF CoreInv, MergingPC, Moved
<1>7. KeyInv'  BY <1>1, <1>2 DEF CoreInv, KeyInv, Moved
<1>8. ResolveInv'  BY <1>1, <1>2 DEF CoreInv, ResolveInv, Moved, AtBatch
<1> QED  BY <1>1, <1>3, <1>4, <1>5, <1>6, <1>7, <1>8 DEF CoreInv

\* The provider reports conflicts.
LEMMA ConflictsCore ==
    ASSUME CoreInv, ProviderConflicts
    PROVE  CoreInv'
<1>1. JoinTypeInv' /\ WorkerInv' /\ Moved("conflict")  BY ConflictsEffect DEF CoreInv
<1>2. UNCHANGED <<Steps, held, batch, merged>> /\ worker.pc = "merge"  BY DEF ProviderConflicts, At, stepVars, Steps
<1>3. BatchInv' /\ MergedInv'  BY <1>2, BatchFrame, MergedFrame DEF CoreInv
<1>4. OwnerInv'  BY <1>1, <1>2, OwnerStays DEF CoreInv, MergingPC, Moved
<1>5. KeyInv'  BY <1>1, <1>2 DEF CoreInv, KeyInv, Moved
<1>6. ResolveInv'  BY <1>1, <1>2 DEF CoreInv, ResolveInv, Moved, AtBatch
<1> QED  BY <1>1, <1>2, StepsFrame, <1>3, <1>4, <1>5, <1>6 DEF CoreInv

\* The owner of a batch lets it go.
LEMMA OwnerLeaves ==
    ASSUME OwnerInv, worker.pc \in MergingPC, NEW s, NEW L, SetBatch(Key, s, L, FALSE)
    PROVE  OwnerInv'
BY DEF OwnerInv, SetBatch, MergingPC

\* A merge is concluded.
LEMMA MergedCore ==
    ASSUME CoreInv, ConcludeMerged
    PROVE  CoreInv'
<1>1. /\ JoinTypeInv' /\ WorkerInv' /\ Moved("release") /\ Key \in Keys
      /\ SetBatch(Key, "merged", batch[Key].leases, FALSE)
  BY MergedEffect DEF CoreInv
<1>2. UNCHANGED <<Steps, held, merged>> /\ worker.pc = "conclude"  BY DEF ConcludeMerged, At, stepVars, Steps
<1>3. HeldInv' /\ NoWorkLost' /\ DispatchInv' /\ JoinSeesItsParents'  BY <1>2, StepsFrame
<1>4. batch[Key].leases \subseteq merged  BY <1>2 DEF CoreInv, KeyInv
<1>5. BatchInv'  BY <1>1, <1>2, <1>4, StatusSet DEF CoreInv
<1>6. MergedInv'  BY <1>1, <1>2, MergedFrame DEF CoreInv, SetBatch
<1>7. OwnerInv'  BY <1>1, <1>2, OwnerLeaves DEF CoreInv, MergingPC
<1>8. KeyInv'  BY <1>1, <1>2, <1>4 DEF KeyInv, Moved, SetBatch
<1>9. ResolveInv'  BY <1>1, <1>2, ListedKeys DEF CoreInv, ResolveInv, Moved, AtBatch, SetBatch
<1> QED  BY <1>1, <1>3, <1>5, <1>6, <1>7, <1>8, <1>9 DEF CoreInv

\* A conflict is concluded.
LEMMA ConflictCore ==
    ASSUME CoreInv, ConcludeConflict
    PROVE  CoreInv'
<1>1. /\ JoinTypeInv' /\ WorkerInv' /\ Key \in Keys
      /\ SetBatch(Key, "needs_user", batch[Key].leases, FALSE)
      /\ \/ Job[1] = "resolve" /\ Advanced
         \/ Job[1] # "resolve" /\ Projects(batch[Key].leases)
  BY ConflictEffect DEF CoreInv
<1>2. UNCHANGED <<Steps, held, merged>> /\ worker.pc = "conflict"  BY DEF ConcludeConflict, At, stepVars, Steps
<1>3. HeldInv' /\ NoWorkLost' /\ DispatchInv' /\ JoinSeesItsParents'  BY <1>2, StepsFrame
<1>4. BatchInv'  BY <1>1, <1>2, StatusSet DEF CoreInv
<1>5. MergedInv'  BY <1>1, <1>2, MergedFrame DEF CoreInv, SetBatch
<1>6. OwnerInv'  BY <1>1, <1>2, OwnerLeaves DEF CoreInv, MergingPC
<1>7. CASE Job[1] = "resolve" /\ Advanced
  <2>1. KeyInv'  BY <1>7, KeyNone DEF Advanced
  <2>2. ResolveInv'  BY <1>2, <1>7, <1>1, ListedKeys, ResolveAdvanced DEF CoreInv, Advanced, SetBatch
  <2> QED  BY <1>1, <1>3, <1>4, <1>5, <1>6, <2>1, <2>2 DEF CoreInv
<1>8. CASE Job[1] # "resolve" /\ Projects(batch[Key].leases)
  <2>1. KeyInv'  BY <1>1, <1>8 DEF KeyInv, Projects, SetBatch
  <2>2. ResolveInv'  BY <1>8, ResolveNone DEF Projects
  <2> QED  BY <1>1, <1>3, <1>4, <1>5, <1>6, <2>1, <2>2 DEF CoreInv
<1> QED  BY <1>1, <1>7, <1>8

\* The leases of a batch that is merged are leases of steps that succeeded.
LEMMA BatchLeases ==
    ASSUME CoreInv, NEW k \in Keys
    PROVE  \A l \in batch[k].leases :
              l \in Lease /\ l = LeaseOf(l[1]) /\ stepStatus[l[1]] = "succeeded" /\ Owns(k, l[1])
BY TypeParts DEF CoreInv, BatchInv, LeasesOK, BatchRecord

\* The leases of a merged batch are released.
LEMMA ReleaseCore ==
    ASSUME CoreInv, ReleaseBatch
    PROVE  CoreInv'
<1>1. JoinTypeInv' /\ WorkerInv' /\ Key \in Keys  BY ReleaseEffect DEF CoreInv
<1>2. PICK kept \in SUBSET (batch[Key].leases \cap held) :
                 /\ held' = held \ (batch[Key].leases \ kept)
                 /\ \/ kept = {} /\ Moved("mark")
                    \/ kept # {} /\ Job[1] = "resolve" /\ Idle
                    \/ kept # {} /\ Job[1] # "resolve" /\ Projects(kept)
  BY ReleaseEffect DEF CoreInv
<1>3. UNCHANGED <<Steps, batch, merged>> /\ worker.pc = "release"  BY DEF ReleaseBatch, At, Steps
<1>4. batch[Key].leases \subseteq merged /\ batch[Key].status \in {"merged", "released"}  BY <1>3 DEF CoreInv, KeyInv
<1>5. HeldInv' /\ NoWorkLost' /\ DispatchInv' /\ JoinSeesItsParents'
  <2> DEFINE R == batch[Key].leases \ kept
  <2>1. R \in SUBSET merged /\ held' = held \ R
        /\ \A l \in R : l = LeaseOf(l[1]) /\ stepStatus[l[1]] = "succeeded"
    BY <1>1, <1>2, <1>4, BatchLeases
  <2> HIDE DEF R
  <2> QED  BY <1>3, <2>1, ReleaseFrame
<1>6. BatchInv' /\ MergedInv'  BY <1>2, <1>3, BatchFrame, MergedFrame DEF CoreInv
<1>7. OwnerInv'  BY <1>3, OwnerElsewhere DEF CoreInv, OwnerInv, MergingPC
<1>8. KeyInv' /\ ResolveInv'
  <2>1. CASE kept = {} /\ Moved("mark")
    <3>1. KeyInv'  BY <1>2, <1>3, <1>4, <2>1 DEF KeyInv, Moved
    <3>2. ResolveInv'  BY <1>3, <2>1 DEF CoreInv, ResolveInv, Moved, AtBatch
    <3> QED  BY <3>1, <3>2
  <2>2. CASE kept # {} /\ Job[1] = "resolve" /\ Idle  BY <2>2, KeyNone, ResolveNone DEF Idle
  <2>3. CASE kept # {} /\ Job[1] # "resolve" /\ Projects(kept)
    <3>1. batch[Key].status = "merged"  BY <1>1, <1>4, <2>3 DEF CoreInv, BatchInv, LeasesOK
    <3>2. KeyInv'  BY <1>3, <2>3, <3>1 DEF KeyInv, Projects
    <3> QED  BY <2>3, <3>2, ResolveNone DEF Projects
  <2> QED  BY <1>2, <2>1, <2>2, <2>3
<1> QED  BY <1>1, <1>5, <1>6, <1>7, <1>8 DEF CoreInv

\* A batch is marked as released: nothing of it is held any more.
LEMMA MarkCore ==
    ASSUME CoreInv, MarkReleased
    PROVE  CoreInv'
<1>1. /\ JoinTypeInv' /\ WorkerInv' /\ Advanced /\ Key \in Keys
      /\ SetBatch(Key, "released", batch[Key].leases, batch[Key].alive)
  BY MarkEffect DEF CoreInv
<1>2. UNCHANGED <<Steps, held, merged>> /\ worker.pc = "mark"  BY DEF MarkReleased, At, stepVars, Steps
<1>3. HeldInv' /\ NoWorkLost' /\ DispatchInv' /\ JoinSeesItsParents'  BY <1>2, StepsFrame
<1>4. BatchInv'  BY <1>1, <1>2, StatusSet DEF CoreInv, KeyInv
<1>5. MergedInv'  BY <1>1, <1>2, MergedFrame DEF CoreInv, SetBatch
<1>6. OwnerInv'  BY <1>1, <1>2, OwnerElsewhere DEF CoreInv, OwnerInv, SetBatch, MergingPC
<1>7. KeyInv'  BY <1>1, KeyNone DEF Advanced
<1>8. ResolveInv'
  <2>1. batch'[Key].status = "released"  BY <1>1 DEF SetBatch
  <2> QED  BY <1>1, <1>2, <2>1, ListedKeys, ResolveAdvanced DEF CoreInv, Advanced, SetBatch
<1> QED  BY <1>1, <1>3, <1>4, <1>5, <1>6, <1>7, <1>8 DEF CoreInv

\* A lease is shown to the user.
LEMMA ShownCore ==
    ASSUME CoreInv, ProjectPending
    PROVE  CoreInv'
<1>1. JoinTypeInv' /\ WorkerInv' /\ Key \in Keys  BY ShownEffect DEF CoreInv
<1>2. UNCHANGED <<Steps, held, batch, merged>> /\ worker.pc = "project"  BY DEF ProjectPending, At, stepVars, Steps
<1>3. Job[1] # "resolve" /\ batch[Key].status \in {"merged", "needs_user"}
      /\ worker.left \subseteq batch[Key].leases
  BY <1>2 DEF CoreInv, KeyInv
<1>4. CASE Advanced
  <2>1. ResolveInv'  BY <1>3, <1>4, ResolveNone DEF Advanced
  <2> QED  BY <1>1, <1>2, <1>4, <2>1, CalmCore DEF Advanced, MergingPC
<1>5. CASE \E l \in worker.left : Projects(worker.left \ {l})
  <2>1. PICK l \in worker.left : Projects(worker.left \ {l})  BY <1>5
  <2>2. KeyInv'  BY <1>2, <1>3, <2>1 DEF KeyInv, Projects
  <2>3. ResolveInv'  BY <1>3, <2>1, ResolveNone DEF Projects
  <2>4. BatchInv' /\ MergedInv'  BY <1>2, BatchFrame, MergedFrame DEF CoreInv
  <2>5. OwnerInv'  BY <1>2, OwnerElsewhere DEF CoreInv, OwnerInv, MergingPC
  <2> QED  BY <1>1, <2>2, <2>3, <1>2, StepsFrame, <2>4, <2>5 DEF CoreInv
<1> QED  BY <1>4, <1>5, ShownEffect DEF CoreInv

\* The core dies: no batch has an owner.
LEMMA DiesCore ==
    ASSUME CoreInv, CoreDies
    PROVE  CoreInv'
<1>1. /\ JoinTypeInv' /\ WorkerInv' /\ Idle
      /\ \A k \in Keys : /\ batch'[k].status = batch[k].status
                         /\ batch'[k].leases = batch[k].leases
                         /\ batch'[k].alive = FALSE
  BY DiesEffect DEF CoreInv
<1>2. UNCHANGED <<Steps, held, merged>>  BY DEF CoreDies, stepVars, Steps
<1>3. BatchInv'  BY <1>1, <1>2, LeasesFrame DEF CoreInv, BatchInv
<1>4. MergedInv'  BY <1>1, <1>2, MergedFrame DEF CoreInv
<1>5. OwnerInv'  BY <1>1 DEF OwnerInv
<1>6. KeyInv' /\ ResolveInv'  BY <1>1, KeyNone, ResolveNone DEF Idle
<1> QED  BY <1>1, <1>2, StepsFrame, <1>3, <1>4, <1>5, <1>6 DEF CoreInv

\* The core starts.
LEMMA StartsCore ==
    ASSUME CoreInv, CoreStarts
    PROVE  CoreInv'
<1>1. UNCHANGED <<Steps, held, batch, merged>> /\ ~coreUp  BY DEF CoreStarts, stepVars, Steps
<1>2. worker.pc = "off"  BY <1>1, OffFacts DEF CoreInv, WorkerInv
<1>3. <<"none", <<0, 0>>>>[1] # "resolve"  OBVIOUS
<1> QED  BY StartsEffect, <1>1, <1>2, <1>3, CalmCore, ResolveNone DEF MergingPC, CoreInv

\* A batch is recovered.
LEMMA RecoverCore ==
    ASSUME CoreInv, RecoverBatch
    PROVE  CoreInv'
<1>1. /\ JoinTypeInv' /\ WorkerInv' /\ Key \in Keys /\ worker'.pc = "recover" /\ Job' = Job
      /\ Listed' \subseteq Listed
  BY RecoverEffect DEF CoreInv
<1>2. UNCHANGED <<Steps, merged>> /\ worker.pc = "recover"  BY DEF RecoverBatch, At, Steps
<1>3. ASSUME NEW kept \in SUBSET (batch[Key].leases \cap held), batch[Key].status = "merged",
             held' = held \ (batch[Key].leases \ kept)
      PROVE  HeldInv' /\ NoWorkLost' /\ DispatchInv' /\ JoinSeesItsParents' /\ held' \subseteq held
  <2> DEFINE R == batch[Key].leases \ kept
  <2>1. R \in SUBSET merged /\ held' = held \ R
        /\ \A l \in R : l = LeaseOf(l[1]) /\ stepStatus[l[1]] = "succeeded"
    BY <1>1, <1>3, BatchLeases DEF CoreInv, BatchInv, LeasesOK
  <2> HIDE DEF R
  <2> QED  BY <1>2, <2>1, ReleaseFrame
<1>4. KeyInv'  BY <1>1, KeyNone
<1>5. CASE \E kept \in SUBSET (batch[Key].leases \cap held) :
              /\ batch[Key].status = "merged" /\ held' = held \ (batch[Key].leases \ kept)
              /\ batch' = batch
  <2>1. HeldInv' /\ NoWorkLost' /\ DispatchInv' /\ JoinSeesItsParents' /\ held' \subseteq held  BY <1>3, <1>5
  <2>2. BatchInv' /\ MergedInv'  BY <1>2, <1>5, <2>1, BatchFrame, MergedFrame DEF CoreInv
  <2>3. OwnerInv'  BY <1>2, <1>5, OwnerElsewhere DEF CoreInv, OwnerInv, MergingPC
  <2>4. ResolveInv'  BY <1>1, <1>2, <1>5 DEF CoreInv, ResolveInv, AtBatch
  <2> QED  BY <1>1, <1>4, <2>1, <2>2, <2>3, <2>4 DEF CoreInv
<1>6. CASE /\ batch[Key].status = "merged" /\ held' = held \ (batch[Key].leases \ {})
           /\ SetBatch(Key, "released", batch[Key].leases, batch[Key].alive)
  <2>1. HeldInv' /\ NoWorkLost' /\ DispatchInv' /\ JoinSeesItsParents' /\ held' \subseteq held  BY <1>3, <1>6
  <2>2. batch[Key].leases \subseteq merged /\ batch[Key].leases \cap held' = {}
    BY <1>1, <1>6 DEF CoreInv, BatchInv, LeasesOK
  <2>3. BatchInv'  BY <1>1, <1>2, <1>6, <2>1, <2>2, StatusSet DEF CoreInv
  <2>4. MergedInv'  BY <1>2, <1>6, MergedFrame DEF CoreInv, SetBatch
  <2>5. OwnerInv'  BY <1>1, <1>2, <1>6, OwnerElsewhere DEF CoreInv, OwnerInv, SetBatch, MergingPC
  <2>6. ResolveInv'  BY <1>1, <1>2, <1>6, ListedKeys, ResolveAdvanced DEF CoreInv, AtBatch, SetBatch
  <2> QED  BY <1>1, <1>4, <2>1, <2>3, <2>4, <2>5, <2>6 DEF CoreInv
<1>7. CASE batch' = batch /\ held' = held
  <2>1. ResolveInv'  BY <1>1, <1>2, <1>7 DEF CoreInv, ResolveInv, AtBatch
  <2> QED  BY <1>1, <1>2, <1>7, <2>1, CalmCore DEF MergingPC
<1> QED  BY <1>5, <1>6, <1>7, RecoverEffect DEF CoreInv

\* The invariant holds at the start.
LEMMA CoreInit ==
    ASSUME JoinInit
    PROVE  CoreInv
<1>1. 1 \in 1..MaxAttempt  BY JoinAssumption DEF JoinAssumption
<1>2. \A k \in Keys : batch[k] = NoBatch /\ batch[k] \in BatchRecord /\ batch[k].leases = {}
                      /\ batch[k].status = "none" /\ batch[k].alive = FALSE
  BY DEF JoinInit, NoBatch, BatchRecord, BatchStatus
<1>3. batch \in [Keys -> BatchRecord]  BY <1>2 DEF JoinInit
<1>4. JoinTypeInv  BY <1>3, <1>1, TypeParts, OffFacts DEF JoinInit, StepStatus, Lease
<1>5. HeldInv  BY DEF JoinInit, HeldInv, LeaseOf
<1>6. BatchInv /\ OwnerInv /\ MergedInv  BY <1>2 DEF BatchInv, LeasesOK, OwnerInv, MergedInv, JoinInit
<1>7. WorkerInv /\ KeyInv /\ ResolveInv  BY OffFacts DEF JoinInit, WorkerInv, KeyInv, ResolveInv, AtBatch
<1>8. NoWorkLost /\ DispatchInv /\ JoinSeesItsParents  BY DEF JoinInit, NoWorkLost, DispatchInv, JoinSeesItsParents
<1> QED  BY <1>4, <1>5, <1>6, <1>7, <1>8 DEF CoreInv

\* The invariant is kept by every step.
LEMMA CoreStep ==
    ASSUME CoreInv, [JoinNext]_joinVars
    PROVE  CoreInv'
<1>1. ASSUME NEW p \in Parents,
             SucceedStep(p) \/ FailStep(p) \/ RetryStep(p) \/ SkipStep(p) \/ BeginSettle(p)
      PROVE  CoreInv'
  BY <1>1, SucceedCore, FailCore, RetryCore, SkipCore, SettleCore
<1>2. ASSUME NEW j \in DOMAIN Joins, DispatchJoin(j)
      PROVE  CoreInv'
  BY <1>2, DispatchCore
<1>3. CASE BeginFlush \/ TickReclaims \/ BeginResolve \/ EndJob
  BY <1>3, FlushCore, ReclaimCore, BeginResolveCore, EndCore
<1>4. CASE ClaimBatch \/ ClaimRefused \/ PassOver \/ ResolveBatch
  BY <1>4, ClaimCore, RefusedCore, PassCore, ResolveBatchCore
<1>5. CASE ProviderMerges \/ ProviderConflicts \/ ConcludeMerged \/ ConcludeConflict
  BY <1>5, MergesCore, ConflictsCore, MergedCore, ConflictCore
<1>6. CASE ReleaseBatch \/ MarkReleased \/ ProjectPending  BY <1>6, ReleaseCore, MarkCore, ShownCore
<1>7. CASE CoreDies \/ CoreStarts \/ RecoverBatch \/ RecoveryFlushes
  BY <1>7, DiesCore, StartsCore, RecoverCore, RecoveryFlushCore
<1>8. CASE UNCHANGED joinVars
  <2>1. UNCHANGED <<stepStatus, attempt, held, dispatched, batch, pendingRows, jobs, worker,
                    coreUp, coreCrashes, refusals, merged, mergedTwice>>
    BY <1>8 DEF joinVars, stepVars, faultVars
  <2>2. JoinTypeInv' /\ WorkerInv'  BY <2>1 DEF CoreInv, JoinTypeInv, WorkerInv, AtBatch
  <2>3. HeldInv' /\ BatchInv' /\ OwnerInv'  BY <2>1 DEF CoreInv, HeldInv, BatchInv, LeasesOK, OwnerInv, LeaseOf, Key
  <2>4. KeyInv' /\ ResolveInv'  BY <2>1 DEF CoreInv, KeyInv, ResolveInv, AtBatch, Listed, Key, Job
  <2> QED  BY <2>2, <2>3, <2>4, <2>1 DEF CoreInv, MergedInv, NoWorkLost, DispatchInv, JoinSeesItsParents, LeaseOf
<1> QED  BY <1>1, <1>2, <1>3, <1>4, <1>5, <1>6, <1>7, <1>8 DEF JoinNext

\* The steps, the batches and the worker are what they should be in every state.
THEOREM JoinCore == JoinSpec => []CoreInv
<1>1. JoinInit => CoreInv  BY CoreInit
<1>2. CoreInv /\ [JoinNext]_joinVars => CoreInv'  BY CoreStep
<1> QED  BY <1>1, <1>2, PTL DEF JoinSpec

\* The steps, the batches and the worker keep their types.
THEOREM JoinTypes == JoinSpec => []JoinTypeOK
<1>1. CoreInv => JoinTypeOK
  BY DEF CoreInv, JoinTypeInv, JoinTypeOK, WorkerRecord, WorkerPC, BatchRecord, BatchStatus, StepStatus, Posted
<1> QED  BY <1>1, JoinCore, PTL

\* However settlements, flushes, resolutions and crashes interleave, the lease of a successful
\* step is held until its work is merged.
THEOREM WorkIsKept == JoinSpec => []NoWorkLost
<1>1. CoreInv => NoWorkLost  BY DEF CoreInv
<1> QED  BY <1>1, JoinCore, PTL

\* No join is dispatched before the work of its successful parents has been merged.
THEOREM JoinsSeeTheirParents == JoinSpec => []JoinSeesItsParents
<1>1. CoreInv => JoinSeesItsParents  BY DEF CoreInv
<1> QED  BY <1>1, JoinCore, PTL

----
(* Nothing is merged twice without a crash.                                *)

\* Without a crash the core is up and no batch is an orphan.
LEMMA CalmFacts ==
    ASSUME Calm
    PROVE  coreUp /\ worker.pc # "recover" /\ \A k \in Keys : ~Orphaned(k)
BY DEF Calm, CalmBatch, Orphaned

\* A worker that is at no batch leaves every lease of a batch shown, or given back.
LEMMA CalmRest ==
    ASSUME Calm, JoinTypeInv, WorkerInv,
           worker.pc \in {"off", "next", "mark"}, UNCHANGED <<batch, merged, mergedTwice, coreUp>>,
           held' \subseteq held, pendingRows \subseteq pendingRows',
           worker'.pc \in {"off", "next"}
    PROVE  Calm'
<1>1. ASSUME NEW k \in Keys PROVE CalmBatch(k)'  BY DEF Calm, CalmBatch, Settled
<1>2. Apart' /\ CalmKey'  BY DEF Calm, Apart, CalmKey
<1> QED  BY <1>1, <1>2 DEF Calm

\* The steps leave the batches alone.
LEMMA CalmStep ==
    ASSUME Calm, UNCHANGED <<batch, worker, pendingRows, merged, mergedTwice, coreUp>>,
           Key' = Key, Job' = Job,
           \A k \in Keys : \A l \in batch[k].leases : l \in held' => l \in held,
           AtBatch => Key \in Keys
    PROVE  Calm'
<1>1. ASSUME NEW k \in Keys PROVE CalmBatch(k)'  BY DEF Calm, CalmBatch, Settled
<1>2. Apart' /\ CalmKey'  BY DEF Calm, Apart, CalmKey, AtBatch
<1> QED  BY <1>1, <1>2 DEF Calm

\* The batch at hand is a batch.
LEMMA AtKey ==
    ASSUME CoreInv, AtBatch
    PROVE  Key \in Keys /\ Key \in Listed /\ coreUp /\ batch[Key].leases \in SUBSET Lease
<1>1. coreUp  BY OffFacts DEF AtBatch, CoreInv, WorkerInv
<1> QED  BY <1>1, AtFacts DEF CoreInv

\* No lease of a batch is given by a retry.
LEMMA RetryApart ==
    ASSUME CoreInv, NEW p \in Parents, stepStatus[p] # "succeeded", NEW k \in Keys,
           NEW l \in batch[k].leases
    PROVE  l[1] # p
BY BatchLeases

\* The steps keep it.
LEMMA CalmSteps ==
    ASSUME CoreInv, Calm, NEW p \in Parents,
           SucceedStep(p) \/ FailStep(p) \/ RetryStep(p) \/ SkipStep(p)
    PROVE  Calm'
<1>1. UNCHANGED <<batch, worker, pendingRows, merged, mergedTwice, coreUp>>
  BY DEF SucceedStep, FailStep, RetryStep, SkipStep, faultVars
<1>2. Key' = Key /\ Job' = Job  BY <1>1 DEF Key, Job
<1>3. AtBatch => Key \in Keys  BY AtKey
<1>4. CASE RetryStep(p)  BY <1>1, <1>2, <1>3, <1>4, RetryApart, CalmStep DEF RetryStep
<1>5. CASE SucceedStep(p) \/ FailStep(p) \/ SkipStep(p)
  <2>1. held' \subseteq held  BY <1>5 DEF SucceedStep, FailStep, SkipStep
  <2> QED  BY <1>1, <1>2, <1>3, <2>1, CalmStep
<1> QED  BY <1>4, <1>5

\* A dispatch keeps it.
LEMMA CalmDispatch ==
    ASSUME CoreInv, Calm, NEW j \in DOMAIN Joins, DispatchJoin(j)
    PROVE  Calm'
<1>1. UNCHANGED <<batch, worker, held, pendingRows, merged, mergedTwice, coreUp>>  BY DEF DispatchJoin, faultVars
<1>2. Key' = Key /\ Job' = Job  BY <1>1 DEF Key, Job
<1> QED  BY <1>1, <1>2, AtKey, CalmStep

\* What begins or ends a job, or passes a batch over, keeps it.
LEMMA CalmTurns ==
    ASSUME CoreInv, Calm,
           \/ \E p \in Parents : BeginSettle(p)
           \/ BeginFlush \/ BeginResolve \/ EndJob \/ ClaimRefused \/ PassOver
    PROVE  Calm'
<1>1. UNCHANGED <<batch, held, pendingRows, merged, mergedTwice, coreUp>>
      /\ worker.pc \in {"off", "next"}
  BY DEF BeginSettle, BeginFlush, BeginResolve, EndJob, ClaimRefused, PassOver, At, stepVars, faultVars
<1>2. worker'.pc \in {"off", "next"}
  BY SettleEffect, FlushEffect, ResolveEffect, EndEffect, RefusedEffect, PassEffect DEF CoreInv, Begun, Idle, Advanced
<1> QED  BY <1>1, <1>2, CalmRest DEF CoreInv

\* What is claimed is in no other batch and has not been merged.
LEMMA CalmClaim ==
    ASSUME CoreInv, Calm, ClaimBatch
    PROVE  Calm'
<1>1. /\ Moved("merge") /\ Key \in Keys
      /\ SetBatch(Key, "merging", Authoritative(Key), TRUE)
  BY ClaimEffect DEF CoreInv
<1>2. /\ UNCHANGED <<held, pendingRows, merged, mergedTwice, coreUp>>
      /\ worker.pc = "next" /\ Job[1] # "resolve"
  BY DEF ClaimBatch, At, stepVars, faultVars
<1>3. \A m \in Keys : \A l \in batch[m].leases : l \in pendingRows \/ l \notin held
  BY <1>2 DEF Calm, CalmBatch, Settled
<1>4. \A l \in Authoritative(Key) : l \in held /\ l \notin pendingRows  BY DEF Authoritative
<1>5. Authoritative(Key) \cap merged = {}  BY <1>3, <1>4 DEF CoreInv, MergedInv
<1>6. ASSUME NEW k \in Keys PROVE CalmBatch(k)'
  <2>1. CASE k = Key  BY <1>1, <2>1 DEF CalmBatch, Settled, SetBatch, Moved
  <2>2. CASE k # Key  BY <1>1, <1>2, <1>3, <2>2 DEF Calm, CalmBatch, Settled, SetBatch
  <2> QED  BY <2>1, <2>2
<1>7. Apart'  BY <1>1, <1>3, <1>4 DEF Calm, Apart, SetBatch
<1>8. CalmKey'  BY <1>1, <1>2, <1>5 DEF CalmKey, SetBatch, Moved
<1> QED  BY <1>1, <1>2, <1>6, <1>7, <1>8 DEF Calm, Moved

\* A resolution takes up a batch whose leases are all pending or given back.
LEMMA CalmResolveBatch ==
    ASSUME CoreInv, Calm, ResolveBatch
    PROVE  Calm'
<1>1. /\ UNCHANGED <<held, pendingRows, merged, mergedTwice, coreUp>>
      /\ worker.pc = "next" /\ Job[1] = "resolve" /\ Key \in Keys
  BY ResolveBatchEffect DEF ResolveBatch, At, stepVars, faultVars, CoreInv
<1>2. \A m \in Keys : \A l \in batch[m].leases : l \in pendingRows \/ l \notin held
  BY <1>1 DEF Calm, CalmBatch, Settled
<1>3. CASE /\ batch[Key].status = "needs_user" /\ batch[Key].leases \subseteq pendingRows
           /\ Moved("merge") /\ SetBatch(Key, "resolving", batch[Key].leases, TRUE)
  <2>1. ASSUME NEW k \in Keys PROVE CalmBatch(k)'  BY <1>1, <1>2, <1>3 DEF Calm, CalmBatch, Settled, SetBatch
  <2>2. Apart'  BY <1>1, <1>3 DEF Calm, Apart, SetBatch
  <2>3. CalmKey'  BY <1>1, <1>3 DEF Calm, CalmBatch, CalmKey, SetBatch, Moved
  <2> QED  BY <1>1, <1>3, <2>1, <2>2, <2>3 DEF Calm, Moved
<1>4. CASE batch' = batch /\ Moved("release")
  <2>1. ASSUME NEW k \in Keys PROVE CalmBatch(k)'  BY <1>1, <1>2, <1>4 DEF Calm, CalmBatch, Settled
  <2>2. Apart' /\ CalmKey'  BY <1>1, <1>2, <1>4 DEF Calm, Apart, CalmKey, Moved
  <2> QED  BY <1>1, <1>4, <2>1, <2>2 DEF Calm, Moved
<1> QED  BY <1>3, <1>4, ResolveBatchEffect DEF CoreInv

\* What the provider merges it has not merged before.
LEMMA CalmMerges ==
    ASSUME CoreInv, Calm, ProviderMerges
    PROVE  Calm'
<1>1. Moved("conclude") /\ Key \in Keys  BY MergesEffect DEF CoreInv
<1>2. /\ UNCHANGED <<held, pendingRows, batch, coreUp>> /\ worker.pc = "merge"
      /\ merged' = merged \cup batch[Key].leases
      /\ mergedTwice' = mergedTwice \cup (merged \cap batch[Key].leases)
  BY DEF ProviderMerges, At, stepVars, faultVars
<1>3. batch[Key].leases \cap merged = {} /\ batch[Key].status # "needs_user"  BY <1>2 DEF Calm, CalmKey, CoreInv, KeyInv
<1>4. mergedTwice' = {}  BY <1>2, <1>3 DEF Calm
<1>5. ASSUME NEW k \in Keys PROVE CalmBatch(k)'
  <2>1. batch[k].status = "needs_user" => batch[k].leases \cap merged' = {}
    <3>1. SUFFICES ASSUME batch[k].status = "needs_user"
                   PROVE  batch[k].leases \cap merged' = {}
      OBVIOUS
    <3>2. k # Key  BY <3>1, <1>3
    <3>3. batch[k].leases \cap batch[Key].leases = {}  BY <3>2, <1>1 DEF Calm, Apart
    <3>4. batch[k].leases \cap merged = {}  BY <3>1 DEF Calm, CalmBatch
    <3> QED  BY <1>2, <3>3, <3>4
  <2> QED  BY <1>2, <2>1, <1>1 DEF Calm, CalmBatch, Settled, Moved
<1>6. Apart' /\ CalmKey'  BY <1>1, <1>2 DEF Calm, Apart, CalmKey, Moved
<1> QED  BY <1>1, <1>2, <1>4, <1>5, <1>6 DEF Calm, Moved

\* A conflict keeps it.
LEMMA CalmConflicts ==
    ASSUME CoreInv, Calm, ProviderConflicts
    PROVE  Calm'
<1>1. Moved("conflict")  BY ConflictsEffect DEF CoreInv
<1>2. UNCHANGED <<held, pendingRows, batch, coreUp, merged, mergedTwice>> /\ worker.pc = "merge"
  BY DEF ProviderConflicts, At, stepVars
<1>3. ASSUME NEW k \in Keys PROVE CalmBatch(k)'  BY <1>1, <1>2 DEF Calm, CalmBatch, Settled, Moved
<1>4. Apart' /\ CalmKey'  BY <1>1, <1>2 DEF Calm, Apart, CalmKey, Moved
<1> QED  BY <1>1, <1>2, <1>3, <1>4 DEF Calm, Moved

\* A merge that is concluded keeps it.
LEMMA CalmMerged ==
    ASSUME CoreInv, Calm, ConcludeMerged
    PROVE  Calm'
<1>1. /\ Moved("release") /\ Key \in Keys
      /\ SetBatch(Key, "merged", batch[Key].leases, FALSE)
  BY MergedEffect DEF CoreInv
<1>2. UNCHANGED <<held, pendingRows, coreUp, merged, mergedTwice>> /\ worker.pc = "conclude"
  BY DEF ConcludeMerged, At, stepVars, faultVars
<1>3. ASSUME NEW k \in Keys PROVE CalmBatch(k)'
  <2>1. CASE k = Key  BY <1>1, <2>1 DEF CalmBatch, Settled, SetBatch, Moved
  <2>2. CASE k # Key  BY <1>1, <1>2, <2>2 DEF Calm, CalmBatch, Settled, SetBatch
  <2> QED  BY <2>1, <2>2
<1>4. Apart'  BY <1>1 DEF Calm, Apart, SetBatch
<1>5. CalmKey'  BY <1>1, <1>2 DEF Calm, CalmKey, Moved, SetBatch
<1> QED  BY <1>1, <1>2, <1>3, <1>4, <1>5 DEF Calm, Moved

\* A conflict that is concluded leaves nothing that is merged with its user.
LEMMA CalmConflict ==
    ASSUME CoreInv, Calm, ConcludeConflict
    PROVE  Calm'
<1>1. /\ Key \in Keys /\ SetBatch(Key, "needs_user", batch[Key].leases, FALSE)
      /\ \/ Job[1] = "resolve" /\ Advanced
         \/ Job[1] # "resolve" /\ Projects(batch[Key].leases)
  BY ConflictEffect DEF CoreInv
<1>2. UNCHANGED <<held, pendingRows, coreUp, merged, mergedTwice>> /\ worker.pc = "conflict"
  BY DEF ConcludeConflict, At, stepVars, faultVars
<1>3. ASSUME NEW k \in Keys PROVE CalmBatch(k)'
  <2>1. CASE k = Key  BY <1>1, <1>2, <2>1 DEF CalmBatch, SetBatch, Calm, CalmKey, Settled, Projects
  <2>2. CASE k # Key  BY <1>1, <1>2, <2>2 DEF Calm, CalmBatch, Settled, SetBatch
  <2> QED  BY <2>1, <2>2
<1>4. Apart'  BY <1>1 DEF Calm, Apart, SetBatch
<1> QED  BY <1>1, <1>2, <1>3, <1>4 DEF Calm, CalmKey, Advanced, Projects

\* What a release leaves is shown to the user.
LEMMA CalmRelease ==
    ASSUME CoreInv, Calm, ReleaseBatch
    PROVE  Calm'
<1>1. Key \in Keys  BY ReleaseEffect DEF CoreInv
<1>2. PICK kept \in SUBSET (batch[Key].leases \cap held) :
                 /\ held' = held \ (batch[Key].leases \ kept)
                 /\ \/ kept = {} /\ Moved("mark")
                    \/ kept # {} /\ Job[1] = "resolve" /\ Idle
                    \/ kept # {} /\ Job[1] # "resolve" /\ Projects(kept)
  BY ReleaseEffect DEF CoreInv
<1>3. UNCHANGED <<pendingRows, batch, coreUp, merged, mergedTwice>> /\ worker.pc = "release"  BY DEF ReleaseBatch, At
<1>4. ASSUME NEW k \in Keys, NEW l \in batch[k].leases PROVE Settled(k, l)'
  <2>1. CASE l \notin held \/ l \in pendingRows  BY <1>2, <1>3, <2>1 DEF Settled
  <2>2. CASE l \in held /\ l \notin pendingRows
    <3>1. k = Key  BY <1>3, <2>2 DEF Calm, CalmBatch, Settled
    <3>2. Job[1] # "resolve"  BY <1>3, <2>2, <3>1 DEF Calm, CalmKey
    <3> QED  BY <1>2, <3>1, <3>2 DEF Settled, Projects
  <2> QED  BY <2>1, <2>2
<1>5. ASSUME NEW k \in Keys PROVE CalmBatch(k)'  BY <1>3, <1>4 DEF Calm, CalmBatch
<1> QED  BY <1>3, <1>5, <1>2 DEF Calm, Apart, CalmKey, Moved, Idle, Projects

\* A batch that is marked has nothing held.
LEMMA CalmMark ==
    ASSUME CoreInv, Calm, MarkReleased
    PROVE  Calm'
<1>1. /\ Advanced /\ Key \in Keys
      /\ SetBatch(Key, "released", batch[Key].leases, batch[Key].alive)
  BY MarkEffect DEF CoreInv
<1>2. UNCHANGED <<held, coreUp, merged, mergedTwice>> /\ worker.pc = "mark"
      /\ pendingRows \ batch[Key].leases \subseteq pendingRows'
  BY DEF MarkReleased, At, stepVars, faultVars
<1>3. batch[Key].leases \cap held = {}  BY <1>2 DEF CoreInv, KeyInv
<1>4. ASSUME NEW k \in Keys PROVE CalmBatch(k)'
  <2>1. CASE k = Key  BY <1>1, <1>2, <1>3, <2>1 DEF CalmBatch, Settled, SetBatch
  <2>2. CASE k # Key  BY <1>1, <1>2, <2>2 DEF Calm, CalmBatch, Settled, Apart, SetBatch
  <2> QED  BY <2>1, <2>2
<1>5. Apart'  BY <1>1 DEF Calm, Apart, SetBatch
<1>6. CalmKey' /\ worker'.pc = "next"  BY <1>1 DEF CalmKey, Advanced
<1> QED  BY <1>1, <1>2, <1>4, <1>5, <1>6 DEF Calm

\* Showing a lease to the user keeps it.
LEMMA CalmShown ==
    ASSUME CoreInv, Calm, ProjectPending
    PROVE  Calm'
<1>1. UNCHANGED <<held, batch, coreUp, merged, mergedTwice>> /\ worker.pc = "project"
  BY DEF ProjectPending, At, stepVars, faultVars
<1>2. PICK l \in worker.left :
                 /\ pendingRows' = pendingRows \cup {l}
                 /\ \/ worker.left = {l} /\ Advanced
                    \/ worker.left # {l} /\ Projects(worker.left \ {l})
  BY ShownEffect DEF CoreInv
<1>3. ASSUME NEW k \in Keys PROVE CalmBatch(k)'  BY <1>1, <1>2 DEF Calm, CalmBatch, Settled, Projects
<1> QED  BY <1>1, <1>3, <1>2 DEF Calm, Apart, CalmKey, Advanced, Projects

\* Without a crash every step keeps the batches apart.
LEMMA CalmNext ==
    ASSUME CoreInv, Calm, JoinNext, ~CoreDies
    PROVE  Calm'
<1>1. \A j \in DOMAIN Joins : DispatchJoin(j) => Calm'  BY CalmDispatch
<1>2. ClaimBatch \/ ResolveBatch => Calm'  BY CalmClaim, CalmResolveBatch
<1>3. ProviderMerges \/ ProviderConflicts \/ ConcludeMerged \/ ConcludeConflict => Calm'
  BY CalmMerges, CalmConflicts, CalmMerged, CalmConflict
<1>4. ReleaseBatch \/ MarkReleased \/ ProjectPending => Calm'  BY CalmRelease, CalmMark, CalmShown
<1> QED  BY CalmSteps, <1>1, CalmTurns, <1>2, <1>3, <1>4, CalmFacts DEF JoinNext, TickReclaims, CoreStarts,
    RecoverBatch, RecoveryFlushes, At

\* Without a crash the provider applies nothing twice.
THEOREM MergedAtMostOnce == JoinSpec => []MergedOnce
<1>1. ASSUME JoinInit PROVE CalmInv
  <2>1. \A k \in Keys : batch[k] = NoBatch /\ NoBatch.status = "none" /\ NoBatch.leases = {}
    BY <1>1 DEF JoinInit, NoBatch
  <2>2. \A k \in Keys : CalmBatch(k)  BY <2>1 DEF CalmBatch
  <2>3. Apart  BY <2>1 DEF Apart
  <2>4. CalmKey  BY <1>1, OffFacts DEF JoinInit, CalmKey
  <2> QED  BY <1>1, <2>2, <2>3, <2>4, OffFacts DEF JoinInit, CalmInv, Calm
<1>2. ASSUME CoreInv, CalmInv, [JoinNext]_joinVars PROVE CalmInv'
  <2>1. CASE JoinNext /\ ~CoreDies
    <3>1. coreCrashes' = coreCrashes
      BY <2>1 DEF JoinNext, SucceedStep, FailStep, RetryStep, SkipStep, DispatchJoin, BeginSettle, BeginFlush,
        TickReclaims, BeginResolve, EndJob, ClaimBatch, ClaimRefused, PassOver, ResolveBatch, ProviderMerges,
        ProviderConflicts, ConcludeMerged, ConcludeConflict, ReleaseBatch, MarkReleased, ProjectPending, CoreStarts,
        RecoverBatch, RecoveryFlushes, faultVars
    <3> QED  BY <1>2, <2>1, <3>1, CalmNext DEF CalmInv
  <2>2. CASE CoreDies  BY <1>2, <2>2, DiesEffect DEF CoreInv, CalmInv
  <2>3. CASE UNCHANGED joinVars
    <3>1. UNCHANGED <<held, batch, pendingRows, worker, coreUp, coreCrashes, merged, mergedTwice>>
      BY <2>3 DEF joinVars, stepVars, faultVars
    <3> QED  BY <1>2, <3>1 DEF CalmInv, Calm, CalmBatch, Settled, Apart, CalmKey, Key, Job
  <2> QED  BY <1>2, <2>1, <2>2, <2>3
<1>3. CalmInv => MergedOnce  BY DEF CalmInv, Calm, MergedOnce
<1> QED  BY <1>1, <1>2, <1>3, JoinCore, PTL DEF JoinSpec

----
(* The actions of the outbox.                                              *)

\* The actions of the outbox are of three kinds and about leases.
LEMMA JobTypes ==
    ASSUME JoinTypeInv
    PROVE  \A job \in jobs : job[1] \in Posted /\ job[2] \in Lease /\ job[2][1] \in Parents
                                /\ job = <<job[1], job[2]>> /\ job[2][2] \in Nat
BY TypeParts, JoinAssumption DEF Posted, Lease, JoinAssumption

\* Steps that leave the actions alone.
LEMMA JobsFrame ==
    ASSUME JobsInv, UNCHANGED <<stepStatus, attempt, jobs>>, Job' = Job \/ Job'[1] \notin Posted
    PROVE  JobsInv'
BY DEF JobsInv, JobFresh, LeaseOf, Terminal, Posted

\* A step that settles posts an action about its attempt.
LEMMA JobsPosted ==
    ASSUME JoinTypeInv, JobsInv, UNCHANGED <<attempt, worker>>, Job' = Job, NEW p \in Parents,
           NEW kind \in Posted, jobs' = jobs \cup {<<kind, LeaseOf(p)>>},
           stepStatus[p] # "succeeded", stepStatus'[p] # "running",
           kind = "settle" => stepStatus'[p] = "succeeded",
           \A q \in Parents : q # p => stepStatus'[q] = stepStatus[q]
    PROVE  JobsInv'
<1>1. attempt[p] \in Nat /\ LeaseOf(p) = <<p, attempt[p]>> /\ LeaseOf(p)' = LeaseOf(p)
  BY TypeParts, JoinAssumption DEF LeaseOf, JoinAssumption
<1>2. JobFresh(<<kind, LeaseOf(p)>>)'  BY <1>1 DEF JobFresh, Terminal, LeaseOf
<1>3. ASSUME NEW job \in jobs PROVE JobFresh(job)'  BY JobTypes DEF JobsInv, JobFresh, Terminal, LeaseOf
<1>4. \A job \in jobs' : JobFresh(job)'
  <2> DEFINE new == <<kind, LeaseOf(p)>>
  <2>1. \A job \in jobs' : job \in jobs \/ job = new  OBVIOUS
  <2>2. new' = new  BY <1>1
  <2>3. JobFresh(new)'  BY <1>2
  <2> HIDE DEF new
  <2> QED  BY <1>3, <2>1, <2>2, <2>3
<1> QED  BY <1>4 DEF JobsInv, Posted

\* A retry is of a step that has no settled attempt on its way, and of a later attempt.
LEMMA JobsRetry ==
    ASSUME JoinTypeInv, WorkerInv, JobsInv, NEW p \in Parents, RetryStep(p)
    PROVE  JobsInv'
<1>1. /\ stepStatus'[p] = "running" /\ attempt'[p] = attempt[p] + 1 /\ stepStatus[p] = "failed"
      /\ attempt[p] \in Nat
      /\ \A q \in Parents : q # p => stepStatus'[q] = stepStatus[q] /\ attempt'[q] = attempt[q]
      /\ UNCHANGED <<jobs, worker>>
  BY TypeParts, JoinAssumption DEF RetryStep, JoinAssumption
<1>2. ASSUME NEW job \in jobs PROVE JobFresh(job)'
  <2>1. JobFresh(job) /\ job[2][1] \in Parents /\ job[2][2] \in Nat  BY JobTypes DEF JobsInv
  <2>2. CASE job[2][1] = p
    <3>1. job[2][2] <= attempt[p] /\ job[1] # "settle"  BY <1>1, <2>1, <2>2 DEF JobFresh
    <3>2. job[2][2] <= attempt'[p] /\ job[2][2] # attempt'[p]  BY <1>1, <2>1, <3>1
    <3>3. job[2] # <<p, attempt'[p]>>  BY <3>2
    <3> QED  BY <2>2, <3>1, <3>2, <3>3 DEF JobFresh, LeaseOf
  <2>3. CASE job[2][1] # p  BY <1>1, <2>1, <2>3 DEF JobFresh, LeaseOf, Terminal
  <2> QED  BY <2>2, <2>3
<1> QED  BY <1>1, <1>2 DEF JobsInv, Posted, Job

\* Every step keeps the actions fresh.
LEMMA JobsNext ==
    ASSUME CoreInv, JobsInv, JoinNext
    PROVE  JobsInv'
<1> USE DEF CoreInv
<1>1. ASSUME NEW p \in Parents, SucceedStep(p) PROVE JobsInv'
  BY <1>1, SucceedEffect, JobsPosted DEF SucceedStep, Posted
<1>2. ASSUME NEW p \in Parents, FailStep(p) PROVE JobsInv'  BY <1>2, FailEffect, JobsPosted DEF FailStep, Posted
<1>3. ASSUME NEW p \in Parents, SkipStep(p) PROVE JobsInv'  BY <1>3, SkipEffect, JobsPosted DEF SkipStep, Posted
<1>4. ASSUME NEW p \in Parents, RetryStep(p) PROVE JobsInv'  BY <1>4, JobsRetry
<1>5. ASSUME NEW j \in DOMAIN Joins, DispatchJoin(j) PROVE JobsInv'  BY <1>5, DispatchEffect, JobsFrame DEF DispatchJoin
<1>6. ASSUME NEW p \in Parents, BeginSettle(p) PROVE JobsInv'
  BY <1>6, SettleEffect DEF JobsInv, JobFresh, LeaseOf, Terminal, BeginSettle, Begun, stepVars
<1>7. CASE BeginFlush
  <2>1. Job' \in jobs  BY <1>7, FlushEffect DEF Begun
  <2>2. UNCHANGED <<stepStatus, attempt, jobs>>  BY <1>7 DEF BeginFlush, stepVars
  <2> QED  BY <2>1, <2>2 DEF JobsInv, JobFresh, LeaseOf, Terminal
<1>8. CASE EndJob
  <2>1. UNCHANGED <<stepStatus, attempt>>  BY <1>8 DEF EndJob, stepVars
  <2> QED  BY <1>8, EndEffect, <2>1 DEF JobsInv, JobFresh, LeaseOf, Terminal, EndJob, Idle
<1>9. CASE TickReclaims \/ BeginResolve \/ RecoveryFlushes \/ CoreDies \/ CoreStarts
  <2>1. Job' \in {<<"tick", <<0, 0>>>>, <<"resolve", <<0, 0>>>>, <<"start", <<0, 0>>>>,
                 <<"none", <<0, 0>>>>}
    BY <1>9, ReclaimEffect, ResolveEffect, RecoveryFlushEffect, DiesEffect, StartsEffect DEF Begun, Idle
  <2>2. UNCHANGED <<stepStatus, attempt, jobs>>
    BY <1>9 DEF TickReclaims, BeginResolve, RecoveryFlushes, CoreDies, CoreStarts, stepVars
  <2> QED  BY <2>1, <2>2, JobsFrame DEF Posted
<1>10. CASE ClaimBatch \/ ClaimRefused \/ PassOver \/ ResolveBatch \/ ProviderMerges
            \/ ProviderConflicts \/ ConcludeMerged
  <2>1. Job' = Job \/ Job' = <<"none", <<0, 0>>>>
    BY <1>10, ClaimEffect, RefusedEffect, PassEffect, ResolveBatchEffect, MergesEffect, ConflictsEffect, MergedEffect
      DEF Idle, Moved, Advanced, Begun
  <2>2. UNCHANGED <<stepStatus, attempt, jobs>>
    BY <1>10 DEF ClaimBatch, ClaimRefused, PassOver, ResolveBatch, ProviderMerges, ProviderConflicts, ConcludeMerged,
      stepVars
  <2>3. <<"none", <<0, 0>>>>[1] = "none"  OBVIOUS
  <2> QED  BY <2>1, <2>2, <2>3, JobsFrame DEF Posted
<1>11. CASE ConcludeConflict \/ ReleaseBatch \/ MarkReleased \/ ProjectPending \/ RecoverBatch
  <2>1. Job' = Job \/ Job' = <<"none", <<0, 0>>>>
    BY <1>11, ConflictEffect, ReleaseEffect, MarkEffect, ShownEffect, RecoverEffect DEF Idle, Moved, Advanced, Projects
  <2>2. UNCHANGED <<stepStatus, attempt, jobs>>
    BY <1>11 DEF ConcludeConflict, ReleaseBatch, MarkReleased, ProjectPending, RecoverBatch, stepVars
  <2>3. <<"none", <<0, 0>>>>[1] = "none"  OBVIOUS
  <2> QED  BY <2>1, <2>2, <2>3, JobsFrame DEF Posted
<1> QED  BY <1>1, <1>2, <1>3, <1>4, <1>5, <1>6, <1>7, <1>8, <1>9, <1>10, <1>11 DEF JoinNext

----
(* Disjoint joins: settlements and kinds of work.                          *)

\* No step is a parent of two joins: it is owned by one key.
LEMMA OwnsOne ==
    ASSUME Disjoint, NEW k \in Keys, NEW m \in Keys, NEW p \in Parents, Owns(k, p), Owns(m, p)
    PROVE  k = m
<1>1. CASE k \in JoinKeys /\ m \in JoinKeys
  <2>1. k[2] = m[2]  BY <1>1, KeyShape DEF Disjoint, Owns
  <2> QED  BY <1>1, <2>1, KeyShape
<1>2. CASE k \in SingleKeys /\ m \in SingleKeys  BY <1>2, KeyShape DEF Owns
<1>3. ASSUME NEW j \in JoinKeys, NEW s \in SingleKeys, Owns(j, p), Owns(s, p)
      PROVE  FALSE
  <2>1. j[2] \in DOMAIN Joins /\ p \in Joins[j[2]] /\ p = s[2]  BY <1>3, KeyShape DEF Owns
  <2>2. p \notin Joins[j[2]]  BY <2>1 DEF SingleKeys
  <2> QED  BY <2>1, <2>2
<1> QED  BY <1>1, <1>2, <1>3, KeyShape

\* Batches share no lease.
LEMMA BatchesApart ==
    ASSUME Disjoint, CoreInv, NEW k \in Keys, NEW m \in Keys, k # m
    PROVE  batch[k].leases \cap batch[m].leases = {}
<1>1. SUFFICES ASSUME NEW l \in batch[k].leases, l \in batch[m].leases PROVE FALSE  OBVIOUS
<1>2. l \in Lease /\ Owns(k, l[1]) /\ Owns(m, l[1])  BY <1>1, BatchLeases
<1>3. l[1] \in Parents  BY <1>2 DEF Lease
<1> QED  BY <1>2, <1>3, OwnsOne

\* What is resolved is a resolution's, what is merged another job's.
LEMMA KindNext ==
    ASSUME CoreInv, KindInv, JoinNext
    PROVE  KindInv'
<1> USE DEF CoreInv
<1>1. CASE \/ \E p \in Parents : SucceedStep(p) \/ FailStep(p) \/ RetryStep(p) \/ SkipStep(p)
           \/ \E j \in DOMAIN Joins : DispatchJoin(j)
  <2>1. UNCHANGED <<batch, worker>>  BY <1>1 DEF SucceedStep, FailStep, RetryStep, SkipStep, DispatchJoin
  <2> QED  BY <2>1 DEF KindInv, Key, Job
<1>2. CASE \/ \E p \in Parents : BeginSettle(p)
           \/ BeginFlush \/ TickReclaims \/ BeginResolve \/ EndJob \/ ClaimRefused \/ PassOver
  <2>1. worker'.pc \in {"off", "next"}
    BY <1>2, SettleEffect, FlushEffect, ReclaimEffect, ResolveEffect, EndEffect, RefusedEffect, PassEffect DEF Begun,
      Idle, Advanced
  <2> QED  BY <2>1 DEF KindInv
<1>3. CASE ClaimBatch  BY <1>3, ClaimEffect DEF KindInv, ClaimBatch, Moved, SetBatch
<1>4. CASE ResolveBatch  BY <1>4, ResolveBatchEffect DEF KindInv, ResolveBatch, Moved, SetBatch
<1>5. CASE ProviderMerges \/ ProviderConflicts
  BY <1>5, MergesEffect, ConflictsEffect DEF KindInv, Moved, ProviderMerges, ProviderConflicts, At
<1>6. CASE ConcludeMerged \/ ConcludeConflict \/ ReleaseBatch \/ MarkReleased \/ ProjectPending
  BY <1>6, MergedEffect, ConflictEffect, ReleaseEffect, MarkEffect, ShownEffect DEF KindInv, Moved, Idle, Advanced,
    Projects
<1>7. CASE CoreDies \/ CoreStarts \/ RecoverBatch \/ RecoveryFlushes
  <2>1. worker'.pc \in {"off", "recover", "next"}
    BY <1>7, DiesEffect, StartsEffect, RecoverEffect, RecoveryFlushEffect DEF Idle, Begun
  <2> QED  BY <2>1 DEF KindInv
<1> QED  BY <1>1, <1>2, <1>3, <1>4, <1>5, <1>6, <1>7 DEF JoinNext

\* The settled step of a job.
LEMMA SettleJob ==
    ASSUME CoreInv, JobsInv, Job[1] = "settle"
    PROVE  /\ Job \in jobs /\ Job[2] \in Lease /\ Job[2][1] \in Parents
           /\ Job[2] = LeaseOf(Job[2][1]) /\ stepStatus[Job[2][1]] = "succeeded"
BY JobTypes DEF JobsInv, JobFresh, CoreInv

\* A settlement is claimed while its lease is held.
LEMMA SettleNext ==
    ASSUME Disjoint, CoreInv, JobsInv, SettleInv, JoinNext
    PROVE  SettleInv'
<1> USE DEF CoreInv
<1>1. ASSUME NEW p \in Parents, SucceedStep(p) \/ FailStep(p) \/ RetryStep(p) \/ SkipStep(p)
      PROVE  SettleInv'
  <2>1. UNCHANGED <<batch, worker>>  BY <1>1 DEF SucceedStep, FailStep, RetryStep, SkipStep
  <2>2. Listed' = Listed /\ Job' = Job  BY <2>1 DEF Listed, Job
  <2>3. Job[1] = "settle" /\ Job[2] \in held => Job[2] \in held'
    <3>1. SUFFICES ASSUME Job[1] = "settle", Job[2] \in held PROVE Job[2] \in held'  OBVIOUS
    <3>2. stepStatus[Job[2][1]] = "succeeded"  BY <3>1, SettleJob
    <3> QED  BY <1>1, <3>1, <3>2 DEF SucceedStep, FailStep, RetryStep, SkipStep, LeaseOf
  <2> QED  BY <2>1, <2>2, <2>3 DEF SettleInv
<1>2. CASE \E j \in DOMAIN Joins : DispatchJoin(j)
  <2>1. UNCHANGED <<batch, worker, held>>  BY <1>2 DEF DispatchJoin
  <2> QED  BY <2>1 DEF SettleInv, Listed, Job
<1>3. ASSUME NEW p \in Parents, BeginSettle(p) PROVE SettleInv'
  <2>1. UNCHANGED <<batch, held>>  BY <1>3 DEF BeginSettle, stepVars
  <2>2. LeaseOf(p)[1] = p  BY DEF LeaseOf
  <2> QED  BY <2>1, <1>3, SettleEffect, <2>2 DEF SettleInv, Begun
<1>4. CASE BeginFlush \/ TickReclaims \/ BeginResolve \/ EndJob \/ ClaimRefused
  <2>1. \/ worker'.pc = "off" \/ Job'[1] # "settle"
    BY <1>4, FlushEffect, ReclaimEffect, ResolveEffect, EndEffect, RefusedEffect DEF Begun, Idle, Advanced
  <2> QED  BY <2>1 DEF SettleInv
<1>5. CASE PassOver  BY <1>5, PassEffect DEF SettleInv, Advanced, PassOver, At, stepVars
<1>6. CASE ClaimBatch \/ ResolveBatch \/ ProviderMerges \/ ProviderConflicts \/ ConcludeMerged
  <2>1. \E pc \in {"merge", "release", "conclude", "conflict"} : Moved(pc)
    BY <1>6, ClaimEffect, ResolveBatchEffect, MergesEffect, ConflictsEffect, MergedEffect
  <2>2. worker.pc # "off"  BY <1>6 DEF ClaimBatch, ResolveBatch, ProviderMerges, ProviderConflicts, ConcludeMerged, At
  <2> QED  BY <2>1, <2>2 DEF SettleInv, Moved
<1>7. CASE ConcludeConflict \/ ReleaseBatch
  <2>1. \/ Moved("mark") \/ worker'.pc = "off" \/ \E L : Projects(L)
        \/ Job'[1] # "settle"
    <3>1. "resolve" # "settle"  OBVIOUS
    <3> QED  BY <1>7, <3>1, ConflictEffect, ReleaseEffect DEF Idle, Advanced
  <2>2. worker.pc # "off"  BY <1>7 DEF ConcludeConflict, ReleaseBatch, At
  <2> QED  BY <2>1, <2>2 DEF SettleInv, Moved, Projects
<1>8. ASSUME Advanced, Key \in Listed, Key \in Keys, worker.pc # "off",
             batch'[Key].status \in {"merged", "released", "needs_user"}
      PROVE  SettleInv'
  <2>1. SUFFICES ASSUME Job[1] = "settle", NEW k \in Listed
                 PROVE  Owns(k, Job[2][1])
                        /\ batch'[k].status \in {"merged", "released", "needs_user"}
    BY <1>8 DEF SettleInv, Advanced
  <2>2. Job[2][1] \in Parents /\ k \in Keys  BY <2>1, SettleJob, ListedKeys
  <2>3. Owns(k, Job[2][1]) /\ Owns(Key, Job[2][1])  BY <1>8, <2>1 DEF SettleInv
  <2>4. k = Key  BY <1>8, <2>2, <2>3, OwnsOne
  <2> QED  BY <1>8, <2>3, <2>4
<1>9. CASE MarkReleased  BY <1>8, <1>9, MarkEffect DEF SetBatch, MarkReleased, At
<1>10. CASE ProjectPending
  <2>1. worker.pc = "project" /\ batch' = batch /\ Key \in Keys /\ Key \in Listed
        /\ (Advanced \/ \E L : Projects(L))
    BY <1>10, ShownEffect DEF ProjectPending, At
  <2>2. CASE Advanced  BY <1>8, <2>1, <2>2 DEF KeyInv
  <2>3. CASE \E L : Projects(L)  BY <2>1, <2>3 DEF SettleInv, Projects
  <2> QED  BY <2>1, <2>2, <2>3
<1>11. CASE CoreDies \/ CoreStarts \/ RecoveryFlushes
  <2>1. worker'.pc = "off" \/ Job'[1] # "settle"
    <3>1. <<"start", <<0, 0>>>>[1] # "settle" /\ <<"none", <<0, 0>>>>[1] # "settle"  OBVIOUS
    <3> QED  BY <1>11, <3>1, DiesEffect, StartsEffect, RecoveryFlushEffect DEF Begun, Idle
  <2> QED  BY <2>1 DEF SettleInv
<1>12. CASE RecoverBatch  BY <1>12, RecoverEffect DEF SettleInv, RecoverBatch, At
<1> QED  BY <1>1, <1>2, <1>3, <1>4, <1>5, <1>6, <1>7, <1>9, <1>10, <1>11, <1>12 DEF JoinNext

----
(* Disjoint joins: what waits is shown.                                    *)

\* A batch that is left alone waits as before.
LEMMA WaitsFrame ==
    ASSUME NEW k, Waits(k),
           batch'[k].status = batch[k].status, batch'[k].leases = batch[k].leases,
           \A l \in batch[k].leases : (l \in held => l \in held')
                                      /\ (l \in pendingRows' <=> l \in pendingRows)
    PROVE  Waits(k)'
BY DEF Waits

\* What is shown stays shown.
LEMMA ShownFrame ==
    ASSUME NEW k, Shown(k), coreUp, worker.pc \notin {"project", "recover"},
           batch'[k].status = batch[k].status, batch'[k].leases = batch[k].leases,
           \A l \in batch[k].leases : l \in pendingRows => l \in pendingRows'
    PROVE  Shown(k)'
BY DEF Shown

\* The batch at hand changes, the others are left alone.
LEMMA WaitSet ==
    ASSUME WaitInv, coreUp, worker.pc \notin {"project", "recover"},
           NEW k0 \in Keys, NEW s, NEW L, NEW a, SetBatch(k0, s, L, a),
           \A m \in Keys : m # k0 => \A l \in batch[m].leases :
               (l \in held => l \in held') /\ (l \in pendingRows' <=> l \in pendingRows),
           Waits(k0)', Shown(k0)'
    PROVE  WaitInv'
<1>1. ASSUME NEW k \in Keys, k # k0 PROVE Waits(k)' /\ Shown(k)'  BY <1>1, WaitsFrame, ShownFrame DEF SetBatch, WaitInv
<1> QED  BY <1>1 DEF WaitInv

\* The batches are left alone.
LEMMA WaitRest ==
    ASSUME WaitInv, coreUp, worker.pc \notin {"project", "recover"}, batch' = batch,
           \A m \in Keys : \A l \in batch[m].leases :
               (l \in held /\ batch[m].status \notin {"merged", "released"} => l \in held')
               /\ (l \in pendingRows' <=> l \in pendingRows)
    PROVE  WaitInv'
<1>1. ASSUME NEW k \in Keys PROVE Waits(k)' /\ Shown(k)'
  <2>1. Waits(k)'  BY DEF WaitInv, Waits
  <2>2. Shown(k)'  BY ShownFrame DEF WaitInv
  <2> QED  BY <2>1, <2>2
<1> QED  BY <1>1 DEF WaitInv

\* The steps leave what waits alone.
LEMMA WaitSteps ==
    ASSUME CoreInv, WaitInv, NEW p \in Parents,
           SucceedStep(p) \/ FailStep(p) \/ RetryStep(p) \/ SkipStep(p)
    PROVE  WaitInv'
<1>1. UNCHANGED <<batch, worker, pendingRows, coreUp>>  BY DEF SucceedStep, FailStep, RetryStep, SkipStep, faultVars
<1>2. \A k \in Keys : \A l \in batch[k].leases : l \in held => l \in held'
  <2>1. CASE FailStep(p)  BY <2>1, RetryApart DEF FailStep, LeaseOf
  <2>2. CASE SucceedStep(p) \/ RetryStep(p) \/ SkipStep(p)  BY <2>2 DEF SucceedStep, RetryStep, SkipStep
  <2> QED  BY <2>1, <2>2
<1>3. ASSUME NEW k \in Keys PROVE Waits(k)' /\ Shown(k)'
  <2>1. Waits(k)'  BY <1>1, <1>2, WaitsFrame DEF WaitInv
  <2>2. Shown(k)'  BY <1>1 DEF WaitInv, Shown, Key, Listed
  <2> QED  BY <2>1, <2>2
<1> QED  BY <1>3 DEF WaitInv

\* A dispatch leaves it alone.
LEMMA WaitDispatch ==
    ASSUME WaitInv, NEW j \in DOMAIN Joins, DispatchJoin(j)
    PROVE  WaitInv'
BY DEF DispatchJoin, faultVars, WaitInv, Waits, Shown, Key, Listed

\* What begins or ends a job leaves it alone.
LEMMA WaitTurns ==
    ASSUME CoreInv, WaitInv,
           \/ \E p \in Parents : BeginSettle(p)
           \/ BeginFlush \/ BeginResolve \/ EndJob \/ ClaimRefused \/ PassOver
           \/ ProviderMerges \/ ProviderConflicts
    PROVE  WaitInv'
<1>1. /\ UNCHANGED <<batch, held, pendingRows>> /\ coreUp
      /\ worker.pc \in {"off", "next", "merge"}
  BY DEF BeginSettle, BeginFlush, BeginResolve, EndJob, ClaimRefused, PassOver, ProviderMerges, ProviderConflicts, At,
    stepVars
<1> QED  BY <1>1, WaitRest

\* What is reclaimed was held and not pending, or pending.
LEMMA WaitReclaim ==
    ASSUME CoreInv, WaitInv, TickReclaims
    PROVE  WaitInv'
<1>1. /\ \A k \in Keys : batch'[k].leases = batch[k].leases /\ batch'[k].alive = batch[k].alive
      /\ \A k \in Keys : Orphaned(k) /\ batch[k].status = "merging"
                         => batch'[k].status = "ready"
      /\ \A k \in Keys : Orphaned(k) /\ batch[k].status = "resolving"
                         => batch'[k].status = "needs_user"
      /\ \A k \in Keys : ~Orphaned(k) => batch'[k] = batch[k]
  BY ReclaimEffect DEF CoreInv
<1>2. UNCHANGED <<held, pendingRows>> /\ worker.pc = "off" /\ coreUp  BY DEF TickReclaims, stepVars
<1>3. ASSUME NEW k \in Keys PROVE Waits(k)' /\ Shown(k)'
  <2>1. Waits(k) /\ Shown(k)  BY DEF WaitInv
  <2>2. CASE ~Orphaned(k)  BY <1>1, <1>2, <2>1, <2>2, WaitsFrame, ShownFrame
  <2>3. CASE Orphaned(k) /\ batch[k].status = "merging"  BY <1>2, <2>1, <2>3, <1>1 DEF Waits, Shown
  <2>4. CASE Orphaned(k) /\ batch[k].status = "resolving"  BY <1>2, <2>1, <2>4, <1>1 DEF Waits, Shown
  <2> QED  BY <2>2, <2>3, <2>4 DEF Orphaned
<1> QED  BY <1>3 DEF WaitInv

\* What is claimed is held and not pending.
LEMMA WaitClaim ==
    ASSUME CoreInv, WaitInv, ClaimBatch
    PROVE  WaitInv'
<1>1. Key \in Keys /\ SetBatch(Key, "merging", Authoritative(Key), TRUE)  BY ClaimEffect DEF CoreInv
<1>2. UNCHANGED <<held, pendingRows>> /\ worker.pc = "next" /\ coreUp  BY DEF ClaimBatch, At, stepVars
<1>3. ASSUME NEW k \in Keys, k = Key PROVE Waits(k)' /\ Shown(k)'
  BY <1>1, <1>2, <1>3 DEF SetBatch, Waits, Shown, Authoritative
<1> QED  BY <1>1, <1>2, <1>3, WaitSet

\* What is resolved is pending.
LEMMA WaitResolveBatch ==
    ASSUME CoreInv, WaitInv, ResolveBatch
    PROVE  WaitInv'
<1>1. UNCHANGED <<held, pendingRows>> /\ worker.pc = "next" /\ coreUp  BY DEF ResolveBatch, At, stepVars
<1>2. /\ Key \in Keys
      /\ \/ /\ batch[Key].status = "needs_user" /\ batch[Key].leases \subseteq pendingRows
            /\ SetBatch(Key, "resolving", batch[Key].leases, TRUE)
         \/ batch' = batch
  BY ResolveBatchEffect DEF CoreInv
<1>3. CASE /\ batch[Key].status = "needs_user" /\ batch[Key].leases \subseteq pendingRows
           /\ SetBatch(Key, "resolving", batch[Key].leases, TRUE)
  <2>1. ASSUME NEW k \in Keys, k = Key PROVE Waits(k)' /\ Shown(k)'
    BY <1>1, <1>3, <2>1 DEF SetBatch, WaitInv, Waits, Shown
  <2> QED  BY <1>1, <1>2, <1>3, <2>1, WaitSet
<1>4. CASE batch' = batch  BY <1>1, <1>4, WaitRest
<1> QED  BY <1>2, <1>3, <1>4

\* A merge that is concluded waits for nobody.
LEMMA WaitMerged ==
    ASSUME CoreInv, WaitInv, ConcludeMerged
    PROVE  WaitInv'
<1>1. Key \in Keys /\ SetBatch(Key, "merged", batch[Key].leases, FALSE)  BY MergedEffect DEF CoreInv
<1>2. UNCHANGED <<held, pendingRows>> /\ worker.pc = "conclude" /\ coreUp  BY DEF ConcludeMerged, At, stepVars
<1>3. ASSUME NEW k \in Keys, k = Key PROVE Waits(k)' /\ Shown(k)'  BY <1>1, <1>2, <1>3 DEF SetBatch, Waits, Shown
<1> QED  BY <1>1, <1>2, <1>3, WaitSet

\* A conflict is shown next, or is shown already.
LEMMA WaitConflict ==
    ASSUME CoreInv, KindInv, WaitInv, ConcludeConflict
    PROVE  WaitInv'
<1>1. /\ Key \in Keys /\ SetBatch(Key, "needs_user", batch[Key].leases, FALSE)
      /\ \/ Job[1] = "resolve" /\ Advanced
         \/ Job[1] # "resolve" /\ Projects(batch[Key].leases)
  BY ConflictEffect DEF CoreInv
<1>2. UNCHANGED <<held, pendingRows>> /\ worker.pc = "conflict" /\ coreUp  BY DEF ConcludeConflict, At, stepVars
<1>3. batch[Key].status \in {"merging", "resolving"}
      /\ (Job[1] = "resolve" => batch[Key].status = "resolving")
  BY <1>2 DEF CoreInv, KeyInv, KindInv
<1>4. ASSUME NEW k \in Keys, k = Key PROVE Waits(k)' /\ Shown(k)'
  <2>1. batch'[k].status = "needs_user" /\ batch'[k].leases = batch[k].leases /\ Waits(k)
    BY <1>1, <1>4 DEF SetBatch, WaitInv
  <2>2. Waits(k)'  BY <1>2, <1>3, <1>4, <2>1 DEF Waits
  <2>3. Shown(k)'  BY <1>1, <1>2, <1>3, <1>4, <2>1 DEF Waits, Shown, Projects
  <2> QED  BY <2>2, <2>3
<1> QED  BY <1>1, <1>2, <1>4, WaitSet

\* A release gives no lease back that another batch waits with.
LEMMA WaitRelease ==
    ASSUME Disjoint, CoreInv, WaitInv, ReleaseBatch
    PROVE  WaitInv'
<1>1. Key \in Keys /\ held \ batch[Key].leases \subseteq held'  BY ReleaseEffect DEF CoreInv
<1>2. UNCHANGED <<batch, pendingRows>> /\ worker.pc = "release" /\ coreUp  BY DEF ReleaseBatch, At
<1>3. batch[Key].status \in {"merged", "released"}  BY <1>2 DEF CoreInv, KeyInv
<1>4. ASSUME NEW m \in Keys, NEW l \in batch[m].leases, l \in held,
             batch[m].status \notin {"merged", "released"}
      PROVE  l \in held'
  <2>1. m # Key  BY <1>3, <1>4
  <2>2. l \notin batch[Key].leases  BY <1>1, <2>1, BatchesApart
  <2> QED  BY <1>1, <1>4, <2>2
<1> QED  BY <1>2, <1>4, WaitRest

\* A mark takes no pending row of another batch.
LEMMA WaitMark ==
    ASSUME Disjoint, CoreInv, WaitInv, MarkReleased
    PROVE  WaitInv'
<1>1. Key \in Keys /\ SetBatch(Key, "released", batch[Key].leases, batch[Key].alive)  BY MarkEffect DEF CoreInv
<1>2. held' = held /\ worker.pc = "mark" /\ coreUp
      /\ pendingRows' \in {pendingRows, pendingRows \ batch[Key].leases}
  BY DEF MarkReleased, At, stepVars
<1>3. ASSUME NEW k \in Keys, k = Key PROVE Waits(k)' /\ Shown(k)'  BY <1>1, <1>2, <1>3 DEF SetBatch, Waits, Shown
<1>4. ASSUME NEW m \in Keys, m # Key, NEW l \in batch[m].leases
      PROVE  l \in pendingRows' <=> l \in pendingRows
  <2>1. l \notin batch[Key].leases  BY <1>1, <1>4, BatchesApart
  <2> QED  BY <1>2, <2>1
<1> QED  BY <1>1, <1>2, <1>3, <1>4, WaitSet

\* A lease that is shown is of the batch that is shown.
LEMMA WaitShown ==
    ASSUME Disjoint, CoreInv, WaitInv, ProjectPending
    PROVE  WaitInv'
<1>1. UNCHANGED <<held, batch>> /\ worker.pc = "project" /\ coreUp  BY DEF ProjectPending, At, stepVars
<1>2. PICK l0 \in worker.left :
                 /\ pendingRows' = pendingRows \cup {l0}
                 /\ \/ worker.left = {l0} /\ Advanced
                    \/ worker.left # {l0} /\ Projects(worker.left \ {l0})
  BY ShownEffect DEF CoreInv
<1>3. /\ Key \in Keys /\ l0 \in batch[Key].leases
      /\ batch[Key].status \in {"merged", "needs_user"}
  BY <1>1, ShownEffect DEF CoreInv, KeyInv
<1>4. ASSUME NEW k \in Keys PROVE Waits(k)' /\ Shown(k)'
  <2>1. Waits(k) /\ Shown(k)  BY DEF WaitInv
  <2>2. k # Key => l0 \notin batch[k].leases  BY <1>3, BatchesApart
  <2>3. Waits(k)'  BY <1>1, <1>2, <1>3, <2>1, <2>2 DEF Waits
  <2>4. Shown(k)'
    <3>1. SUFFICES ASSUME batch[k].status = "needs_user" PROVE Shown(k)'  BY <1>1 DEF Shown
    <3>2. batch[k].leases \subseteq pendingRows
          \/ (k = Key /\ batch[k].leases \subseteq pendingRows \cup worker.left)
      BY <1>1, <2>1, <3>1 DEF Shown
    <3>3. CASE worker.left = {l0}
      <4>1. batch[k].leases \subseteq pendingRows'  BY <1>2, <3>2, <3>3
      <4> QED  BY <1>1, <4>1 DEF Shown
    <3>4. CASE Projects(worker.left \ {l0})  BY <1>1, <1>2, <3>2, <3>4 DEF Shown, Projects
    <3> QED  BY <1>2, <3>3, <3>4
  <2> QED  BY <2>3, <2>4
<1> QED  BY <1>4 DEF WaitInv

\* A crash leaves what waits as it is, until the recovery has shown it.
LEMMA WaitCrash ==
    ASSUME CoreInv, WaitInv, CoreDies \/ CoreStarts
    PROVE  WaitInv'
<1>1. UNCHANGED <<held, pendingRows>>  BY DEF CoreDies, CoreStarts, stepVars
<1>2. ASSUME NEW k \in Keys PROVE Waits(k)'  BY <1>1, DiesEffect, WaitsFrame DEF WaitInv, CoreInv, CoreStarts
<1>3. ASSUME NEW k \in Keys PROVE Shown(k)'
  <2>1. CASE CoreDies  BY <2>1 DEF Shown, CoreDies
  <2>2. CASE CoreStarts
    <3>1. worker'.pc = "recover" /\ Listed' = Keys  BY <2>2, StartsEffect DEF CoreInv
    <3> QED  BY <3>1 DEF Shown
  <2> QED  BY <2>1, <2>2
<1> QED  BY <1>2, <1>3 DEF WaitInv

\* The recovery shows what it finds.
LEMMA WaitRecover ==
    ASSUME Disjoint, CoreInv, WaitInv, RecoverBatch
    PROVE  WaitInv'
<1>1. /\ Key \in Keys /\ worker'.pc = "recover"
      /\ Listed' \subseteq Listed /\ Listed \subseteq {Key} \cup Listed'
  BY RecoverEffect DEF CoreInv
<1>2. worker.pc = "recover" /\ coreUp /\ coreUp'  BY DEF RecoverBatch, At
<1>3. ASSUME NEW k \in Keys, k # Key, batch'[k] = batch[k],
             held \ batch[Key].leases \subseteq held',
             pendingRows \subseteq pendingRows',
             pendingRows' \subseteq pendingRows \cup batch[Key].leases
      PROVE  Waits(k)' /\ Shown(k)'
  <2>1. Waits(k) /\ Shown(k) /\ batch[k].leases \cap batch[Key].leases = {}  BY <1>1, <1>3, BatchesApart DEF WaitInv
  <2>2. Waits(k)'  BY <1>3, <2>1, WaitsFrame
  <2>3. Shown(k)'  BY <1>1, <1>2, <1>3, <2>1 DEF Shown
  <2> QED  BY <2>2, <2>3
<1>4. CASE batch[Key].status = "merged"
  <2>1. /\ pendingRows' = pendingRows /\ held \ batch[Key].leases \subseteq held'
        /\ \A k \in Keys : k # Key => batch'[k] = batch[k]
        /\ batch'[Key].status \in {"merged", "released"}
    BY <1>4, RecoverEffect DEF CoreInv, SetBatch
  <2>2. ASSUME NEW k \in Keys, k = Key PROVE Waits(k)' /\ Shown(k)'  BY <2>1, <2>2 DEF Waits, Shown
  <2> QED  BY <1>3, <2>1, <2>2 DEF WaitInv
<1>5. CASE batch[Key].status = "needs_user"
  <2>1. batch[Key].leases \subseteq held  BY <1>1, <1>5 DEF WaitInv, Waits
  <2>2. batch' = batch /\ held' = held /\ pendingRows' = pendingRows \cup batch[Key].leases
    BY <1>5, <2>1, RecoverEffect DEF CoreInv
  <2>3. ASSUME NEW k \in Keys, k = Key PROVE Waits(k)' /\ Shown(k)'  BY <1>5, <2>1, <2>2, <2>3 DEF Waits, Shown
  <2> QED  BY <1>3, <2>2, <2>3 DEF WaitInv
<1>6. CASE batch[Key].status \notin {"merged", "needs_user"}
  <2>1. batch' = batch /\ held' = held /\ pendingRows' = pendingRows  BY <1>6, RecoverEffect DEF CoreInv
  <2>2. ASSUME NEW k \in Keys, k = Key PROVE Waits(k)' /\ Shown(k)'  BY <1>6, <2>1, <2>2 DEF WaitInv, Waits, Shown
  <2> QED  BY <1>3, <2>1, <2>2 DEF WaitInv
<1> QED  BY <1>4, <1>5, <1>6

\* When the recovery is over everything is shown.
LEMMA WaitRecovered ==
    ASSUME CoreInv, WaitInv, RecoveryFlushes
    PROVE  WaitInv'
<1> QED  BY RecoveryFlushEffect DEF WaitInv, Waits, Shown, RecoveryFlushes, At, stepVars, CoreInv

\* Every step keeps what waits held, and what needs its user shown.
LEMMA WaitNext ==
    ASSUME Disjoint, CoreInv, KindInv, WaitInv, JoinNext
    PROVE  WaitInv'
<1>1. \A j \in DOMAIN Joins : DispatchJoin(j) => WaitInv'  BY WaitDispatch
<1>2. TickReclaims \/ ClaimBatch \/ ResolveBatch => WaitInv'  BY WaitReclaim, WaitClaim, WaitResolveBatch
<1>3. ConcludeMerged \/ ConcludeConflict \/ ReleaseBatch \/ MarkReleased \/ ProjectPending
      => WaitInv'
  BY WaitMerged, WaitConflict, WaitRelease, WaitMark, WaitShown
<1>4. CoreDies \/ CoreStarts \/ RecoverBatch \/ RecoveryFlushes => WaitInv'  BY WaitCrash, WaitRecover, WaitRecovered
<1> QED  BY WaitSteps, <1>1, WaitTurns, <1>2, <1>3, <1>4 DEF JoinNext

----
(* One join: nothing is left behind.                                       *)

\* A batch that has been claimed is about some lease.
LEMMA FullNext ==
    ASSUME CoreInv, FullInv, JoinNext
    PROVE  FullInv'
<1> USE DEF CoreInv
<1>1. CASE ClaimBatch
  <2>1. Authoritative(Key) # {}  BY <1>1 DEF ClaimBatch, Mergeable, Claimable
  <2> QED  BY <1>1, ClaimEffect, <2>1 DEF FullInv, SetBatch
<1>2. CASE TickReclaims  BY <1>2, ReclaimEffect DEF FullInv, Orphaned
<1>3. CASE ResolveBatch  BY <1>3, ResolveBatchEffect DEF FullInv, SetBatch
<1>4. CASE ConcludeMerged \/ ConcludeConflict \/ MarkReleased
  <2>1. batch[Key].status # "none"  BY <1>4 DEF ConcludeMerged, ConcludeConflict, MarkReleased, At, KeyInv
  <2> QED  BY <1>4, MergedEffect, ConflictEffect, MarkEffect, <2>1 DEF FullInv, SetBatch
<1>5. CASE CoreDies  BY <1>5, DiesEffect DEF FullInv
<1>6. CASE RecoverBatch  BY <1>6, RecoverEffect DEF FullInv, SetBatch
<1>7. CASE batch' = batch  BY <1>7 DEF FullInv
<1> QED
  BY <1>1, <1>2, <1>3, <1>4, <1>5, <1>6, <1>7 DEF JoinNext, SucceedStep, FailStep, RetryStep, SkipStep, DispatchJoin,
    BeginSettle, BeginFlush, BeginResolve, EndJob, ClaimRefused, PassOver, ProviderMerges, ProviderConflicts,
    ReleaseBatch, ProjectPending, CoreStarts, RecoveryFlushes, stepVars

\* What is owed stays owed when nothing that covers it is taken away.
LEMMA OweFrame ==
    ASSUME NEW k, NEW l, Owed(k, l),
           batch'[k].leases = batch[k].leases,
           batch'[k].status = "ready" => batch[k].status = "ready",
           \A job \in jobs : Covers(job, k) /\ job # Job => job # Job' /\ Covers(job, k)',
           \A job \in jobs : Covers(job, k) /\ job = Job /\ Coming(k) =>
               Covers(job, k)' /\ (job = Job' => Coming(k)'),
           Coming(k) /\ Working => Taken(k)',
           coreUp' /\ worker'.pc # "recover" => coreUp /\ worker.pc # "recover"
    PROVE  Owed(k, l)'
<1>1. ASSUME Covered(k) PROVE Covered(k)'
  <2>1. PICK job \in jobs : Covers(job, k) /\ (job = Job => Coming(k))  BY <1>1 DEF Covered
  <2>2. Covers(job, k)' /\ (job = Job' => Coming(k)')  BY <2>1
  <2>3. job \in jobs'  BY <2>2 DEF Covers
  <2> QED  BY <2>2, <2>3 DEF Covered
<1>2. ASSUME Taken(k) PROVE Taken(k)'
  <2>1. CASE Coming(k) /\ Working  BY <2>1
  <2>2. CASE \E job \in jobs : Covers(job, k) /\ job # Job
    <3>1. PICK job \in jobs : Covers(job, k) /\ job # Job  BY <2>2
    <3>2. Covers(job, k)' /\ job # Job'  BY <3>1
    <3>3. job \in jobs'  BY <3>2 DEF Covers
    <3> QED  BY <3>2, <3>3 DEF Taken
  <2> QED  BY <1>2, <2>1, <2>2 DEF Taken
<1> QED  BY <1>1, <1>2 DEF Owed

\* An action that is to be executed and is not being executed covers what it covers.
LEMMA CoveredOwed ==
    ASSUME NEW k, NEW l, NEW job \in jobs', Covers(job, k)', job # Job'
    PROVE  Owed(k, l)'
BY DEF Owed, Covered, Taken

\* What is coming while a job works is owed to nobody else.
LEMMA ComingOwed ==
    ASSUME NEW k, NEW l, Coming(k)', Working', batch'[k].leases = batch[k].leases,
           l \notin batch[k].leases => Covered(k),
           \A job \in jobs : Covers(job, k) => Covers(job, k)'
    PROVE  Owed(k, l)'
<1>1. ASSUME Covered(k) PROVE Covered(k)'
  <2>1. PICK job \in jobs : Covers(job, k)  BY <1>1 DEF Covered
  <2>2. Covers(job, k)'  BY <2>1
  <2> QED  BY <2>2 DEF Covered, Covers
<1>2. Taken(k)'  BY DEF Taken
<1> QED  BY <1>1, <1>2 DEF Owed

\* What a job covers it covers while its lease is held and its batch keeps its leases.
LEMMA CoversFrame ==
    ASSUME NEW k, NEW job, Covers(job, k), job \in jobs',
           batch'[k].leases = batch[k].leases,
           job[1] = "settle" /\ job[2] \in held \ batch[k].leases /\ Owns(k, job[2][1])
               => job[2] \in held'
    PROVE  Covers(job, k)'
BY DEF Covers

\* What is stuck is stuck for the store alone.
LEMMA StuckFrame ==
    ASSUME NEW k \in JoinKeys, NEW l, Stuck(l, k)', UNCHANGED <<stepStatus, attempt>>,
           held' \subseteq held,
           l \in held /\ l \notin pendingRows' => l \notin pendingRows
    PROVE  Stuck(l, k)
BY DEF Stuck, Ready, Complete, Terminal, Authoritative, LeaseOf

\* No job of the outbox is any other job.
LEMMA OtherJobs ==
    ASSUME JoinTypeInv, NEW job \in jobs
    PROVE  job[1] \notin {"none", "tick", "start", "resolve"} /\ job # <<"none", <<0, 0>>>>
           /\ job # <<"tick", <<0, 0>>>> /\ job # <<"start", <<0, 0>>>>
           /\ job # <<"resolve", <<0, 0>>>>
<1>1. job[1] \in {"settle", "fail", "skip"}  BY JobTypes DEF Posted
<1> QED  BY <1>1

\* One join has one key, and shares no parent.
LEMMA LoneFacts ==
    ASSUME Lone
    PROVE  Disjoint /\ \A k, m \in JoinKeys : k = m
<1>1. \A k, m \in JoinKeys : k = m  BY KeyShape DEF Lone
<1> QED  BY <1>1 DEF Lone, Disjoint

\* What is owed stays owed when the job stays and nothing is taken away from it.
LEMMA OweKeep ==
    ASSUME NEW k, NEW l, Owed(k, l), Job' = Job, coreUp, worker.pc # "recover",
           batch'[k].leases = batch[k].leases,
           batch'[k].status = "ready" => batch[k].status = "ready",
           Coming(k) => Coming(k)',
           \A job \in jobs : Covers(job, k) => Covers(job, k)'
    PROVE  Owed(k, l)'
<1>1. Coming(k) /\ Working => Taken(k)'  BY DEF Taken, Working
<1> QED  BY <1>1, OweFrame

\* An action that covers a batch and is taken up with it owes it nothing more.
LEMMA TurnOwed ==
    ASSUME NEW k, NEW l, NEW job \in jobs', Covers(job, k)',
           job = Job' => Coming(k)' /\ Working'
    PROVE  Owed(k, l)'
BY DEF Owed, Covered, Taken

\* What is covered is covered when the worker leaves its job for none of the outbox.
LEMMA SomeOwed ==
    ASSUME JoinTypeInv, NEW k, NEW l, NEW job \in jobs, Covers(job, k), jobs' = jobs,
           held' = held, batch'[k].leases = batch[k].leases, Job' # job
    PROVE  Owed(k, l)'
BY CoversFrame, CoveredOwed

\* A step succeeds.
LEMMA OweSucceed ==
    ASSUME CoreInv, JobsInv, OweInv, NEW p \in Parents, SucceedStep(p),
           NEW k \in JoinKeys, NEW l \in Lease, Stuck(l, k)'
    PROVE  Owed(k, l)'
<1> DEFINE new == <<"settle", LeaseOf(p)>>
<1>1. /\ Listed' = Listed /\ Job' = Job /\ Key' = Key
      /\ \A q \in Parents : q # p => stepStatus'[q] = stepStatus[q]
  BY SucceedEffect DEF CoreInv
<1>2. /\ stepStatus[p] = "running" /\ jobs' = jobs \cup {new}
      /\ UNCHANGED <<attempt, held, batch, pendingRows, worker, coreUp>>
  BY DEF SucceedStep, faultVars
<1>3. new[1] = "settle" /\ new[2] = LeaseOf(p) /\ new[2][1] = p  BY DEF LeaseOf
<1> HIDE DEF new
<1>4. new # Job
  <2>1. SUFFICES ASSUME new = Job PROVE FALSE  OBVIOUS
  <2>2. stepStatus[Job[2][1]] = "succeeded"  BY <1>3, <2>1, SettleJob
  <2> QED  BY <1>2, <1>3, <2>1, <2>2
<1>5. CASE Owns(k, p)
  <2>1. k \in Keys /\ LeaseOf(p) \in held  BY <1>2, KeyShape DEF CoreInv, HeldInv
  <2>2. Covers(new, k)'  BY <1>3, <1>5, <1>2, <2>1 DEF Covers, new, LeaseOf, CoreInv, BatchInv, LeasesOK
  <2>3. new \in jobs'  BY <1>2
  <2>4. new' = new  BY <1>2 DEF new, LeaseOf
  <2> QED  BY <1>1, <1>4, <2>2, <2>3, <2>4 DEF Owed, Covered, Taken
<1>6. CASE ~Owns(k, p)
  <2>1. Stuck(l, k)
    <3>1. Ready(k)  BY <1>1, <1>6, KeyShape, JoinAssumption DEF Stuck, Ready, Complete, Terminal, Owns, JoinAssumption
    <3>2. l \in Authoritative(k)  BY <1>1, <1>2, <1>6 DEF Stuck, Authoritative, LeaseOf, Lease
    <3> QED  BY <3>1, <3>2 DEF Stuck
  <2>2. Owed(k, l)  BY <2>1 DEF OweInv
  <2>3. Coming(k)' <=> Coming(k)  BY <1>1, <1>2 DEF Coming, AtBatch
  <2>4. Coming(k) /\ Working => Taken(k)'  BY <1>1, <2>3 DEF Taken, Working
  <2> QED  BY <1>1, <1>2, <2>2, <2>3, <2>4, OweFrame DEF Covers
<1> QED  BY <1>5, <1>6

\* A step fails.
LEMMA OweFail ==
    ASSUME CoreInv, JobsInv, NEW p \in Parents, FailStep(p), NEW k \in JoinKeys, NEW l \in Lease
    PROVE  Owed(k, l)'
<1>1. /\ stepStatus[p] = "running" /\ jobs' = jobs \cup {<<"fail", LeaseOf(p)>>}
      /\ UNCHANGED worker
  BY DEF FailStep
<1>2. PICK new : new = <<"fail", LeaseOf(p)>>  OBVIOUS
<1>3. new[1] = "fail" /\ new[2] = LeaseOf(p) /\ new[2][1] = p /\ new \in jobs'  BY <1>1, <1>2 DEF LeaseOf
<1>4. new # Job
  <2>1. SUFFICES ASSUME new = Job PROVE FALSE  OBVIOUS
  <2>2. JobFresh(Job)  BY <1>3, <2>1 DEF JobsInv
  <2>3. Terminal(p)  BY <1>3, <2>1, <2>2 DEF JobFresh
  <2> QED  BY <1>1, <2>3 DEF Terminal
<1>5. Covers(new, k)'  BY <1>3 DEF Covers
<1>6. Job' = Job  BY <1>1 DEF Job
<1> QED  BY <1>3, <1>4, <1>5, <1>6, CoveredOwed

\* A step is retried or skipped.
LEMMA OweRetrySkip ==
    ASSUME CoreInv, OweInv, NEW p \in Parents, RetryStep(p) \/ SkipStep(p),
           NEW k \in JoinKeys, NEW l \in Lease, Stuck(l, k)'
    PROVE  Owed(k, l)'
<1>1. /\ Listed' = Listed /\ Job' = Job /\ Key' = Key
      /\ UNCHANGED <<batch, pendingRows, worker, coreUp>> /\ jobs \subseteq jobs'
      /\ held \subseteq held'
  BY RetryEffect, SkipEffect DEF CoreInv, RetryStep, SkipStep, faultVars
<1>2. k[2] \in DOMAIN Joins /\ Joins[k[2]] \subseteq Parents /\ (Owns(k, p) <=> p \in Joins[k[2]])
  BY KeyShape, JoinAssumption DEF Owns, JoinAssumption
<1>3. l[1] \in Parents /\ Owns(k, l[1])  BY DEF Stuck, Authoritative, Lease
<1>4. Stuck(l, k)
  <2>1. CASE RetryStep(p)
    <3>1. /\ stepStatus'[p] = "running" /\ held' = held \cup {<<p, attempt[p] + 1>>}
          /\ \A q \in Parents : q # p => stepStatus'[q] = stepStatus[q]
          /\ \A q \in Parents : q # p => LeaseOf(q)' = LeaseOf(q)
      BY <2>1, RetryEffect DEF CoreInv, RetryStep
    <3>2. p \notin Joins[k[2]]  BY <3>1 DEF Stuck, Ready, Complete, Terminal
    <3>3. Ready(k)  BY <1>2, <3>1, <3>2 DEF Stuck, Ready, Complete, Terminal
    <3>4. l[1] # p /\ l # <<p, attempt[p] + 1>>  BY <1>2, <1>3, <3>2
    <3>5. l \in Authoritative(k)  BY <1>1, <1>3, <3>1, <3>4 DEF Stuck, Authoritative
    <3> QED  BY <3>3, <3>5 DEF Stuck
  <2>2. CASE SkipStep(p)
    <3>1. /\ stepStatus[p] = "failed" /\ stepStatus'[p] = "skipped"
          /\ held' = held /\ attempt' = attempt
          /\ \A q \in Parents : q # p => stepStatus'[q] = stepStatus[q]
      BY <2>2, SkipEffect DEF CoreInv, SkipStep
    <3>2. Ready(k)  BY <1>2, <3>1 DEF Stuck, Ready, Complete, Terminal
    <3>3. l \in Authoritative(k)  BY <1>1, <1>3, <3>1 DEF Stuck, Authoritative, LeaseOf
    <3> QED  BY <3>2, <3>3 DEF Stuck
  <2> QED  BY <2>1, <2>2
<1>5. Owed(k, l)  BY <1>4 DEF OweInv
<1>6. Coming(k)' <=> Coming(k)  BY <1>1 DEF Coming, AtBatch
<1>7. Coming(k) /\ Working => Taken(k)'  BY <1>1, <1>6 DEF Taken, Working
<1> QED  BY <1>1, <1>5, <1>6, <1>7, OweFrame DEF Covers

\* A join is dispatched.
LEMMA OweDispatch ==
    ASSUME OweInv, NEW j \in DOMAIN Joins, DispatchJoin(j),
           NEW k \in JoinKeys, NEW l \in Lease, Stuck(l, k)'
    PROVE  Owed(k, l)'
<1>1. UNCHANGED <<stepStatus, attempt, held, batch, pendingRows, jobs, worker, coreUp>>  BY DEF DispatchJoin, faultVars
<1>2. Owed(k, l)  BY <1>1, StuckFrame DEF OweInv
<1>3. Listed' = Listed /\ Job' = Job /\ Key' = Key  BY <1>1 DEF Listed, Job, Key
<1>4. Coming(k)' <=> Coming(k)  BY <1>1, <1>3 DEF Coming, AtBatch
<1>5. Coming(k) /\ Working => Taken(k)'  BY <1>3, <1>4 DEF Taken, Working
<1> QED  BY <1>1, <1>2, <1>3, <1>4, <1>5, OweFrame DEF Covers

\* An idle worker takes up nothing.
LEMMA IdleFacts ==
    ASSUME CoreInv, worker.pc = "off"
    PROVE  Listed = {} /\ Job = <<"none", <<0, 0>>>>
BY OffFacts, NoKeys DEF CoreInv, WorkerInv, Listed, KeysIn, Job

\* A batch that is owed by a worker with nothing to do is covered by an action, or is not
\* ready.
LEMMA IdleOwed ==
    ASSUME NEW k, NEW l, Owed(k, l), coreUp, worker.pc # "recover", k \notin Listed,
           l \notin batch[k].leases \/ batch[k].status = "ready"
    PROVE  \E job \in jobs : Covers(job, k) /\ job # Job
BY DEF Owed, Covered, Taken, Coming

\* A job begins.
LEMMA OweBegins ==
    ASSUME CoreInv, OweInv,
           (\E p \in Parents : BeginSettle(p)) \/ BeginFlush \/ BeginResolve,
           NEW k \in JoinKeys, NEW l \in Lease, Stuck(l, k)'
    PROVE  Owed(k, l)'
<1>1. UNCHANGED <<stepStatus, attempt, held, batch, pendingRows, jobs>> /\ coreUp
      /\ worker.pc = "off"
  BY DEF BeginSettle, BeginFlush, BeginResolve, stepVars
<1>2. Owed(k, l) /\ k \in Keys  BY <1>1, StuckFrame, KeyShape DEF OweInv
<1>3. k \notin Listed  BY <1>1, IdleFacts
<1>4. CASE l \in batch[k].leases /\ batch[k].status # "ready"  BY <1>1, <1>4 DEF Owed
<1>5. CASE l \notin batch[k].leases \/ batch[k].status = "ready"
  <2>1. PICK job \in jobs : Covers(job, k) /\ job # Job  BY <1>1, <1>2, <1>3, <1>5, IdleOwed
  <2>2. job = Job' => Coming(k)' /\ Working'
    <3>1. CASE BeginFlush  BY <3>1, FlushEffect DEF Begun, Coming, Working, CoreInv
    <3>2. CASE BeginResolve
      <4>1. Job' = <<"resolve", <<0, 0>>>>  BY <3>2, ResolveEffect DEF CoreInv, Begun
      <4> QED  BY <4>1, OtherJobs DEF CoreInv
    <3>3. ASSUME NEW p \in Parents, BeginSettle(p), job = Job'
          PROVE  Coming(k)' /\ Working'
      <4>1. \/ /\ LeaseOf(p) \in held
               /\ Begun(<<"settle", LeaseOf(p)>>, {m \in Keys : Owns(m, p)})
            \/ LeaseOf(p) \notin held /\ Begun(<<"settle", LeaseOf(p)>>, {})
        BY <3>3, SettleEffect DEF CoreInv
      <4>2. job = <<"settle", LeaseOf(p)>> /\ job[1] = "settle" /\ job[2] = LeaseOf(p)
            /\ job[2][1] = p
        BY <3>3, <4>1 DEF Begun, LeaseOf
      <4>3. LeaseOf(p) \in held /\ Owns(k, p)  BY <2>1, <4>2 DEF Covers
      <4> QED  BY <1>2, <3>3, <4>1, <4>2, <4>3 DEF Coming, Working, Begun
    <3> QED  BY <3>1, <3>2, <3>3
  <2> QED  BY <1>1, <2>1, <2>2, TurnOwed DEF Covers
<1> QED  BY <1>4, <1>5

\* A flush of everything begins.
LEMMA OweFlushes ==
    ASSUME CoreInv, OweInv, TickReclaims \/ RecoveryFlushes,
           NEW k \in JoinKeys, NEW l \in Lease, Stuck(l, k)'
    PROVE  Owed(k, l)'
<1>1. UNCHANGED <<stepStatus, attempt, held, pendingRows, jobs>>  BY DEF TickReclaims, RecoveryFlushes, stepVars
<1>2. Owed(k, l) /\ k \in Keys  BY <1>1, StuckFrame, KeyShape DEF OweInv
<1>3. batch'[k].leases = batch[k].leases  BY <1>2, ReclaimEffect DEF CoreInv, RecoveryFlushes
<1>4. Coming(k)' /\ Working'  BY <1>2, ReclaimEffect, RecoveryFlushEffect DEF Begun, Coming, Working, CoreInv
<1> QED  BY <1>2, <1>3, <1>1, <1>4, ComingOwed DEF Owed, Covers

\* A job is over.
LEMMA OweEnds ==
    ASSUME CoreInv, OweInv, EndJob, NEW k \in JoinKeys, NEW l \in Lease, Stuck(l, k)'
    PROVE  Owed(k, l)'
<1>1. UNCHANGED <<stepStatus, attempt, held, batch, pendingRows>> /\ coreUp
      /\ worker.pc = "next" /\ jobs' = jobs \ {Job}
  BY DEF EndJob, At, stepVars
<1>2. Owed(k, l)  BY <1>1, StuckFrame DEF OweInv
<1>3. Listed = {} /\ Job' = <<"none", <<0, 0>>>>  BY EndEffect DEF CoreInv, Idle
<1>4. CASE l \in batch[k].leases /\ batch[k].status # "ready"  BY <1>1, <1>4 DEF Owed
<1>5. CASE l \notin batch[k].leases \/ batch[k].status = "ready"
  <2>1. PICK job \in jobs : Covers(job, k) /\ job # Job  BY <1>1, <1>2, <1>3, <1>5, IdleOwed
  <2>2. job \in jobs' /\ Covers(job, k)' /\ job # Job'  BY <1>1, <1>3, <2>1, CoversFrame, OtherJobs DEF CoreInv
  <2> QED  BY <2>2, CoveredOwed
<1> QED  BY <1>4, <1>5

\* A crash and the start that follows leave the actions to be executed again.
LEMMA OweCrash ==
    ASSUME CoreInv, OweInv, CoreDies \/ CoreStarts,
           NEW k \in JoinKeys, NEW l \in Lease, Stuck(l, k)'
    PROVE  Owed(k, l)'
<1>1. UNCHANGED <<stepStatus, attempt, held, pendingRows, jobs>>  BY DEF CoreDies, CoreStarts, stepVars
<1>2. Owed(k, l) /\ k \in Keys  BY <1>1, StuckFrame, KeyShape DEF OweInv
<1>3. batch'[k].leases = batch[k].leases /\ Job' = <<"none", <<0, 0>>>>
  BY <1>2, DiesEffect, StartsEffect DEF CoreInv, CoreStarts, Idle
<1>4. CASE l \in batch[k].leases  BY <1>3, <1>4, StartsEffect DEF CoreInv, Owed, CoreDies
<1>5. CASE l \notin batch[k].leases
  <2>1. PICK job \in jobs : Covers(job, k)  BY <1>2, <1>5 DEF Owed, Covered
  <2>2. job # Job'  BY <1>3, OtherJobs DEF CoreInv
  <2> QED  BY <1>1, <1>3, <2>1, <2>2, SomeOwed DEF CoreInv
<1> QED  BY <1>4, <1>5

\* What a batch that waits is about is what the store says belongs to it.
LEMMA BatchAuthoritative ==
    ASSUME CoreInv, WaitInv, NEW k \in Keys, batch[k].status = "ready"
    PROVE  batch[k].leases \subseteq Authoritative(k)
<1> QED  BY DEF CoreInv, BatchInv, LeasesOK, Authoritative, WaitInv, Waits

\* A refusal of a batch that is ready finds a lease the batch is not about.
LEMMA RefusedLease ==
    ASSUME CoreInv, JobsInv, SettleInv, WaitInv, NEW k \in Keys, k = Key, k \in Listed,
           worker.pc = "next", Refused(k), batch[k].status = "ready", batch[k].leases # {}
    PROVE  \E l \in Lease : l \in Authoritative(k) /\ l \notin batch[k].leases
<1>1. Collected(k) \subseteq Authoritative(k)
  <2>1. SUFFICES ASSUME Job[1] = "settle", Job[2] \notin pendingRows
                 PROVE  Job[2] \in Authoritative(k)
    BY DEF Collected
  <2>2. Owns(k, Job[2][1]) /\ Job[2] \in held  BY <2>1 DEF SettleInv
  <2> QED  BY <2>1, <2>2, SettleJob DEF Authoritative
<1>2. batch[k].leases # Authoritative(k)  BY <1>1 DEF Refused
<1>3. batch[k].leases \subseteq Authoritative(k)  BY BatchAuthoritative
<1>4. Authoritative(k) \subseteq Lease  BY TypeParts DEF CoreInv, Authoritative
<1> QED  BY <1>2, <1>3, <1>4

\* What a refused claim leaves is covered by an action.
LEMMA RefusedCovered ==
    ASSUME CoreInv, JobsInv, SettleInv, WaitInv, OweInv, NEW k \in JoinKeys, k = Key,
           k \in Listed, worker.pc = "next", Refused(k), NEW l \in Lease, Stuck(l, k),
           l \notin batch[k].leases \/ batch[k].status = "ready"
    PROVE  \E job \in jobs : Covers(job, k)
<1>1. k \in Keys  BY KeyShape
<1>2. CASE l \notin batch[k].leases  BY <1>2 DEF OweInv, Owed, Covered
<1>3. CASE l \in batch[k].leases
  <2>1. PICK m \in Lease : m \in Authoritative(k) /\ m \notin batch[k].leases  BY <1>1, <1>3, RefusedLease
  <2>2. Stuck(m, k)  BY <2>1 DEF Stuck
  <2> QED  BY <2>1, <2>2 DEF OweInv, Owed, Covered
<1> QED  BY <1>2, <1>3

\* A claim is refused.
LEMMA OweRefused ==
    ASSUME Lone, CoreInv, JobsInv, SettleInv, WaitInv, OweInv, ClaimRefused,
           NEW k \in JoinKeys, NEW l \in Lease, Stuck(l, k)'
    PROVE  Owed(k, l)'
<1>1. /\ UNCHANGED <<stepStatus, attempt, held, batch, pendingRows, jobs>>
      /\ coreUp /\ worker.pc = "next" /\ Refused(Key)
  BY DEF ClaimRefused, At, stepVars
<1>2. Stuck(l, k) /\ Owed(k, l) /\ k \in Keys  BY <1>1, StuckFrame, KeyShape DEF OweInv
<1>3. /\ Key \in Keys /\ Key \in Listed
      /\ \/ Job[1] \notin {"tick", "start"} /\ Idle
         \/ Job[1] \in {"tick", "start"} /\ Key \in JoinKeys /\ Begun(Job, SingleKeys)
         \/ Job[1] \in {"tick", "start"} /\ Key \notin JoinKeys /\ Advanced
  BY RefusedEffect DEF CoreInv
<1>4. CASE l \in batch[k].leases /\ batch[k].status # "ready"  BY <1>1, <1>4 DEF Owed
<1>5. ASSUME NEW job \in jobs, Covers(job, k), Job' # job
      PROVE  Owed(k, l)'
  BY <1>1, <1>5, SomeOwed DEF CoreInv
<1>6. ASSUME k = Key, l \notin batch[k].leases \/ batch[k].status = "ready"
      PROVE  \E job \in jobs : Covers(job, k)
  BY <1>1, <1>2, <1>3, <1>6, RefusedCovered
<1>7. CASE /\ l \notin batch[k].leases \/ batch[k].status = "ready"
           /\ Job[1] \notin {"tick", "start"} /\ Idle
  <2>1. \A job \in jobs : Job' # job  BY <1>7, OtherJobs DEF CoreInv, Idle
  <2>2. \E job \in jobs : Covers(job, k)
    <3>1. CASE ~(Coming(k) /\ Working)  BY <1>1, <1>2, <1>7, <3>1 DEF Owed, Covered, Taken
    <3>2. CASE Coming(k) /\ Job[1] \in {"fail", "skip"}  BY <3>2 DEF JobsInv, Covers
    <3>3. CASE Coming(k) /\ Job[1] = "settle"
      <4>1. k \in Listed /\ Job[2][1] \in Parents  BY <3>3, SettleJob DEF Coming
      <4>2. k = Key  BY <1>2, <1>3, <4>1, <1>1, <3>3, OwnsOne, LoneFacts DEF SettleInv
      <4> QED  BY <1>6, <1>7, <4>2
    <3> QED  BY <1>7, <3>1, <3>2, <3>3 DEF Working
  <2> QED  BY <1>5, <2>1, <2>2
<1>8. CASE /\ l \notin batch[k].leases \/ batch[k].status = "ready"
           /\ Job[1] \in {"tick", "start"} /\ Key \in JoinKeys /\ Begun(Job, SingleKeys)
  <2>1. k = Key  BY <1>8, LoneFacts
  <2>2. PICK job \in jobs : Covers(job, k)  BY <1>6, <1>8, <2>1
  <2>3. Job' # job  BY <1>8, OtherJobs DEF CoreInv, Begun
  <2> QED  BY <1>5, <2>2, <2>3
<1>9. CASE Key \notin JoinKeys /\ Advanced
  <2>1. Coming(k) => Coming(k)'  BY <1>1, <1>9 DEF Coming, Advanced, AtBatch
  <2> QED  BY <1>1, <1>2, <1>9, <2>1, OweKeep DEF Advanced, Covers
<1> QED  BY <1>3, <1>4, <1>7, <1>8, <1>9

\* A batch is passed over.
LEMMA OwePass ==
    ASSUME Lone, CoreInv, FullInv, OweInv, PassOver,
           NEW k \in JoinKeys, NEW l \in Lease, Stuck(l, k)'
    PROVE  Owed(k, l)'
<1>1. /\ UNCHANGED <<stepStatus, attempt, held, batch, pendingRows, jobs>>
      /\ coreUp /\ worker.pc = "next" /\ Advanced
      /\ Mergeable(Key) => ~Refused(Key) /\ ~Claimable(Key)
  BY PassEffect DEF PassOver, At, stepVars, CoreInv
<1>2. Stuck(l, k) /\ Owed(k, l) /\ k \in Keys  BY <1>1, StuckFrame, KeyShape DEF OweInv
<1>3. CASE k = Key
  <2>1. l \in Authoritative(k) /\ Complete(k[2])  BY <1>2 DEF Stuck, Ready
  <2>2. l \in Collected(k)  BY <2>1 DEF Collected
  <2>3. Mergeable(k)  BY <2>1, <2>2 DEF Mergeable
  <2>4. ~Refused(k) /\ ~Claimable(k)  BY <1>1, <1>3, <2>3
  <2>5. batch[k].leases \in {{}, Authoritative(k)} /\ batch[k].status \notin {"none", "ready"}
    BY <2>4 DEF Refused, Claimable
  <2>6. l \in batch[k].leases  BY <1>2, <2>1, <2>5 DEF FullInv
  <2> QED  BY <1>1, <2>5, <2>6 DEF Owed
<1>4. CASE k # Key
  <2>1. Coming(k) => Coming(k)'  BY <1>1, <1>4 DEF Coming, Advanced, AtBatch
  <2> QED  BY <1>1, <1>2, <2>1, OweKeep DEF Advanced, Covers
<1> QED  BY <1>3, <1>4

\* A batch is claimed.
LEMMA OweClaim ==
    ASSUME CoreInv, OweInv, ClaimBatch, NEW k \in JoinKeys, NEW l \in Lease, Stuck(l, k)'
    PROVE  Owed(k, l)'
<1>1. /\ UNCHANGED <<stepStatus, attempt, held, pendingRows, jobs>>
      /\ coreUp /\ worker.pc = "next" /\ Moved("merge") /\ Key \in Keys
      /\ SetBatch(Key, "merging", Authoritative(Key), TRUE)
  BY ClaimEffect DEF ClaimBatch, At, stepVars, CoreInv
<1>2. Stuck(l, k) /\ Owed(k, l) /\ k \in Keys  BY <1>1, StuckFrame, KeyShape DEF OweInv
<1>3. CASE k = Key
  <2>1. l \in Authoritative(k)  BY <1>2 DEF Stuck
  <2> QED  BY <1>1, <1>3, <2>1 DEF Owed, SetBatch
<1>4. CASE k # Key
  <2>1. batch'[k] = batch[k]  BY <1>1, <1>2, <1>4 DEF SetBatch
  <2>2. Coming(k) => Coming(k)'  BY <1>1, <1>4 DEF Coming, Moved, AtBatch
  <2> QED  BY <1>1, <1>2, <2>1, <2>2, OweKeep DEF Moved, Covers
<1> QED  BY <1>3, <1>4

\* A resolution takes up a batch.
LEMMA OweResolves ==
    ASSUME CoreInv, OweInv, ResolveBatch, NEW k \in JoinKeys, NEW l \in Lease, Stuck(l, k)'
    PROVE  Owed(k, l)'
<1>1. /\ UNCHANGED <<stepStatus, attempt, held, pendingRows, jobs>>
      /\ coreUp /\ worker.pc = "next" /\ Job[1] = "resolve" /\ Key \in Keys /\ Job' = Job
      /\ worker'.pc # "recover"
      /\ \/ batch[Key].status = "needs_user" /\ SetBatch(Key, "resolving", batch[Key].leases, TRUE)
         \/ batch' = batch
  BY ResolveBatchEffect DEF ResolveBatch, At, stepVars, CoreInv, Moved
<1>2. Stuck(l, k) /\ Owed(k, l) /\ k \in Keys  BY <1>1, StuckFrame, KeyShape DEF OweInv
<1>3. \A job \in jobs : job # Job  BY <1>1, OtherJobs DEF CoreInv
<1> QED  BY <1>1, <1>2, <1>3, OweFrame DEF Working, Covers, SetBatch

\* The provider and the store conclude a merge.
LEMMA OweMerges ==
    ASSUME CoreInv, OweInv,
           ProviderMerges \/ ProviderConflicts \/ ConcludeMerged \/ ConcludeConflict,
           NEW k \in JoinKeys, NEW l \in Lease, Stuck(l, k)'
    PROVE  Owed(k, l)'
<1>1. /\ UNCHANGED <<stepStatus, attempt, held, pendingRows, jobs>>
      /\ coreUp /\ worker.pc \in {"merge", "conclude", "conflict"}
  BY DEF ProviderMerges, ProviderConflicts, ConcludeMerged, ConcludeConflict, At, stepVars
<1>2. /\ \/ Moved("conclude") \/ Moved("conflict") \/ Moved("release")
         \/ Advanced \/ Projects(batch[Key].leases)
      /\ Key \in Keys
      /\ \/ batch' = batch
         \/ SetBatch(Key, "merged", batch[Key].leases, FALSE)
         \/ SetBatch(Key, "needs_user", batch[Key].leases, FALSE)
  BY MergesEffect, ConflictsEffect, MergedEffect, ConflictEffect DEF CoreInv, ProviderMerges, ProviderConflicts
<1>3. Stuck(l, k) /\ Owed(k, l) /\ k \in Keys  BY <1>1, StuckFrame, KeyShape DEF OweInv
<1>4. Coming(k) => Coming(k)' /\ Job' = Job  BY <1>1, <1>2 DEF Coming, Moved, Advanced, Projects, AtBatch
<1>5. Job' = Job  BY <1>2 DEF Moved, Advanced, Projects
<1> QED  BY <1>1, <1>3, <1>2, <1>4, <1>5, OweKeep DEF Covers, SetBatch

\* A lease that a released batch is about covers no other batch.
LEMMA ReleaseCovers ==
    ASSUME Lone, CoreInv, NEW m \in Keys, held \ batch[m].leases \subseteq held',
           batch'[m].leases = batch[m].leases, NEW k \in Keys,
           batch'[k].leases = batch[k].leases, NEW job \in jobs, job \in jobs', Covers(job, k)
    PROVE  Covers(job, k)'
<1>1. SUFFICES ASSUME job[1] = "settle", job[2] \in held \ batch[k].leases,
                      Owns(k, job[2][1]), job[2] \in batch[m].leases
               PROVE  FALSE
  BY CoversFrame
<1>2. job[2][1] \in Parents /\ Owns(m, job[2][1])  BY <1>1, JobTypes DEF CoreInv, BatchInv, LeasesOK
<1>3. k = m  BY <1>1, <1>2, OwnsOne, LoneFacts
<1> QED  BY <1>1, <1>3

\* The leases of a batch are released.
LEMMA OweRelease ==
    ASSUME Lone, CoreInv, OweInv, ReleaseBatch, NEW k \in JoinKeys, NEW l \in Lease, Stuck(l, k)'
    PROVE  Owed(k, l)'
<1>1. /\ UNCHANGED <<stepStatus, attempt, batch, pendingRows, jobs>>
      /\ coreUp /\ worker.pc = "release"
  BY DEF ReleaseBatch, At
<1>2. /\ Key \in Keys
      /\ \E kept \in SUBSET (batch[Key].leases \cap held) :
            /\ held' = held \ (batch[Key].leases \ kept)
            /\ \/ kept = {} /\ Moved("mark")
               \/ kept # {} /\ Job[1] = "resolve" /\ Idle
               \/ kept # {} /\ Job[1] # "resolve" /\ Projects(kept)
  BY ReleaseEffect DEF CoreInv
<1>3. held' \subseteq held /\ held \ batch[Key].leases \subseteq held'
      /\ (Moved("mark") \/ (Job[1] = "resolve" /\ Idle) \/ \E L : Projects(L))
  BY <1>2
<1>4. Owed(k, l) /\ k \in Keys  BY <1>1, <1>3, StuckFrame, KeyShape DEF OweInv
<1>5. \A job \in jobs : Covers(job, k) => Covers(job, k)'  BY <1>1, <1>2, <1>3, <1>4, ReleaseCovers
<1>6. CASE Job[1] = "resolve" /\ Idle
  <2>1. \A job \in jobs : job # Job /\ job # Job'  BY <1>6, OtherJobs DEF CoreInv, Idle
  <2> QED  BY <1>1, <1>4, <1>5, <1>6, <2>1, OweFrame DEF Working
<1>7. CASE Moved("mark") \/ \E L : Projects(L)
  <2>1. Job' = Job /\ (Coming(k) => Coming(k)')  BY <1>1, <1>7 DEF Coming, Moved, Projects, AtBatch
  <2> QED  BY <1>1, <1>4, <1>5, <2>1, OweKeep
<1> QED  BY <1>3, <1>6, <1>7

\* A batch is marked as released.
LEMMA OweMark ==
    ASSUME CoreInv, OweInv, MarkReleased, NEW k \in JoinKeys, NEW l \in Lease, Stuck(l, k)'
    PROVE  Owed(k, l)'
<1>1. /\ UNCHANGED <<stepStatus, attempt, held, jobs>> /\ coreUp /\ worker.pc = "mark"
      /\ pendingRows' \in {pendingRows, pendingRows \ batch[Key].leases}
  BY DEF MarkReleased, At, stepVars
<1>2. Advanced /\ Key \in Keys /\ SetBatch(Key, "released", batch[Key].leases, batch[Key].alive)
  BY MarkEffect DEF CoreInv
<1>3. batch[Key].leases \cap held = {}  BY <1>1 DEF CoreInv, KeyInv
<1>4. Owed(k, l) /\ k \in Keys  BY <1>1, <1>3, StuckFrame, KeyShape DEF OweInv
<1>5. Coming(k) => Coming(k)'  BY <1>1, <1>2 DEF Coming, Advanced, AtBatch
<1> QED  BY <1>1, <1>2, <1>4, <1>5, OweKeep DEF Advanced, Covers, SetBatch

\* A lease is shown.
LEMMA OweShown ==
    ASSUME CoreInv, OweInv, ProjectPending, NEW k \in JoinKeys, NEW l \in Lease, Stuck(l, k)'
    PROVE  Owed(k, l)'
<1>1. /\ UNCHANGED <<stepStatus, attempt, held, batch, jobs>> /\ coreUp
      /\ worker.pc = "project"
  BY DEF ProjectPending, At, stepVars
<1>2. pendingRows \subseteq pendingRows' /\ (Advanced \/ \E L : Projects(L))  BY ShownEffect DEF CoreInv
<1>3. Owed(k, l)  BY <1>1, <1>2, StuckFrame DEF OweInv
<1>4. Job' = Job /\ (Coming(k) => Coming(k)')  BY <1>1, <1>2 DEF Coming, Advanced, Projects, AtBatch
<1> QED  BY <1>1, <1>3, <1>4, OweKeep DEF Covers

\* The recovery of a batch.
LEMMA OweRecover ==
    ASSUME Lone, CoreInv, OweInv, RecoverBatch, NEW k \in JoinKeys, NEW l \in Lease, Stuck(l, k)'
    PROVE  Owed(k, l)'
<1>1. UNCHANGED <<stepStatus, attempt, jobs>> /\ coreUp /\ worker.pc = "recover"  BY DEF RecoverBatch, At
<1>2. /\ Key \in Keys /\ worker'.pc = "recover" /\ Job' = Job
      /\ held' \subseteq held /\ held \ batch[Key].leases \subseteq held'
      /\ pendingRows \subseteq pendingRows'
      /\ \/ batch' = batch
         \/ SetBatch(Key, "released", batch[Key].leases, batch[Key].alive)
  BY RecoverEffect DEF CoreInv
<1>3. Owed(k, l) /\ k \in Keys  BY <1>1, <1>2, StuckFrame, KeyShape DEF OweInv
<1>4. \A m \in Keys : batch'[m].leases = batch[m].leases  BY <1>2 DEF SetBatch
<1>5. \A job \in jobs : Covers(job, k) => Covers(job, k)'  BY <1>1, <1>2, <1>3, <1>4, ReleaseCovers
<1>6. CASE l \in batch[k].leases  BY <1>2, <1>3, <1>4, <1>6 DEF Owed
<1>7. CASE l \notin batch[k].leases
  <2>1. PICK job \in jobs : Covers(job, k) /\ (job = Job => Coming(k))  BY <1>3, <1>7 DEF Owed, Covered
  <2>2. job # Job  BY <1>1, <2>1 DEF Coming, AtBatch
  <2> QED  BY <1>1, <1>2, <1>5, <2>1, <2>2, CoveredOwed
<1> QED  BY <1>6, <1>7

\* What is owed stays owed.
LEMMA OweNext ==
    ASSUME Lone, JoinInv, JoinNext
    PROVE  OweInv'
<1> USE DEF JoinInv, BatchesInv
<1>1. SUFFICES ASSUME NEW k \in JoinKeys, NEW l \in Lease, Stuck(l, k)'
               PROVE  Owed(k, l)'
  BY DEF OweInv
<1>2. ASSUME NEW p \in Parents, SucceedStep(p) \/ FailStep(p) \/ RetryStep(p) \/ SkipStep(p)
      PROVE  Owed(k, l)'
  BY <1>1, <1>2, OweSucceed, OweFail, OweRetrySkip
<1>3. ASSUME NEW j \in DOMAIN Joins, DispatchJoin(j) PROVE Owed(k, l)'  BY <1>1, <1>3, OweDispatch
<1>4. CASE (\E p \in Parents : BeginSettle(p)) \/ BeginFlush \/ BeginResolve  BY <1>1, <1>4, OweBegins
<1>5. CASE TickReclaims \/ RecoveryFlushes  BY <1>1, <1>5, OweFlushes
<1>6. CASE EndJob  BY <1>1, <1>6, OweEnds
<1>7. CASE CoreDies \/ CoreStarts  BY <1>1, <1>7, OweCrash
<1>8. CASE ClaimRefused  BY <1>1, <1>8, OweRefused
<1>9. CASE PassOver  BY <1>1, <1>9, OwePass
<1>10. CASE ClaimBatch  BY <1>1, <1>10, OweClaim
<1>11. CASE ResolveBatch  BY <1>1, <1>11, OweResolves
<1>12. CASE ProviderMerges \/ ProviderConflicts \/ ConcludeMerged \/ ConcludeConflict  BY <1>1, <1>12, OweMerges
<1>13. CASE ReleaseBatch  BY <1>1, <1>13, OweRelease
<1>14. CASE MarkReleased  BY <1>1, <1>14, OweMark
<1>15. CASE ProjectPending  BY <1>1, <1>15, OweShown
<1>16. CASE RecoverBatch  BY <1>1, <1>16, OweRecover
<1> QED  BY <1>2, <1>3, <1>4, <1>5, <1>6, <1>7, <1>8, <1>9, <1>10, <1>11, <1>12, <1>13, <1>14, <1>15,
     <1>16 DEF JoinNext

\* It holds at the start.
LEMMA BatchesInit ==
    ASSUME JoinInit
    PROVE  BatchesInv
<1>1. CoreInv  BY CoreInit
<1>2. JobsInv /\ KindInv /\ SettleInv  BY OffFacts DEF JoinInit, JobsInv, KindInv, SettleInv, Job
<1>3. WaitInv /\ FullInv  BY DEF WaitInv, Waits, Shown, FullInv, JoinInit, NoBatch
<1> QED  BY <1>1, <1>2, <1>3 DEF BatchesInv

\* It is kept by every step when no step is a parent of two joins.
LEMMA BatchesStep ==
    ASSUME Disjoint, BatchesInv, [JoinNext]_joinVars
    PROVE  BatchesInv'
<1>1. CoreInv'  BY CoreStep DEF BatchesInv
<1>2. CASE JoinNext  BY <1>1, <1>2, JobsNext, KindNext, SettleNext, WaitNext, FullNext DEF BatchesInv
<1>3. CASE UNCHANGED joinVars
  <2>1. UNCHANGED <<stepStatus, attempt, held, batch, pendingRows, jobs, worker, coreUp>>
    BY <1>3 DEF joinVars, stepVars, faultVars
  <2>2. Listed' = Listed /\ Job' = Job /\ Key' = Key  BY <2>1 DEF Listed, Job, Key
  <2>3. WaitInv' /\ FullInv'  BY <2>1, <2>2 DEF BatchesInv, WaitInv, Waits, Shown, FullInv
  <2> QED  BY <1>1, <2>1, <2>2, <2>3 DEF BatchesInv, JobsInv, JobFresh, Terminal, LeaseOf, KindInv, SettleInv
<1> QED  BY <1>2, <1>3

\* The whole invariant holds at the start.
LEMMA JoinInvInit ==
    ASSUME JoinInit
    PROVE  JoinInv
<1>1. \A k, l : ~Stuck(l, k)
  <2>1. \A l \in held : stepStatus[l[1]] = "running"  BY DEF JoinInit
  <2> QED  BY <2>1 DEF Stuck, Authoritative
<1> QED  BY <1>1, BatchesInit DEF JoinInv, BatchesInv, OweInv

\* The whole invariant is kept by every step of a revision with one join.
LEMMA JoinInvStep ==
    ASSUME Lone, JoinInv, [JoinNext]_joinVars
    PROVE  JoinInv'
<1>1. BatchesInv'  BY BatchesStep, LoneFacts DEF JoinInv, BatchesInv
<1>2. CASE JoinNext  BY <1>1, <1>2, OweNext DEF JoinInv, BatchesInv
<1>3. CASE UNCHANGED joinVars
  <2>1. UNCHANGED <<stepStatus, attempt, held, batch, pendingRows, jobs, worker, coreUp>>
    BY <1>3 DEF joinVars, stepVars, faultVars
  <2>2. Listed' = Listed /\ Job' = Job /\ Key' = Key  BY <2>1 DEF Listed, Job, Key
  <2>3. ASSUME NEW k \in JoinKeys, NEW l \in Lease, Stuck(l, k)' PROVE Owed(k, l)'
    <3>1. Owed(k, l)  BY <2>1, <2>3, StuckFrame DEF JoinInv, BatchesInv, OweInv
    <3>2. Coming(k)' <=> Coming(k)  BY <2>1, <2>2 DEF Coming, AtBatch
    <3>3. Coming(k) /\ Working => Taken(k)'  BY <2>2, <3>2 DEF Taken, Working
    <3> QED  BY <2>1, <2>2, <3>1, <3>2, <3>3, OweFrame DEF Covers
  <2> QED  BY <1>1, <2>3 DEF JoinInv, BatchesInv, OweInv
<1> QED  BY <1>2, <1>3

\* A worker with nothing to do owns no batch.
LEMMA QuietFacts ==
    ASSUME CoreInv, Quiet, NEW k \in Keys
    PROVE  Listed = {} /\ batch[k].status \notin {"merging", "resolving"}
<1>1. worker.pc = "off" /\ ~Orphaned(k)  BY DEF Quiet
<1> QED  BY <1>1, IdleFacts DEF CoreInv, OwnerInv, Orphaned

\* When no step is a parent of two joins, what needs its user is shown to its user once the
\* worker has come to rest, whatever crashed on the way: recover_merge_batch_phases writes the
\* pending rows that the conclusion of the conflict could not.
THEOREM ConflictsAreShown ==
    ASSUME Disjoint
    PROVE  JoinSpec => []ConflictIsShown
<1>1. JoinInit => BatchesInv  BY BatchesInit
<1>2. BatchesInv /\ [JoinNext]_joinVars => BatchesInv'  BY BatchesStep
<1>3. BatchesInv => ConflictIsShown  BY DEF BatchesInv, WaitInv, Shown, ConflictIsShown, Quiet
<1> QED  BY <1>1, <1>2, <1>3, PTL DEF JoinSpec

\* Once everything has come to rest, no lease of a parent is left behind.
LEMMA NothingLeft ==
    ASSUME JoinInv
    PROVE  NothingLeftBehind
<1>1. SUFFICES ASSUME Quiet, NEW j \in DOMAIN Joins, Complete(j), NEW p \in Joins[j],
                      stepStatus[p] # "failed", LeaseOf(p) \in held, LeaseOf(p) \notin pendingRows,
                      \A k \in Keys : batch[k].status = "merged"
                                     => LeaseOf(p) \notin batch[k].leases
               PROVE  FALSE
  BY DEF NothingLeftBehind
<1>2. PICK k : k = <<"join", j>>  OBVIOUS
<1>3. k \in JoinKeys /\ k \in Keys /\ k[2] = j  BY <1>2, KeyShape
<1>4. PICK l : l = LeaseOf(p)  OBVIOUS
<1>5. l \in Lease /\ l[1] = p /\ l \in held /\ l \notin pendingRows
  BY <1>1, <1>4, TypeParts DEF JoinInv, BatchesInv, CoreInv, LeaseOf
<1>6. stepStatus[p] = "succeeded"  BY <1>1, <1>5 DEF JoinInv, BatchesInv, CoreInv, HeldInv, Complete, Terminal
<1>7. Stuck(l, k)
  <2>1. Owns(k, p)  BY <1>3 DEF Owns
  <2>2. l \in Authoritative(k)  BY <1>4, <1>5, <1>6, <2>1 DEF Authoritative
  <2>3. Ready(k)  BY <1>1, <1>3 DEF Ready
  <2> QED  BY <2>2, <2>3 DEF Stuck
<1>8. Owed(k, l)  BY <1>3, <1>5, <1>7 DEF JoinInv, BatchesInv, OweInv
<1>9. jobs = {} /\ coreUp /\ worker.pc = "off"  BY <1>1 DEF Quiet
<1>10. Listed = {} /\ batch[k].status \notin {"merging", "resolving"}  BY <1>1, <1>3, QuietFacts DEF JoinInv, BatchesInv
<1>11. l \in batch[k].leases  BY <1>8, <1>9 DEF Owed, Covered
<1>12. batch[k].status # "ready"  BY <1>8, <1>9, <1>10, <1>11 DEF Owed, Taken, Coming
<1>13. batch[k].status \notin {"none", "released"}
  BY <1>3, <1>5, <1>11 DEF JoinInv, BatchesInv, CoreInv, BatchInv, LeasesOK
<1>14. batch[k].status # "needs_user"  BY <1>3, <1>5, <1>9, <1>11 DEF JoinInv, BatchesInv, WaitInv, Shown
<1>15. batch[k].status # "merged"  BY <1>1, <1>3, <1>4, <1>11
<1>16. batch[k].status \in BatchStatus  BY <1>3, TypeParts DEF JoinInv, BatchesInv, CoreInv, BatchRecord
<1> QED  BY <1>10, <1>12, <1>13, <1>14, <1>15, <1>16 DEF BatchStatus

\* The work of a revision with one join comes back once, whole and before what depends on it,
\* and when nothing is left to do no successful parent is left behind: the lease has been given
\* back, the user is asked about it, or it is merged and a failed release waits for the next
\* start.  One join is a hypothesis of ConflictIsShown and NothingLeftBehind alone.  TLC refutes
\* both for joins that share a parent, though "Every order of settlement must converge"
\* (join_shared_parent.rs:3), and the second for two disjoint joins: the claim of one whose
\* releases keep failing is refused, and the flush of the tick leaves the joins that follow.
THEOREM JoinIsSafe ==
    ASSUME Lone
    PROVE  JoinSpec => []JoinSafety
<1>1. JoinInit => JoinInv  BY JoinInvInit
<1>2. JoinInv /\ [JoinNext]_joinVars => JoinInv'  BY JoinInvStep
<1>3. JoinInv => NothingLeftBehind  BY NothingLeft
<1>4. JoinInv => ConflictIsShown  BY DEF JoinInv, BatchesInv, WaitInv, Shown, ConflictIsShown, Quiet
<1>5. JoinInv => JoinSeesItsParents /\ NoWorkLost  BY DEF JoinInv, BatchesInv, CoreInv
<1>6. JoinSpec => []JoinTypeOK  BY JoinTypes
<1>7. JoinSpec => []MergedOnce  BY MergedAtMostOnce
<1>8. JoinTypeOK /\ JoinSeesItsParents /\ NoWorkLost /\ MergedOnce /\ ConflictIsShown
      /\ NothingLeftBehind => JoinSafety
  BY DEF JoinSafety
<1> QED  BY <1>1, <1>2, <1>3, <1>4, <1>5, <1>6, <1>7, <1>8, PTL DEF JoinSpec

----
(* QuestionDelivery.                                                       *)

USE QuestionAssumption

\* The types of the variables, one by one.
TypeInv ==
    /\ agent \in [at : {"work", "wait", "gaveUp", "ended"}, of : 0..MaxQuestions, box : AnswerOrNone]
    /\ slot \in [of : 0..MaxQuestions, bound : 0..MaxQuestions]
    /\ asked \in Seq(Questions) /\ pumpAt \in {"row", "bind", "step", "task"}
    /\ question \in [Questions -> {"none", "open", "answered"}]
    /\ answered \in [Questions -> AnswerOrNone]
    /\ delivery \in [Questions -> [status : {"none", "pending", "delivered"}, answer : AnswerOrNone]]
    /\ outbox \subseteq Questions /\ deliverer \in 0..MaxQuestions
    /\ ledger \in [Questions -> AnswerOrNone]
    /\ stepNeeds \in BOOLEAN /\ taskNeeds \in BOOLEAN
    /\ received \in [Questions -> AnswerOrNone] /\ sent \in [Questions -> AnswerOrNone]

\* The pump has not put the last question before the user yet.
Unseen == asked # <<>> /\ (Len(asked) = 2 \/ pumpAt # "task")

\* The agent asks the next question when the pump has only the end of the last one to do.
QueueInv ==
    /\ Len(asked) <= 2
    /\ asked = <<>> => pumpAt = "row"
    /\ asked # <<>> => agent.of \in Questions /\ asked[Len(asked)] = agent.of
    /\ Len(asked) = 2 => pumpAt = "task" /\ asked[1] # agent.of
    /\ agent.at \in {"work", "gaveUp"} => ~Unseen
    /\ agent.at \in {"wait", "gaveUp"} => agent.of \in Questions

\* The rows of a question: nothing is written for one that the pump has not come to, and
\* nothing is accepted for one that the user has not seen.
RowsInv ==
    /\ \A q \in Questions : q > agent.of => question[q] = "none"
    /\ asked # <<>> /\ (Len(asked) = 2 \/ pumpAt = "row") => question[agent.of] = "none"
    /\ Unseen /\ question[agent.of] = "none" => pumpAt \in {"row", "task"}
    /\ Unseen => delivery[agent.of].status = "none"
    /\ \A q \in Questions :
          /\ question[q] = "none" => delivery[q].status = "none"
          /\ (question[q] = "answered") = (delivery[q].status = "delivered")
          /\ (delivery[q].status = "pending") = (delivery[q].answer # NoAnswer)
    /\ deliverer # 0 => delivery[deliverer].status # "none"

\* The step asks for input while a question is open that the user has seen.
StepInv ==
    stepNeeds => \E p \in Questions : question[p] = "open" /\ (Unseen => p # agent.of)

\* The slot is that of the last question, and what is bound to it is this question.
SlotInv == slot = NoSlot \/ (slot.of = agent.of /\ slot.bound \in {0, agent.of})

\* What was sent is what was accepted, and what the host remembers was sent.
SentInv ==
    /\ \A q \in Questions :
          /\ sent[q] # NoAnswer => delivery[q].status # "none"
          /\ ledger[q] # NoAnswer => sent[q] = ledger[q]
    /\ agent.box # NoAnswer => agent.of \in Questions /\ sent[agent.of] # NoAnswer
    /\ deliverer # 0 /\ delivery[deliverer].status = "pending" =>
          sent[deliverer] = delivery[deliverer].answer
    /\ deliverer # 0 /\ delivery[deliverer].status = "pending" /\ agent.at # "ended" =>
          AlreadySent(deliverer)

QuestionInv ==
    /\ TypeInv /\ QueueInv /\ RowsInv /\ StepInv /\ SlotInv /\ SentInv
    /\ AnswerReachesItsQuestion /\ AnsweredWasSent /\ OpenQuestionNeedsYou /\ SentCanBeConfirmed

\* Numbers up to two.
LEMMA UpToTwo ==
    ASSUME NEW n \in Nat, n <= 2
    PROVE  n \in {0, 1, 2} /\ (n <= 1 => n # 2)
  OBVIOUS

\* What the pump leaves of a queue of one or two questions.
LEMMA TailOfQueue ==
    ASSUME NEW S, NEW s \in Seq(S), s # <<>>, Len(s) <= 2
    PROVE  /\ Head(s) = s[1] /\ Head(s) \in S /\ Tail(s) \in Seq(S)
           /\ Len(s) \in {1, 2} /\ Len(Tail(s)) = Len(s) - 1
           /\ Len(s) = 1 => Tail(s) = <<>>
           /\ Len(s) = 2 => Tail(s) # <<>> /\ Tail(s)[1] = s[2]
<1>0. Len(s) \in Nat \ {0}  BY EmptySeq, Zenon
<1>1. Len(s) \in {1, 2}  BY <1>0, UpToTwo
<1>2. Head(s) = s[1] /\ Head(s) \in S /\ Tail(s) \in Seq(S) /\ Len(Tail(s)) = Len(s) - 1  BY <1>1, HeadTailProperties
<1>3. ASSUME Len(s) = 1 PROVE Tail(s) = <<>>
  <2>1. Tail(s) \in Seq(S) /\ Len(Tail(s)) = 0  BY <1>2, <1>3
  <2>2. Tail(s) # <<>> => Len(Tail(s)) \in Nat \ {0}  BY <2>1, EmptySeq, Zenon
  <2> QED  BY <2>1, <2>2
<1>4. ASSUME Len(s) = 2 PROVE Tail(s) # <<>> /\ Tail(s)[1] = s[2]
  <2>1. Len(Tail(s)) = 1  BY <1>2, <1>4
  <2>2. Tail(s)[1] = s[2]  BY <2>1, HeadTailProperties, 1 \in 1..1, 1 + 1 = 2
  <2>3. Tail(s) # <<>>  BY <2>1, EmptySeq, 1 # 0
  <2> QED  BY <2>2, <2>3
<1> QED  BY <1>1, <1>2, <1>3, <1>4

\* What a new question makes of a queue of at most one.
LEMMA AppendToQueue ==
    ASSUME NEW S, NEW s \in Seq(S), NEW x \in S, Len(s) <= 1
    PROVE  /\ Append(s, x) \in Seq(S) /\ Append(s, x) # <<>>
           /\ Len(Append(s, x)) = Len(s) + 1 /\ Append(s, x)[Len(s) + 1] = x
           /\ Len(s) = 1 => s # <<>> /\ Append(s, x)[1] = s[1]
           /\ s # <<>> => Len(s) = 1
<1>1. ASSUME Len(s) = 1 PROVE s # <<>> /\ Append(s, x)[1] = s[1]  BY <1>1, AppendProperties
<1>2. ASSUME s # <<>> PROVE Len(s) = 1
  <2>1. Len(s) \in Nat \ {0}  BY <1>2, EmptySeq, Zenon
  <2>2. \A n \in Nat \ {0} : n <= 1 => n = 1  OBVIOUS
  <2> QED  BY <2>1, <2>2
<1> QED  BY AppendProperties, <1>1, <1>2

\* Every step keeps the types.
LEMMA TypesKept ==
    ASSUME TypeInv, QueueInv, SlotInv, RowsInv, QuestionNext
    PROVE  TypeInv'
<1>1. ASSUME AskHuman PROVE TypeInv'  BY <1>1 DEF AskHuman, rowVars, TypeInv, Questions, AnswerOrNone
<1>2. ASSUME ReceiveAnswer PROVE TypeInv'  BY <1>2 DEF ReceiveAnswer, pumpVars, rowVars, TypeInv, AnswerOrNone
<1>3. ASSUME WaitGivesUp PROVE TypeInv'  BY <1>3 DEF WaitGivesUp, pumpVars, rowVars, TypeInv
<1>4. ASSUME DropReceiver PROVE TypeInv'  BY <1>4 DEF DropReceiver, pumpVars, rowVars, TypeInv, AnswerOrNone
<1>5. ASSUME HostLost PROVE TypeInv'
  <2>1. slot' \in [of : 0..MaxQuestions, bound : 0..MaxQuestions]  BY <1>5 DEF HostLost, NoSlot, TypeInv
  <2>2. /\ asked' \in Seq(Questions) /\ pumpAt' \in {"row", "bind", "step", "task"}
        /\ taskNeeds' \in BOOLEAN /\ deliverer' \in 0..MaxQuestions
        /\ ledger' \in [Questions -> AnswerOrNone]
    <3>1. CASE UNCHANGED <<ledger, pumpVars, taskNeeds, deliverer>>  BY <3>1 DEF pumpVars, TypeInv
    <3>2. CASE /\ ledger' = [q \in Questions |-> NoAnswer]
               /\ asked' = <<>> /\ pumpAt' = "row" /\ deliverer' = 0 /\ taskNeeds' = TRUE
      BY <3>2, EmptySeq DEF AnswerOrNone
    <3> QED  BY <1>5, <3>1, <3>2 DEF HostLost
  <2> QED  BY <1>5, <2>1, <2>2 DEF TypeInv, HostLost, AnswerOrNone
<1>6. ASSUME PumpRow PROVE TypeInv'  BY <1>6 DEF PumpRow, hostVars, TypeInv
<1>7. ASSUME PumpBind PROVE TypeInv'
  <2>1. slot' \in [of : 0..MaxQuestions, bound : 0..MaxQuestions]
    BY <1>7 DEF PumpBind, Pumping, Pumped, TypeInv, Questions, AnswerOrNone
  <2> QED  BY <1>7, <2>1 DEF TypeInv, PumpBind, rowVars
<1>8. ASSUME PumpStep PROVE TypeInv'  BY <1>8 DEF PumpStep, hostVars, TypeInv
<1>9. ASSUME PumpTask PROVE TypeInv'  BY <1>9 DEF PumpTask, Pumping, hostVars, TypeInv
<1>10. ASSUME NEW q \in Questions, DeliverAgain(q) PROVE TypeInv'
  BY <1>10 DEF DeliverAgain, hostVars, pumpVars, TypeInv
<1>11. ASSUME NEW q \in Questions, AnswerBound(q) PROVE TypeInv'
  <2>1. slot' \in [of : 0..MaxQuestions, bound : 0..MaxQuestions]  BY <1>11 DEF AnswerBound, NoSlot, hostVars, TypeInv
  <2>2. /\ question' \in [Questions -> {"none", "open", "answered"}]
        /\ answered' \in [Questions -> AnswerOrNone]
        /\ delivery' \in [Questions -> [status : {"none", "pending", "delivered"}, answer : AnswerOrNone]]
        /\ outbox' \subseteq Questions /\ deliverer' \in 0..MaxQuestions
        /\ stepNeeds' \in BOOLEAN /\ taskNeeds' \in BOOLEAN
    BY <1>11 DEF AnswerBound, rowVars, TypeInv, Questions
  <2>3. /\ ledger' \in [Questions -> AnswerOrNone]
        /\ received' \in [Questions -> AnswerOrNone] /\ sent' \in [Questions -> AnswerOrNone]
    BY <1>11 DEF AnswerBound, hostVars, TypeInv
  <2> QED  BY <1>11, <2>1, <2>2, <2>3 DEF TypeInv, AnswerBound, hostVars, pumpVars
<1>12. ASSUME NEW q \in Questions, AnswerFails(q) PROVE TypeInv'
  BY <1>12 DEF AnswerFails, NoSlot, pumpVars, rowVars, TypeInv
<1>13. ASSUME NEW q \in Questions, NEW a \in Answers, Respond(q, a) PROVE TypeInv'
  BY <1>13 DEF Respond, hostVars, pumpVars, TypeInv, AnswerOrNone
<1>14. ASSUME ConfirmDelivery PROVE TypeInv'  BY <1>14 DEF ConfirmDelivery, hostVars, pumpVars, TypeInv, AnswerOrNone
<1>15. ASSUME ConfirmFails PROVE TypeInv'  BY <1>15 DEF ConfirmFails, hostVars, pumpVars, rowVars, TypeInv
<1>16. ASSUME DeliveryDone PROVE TypeInv'  BY <1>16 DEF DeliveryDone, hostVars, pumpVars, TypeInv
<1> QED  BY <1>1, <1>2, <1>3, <1>4, <1>5, <1>6, <1>7, <1>8, <1>9, <1>10, <1>11, <1>12, <1>13, <1>14, <1>15,
     <1>16
     DEF QuestionNext

\* The agent goes on only when its question was answered, or given up with an empty queue.
LEMMA QueueKept ==
    ASSUME TypeInv, QueueInv, RowsInv, SentInv, QuestionNext
    PROVE  QueueInv'
<1>1. ASSUME AskHuman PROVE QueueInv'
  <2>1. asked' = Append(asked, agent.of + 1) /\ agent' = [at |-> "wait", of |-> agent.of + 1, box |-> NoAnswer]
        /\ pumpAt' = pumpAt /\ agent.at = "work" /\ agent.of + 1 \in Questions /\ agent.of \in Nat
    BY <1>1 DEF AskHuman, TypeInv, Questions
  <2>2. Len(asked) <= 1 /\ (asked # <<>> => pumpAt = "task")
    <3>1. CASE asked = <<>>  BY <3>1, EmptySeq
    <3>2. CASE asked # <<>>  BY <2>1, <3>2, TailOfQueue DEF QueueInv, Unseen, TypeInv
    <3> QED  BY <3>1, <3>2
  <2>3. /\ asked' # <<>> /\ Len(asked') = Len(asked) + 1 /\ asked'[Len(asked')] = agent'.of
        /\ Len(asked) = 1 => asked # <<>> /\ asked'[1] = asked[1]
    BY <2>1, <2>2, AppendToQueue DEF TypeInv
  <2>4. Len(asked') <= 2  BY <2>2, <2>3 DEF TypeInv
  <2> QED  BY <2>1, <2>3, <2>2, <2>4 DEF QueueInv, TypeInv
<1>2. ASSUME ReceiveAnswer PROVE QueueInv'  BY <1>2 DEF ReceiveAnswer, pumpVars, QueueInv, RowsInv, SentInv, Unseen
<1>3. ASSUME WaitGivesUp PROVE QueueInv'  BY <1>3 DEF WaitGivesUp, pumpVars, QueueInv, Unseen
<1>4. ASSUME DropReceiver PROVE QueueInv'  BY <1>4 DEF DropReceiver, pumpVars, QueueInv, Unseen
<1>5. ASSUME HostLost PROVE QueueInv'  BY <1>5 DEF HostLost, NoSlot, pumpVars, QueueInv
<1>6. ASSUME PumpRow PROVE QueueInv'  BY <1>6 DEF PumpRow, Pumping, hostVars, QueueInv, Unseen
<1>7. ASSUME PumpBind PROVE QueueInv'  BY <1>7 DEF PumpBind, Pumping, QueueInv, Unseen
<1>8. ASSUME PumpStep PROVE QueueInv'  BY <1>8 DEF PumpStep, Pumping, hostVars, QueueInv, Unseen
<1>9. ASSUME PumpTask PROVE QueueInv'
  <2>1. asked # <<>> /\ pumpAt = "task" /\ asked' = Tail(asked) /\ pumpAt' = "row" /\ agent' = agent
    BY <1>9 DEF PumpTask, Pumping, hostVars
  <2>2. /\ Len(asked) \in {1, 2} /\ Len(asked') = Len(asked) - 1 /\ (Len(asked) = 1 => asked' = <<>>)
        /\ Len(asked) = 2 => asked' # <<>> /\ asked'[1] = asked[2]
    BY <2>1, TailOfQueue DEF QueueInv, TypeInv
  <2>3. CASE Len(asked) = 1  BY <2>1, <2>2, <2>3 DEF QueueInv, Unseen
  <2>4. CASE Len(asked) = 2
    <3>1. asked[2] = agent.of /\ agent.of \in Questions /\ agent.at \notin {"work", "gaveUp"}
      BY <2>1, <2>4 DEF QueueInv, Unseen
    <3>2. asked' # <<>> /\ Len(asked') = 1 /\ asked'[1] = agent.of  BY <2>2, <2>4, <3>1
    <3> QED  BY <2>1, <3>1, <3>2 DEF QueueInv, Unseen
  <2> QED  BY <2>2, <2>3, <2>4
<1>10. ASSUME NEW q \in Questions, DeliverAgain(q) PROVE QueueInv'
  BY <1>10 DEF DeliverAgain, hostVars, pumpVars, QueueInv, Unseen
<1>11. ASSUME NEW q \in Questions, AnswerBound(q) PROVE QueueInv'
  BY <1>11 DEF AnswerBound, WaitsFor, ChannelOpen, NoSlot, hostVars, pumpVars, rowVars, TypeInv, AnswerOrNone, NoAnswer,
    QueueInv, Unseen
<1>12. ASSUME NEW q \in Questions, AnswerFails(q) PROVE QueueInv'  BY <1>12 DEF AnswerFails, pumpVars, QueueInv, Unseen
<1>13. ASSUME NEW q \in Questions, NEW a \in Answers, Respond(q, a) PROVE QueueInv'
  BY <1>13 DEF Respond, hostVars, pumpVars, QueueInv, Unseen
<1>14. ASSUME ConfirmDelivery PROVE QueueInv'  BY <1>14 DEF ConfirmDelivery, hostVars, pumpVars, QueueInv, Unseen
<1>15. ASSUME ConfirmFails PROVE QueueInv'  BY <1>15 DEF ConfirmFails, hostVars, pumpVars, QueueInv, Unseen
<1>16. ASSUME DeliveryDone PROVE QueueInv'  BY <1>16 DEF DeliveryDone, hostVars, pumpVars, QueueInv, Unseen
<1> QED  BY <1>1, <1>2, <1>3, <1>4, <1>5, <1>6, <1>7, <1>8, <1>9, <1>10, <1>11, <1>12, <1>13, <1>14, <1>15,
     <1>16
     DEF QuestionNext

\* An answer is accepted only for a question that the user has seen.
LEMMA RowsKept ==
    ASSUME TypeInv, QueueInv, RowsInv, StepInv, SlotInv, SentInv, QuestionNext
    PROVE  RowsInv'
<1>1. ASSUME AskHuman PROVE RowsInv'
  BY <1>1 DEF AskHuman, rowVars, TypeInv, Questions, NoAnswer, QueueInv, RowsInv, StepInv, Unseen
<1>2. ASSUME ReceiveAnswer PROVE RowsInv'  BY <1>2 DEF ReceiveAnswer, pumpVars, rowVars, RowsInv, Unseen
<1>3. ASSUME WaitGivesUp PROVE RowsInv'  BY <1>3 DEF WaitGivesUp, pumpVars, rowVars, RowsInv, Unseen
<1>4. ASSUME DropReceiver PROVE RowsInv'  BY <1>4 DEF DropReceiver, pumpVars, rowVars, RowsInv, Unseen
<1>5. ASSUME HostLost PROVE RowsInv'  BY <1>5 DEF HostLost, pumpVars, RowsInv, Unseen
<1>6. ASSUME PumpRow PROVE RowsInv'
  <2>1. asked # <<>> /\ pumpAt = "row" /\ pumpAt' = "bind" /\ asked' = asked /\ Len(asked) # 2
    BY <1>6 DEF PumpRow, Pumping, QueueInv
  <2>2. Pumped = agent.of /\ agent.of \in Questions /\ Unseen
    BY <2>1, TailOfQueue DEF QueueInv, TypeInv, Pumped, Unseen
  <2>3. question' = [question EXCEPT ![agent.of] = "open"] /\ agent' = agent /\ delivery' = delivery /\ deliverer' = deliverer
    BY <1>6, <2>2 DEF PumpRow, hostVars
  <2> QED  BY <2>2, <2>3, <2>1 DEF RowsInv, TypeInv, Questions
<1>7. ASSUME PumpBind PROVE RowsInv'  BY <1>7 DEF PumpBind, Pumping, rowVars, RowsInv, Unseen
<1>8. ASSUME PumpStep PROVE RowsInv'  BY <1>8 DEF PumpStep, hostVars, RowsInv, Unseen
<1>9. ASSUME PumpTask PROVE RowsInv'
  <2>1. asked # <<>> /\ pumpAt = "task" /\ asked' = Tail(asked) /\ pumpAt' = "row"  BY <1>9 DEF PumpTask, Pumping
  <2>2. /\ Len(asked) \in {1, 2} /\ Len(asked') = Len(asked) - 1 /\ (Len(asked) = 1 => asked' = <<>>)
        /\ Len(asked) = 2 => asked' # <<>> /\ asked'[1] = asked[2]
    BY <2>1, TailOfQueue DEF QueueInv, TypeInv
  <2>3. Unseen' => Unseen /\ Len(asked) = 2  BY <2>1, <2>2 DEF Unseen

  <2>4. asked' # <<>> => Len(asked) = 2  BY <2>2
  <2> QED  BY <2>1, <2>3, <1>9, <2>4 DEF RowsInv, PumpTask, hostVars
<1>10. ASSUME NEW q \in Questions, DeliverAgain(q) PROVE RowsInv'
  BY <1>10 DEF DeliverAgain, hostVars, pumpVars, RowsInv, Unseen
<1>11. ASSUME NEW q \in Questions, AnswerBound(q) PROVE RowsInv'
  BY <1>11 DEF AnswerBound, AlreadySent, WaitsFor, ChannelOpen, NoSlot, hostVars, pumpVars, rowVars, TypeInv,
    AnswerOrNone, RowsInv, StepInv, Unseen
<1>12. ASSUME NEW q \in Questions, AnswerFails(q) PROVE RowsInv'
  BY <1>12 DEF AnswerFails, pumpVars, rowVars, RowsInv, Unseen
<1>13. ASSUME NEW q \in Questions, NEW a \in Answers, Respond(q, a) PROVE RowsInv'
  BY <1>13 DEF Respond, NothingOpen, hostVars, pumpVars, NoAnswer, RowsInv, StepInv, Unseen
<1>14. ASSUME ConfirmDelivery PROVE RowsInv'  BY <1>14 DEF ConfirmDelivery, hostVars, pumpVars, TypeInv, RowsInv, Unseen
<1>15. ASSUME ConfirmFails PROVE RowsInv'  BY <1>15 DEF ConfirmFails, hostVars, pumpVars, rowVars, RowsInv, Unseen
<1>16. ASSUME DeliveryDone PROVE RowsInv'  BY <1>16 DEF DeliveryDone, hostVars, pumpVars, RowsInv, Unseen
<1> QED  BY <1>1, <1>2, <1>3, <1>4, <1>5, <1>6, <1>7, <1>8, <1>9, <1>10, <1>11, <1>12, <1>13, <1>14, <1>15,
     <1>16
     DEF QuestionNext

\* The confirmation of an answer takes the step's need back.
LEMMA StepKept ==
    ASSUME TypeInv, QueueInv, RowsInv, StepInv, QuestionNext
    PROVE  StepInv'
<1>1. ASSUME AskHuman PROVE StepInv'  BY <1>1, SMTT(30) DEF AskHuman, rowVars, TypeInv, RowsInv, StepInv, Unseen
<1>2. ASSUME ReceiveAnswer PROVE StepInv'  BY <1>2 DEF ReceiveAnswer, pumpVars, rowVars, StepInv, Unseen
<1>3. ASSUME WaitGivesUp PROVE StepInv'  BY <1>3 DEF WaitGivesUp, pumpVars, rowVars, StepInv, Unseen
<1>4. ASSUME DropReceiver PROVE StepInv'  BY <1>4 DEF DropReceiver, pumpVars, rowVars, StepInv, Unseen
<1>5. ASSUME HostLost PROVE StepInv'  BY <1>5 DEF HostLost, pumpVars, StepInv, Unseen
<1>6. ASSUME PumpRow PROVE StepInv'  BY <1>6 DEF PumpRow, Pumping, hostVars, StepInv, Unseen
<1>7. ASSUME PumpBind PROVE StepInv'  BY <1>7 DEF PumpBind, Pumping, rowVars, StepInv, Unseen
<1>8. ASSUME PumpStep PROVE StepInv'  BY <1>8 DEF PumpStep, Pumping, TypeInv, QueueInv, RowsInv, StepInv, Unseen
<1>9. ASSUME PumpTask PROVE StepInv'
  <2>1. Unseen' => Unseen /\ Len(asked) = 2  BY <1>9, TailOfQueue DEF Unseen, QueueInv, TypeInv, PumpTask, Pumping

  <2>2. UNCHANGED <<agent, question, stepNeeds>>  BY <1>9 DEF PumpTask, hostVars
  <2> QED  BY <2>1, <2>2 DEF StepInv
<1>10. ASSUME NEW q \in Questions, DeliverAgain(q) PROVE StepInv'
  BY <1>10 DEF DeliverAgain, hostVars, pumpVars, StepInv, Unseen
<1>11. ASSUME NEW q \in Questions, AnswerBound(q) PROVE StepInv'
  BY <1>11 DEF AnswerBound, hostVars, pumpVars, rowVars, TypeInv, StepInv, Unseen
<1>12. ASSUME NEW q \in Questions, AnswerFails(q) PROVE StepInv'
  BY <1>12 DEF AnswerFails, pumpVars, rowVars, StepInv, Unseen
<1>13. ASSUME NEW q \in Questions, NEW a \in Answers, Respond(q, a) PROVE StepInv'
  BY <1>13 DEF Respond, hostVars, pumpVars, StepInv, Unseen
<1>14. ASSUME ConfirmDelivery PROVE StepInv'  BY <1>14 DEF ConfirmDelivery, StepInv
<1>15. ASSUME ConfirmFails PROVE StepInv'  BY <1>15 DEF ConfirmFails, hostVars, pumpVars, rowVars, StepInv, Unseen
<1>16. ASSUME DeliveryDone PROVE StepInv'  BY <1>16 DEF DeliveryDone, hostVars, pumpVars, StepInv, Unseen
<1> QED  BY <1>1, <1>2, <1>3, <1>4, <1>5, <1>6, <1>7, <1>8, <1>9, <1>10, <1>11, <1>12, <1>13, <1>14, <1>15,
     <1>16
     DEF QuestionNext

\* Every question has a slot of its own.
LEMMA SlotKept ==
    ASSUME TypeInv, QueueInv, SlotInv, QuestionNext
    PROVE  SlotInv'
<1>1. ASSUME AskHuman PROVE SlotInv'  BY <1>1 DEF AskHuman, SlotInv
<1>2. ASSUME ReceiveAnswer PROVE SlotInv'  BY <1>2 DEF ReceiveAnswer, SlotInv
<1>3. ASSUME WaitGivesUp PROVE SlotInv'  BY <1>3 DEF WaitGivesUp, SlotInv
<1>4. ASSUME DropReceiver PROVE SlotInv'  BY <1>4 DEF DropReceiver, SlotInv
<1>5. ASSUME HostLost PROVE SlotInv'  BY <1>5 DEF HostLost, SlotInv
<1>6. ASSUME PumpRow PROVE SlotInv'  BY <1>6 DEF PumpRow, hostVars, SlotInv
<1>7. ASSUME PumpBind PROVE SlotInv'
  BY <1>7, TailOfQueue DEF SlotInv, NoSlot, TypeInv, PumpBind, Pumping, QueueInv, Pumped
<1>8. ASSUME PumpStep PROVE SlotInv'  BY <1>8 DEF PumpStep, hostVars, SlotInv
<1>9. ASSUME PumpTask PROVE SlotInv'  BY <1>9 DEF PumpTask, hostVars, SlotInv
<1>10. ASSUME NEW q \in Questions, DeliverAgain(q) PROVE SlotInv'  BY <1>10 DEF DeliverAgain, hostVars, SlotInv
<1>11. ASSUME NEW q \in Questions, AnswerBound(q) PROVE SlotInv'  BY <1>11 DEF AnswerBound, hostVars, SlotInv
<1>12. ASSUME NEW q \in Questions, AnswerFails(q) PROVE SlotInv'  BY <1>12 DEF AnswerFails, SlotInv
<1>13. ASSUME NEW q \in Questions, NEW a \in Answers, Respond(q, a) PROVE SlotInv'
  BY <1>13 DEF Respond, hostVars, SlotInv
<1>14. ASSUME ConfirmDelivery PROVE SlotInv'  BY <1>14 DEF ConfirmDelivery, hostVars, SlotInv
<1>15. ASSUME ConfirmFails PROVE SlotInv'  BY <1>15 DEF ConfirmFails, hostVars, SlotInv
<1>16. ASSUME DeliveryDone PROVE SlotInv'  BY <1>16 DEF DeliveryDone, hostVars, SlotInv
<1> QED  BY <1>1, <1>2, <1>3, <1>4, <1>5, <1>6, <1>7, <1>8, <1>9, <1>10, <1>11, <1>12, <1>13, <1>14, <1>15,
     <1>16
     DEF QuestionNext

\* What goes into a channel is the answer to its question.
LEMMA SentKept ==
    ASSUME TypeInv, QueueInv, RowsInv, SlotInv, SentInv, AnswerReachesItsQuestion, QuestionNext
    PROVE  SentInv' /\ AnswerReachesItsQuestion'
<1>1. ASSUME AskHuman PROVE SentInv' /\ AnswerReachesItsQuestion'
  BY <1>1 DEF AskHuman, rowVars, SentInv, AnswerReachesItsQuestion, AlreadySent
<1>2. ASSUME ReceiveAnswer PROVE SentInv' /\ AnswerReachesItsQuestion'
  BY <1>2 DEF ReceiveAnswer, rowVars, SentInv, AnswerReachesItsQuestion, AlreadySent
<1>3. ASSUME WaitGivesUp PROVE SentInv' /\ AnswerReachesItsQuestion'
  BY <1>3 DEF WaitGivesUp, rowVars, SentInv, AnswerReachesItsQuestion, AlreadySent
<1>4. ASSUME DropReceiver PROVE SentInv' /\ AnswerReachesItsQuestion'
  BY <1>4 DEF DropReceiver, rowVars, SentInv, AnswerReachesItsQuestion, AlreadySent
<1>5. ASSUME HostLost PROVE SentInv' /\ AnswerReachesItsQuestion'
  BY <1>5 DEF HostLost, SentInv, AnswerReachesItsQuestion
<1>6. ASSUME PumpRow PROVE SentInv' /\ AnswerReachesItsQuestion'
  BY <1>6 DEF PumpRow, hostVars, SentInv, AnswerReachesItsQuestion, AlreadySent
<1>7. ASSUME PumpBind PROVE SentInv' /\ AnswerReachesItsQuestion'
  BY <1>7 DEF PumpBind, rowVars, SentInv, AnswerReachesItsQuestion, AlreadySent
<1>8. ASSUME PumpStep PROVE SentInv' /\ AnswerReachesItsQuestion'
  BY <1>8 DEF PumpStep, hostVars, SentInv, AnswerReachesItsQuestion, AlreadySent
<1>9. ASSUME PumpTask PROVE SentInv' /\ AnswerReachesItsQuestion'
  BY <1>9 DEF PumpTask, hostVars, SentInv, AnswerReachesItsQuestion, AlreadySent
<1>10. ASSUME NEW q \in Questions, DeliverAgain(q) PROVE SentInv' /\ AnswerReachesItsQuestion'
  BY <1>10 DEF DeliverAgain, hostVars, pumpVars, rowVars, SentInv, AnswerReachesItsQuestion
<1>11. ASSUME NEW q \in Questions, AnswerBound(q) PROVE SentInv' /\ AnswerReachesItsQuestion'
  <2>0. /\ delivery[q].status = "pending" /\ delivery[q].answer \in AnswerOrNone \ {NoAnswer}
        /\ deliverer' = q /\ q # 0 /\ UNCHANGED <<delivery, answered>> /\ deliverer = 0
    BY <1>11 DEF AnswerBound, rowVars, RowsInv, TypeInv, Questions
  <2>1. CASE AlreadySent(q) /\ UNCHANGED hostVars
    BY <2>0, <2>1 DEF hostVars, AlreadySent, SentInv, AnswerReachesItsQuestion
  <2>2. CASE /\ WaitsFor(q) /\ ChannelOpen
             /\ agent' = [agent EXCEPT !.box = delivery[q].answer]
             /\ sent' = [sent EXCEPT ![agent.of] = delivery[q].answer]
             /\ ledger' = [ledger EXCEPT ![q] = delivery[q].answer]
    <3>1. agent.of = q /\ agent'.of = q /\ agent'.box = delivery[q].answer  BY <2>2 DEF WaitsFor, SlotInv, Questions
    <3>2. \A p \in Questions : /\ sent'[p] = IF p = q THEN delivery[q].answer ELSE sent[p]
                               /\ ledger'[p] = IF p = q THEN delivery[q].answer ELSE ledger[p]
      BY <2>2, <3>1 DEF TypeInv
    <3>3. SentInv'  BY <2>0, <3>1, <3>2 DEF SentInv, AlreadySent
    <3>4. AnswerReachesItsQuestion'  BY <2>0, <3>2 DEF AnswerReachesItsQuestion
    <3> QED  BY <3>3, <3>4
  <2> QED  BY <1>11, <2>1, <2>2 DEF AnswerBound
<1>12. ASSUME NEW q \in Questions, AnswerFails(q) PROVE SentInv' /\ AnswerReachesItsQuestion'
  BY <1>12 DEF AnswerFails, NoSlot, rowVars, SentInv, AnswerReachesItsQuestion
<1>13. ASSUME NEW q \in Questions, NEW a \in Answers, Respond(q, a) PROVE SentInv' /\ AnswerReachesItsQuestion'
  <2>1. /\ UNCHANGED <<agent, sent, ledger, answered, deliverer>>
        /\ delivery' = [delivery EXCEPT ![q] =
                          IF @.status = "none" THEN [status |-> "pending", answer |-> a] ELSE @]
        /\ deliverer # 0 => deliverer \in Questions
    BY <1>13 DEF Respond, hostVars, TypeInv, Questions
  <2>2. \A p \in Questions : /\ delivery[p].status # "none" => delivery'[p] = delivery[p]
                             /\ delivery[p].status = "none" => sent[p] = NoAnswer
    BY <2>1 DEF TypeInv, SentInv
  <2>3. SentInv'  BY <2>1, <2>2 DEF SentInv, AlreadySent, RowsInv
  <2>4. AnswerReachesItsQuestion'  BY <2>1, <2>2 DEF AnswerReachesItsQuestion
  <2> QED  BY <2>3, <2>4
<1>14. ASSUME ConfirmDelivery PROVE SentInv' /\ AnswerReachesItsQuestion'
  <2>1. /\ UNCHANGED <<agent, sent, ledger, deliverer>> /\ deliverer \in Questions
        /\ delivery[deliverer].status = "pending"
        /\ delivery' = [delivery EXCEPT ![deliverer] = [status |-> "delivered", answer |-> NoAnswer]]
        /\ answered' = [answered EXCEPT ![deliverer] = delivery[deliverer].answer]
    BY <1>14 DEF ConfirmDelivery, hostVars, TypeInv, Questions
  <2>2. \A p \in Questions :
          /\ delivery'[p] = IF p = deliverer THEN [status |-> "delivered", answer |-> NoAnswer] ELSE delivery[p]
          /\ answered'[p] = IF p = deliverer THEN delivery[deliverer].answer ELSE answered[p]
    BY <2>1 DEF TypeInv
  <2>3. SentInv'  BY <2>1, <2>2 DEF SentInv, AlreadySent
  <2>4. AnswerReachesItsQuestion'  BY <2>1, <2>2 DEF AnswerReachesItsQuestion
  <2> QED  BY <2>3, <2>4
<1>15. ASSUME ConfirmFails PROVE SentInv' /\ AnswerReachesItsQuestion'
  BY <1>15 DEF ConfirmFails, hostVars, rowVars, SentInv, AnswerReachesItsQuestion
<1>16. ASSUME DeliveryDone PROVE SentInv' /\ AnswerReachesItsQuestion'
  BY <1>16 DEF DeliveryDone, hostVars, SentInv, AnswerReachesItsQuestion
<1> QED  BY <1>1, <1>2, <1>3, <1>4, <1>5, <1>6, <1>7, <1>8, <1>9, <1>10, <1>11, <1>12, <1>13, <1>14, <1>15,
     <1>16
     DEF QuestionNext

\* A confirmation follows the sending.
LEMMA AnsweredKept ==
    ASSUME TypeInv, QueueInv, RowsInv, SlotInv, SentInv, AnswerReachesItsQuestion, AnsweredWasSent, QuestionNext
    PROVE  AnsweredWasSent'
<1>1. ASSUME AskHuman PROVE AnsweredWasSent'  BY <1>1 DEF AskHuman, rowVars, AnsweredWasSent
<1>2. ASSUME ReceiveAnswer PROVE AnsweredWasSent'  BY <1>2 DEF ReceiveAnswer, rowVars, AnsweredWasSent
<1>3. ASSUME WaitGivesUp PROVE AnsweredWasSent'  BY <1>3 DEF WaitGivesUp, rowVars, AnsweredWasSent
<1>4. ASSUME DropReceiver PROVE AnsweredWasSent'  BY <1>4 DEF DropReceiver, rowVars, AnsweredWasSent
<1>5. ASSUME HostLost PROVE AnsweredWasSent'  BY <1>5 DEF HostLost, AnsweredWasSent
<1>6. ASSUME PumpRow PROVE AnsweredWasSent'  BY <1>6 DEF PumpRow, hostVars, AnsweredWasSent
<1>7. ASSUME PumpBind PROVE AnsweredWasSent'  BY <1>7 DEF PumpBind, rowVars, AnsweredWasSent
<1>8. ASSUME PumpStep PROVE AnsweredWasSent'  BY <1>8 DEF PumpStep, hostVars, AnsweredWasSent
<1>9. ASSUME PumpTask PROVE AnsweredWasSent'  BY <1>9 DEF PumpTask, hostVars, AnsweredWasSent
<1>10. ASSUME NEW q \in Questions, DeliverAgain(q) PROVE AnsweredWasSent'
  BY <1>10 DEF DeliverAgain, hostVars, AnsweredWasSent
<1>11. ASSUME NEW q \in Questions, AnswerBound(q) PROVE AnsweredWasSent'
  <2>1. delivery[q].status = "pending" /\ UNCHANGED <<question, answered>>  BY <1>11 DEF AnswerBound, rowVars
  <2>2. CASE UNCHANGED hostVars  BY <2>1, <2>2 DEF hostVars, AnsweredWasSent
  <2>3. CASE WaitsFor(q) /\ ChannelOpen /\ sent' = [sent EXCEPT ![agent.of] = delivery[q].answer]
    <3>1. agent.of = q /\ question[q] # "answered"  BY <2>1, <2>3 DEF WaitsFor, ChannelOpen, SlotInv, Questions, RowsInv
    <3> QED  BY <2>1, <3>1, <2>3 DEF AnsweredWasSent, TypeInv
  <2> QED  BY <1>11, <2>2, <2>3 DEF AnswerBound
<1>12. ASSUME NEW q \in Questions, AnswerFails(q) PROVE AnsweredWasSent'
  BY <1>12 DEF AnswerFails, rowVars, AnsweredWasSent
<1>13. ASSUME NEW q \in Questions, NEW a \in Answers, Respond(q, a) PROVE AnsweredWasSent'
  BY <1>13 DEF Respond, hostVars, AnsweredWasSent
<1>14. ASSUME ConfirmDelivery PROVE AnsweredWasSent'
  BY <1>14 DEF ConfirmDelivery, hostVars, TypeInv, RowsInv, SentInv, AnsweredWasSent
<1>15. ASSUME ConfirmFails PROVE AnsweredWasSent'  BY <1>15 DEF ConfirmFails, hostVars, rowVars, AnsweredWasSent
<1>16. ASSUME DeliveryDone PROVE AnsweredWasSent'  BY <1>16 DEF DeliveryDone, hostVars, AnsweredWasSent
<1> QED  BY <1>1, <1>2, <1>3, <1>4, <1>5, <1>6, <1>7, <1>8, <1>9, <1>10, <1>11, <1>12, <1>13, <1>14, <1>15,
     <1>16
     DEF QuestionNext

\* Only the last open question takes the task's need back.
LEMMA NeedsKept ==
    ASSUME TypeInv, QueueInv, RowsInv, OpenQuestionNeedsYou, QuestionNext
    PROVE  OpenQuestionNeedsYou'
<1>1. ASSUME AskHuman PROVE OpenQuestionNeedsYou'
  BY <1>1 DEF AskHuman, hostVars, pumpVars, rowVars, OpenQuestionNeedsYou, Pumped
<1>2. ASSUME ReceiveAnswer PROVE OpenQuestionNeedsYou'
  BY <1>2 DEF ReceiveAnswer, pumpVars, rowVars, OpenQuestionNeedsYou, Pumped
<1>3. ASSUME WaitGivesUp PROVE OpenQuestionNeedsYou'  BY <1>3 DEF WaitGivesUp, rowVars, OpenQuestionNeedsYou
<1>4. ASSUME DropReceiver PROVE OpenQuestionNeedsYou'
  BY <1>4 DEF DropReceiver, pumpVars, rowVars, OpenQuestionNeedsYou, Pumped
<1>5. ASSUME HostLost PROVE OpenQuestionNeedsYou'  BY <1>5 DEF HostLost, pumpVars, OpenQuestionNeedsYou, Pumped
<1>6. ASSUME PumpRow PROVE OpenQuestionNeedsYou'  BY <1>6 DEF PumpRow, Pumping, Pumped, OpenQuestionNeedsYou, Pumped
<1>7. ASSUME PumpBind PROVE OpenQuestionNeedsYou'  BY <1>7 DEF PumpBind, Pumped, rowVars, OpenQuestionNeedsYou, Pumped
<1>8. ASSUME PumpStep PROVE OpenQuestionNeedsYou'  BY <1>8 DEF PumpStep, Pumped, OpenQuestionNeedsYou, Pumped
<1>9. ASSUME PumpTask PROVE OpenQuestionNeedsYou'  BY <1>9 DEF PumpTask, OpenQuestionNeedsYou
<1>10. ASSUME NEW q \in Questions, DeliverAgain(q) PROVE OpenQuestionNeedsYou'
  BY <1>10 DEF DeliverAgain, pumpVars, OpenQuestionNeedsYou, Pumped
<1>11. ASSUME NEW q \in Questions, AnswerBound(q) PROVE OpenQuestionNeedsYou'
  BY <1>11 DEF AnswerBound, pumpVars, rowVars, OpenQuestionNeedsYou, Pumped
<1>12. ASSUME NEW q \in Questions, AnswerFails(q) PROVE OpenQuestionNeedsYou'
  BY <1>12 DEF AnswerFails, pumpVars, rowVars, OpenQuestionNeedsYou, Pumped
<1>13. ASSUME NEW q \in Questions, NEW a \in Answers, Respond(q, a) PROVE OpenQuestionNeedsYou'
  BY <1>13 DEF Respond, pumpVars, OpenQuestionNeedsYou, Pumped
<1>14. ASSUME ConfirmDelivery PROVE OpenQuestionNeedsYou'
  BY <1>14 DEF ConfirmDelivery, NothingOpen, pumpVars, TypeInv, OpenQuestionNeedsYou, Pumped
<1>15. ASSUME ConfirmFails PROVE OpenQuestionNeedsYou'
  BY <1>15 DEF ConfirmFails, pumpVars, rowVars, OpenQuestionNeedsYou, Pumped
<1>16. ASSUME DeliveryDone PROVE OpenQuestionNeedsYou'
  BY <1>16 DEF DeliveryDone, pumpVars, OpenQuestionNeedsYou, Pumped
<1> QED  BY <1>1, <1>2, <1>3, <1>4, <1>5, <1>6, <1>7, <1>8, <1>9, <1>10, <1>11, <1>12, <1>13, <1>14, <1>15,
     <1>16
     DEF QuestionNext

\* What was sent is remembered as long as its agent lives.
LEMMA ConfirmableKept ==
    ASSUME TypeInv, QueueInv, RowsInv, SlotInv, SentInv, SentCanBeConfirmed, QuestionNext
    PROVE  SentCanBeConfirmed'
<1>1. ASSUME AskHuman PROVE SentCanBeConfirmed'  BY <1>1 DEF AskHuman, rowVars, SentCanBeConfirmed, AlreadySent
<1>2. ASSUME ReceiveAnswer PROVE SentCanBeConfirmed'
  BY <1>2 DEF ReceiveAnswer, rowVars, SentCanBeConfirmed, AlreadySent
<1>3. ASSUME WaitGivesUp PROVE SentCanBeConfirmed'  BY <1>3 DEF WaitGivesUp, rowVars, SentCanBeConfirmed, AlreadySent
<1>4. ASSUME DropReceiver PROVE SentCanBeConfirmed'  BY <1>4 DEF DropReceiver, rowVars, SentCanBeConfirmed, AlreadySent
<1>5. ASSUME HostLost PROVE SentCanBeConfirmed'  BY <1>5 DEF HostLost, SentCanBeConfirmed
<1>6. ASSUME PumpRow PROVE SentCanBeConfirmed'  BY <1>6 DEF PumpRow, hostVars, SentCanBeConfirmed, AlreadySent
<1>7. ASSUME PumpBind PROVE SentCanBeConfirmed'  BY <1>7 DEF PumpBind, rowVars, SentCanBeConfirmed, AlreadySent
<1>8. ASSUME PumpStep PROVE SentCanBeConfirmed'  BY <1>8 DEF PumpStep, hostVars, SentCanBeConfirmed, AlreadySent
<1>9. ASSUME PumpTask PROVE SentCanBeConfirmed'  BY <1>9 DEF PumpTask, hostVars, SentCanBeConfirmed, AlreadySent
<1>10. ASSUME NEW q \in Questions, DeliverAgain(q) PROVE SentCanBeConfirmed'
  BY <1>10 DEF DeliverAgain, hostVars, SentCanBeConfirmed, AlreadySent
<1>11. ASSUME NEW q \in Questions, AnswerBound(q) PROVE SentCanBeConfirmed'
  BY <1>11 DEF AnswerBound, AlreadySent, WaitsFor, hostVars, pumpVars, rowVars, TypeInv, Questions, SlotInv,
    SentCanBeConfirmed, AlreadySent
<1>12. ASSUME NEW q \in Questions, AnswerFails(q) PROVE SentCanBeConfirmed'
  BY <1>12 DEF AnswerFails, AlreadySent, rowVars, SentCanBeConfirmed, AlreadySent
<1>13. ASSUME NEW q \in Questions, NEW a \in Answers, Respond(q, a) PROVE SentCanBeConfirmed'
  BY <1>13 DEF Respond, hostVars, SentInv, SentCanBeConfirmed, AlreadySent
<1>14. ASSUME ConfirmDelivery PROVE SentCanBeConfirmed'
  BY <1>14 DEF ConfirmDelivery, hostVars, SentCanBeConfirmed, AlreadySent
<1>15. ASSUME ConfirmFails PROVE SentCanBeConfirmed'
  BY <1>15 DEF ConfirmFails, hostVars, rowVars, SentInv, SentCanBeConfirmed, AlreadySent
<1>16. ASSUME DeliveryDone PROVE SentCanBeConfirmed'
  BY <1>16 DEF DeliveryDone, hostVars, SentCanBeConfirmed, AlreadySent
<1> QED  BY <1>1, <1>2, <1>3, <1>4, <1>5, <1>6, <1>7, <1>8, <1>9, <1>10, <1>11, <1>12, <1>13, <1>14, <1>15,
     <1>16
     DEF QuestionNext

\* The invariant is inductive.
THEOREM QuestionInductive == QuestionSpec => []QuestionInv
<1>1. QuestionInit => QuestionInv
  <2> SUFFICES ASSUME QuestionInit PROVE QuestionInv  OBVIOUS
  <2>1. TypeInv
    <3>1. asked \in Seq(Questions)  BY EmptySeq DEF QuestionInit
    <3>2. NoAnswer \in AnswerOrNone /\ 0 \in 0..MaxQuestions  BY DEF AnswerOrNone
    <3> QED  BY <3>1, <3>2 DEF QuestionInit, TypeInv, NoSlot, None0
  <2>2. QueueInv /\ RowsInv /\ StepInv /\ SlotInv /\ SentInv
    BY DEF QuestionInit, QueueInv, RowsInv, StepInv, SlotInv, SentInv, Unseen, NoSlot, None0, Questions, NoAnswer
  <2> QED  BY <2>1, <2>2 DEF QuestionInv, QuestionInit, AnswerReachesItsQuestion, AnsweredWasSent, OpenQuestionNeedsYou,
      SentCanBeConfirmed, None0
<1>2. QuestionInv /\ [QuestionNext]_questionVars => QuestionInv'
  <2> SUFFICES ASSUME QuestionInv, [QuestionNext]_questionVars PROVE QuestionInv'  OBVIOUS
  <2>1. CASE QuestionNext
    BY <2>1, TypesKept, QueueKept, RowsKept, StepKept, SlotKept, SentKept, AnsweredKept, NeedsKept, ConfirmableKept DEF
      QuestionInv
  <2>2. CASE UNCHANGED questionVars
    BY <2>2 DEF questionVars, hostVars, pumpVars, rowVars, QuestionInv, TypeInv, QueueInv, RowsInv, StepInv, SlotInv,
      SentInv, Unseen, AnswerReachesItsQuestion, AnsweredWasSent, OpenQuestionNeedsYou, SentCanBeConfirmed, Pumped,
      AlreadySent
  <2> QED  BY <2>1, <2>2
<1> QED  BY <1>1, <1>2, PTL DEF QuestionSpec

\* The answer to a question reaches this question, is called delivered when it was, and no open
\* question is forgotten, for any number of questions and answers.
THEOREM QuestionsAnswered == QuestionSpec => []QuestionSafety
<1>1. QuestionInv => QuestionSafety
  <2> SUFFICES ASSUME QuestionInv PROVE QuestionSafety  OBVIOUS
  <2>1. QuestionTypeOK  BY DEF QuestionInv, TypeInv, RowsInv, QuestionTypeOK
  <2> QED  BY <2>1 DEF QuestionInv, QuestionSafety
<1> QED  BY <1>1, QuestionInductive, PTL
=============================================================================
