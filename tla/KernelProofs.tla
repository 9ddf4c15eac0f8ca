---------------------------- MODULE KernelProofs ----------------------------
(***************************************************************************)
(* Proofs about two components of the kernel, EventJournal and             *)
(* CommandReceipts, which share no state; for any numbers of topics,       *)
(* stores, subscribers, commands, clients and faults, and any limits.      *)
(*                                                                         *)
(* The stream.  Its invariant is about a hub, the record of what the       *)
(* publication barrier protects, because a command passes through several  *)
(* hubs before it leaves one behind.  Entries are numbered without a gap,  *)
(* a queue continues where its replay ends and ends with the journal, and  *)
(* the cursor of whoever need not resynchronise, followed by what it has   *)
(* yet to hear, says of every workflow what its store says.  A row that    *)
(* has been recorded and not yet published is the one thing that is owed   *)
(* on top of that, and publication pays it to every subscriber at once.    *)
(*                                                                         *)
(* The receipts.  The receipt alone does not carry the argument, because   *)
(* it is collected.  What does is the revision a command expects: an       *)
(* effect moves the aggregate past it, and the aggregate never comes back. *)
(***************************************************************************)
EXTENDS EventJournal, CommandReceipts, FiniteSetTheorems, FunctionTheorems, SequenceTheorems,
        WellFoundedInduction, TLAPS

\* What the journal, the outboxes, the queues and the cursors are made of.
Entry == [seq : Nat \ {0}, topic : Topics, rev : 2..MaxStored]
OutboxRow == [topic : Topics, rev : 2..MaxStored, owes : BOOLEAN]
Queue == [until : Nat, upto : Nat \cup {-1}, events : Seq(Entry)]
Cursor == [epoch : Nat, seq : Nat, view : [Flows -> 0..MaxStored]]
Journals ==
    [epoch : Nat \ {0}, seq : Nat, entries : Seq(Entry), known : [Topics -> 0..MaxStored]]
Hubs ==
    [stored : [Topics -> 1..MaxStored], rows : [Stores -> Seq(OutboxRow)],
     journal : Journals,
     queues : [Subscribers -> Queue], poisoned : SUBSET Stores, blocked : SUBSET Stores,
     executed : SUBSET OutboxRow, faults : Nat]

\* The number of the entry before the first one.
Before(j) == j.seq - Len(j.entries)

\* A journal holds its last entries, at most JournalMax, numbered one after the other.
Numbered(j) ==
    /\ Len(j.entries) \in 0..JournalMax /\ Len(j.entries) <= j.seq
    /\ \A i \in DOMAIN j.entries : j.entries[i].seq = Before(j) + i

\* Events that run from one number to another without a gap or a repetition, and are what the
\* journal holds as far as it still holds them.
RunsOn(j, from, upto, events) ==
    /\ events \in Seq(Entry) /\ from + Len(events) = upto
    /\ \A n \in 1..Len(events) :
          /\ events[n].seq = from + n
          /\ \A k \in DOMAIN j.entries :
                j.entries[k].seq = events[n].seq => j.entries[k] = events[n]

\* The number a queue's events follow: the subscription, or what has been heard since.
Mark(q) == IF q.until > q.upto THEN q.until ELSE q.upto

\* A cursor is never ahead of its stream, and a queue takes up where the cursor stands and
\* ends with the journal.
Follows(j, q, cursor) ==
    /\ cursor.epoch <= j.epoch
    /\ cursor.epoch = j.epoch => cursor.seq <= j.seq
    /\ q # NoQueue =>
          /\ cursor.epoch = j.epoch /\ q.upto = cursor.seq
          /\ Len(q.events) <= QueueMax
          /\ RunsOn(j, Mark(q), j.seq, q.events)

\* A subscriber that need not resynchronise: see Reachable.
Reach(j, q, cursor) ==
    /\ cursor.epoch = j.epoch
    /\ IF q = NoQueue THEN Covers(j, cursor)
       ELSE q.upto >= q.until \/ q.upto + 1 >= OldestSeq(j)

\* What it has yet to hear: see Ahead.
Coming(j, q, cursor) ==
    IF q = NoQueue THEN Between(j, cursor.seq, j.seq)
    ELSE Between(j, cursor.seq, q.until) \o q.events

\* Whoever need not resynchronise ends up with what is stored.
InStep(h, cursors) ==
    \A c \in Subscribers :
        Reach(h.journal, h.queues[c], cursors[c]) =>
            \A f \in Flows :
                LastRev(Coming(h.journal, h.queues[c], cursors[c]), f, cursors[c].view[f])
                    = h.stored[f]

\* The part that holds also while a command runs: types, numbers, cursors, and only runs owe
\* actions.
BaseInv(h, cursors) ==
    /\ h \in Hubs
    /\ Numbered(h.journal)
    /\ cursors \in [Subscribers -> Cursor]
    /\ \A c \in Subscribers : Follows(h.journal, h.queues[c], cursors[c])
    /\ \A t \in Stores : \A i \in DOMAIN h.rows[t] :
          h.rows[t][i].owes => h.rows[t][i].topic \in Executions

\* No change of a workflow waits in a store that can be read, but for the named ones.
Hidden(h, but) ==
    \A t \in Stores \ but : \A i \in DOMAIN h.rows[t] :
        h.rows[t][i].topic \in Flows => t \in h.poisoned

\* A sound hub.
HubInv(h, cursors) == BaseInv(h, cursors) /\ Hidden(h, {}) /\ InStep(h, cursors)

\* The inductive invariant of the stream.
StreamInv ==
    /\ HubInv(Hub, subscribed)
    /\ journal.epoch <= MaxStream /\ streamFaults <= MaxStreamFaults

----
\* Rank numbers the positions.
LEMMA Ranks ==
    ASSUME NEW n \in Nat, NEW at \in SUBSET (1..n)
    PROVE  /\ Cardinality(at) \in Nat
           /\ \A i \in at : Rank(at, i) \in 1..Cardinality(at)
           /\ \A i, j \in at : Rank(at, i) = Rank(at, j) => i = j
           /\ \A m \in 1..Cardinality(at) : \E i \in at : Rank(at, i) = m
<1> DEFINE upTo(i) == {k \in at : k <= i}
           rank == [i \in at |-> Rank(at, i)]
<1>0. \A i \in at : i \in Int  OBVIOUS
<1>1. IsFiniteSet(at) /\ Cardinality(at) \in Nat
  <2>1. IsFiniteSet(1..n)  BY FS_Interval
  <2>2. IsFiniteSet(at)  BY <2>1, FS_Subset
  <2> QED  BY <2>2, FS_CardinalityType
<1>2. ASSUME NEW i \in at
      PROVE  /\ IsFiniteSet(upTo(i)) /\ Rank(at, i) = Cardinality(upTo(i))
             /\ Rank(at, i) \in 1..Cardinality(at)
  <2>1. upTo(i) \in SUBSET at /\ i \in upTo(i)  BY <1>0
  <2>0. Rank(at, i) = Cardinality(upTo(i))  BY DEF Rank
  <2> HIDE DEF upTo
  <2> QED  BY <1>1, <2>0, <2>1, FS_Subset, FS_CardinalityType, FS_EmptySet
<1>3. ASSUME NEW i \in at, NEW j \in at, i < j
      PROVE  Rank(at, i) # Rank(at, j)
  <2>1. ASSUME NEW k \in upTo(i) PROVE k \in upTo(j)  BY <1>0, <1>3
  <2>2. j \in upTo(j) /\ j \notin upTo(i)  BY <1>0, <1>3
  <2> HIDE DEF upTo
  <2>3. upTo(i) \in SUBSET upTo(j)  BY <2>1
  <2> QED  BY <1>2, <2>2, <2>3, FS_Subset
<1>4. \A i, j \in at : Rank(at, i) = Rank(at, j) => i = j
  <2> SUFFICES ASSUME NEW i \in at, NEW j \in at, Rank(at, i) = Rank(at, j)
               PROVE  i = j
      OBVIOUS
  <2>1. ~(i < j) /\ ~(j < i)  BY <1>3
  <2> QED  BY <1>0, <2>1
<1>5. rank \in Injection(at, 1..Cardinality(at))  BY <1>2, <1>4 DEF Injection, IsInjective
<1>6. rank \in Surjection(at, 1..Cardinality(at))  BY <1>5, <1>1, FS_Interval, FS_Injection
<1> QED  BY <1>1, <1>2, <1>4, <1>6 DEF Surjection

\* The picked elements are the ones at the positions, and no others.
LEMMA PickedMembers ==
    ASSUME NEW S, NEW s \in Seq(S), NEW at \in SUBSET (1..Len(s))
    PROVE  /\ Picked(s, at) \in Seq(S)
           /\ Len(Picked(s, at)) = Cardinality(at)
           /\ \A n \in DOMAIN Picked(s, at) : \E i \in at : Picked(s, at)[n] = s[i]
           /\ \A i \in at : \E n \in DOMAIN Picked(s, at) : Picked(s, at)[n] = s[i]
<1> DEFINE nth(n) == CHOOSE i \in at : Rank(at, i) = n
<1>0. Len(s) \in Nat  OBVIOUS
<1>1. /\ Cardinality(at) \in Nat
      /\ \A i \in at : Rank(at, i) \in 1..Cardinality(at)
      /\ \A i, j \in at : Rank(at, i) = Rank(at, j) => i = j
      /\ \A m \in 1..Cardinality(at) : \E i \in at : Rank(at, i) = m
  BY <1>0, Ranks
<1>2. Picked(s, at) = [n \in 1..Cardinality(at) |-> s[nth(n)]]  BY DEF Picked
<1>3. \A n \in 1..Cardinality(at) : nth(n) \in at /\ Rank(at, nth(n)) = n  BY <1>1
<1>4. \A i \in at : nth(Rank(at, i)) = i  BY <1>1, <1>3
<1> HIDE DEF nth
<1>5. \A i \in at : s[i] \in S  OBVIOUS
<1>6. DOMAIN Picked(s, at) = 1..Cardinality(at)  BY <1>2
<1>7. Picked(s, at) \in [1..Cardinality(at) -> S]  BY <1>2, <1>3, <1>5
<1>8. Picked(s, at) \in Seq(S) /\ Len(Picked(s, at)) = Cardinality(at)  BY <1>1, <1>7
<1>9. \A n \in 1..Cardinality(at) : Picked(s, at)[n] = s[nth(n)]  BY <1>2
<1> QED  BY <1>1, <1>3, <1>6, <1>8, <1>2, <1>4, <1>9

\* What is picked at an interval of positions is the part of the sequence there.
LEMMA PickedInterval ==
    ASSUME NEW S, NEW s \in Seq(S), NEW a \in Nat, NEW b \in Nat, a <= b, b <= Len(s)
    PROVE  /\ Picked(s, (a + 1)..b) \in Seq(S)
           /\ Len(Picked(s, (a + 1)..b)) = b - a
           /\ \A n \in 1..(b - a) : Picked(s, (a + 1)..b)[n] = s[a + n]
<1> DEFINE at == (a + 1)..b
           nth(n) == CHOOSE i \in at : Rank(at, i) = n
<1>1. at \in SUBSET (1..Len(s)) /\ Cardinality(at) = b - a
  <2>1. a + 1 \in Int /\ b \in Int  OBVIOUS
  <2>2. Cardinality((a + 1)..b) = IF a + 1 > b THEN 0 ELSE b - (a + 1) + 1  BY <2>1, FS_Interval
  <2> QED  BY <2>2
<1>2. ASSUME NEW i \in at PROVE Rank(at, i) = i - a
  <2>1. {k \in at : k <= i} = (a + 1)..i  OBVIOUS
  <2>2. Cardinality((a + 1)..i) = i - a  BY FS_Interval
  <2> QED  BY <2>1, <2>2 DEF Rank
<1>3. Picked(s, at) = [n \in 1..Cardinality(at) |-> s[nth(n)]]  BY DEF Picked
<1>4. \A n \in 1..(b - a) : nth(n) = a + n
  <2> SUFFICES ASSUME NEW n \in 1..(b - a) PROVE nth(n) = a + n  OBVIOUS
  <2> QED  BY <1>2
<1> HIDE DEF nth
<1>5. \A n \in 1..(b - a) : Picked(s, at)[n] = s[a + n]  BY <1>1, <1>3, <1>4
<1> QED  BY <1>1, PickedMembers, <1>5

\* A sequence of which each element is an element, equal to another of the same length.
LEMMA SameSequence ==
    ASSUME NEW S, NEW s \in Seq(S), NEW t \in Seq(S), Len(s) = Len(t),
           \A i \in 1..Len(s) : s[i] = t[i]
    PROVE  s = t
  OBVIOUS

\* A set of positions that is not empty has a last one.
LEMMA GreatestOf ==
    ASSUME NEW n \in Nat, NEW S \in SUBSET (1..n), S # {}
    PROVE  \E x \in S : \A y \in S : y <= x
<1> DEFINE T == {n - x : x \in S}
<1>0. \A x \in S : x \in Int /\ n - x \in Nat  OBVIOUS
<1>1. T \in SUBSET Nat /\ T # {}  BY <1>0
<1>2. PICK m \in T : \A k \in T : <<k, m>> \notin OpToRel(<, Nat)  BY <1>1, NatLessThanWellFounded, WFMin
<1>3. \A k \in T : ~(k < m)  BY <1>1, <1>2 DEF OpToRel
<1>4. PICK x \in S : m = n - x  OBVIOUS
<1>5. ASSUME NEW y \in S PROVE y <= x
  <2>1. n - y \in T  OBVIOUS
  <2>2. ~(n - y < n - x)  BY <1>3, <1>4, <2>1
  <2> HIDE DEF T
  <2> QED  BY <1>0, <2>2
<1> QED  BY <1>5

\* The last revision is what was before, or the one of the last element about the topic.
LEMMA LastRevIs ==
    ASSUME NEW S, NEW s \in Seq(S), NEW x, NEW b
    PROVE  \/ (\A i \in DOMAIN s : s[i].topic # x) /\ LastRev(s, x, b) = b
           \/ \E m \in DOMAIN s : /\ s[m].topic = x /\ LastRev(s, x, b) = s[m].rev
                                  /\ \A k \in DOMAIN s : s[k].topic = x => k <= m
<1> DEFINE of == {i \in DOMAIN s : s[i].topic = x}
           m == CHOOSE i \in of : \A k \in of : k <= i
<1>1. CASE of = {}  BY <1>1 DEF LastRev
<1>2. CASE of # {}
  <2>1. Len(s) \in Nat /\ of \in SUBSET (1..Len(s))  OBVIOUS
  <2>2. \E i \in of : \A k \in of : k <= i  BY <1>2, <2>1, GreatestOf
  <2>3. m \in of /\ \A k \in of : k <= m  BY <2>2
  <2>4. LastRev(s, x, b) = s[m].rev  BY <1>2 DEF LastRev
  <2> HIDE DEF m
  <2> QED  BY <2>3, <2>4
<1> QED  BY <1>1, <1>2

\* A topic no element is about keeps its revision ...
LEMMA LastRevAbsent ==
    ASSUME NEW S, NEW s \in Seq(S), NEW x, NEW b, \A i \in DOMAIN s : s[i].topic # x
    PROVE  LastRev(s, x, b) = b
  BY LastRevIs

\* ... and one that some element is about has the revision of the last of them.
LEMMA LastRevPresent ==
    ASSUME NEW S, NEW s \in Seq(S), NEW x, NEW b, NEW i \in DOMAIN s, s[i].topic = x
    PROVE  \E m \in DOMAIN s : /\ s[m].topic = x /\ LastRev(s, x, b) = s[m].rev
                               /\ \A k \in DOMAIN s : s[k].topic = x => k <= m
  BY LastRevIs

\* The revision after one sequence and then another.
LEMMA LastRevConcat ==
    ASSUME NEW S, NEW s \in Seq(S), NEW t \in Seq(S), NEW x, NEW b
    PROVE  LastRev(s \o t, x, b) = LastRev(t, x, LastRev(s, x, b))
<1> DEFINE u == s \o t
           c == LastRev(s, x, b)
<1>1. /\ u \in Seq(S) /\ Len(u) = Len(s) + Len(t) /\ Len(s) \in Nat /\ Len(t) \in Nat
      /\ \A i \in 1..Len(s) : u[i] = s[i]
      /\ \A i \in 1..Len(t) : u[Len(s) + i] = t[i]
  OBVIOUS
<1> HIDE DEF u
<1>2. \A i \in 1..Len(u) : i \in 1..Len(s) \/ \E k \in 1..Len(t) : i = Len(s) + k
  <2>0. Len(u) = Len(s) + Len(t) /\ Len(s) \in Nat /\ Len(t) \in Nat  BY <1>1
  <2> SUFFICES ASSUME NEW i \in 1..Len(u), i > Len(s) PROVE \E k \in 1..Len(t) : i = Len(s) + k  BY <2>0
  <2>1. i - Len(s) \in 1..Len(t) /\ i = Len(s) + (i - Len(s))  BY <2>0
  <2> QED  BY <2>1
<1>3. DOMAIN u = 1..Len(u) /\ DOMAIN s = 1..Len(s) /\ DOMAIN t = 1..Len(t)
  <2>1. u \in Seq(S)  BY <1>1
  <2> QED  BY <2>1
<1>4. CASE \A i \in DOMAIN t : t[i].topic # x
  <2>1. LastRev(t, x, c) = c  BY <1>4, LastRevIs
  <2>2. CASE \A i \in DOMAIN s : s[i].topic # x
    <3>1. ASSUME NEW i \in DOMAIN u PROVE u[i].topic # x
      <4>1. CASE i \in 1..Len(s)  BY <1>1, <1>3, <2>2, <4>1
      <4>2. CASE \E k \in 1..Len(t) : i = Len(s) + k  BY <1>1, <1>3, <1>4, <4>2
      <4> QED  BY <1>2, <1>3, <4>1, <4>2
    <3>2. LastRev(u, x, b) = b  BY <1>1, <3>1, LastRevIs
    <3>3. c = b  BY <2>2, LastRevIs
    <3> QED  BY <2>1, <3>2, <3>3 DEF u
  <2>3. CASE ~(\A i \in DOMAIN s : s[i].topic # x)
    <3>1. PICK m \in DOMAIN s : /\ s[m].topic = x /\ c = s[m].rev
                                /\ \A k \in DOMAIN s : s[k].topic = x => k <= m
      BY <2>3, LastRevIs
    <3>2. m \in DOMAIN u /\ u[m].topic = x  BY <1>1, <1>3, <3>1
    <3>3. PICK n \in DOMAIN u : /\ u[n].topic = x /\ LastRev(u, x, b) = u[n].rev
                                /\ \A k \in DOMAIN u : u[k].topic = x => k <= n
      BY <1>1, <3>2, LastRevIs
    <3>4. n \in 1..Len(s)
      <4>1. ASSUME NEW k \in 1..Len(t), n = Len(s) + k PROVE FALSE  BY <1>1, <1>3, <1>4, <3>3, <4>1
      <4> QED  BY <1>2, <1>3, <4>1
    <3>5. n = m  BY <1>1, <1>3, <3>1, <3>2, <3>3, <3>4
    <3> QED  BY <1>1, <1>3, <2>1, <3>1, <3>3, <3>5 DEF u
  <2> QED  BY <2>2, <2>3
<1>5. CASE ~(\A i \in DOMAIN t : t[i].topic # x)
  <2>1. PICK m \in DOMAIN t : /\ t[m].topic = x /\ LastRev(t, x, c) = t[m].rev
                              /\ \A k \in DOMAIN t : t[k].topic = x => k <= m
    BY <1>5, LastRevIs
  <2>2. Len(s) + m \in DOMAIN u /\ u[Len(s) + m].topic = x  BY <1>1, <1>3, <2>1
  <2>3. PICK n \in DOMAIN u : /\ u[n].topic = x /\ LastRev(u, x, b) = u[n].rev
                              /\ \A k \in DOMAIN u : u[k].topic = x => k <= n
    BY <1>1, <2>2, LastRevIs
  <2>4. PICK k \in 1..Len(t) : n = Len(s) + k  BY <1>1, <1>2, <1>3, <2>1, <2>2, <2>3
  <2>5. k = m
    <3>1. k <= m /\ Len(s) + m <= n  BY <1>3, <2>1, <2>2, <2>3, <2>4, <1>1
    <3> QED  BY <1>1, <1>3, <2>1, <2>4, <3>1
  <2> QED  BY <1>1, <1>3, <2>1, <2>3, <2>4, <2>5 DEF u
<1> QED  BY <1>4, <1>5

\* Rows and the events made of them say the same.
LEMMA LastRevAlike ==
    ASSUME NEW S, NEW s \in Seq(S), NEW T, NEW t \in Seq(T), Len(s) = Len(t),
           \A i \in 1..Len(s) : s[i].topic = t[i].topic /\ s[i].rev = t[i].rev,
           NEW x, NEW b
    PROVE  LastRev(s, x, b) = LastRev(t, x, b)
<1>1. DOMAIN s = 1..Len(s) /\ DOMAIN t = 1..Len(s) /\ Len(s) \in Nat  OBVIOUS
<1>2. CASE \A i \in DOMAIN s : s[i].topic # x
  <2>1. \A i \in DOMAIN t : t[i].topic # x  BY <1>1, <1>2
  <2>2. LastRev(s, x, b) = b  BY <1>2, LastRevIs
  <2>3. LastRev(t, x, b) = b  BY <2>1, LastRevIs
  <2> QED  BY <2>2, <2>3
<1>3. CASE ~(\A i \in DOMAIN s : s[i].topic # x)
  <2>1. PICK m \in DOMAIN s : /\ s[m].topic = x /\ LastRev(s, x, b) = s[m].rev
                              /\ \A k \in DOMAIN s : s[k].topic = x => k <= m
    BY <1>3, LastRevIs
  <2>2. PICK n \in DOMAIN t : /\ t[n].topic = x /\ LastRev(t, x, b) = t[n].rev
                              /\ \A k \in DOMAIN t : t[k].topic = x => k <= n
    <3>1. m \in DOMAIN t /\ t[m].topic = x  BY <1>1, <2>1
    <3> QED  BY <3>1, LastRevPresent
  <2>3. m = n  BY <1>1, <2>1, <2>2
  <2> QED  BY <1>1, <2>1, <2>2, <2>3
<1> QED  BY <1>2, <1>3

\* The numbers before the first entry.
LEMMA BeforeIs ==
    ASSUME NEW j \in Journals, Numbered(j)
    PROVE  /\ Before(j) \in Nat /\ j.seq = Before(j) + Len(j.entries)
           /\ OldestSeq(j) = Before(j) + 1
           /\ Len(j.entries) \in Nat /\ DOMAIN j.entries = 1..Len(j.entries)
<1>1. Len(j.entries) \in Nat /\ j.seq \in Nat /\ DOMAIN j.entries = 1..Len(j.entries)  BY DEF Journals
<1>2. Before(j) \in Nat /\ j.seq = Before(j) + Len(j.entries)  BY <1>1 DEF Before, Numbered
<1>3. CASE j.entries = <<>>  BY <1>1, <1>2, <1>3 DEF OldestSeq
<1>4. CASE j.entries # <<>>
  <2>1. Head(j.entries).seq = Before(j) + 1  BY <1>2, <1>1, <1>4 DEF Numbered, Journals
  <2> QED  BY <1>2, <1>4, <2>1 DEF OldestSeq
<1> QED  BY <1>1, <1>2, <1>3, <1>4

\* The entries between two numbers, as far as the journal goes back.
LEMMA BetweenIs ==
    ASSUME NEW j \in Journals, Numbered(j), NEW from \in Nat, NEW upto \in Nat,
           from <= upto, upto <= j.seq, Before(j) <= from
    PROVE  RunsOn(j, from, upto, Between(j, from, upto))
<1> DEFINE a == from - Before(j)
           b == upto - Before(j)
           at == {i \in DOMAIN j.entries : j.entries[i].seq > from /\ j.entries[i].seq <= upto}
<1>1. /\ Before(j) \in Nat /\ j.seq = Before(j) + Len(j.entries)
      /\ Len(j.entries) \in Nat /\ DOMAIN j.entries = 1..Len(j.entries)
  BY BeforeIs
<1>2. \A i \in DOMAIN j.entries : j.entries[i].seq = Before(j) + i  BY DEF Numbered
<1>3. a \in Nat /\ b \in Nat /\ a <= b /\ b <= Len(j.entries)  BY <1>1
<1>4. at = (a + 1)..b
  <2>1. ASSUME NEW i \in at PROVE i \in (a + 1)..b  BY <1>1, <1>2
  <2>2. ASSUME NEW i \in (a + 1)..b PROVE i \in at
    <3>1. i \in DOMAIN j.entries  BY <1>1, <1>3
    <3>2. j.entries[i].seq = Before(j) + i  BY <1>2, <3>1
    <3> QED  BY <1>1, <3>1, <3>2
  <2> HIDE DEF at, a, b
  <2> QED  BY <2>1, <2>2
<1>5. Between(j, from, upto) = Picked(j.entries, (a + 1)..b)  BY <1>4 DEF Between
<1>6. j.entries \in Seq(Entry)  BY DEF Journals
<1> HIDE DEF a, b, at
<1> DEFINE s == j.entries
<1> HIDE DEF s
<1>7. /\ Picked(s, (a + 1)..b) \in Seq(Entry) /\ Len(Picked(s, (a + 1)..b)) = b - a
       /\ \A n \in 1..(b - a) : Picked(s, (a + 1)..b)[n] = s[a + n]
  <2>1. s \in Seq(Entry) /\ a \in Nat /\ b \in Nat /\ a <= b /\ b <= Len(s)  BY <1>3, <1>6 DEF s
  <2> QED  BY <2>1, PickedInterval, ZenonT(30)
<1>8. /\ Between(j, from, upto) \in Seq(Entry) /\ Len(Between(j, from, upto)) = b - a
      /\ \A n \in 1..(b - a) : Between(j, from, upto)[n] = j.entries[a + n]
  BY <1>5, <1>7 DEF s
<1>9. b - a = upto - from /\ from = Before(j) + a  BY <1>1 DEF a, b
<1> DEFINE events == Between(j, from, upto)
<1>10. events \in Seq(Entry) /\ Len(events) = b - a  BY <1>8
<1> HIDE DEF events
<1>11. ASSUME NEW n \in 1..Len(events)
       PROVE  /\ events[n].seq = from + n
              /\ \A k \in DOMAIN j.entries :
                    j.entries[k].seq = events[n].seq => j.entries[k] = events[n]
  <2>1. events[n] = j.entries[a + n] /\ a + n \in DOMAIN j.entries  BY <1>1, <1>3, <1>8, <1>10 DEF events
  <2>0. Before(j) + (a + n) = from + n  BY <1>1, <1>3, <1>9
  <2>2. events[n].seq = from + n  BY <1>2, <2>0, <2>1
  <2>3. ASSUME NEW k \in DOMAIN j.entries, j.entries[k].seq = events[n].seq PROVE k = a + n
    <3>1. Before(j) + k = Before(j) + (a + n)  BY <1>2, <2>0, <2>2, <2>3
    <3> QED  BY <1>1, <1>3, <3>1
  <2> QED  BY <2>1, <2>2, <2>3
<1>12. from + Len(events) = upto  BY <1>3, <1>9, <1>10
<1> QED  BY <1>10, <1>11, <1>12 DEF RunsOn, events

\* Where the journal holds everything there is one such sequence.
LEMMA RunsOnce ==
    ASSUME NEW j \in Journals, Numbered(j), NEW from \in Nat, Before(j) <= from,
           NEW s, RunsOn(j, from, j.seq, s), NEW t, RunsOn(j, from, j.seq, t)
    PROVE  s = t
<1>1. /\ Before(j) \in Nat /\ j.seq = Before(j) + Len(j.entries)
      /\ Len(j.entries) \in Nat /\ DOMAIN j.entries = 1..Len(j.entries)
  BY BeforeIs
<1>2. s \in Seq(Entry) /\ t \in Seq(Entry) /\ Len(s) = Len(t) /\ from + Len(s) = j.seq  BY <1>1 DEF RunsOn
<1>3. ASSUME NEW n \in 1..Len(s) PROVE s[n] = t[n]
  <2> DEFINE k == from - Before(j) + n
  <2>1. k \in DOMAIN j.entries /\ Before(j) + k = from + n  BY <1>1, <1>2
  <2> HIDE DEF k
  <2>2. j.entries[k].seq = from + n  BY <2>1 DEF Numbered
  <2>3. j.entries[k] = s[n] /\ j.entries[k] = t[n]  BY <1>2, <2>1, <2>2 DEF RunsOn
  <2> QED  BY <2>3
<1> QED  BY <1>2, <1>3

\* There is nothing between a number and a smaller one.
LEMMA BetweenNothing ==
    ASSUME NEW j \in Journals, NEW from \in Nat, NEW upto \in Nat, upto <= from
    PROVE  Between(j, from, upto) = <<>>
<1> DEFINE at == {i \in DOMAIN j.entries : j.entries[i].seq > from /\ j.entries[i].seq <= upto}
<1>1. \A i \in DOMAIN j.entries : j.entries[i].seq \in Nat
  <2>1. j.entries \in Seq(Entry)  BY DEF Journals
  <2>2. \A i \in DOMAIN j.entries : j.entries[i] \in Entry  BY <2>1
  <2> QED  BY <2>2 DEF Entry
<1>2. at = {}  BY <1>1
<1>3. Between(j, from, upto) = Picked(j.entries, {})  BY <1>2 DEF Between
<1>4. 1..0 = {}  OBVIOUS
<1> QED  BY <1>3, FS_EmptySet, <1>4 DEF Picked

\* One such sequence after another.
LEMMA RunsTogether ==
    ASSUME NEW j, NEW from \in Nat, NEW m \in Nat, NEW upto \in Nat,
           NEW s, RunsOn(j, from, m, s), NEW e, RunsOn(j, m, upto, e)
    PROVE  RunsOn(j, from, upto, s \o e)
<1>1. /\ s \in Seq(Entry) /\ e \in Seq(Entry) /\ Len(s) \in Nat /\ Len(e) \in Nat
      /\ from + Len(s) = m /\ m + Len(e) = upto
  BY DEF RunsOn
<1> DEFINE u == s \o e
<1>0. u \in Seq(Entry) /\ Len(u) = Len(s) + Len(e)  BY <1>1
<1>2. /\ \A n \in 1..Len(s) : u[n] = s[n]
      /\ \A n \in 1..Len(e) : u[Len(s) + n] = e[n]
  BY <1>1
<1> HIDE DEF u
<1>3. ASSUME NEW n \in 1..Len(u)
      PROVE  /\ u[n].seq = from + n
             /\ \A k \in DOMAIN j.entries : j.entries[k].seq = u[n].seq => j.entries[k] = u[n]
  <2>1. CASE n \in 1..Len(s)
    <3>1. u[n] = s[n] /\ s[n].seq = from + n  BY <1>2, <2>1 DEF RunsOn
    <3>2. \A k \in DOMAIN j.entries : j.entries[k].seq = s[n].seq => j.entries[k] = s[n]  BY <2>1 DEF RunsOn
    <3> QED  BY <3>1, <3>2
  <2>2. CASE n \notin 1..Len(s)
    <3> DEFINE i == n - Len(s)
    <3>1. i \in 1..Len(e) /\ n = Len(s) + i  BY <1>0, <1>1, <2>2
    <3> HIDE DEF i
    <3>2. u[n] = e[i]  BY <1>2, <3>1
    <3>3. e[i].seq = m + i  BY <3>1 DEF RunsOn
    <3>4. \A k \in DOMAIN j.entries : j.entries[k].seq = e[i].seq => j.entries[k] = e[i]  BY <3>1 DEF RunsOn
    <3>5. m + i = from + n  BY <1>1, <3>1, SMTT(30)
    <3> QED  BY <3>2, <3>3, <3>4, <3>5
  <2> QED  BY <2>1, <2>2
<1>4. from + Len(u) = upto  BY <1>0, <1>1
<1> QED  BY <1>0, <1>3, <1>4 DEF RunsOn, u

\* What a subscriber in reach has still to hear runs from its cursor to the end of the journal.
LEMMA ComingIs ==
    ASSUME NEW j \in Journals, Numbered(j), NEW q \in Queue, NEW cursor \in Cursor,
           Follows(j, q, cursor), Reach(j, q, cursor)
    PROVE  /\ cursor.seq \in Nat /\ cursor.seq <= j.seq
           /\ RunsOn(j, cursor.seq, j.seq, Coming(j, q, cursor))
<1>1. Before(j) \in Nat /\ OldestSeq(j) = Before(j) + 1 /\ j.seq \in Nat  BY BeforeIs DEF Journals
<1>2. cursor.seq \in Nat /\ cursor.seq <= j.seq  BY DEF Cursor, Follows, Reach
<1>3. CASE q = NoQueue
  <2>1. Before(j) <= cursor.seq  BY <1>1, <1>2, <1>3 DEF Reach, Covers
  <2>2. j.seq <= j.seq  BY <1>1
  <2> QED  BY <1>1, <1>2, <1>3, <2>1, <2>2, BetweenIs DEF Coming
<1>4. CASE q # NoQueue
  <2>1. /\ q.upto = cursor.seq /\ q.until \in Nat /\ q.events \in Seq(Entry)
        /\ Mark(q) = IF q.until > cursor.seq THEN q.until ELSE cursor.seq
        /\ RunsOn(j, Mark(q), j.seq, q.events)
    BY <1>2, <1>4 DEF Follows, Queue, Mark
  <2>2. Coming(j, q, cursor) = Between(j, cursor.seq, q.until) \o q.events  BY <1>4 DEF Coming
  <2>3. CASE q.until <= cursor.seq
    <3>1. Between(j, cursor.seq, q.until) = <<>>  BY <1>2, <2>1, <2>3, BetweenNothing
    <3> QED  BY <1>2, <2>1, <2>2, <2>3, <3>1
  <2>4. CASE q.until > cursor.seq
    <3>1. Before(j) <= cursor.seq /\ Mark(q) = q.until /\ cursor.seq <= q.until
      BY <1>1, <1>2, <1>4, <2>1, <2>4 DEF Reach
    <3>2. q.until <= j.seq  BY <1>1, <2>1, <3>1 DEF RunsOn
    <3>3. RunsOn(j, cursor.seq, q.until, Between(j, cursor.seq, q.until))  BY <1>1, <1>2, <2>1, <3>1, <3>2, BetweenIs
    <3> QED  BY <1>1, <1>2, <2>1, <2>2, <3>1, <3>3, RunsTogether
  <2> QED  BY <1>2, <2>1, <2>3, <2>4
<1> QED  BY <1>2, <1>3, <1>4

\* Rows that owe actions survive, or their actions have been executed.
Keeps(h, g) ==
    /\ h.executed \subseteq g.executed
    /\ \A t \in Stores : \A i \in DOMAIN h.rows[t] :
          h.rows[t][i].owes =>
              \/ h.rows[t][i] \in g.executed
              \/ \E k \in DOMAIN g.rows[t] : g.rows[t][k] = h.rows[t][i]

\* The same event stream.
SameStream(h, g) ==
    h.stored = g.stored /\ h.journal = g.journal /\ h.queues = g.queues

\* Only runs owe actions.
OwesTidy(h) ==
    \A t \in Stores : \A i \in DOMAIN h.rows[t] :
        h.rows[t][i].owes => h.rows[t][i].topic \in Executions

\* What two steps each keep, they keep together.
LEMMA KeepsOn ==
    ASSUME NEW h \in Hubs, NEW g \in Hubs, NEW k \in Hubs, Keeps(h, g), Keeps(g, k)
    PROVE  Keeps(h, k)
<1> SUFFICES ASSUME NEW t \in Stores, NEW i \in DOMAIN h.rows[t], h.rows[t][i].owes
             PROVE  \/ h.rows[t][i] \in k.executed
                    \/ \E n \in DOMAIN k.rows[t] : k.rows[t][n] = h.rows[t][i]
    BY DEF Keeps
<1>1. CASE h.rows[t][i] \in g.executed  BY <1>1 DEF Keeps
<1>2. ASSUME NEW n \in DOMAIN g.rows[t], g.rows[t][n] = h.rows[t][i]
      PROVE  \/ h.rows[t][i] \in k.executed
             \/ \E m \in DOMAIN k.rows[t] : k.rows[t][m] = h.rows[t][i]
  <2>1. g.rows[t][n].owes  BY <1>2
  <2> QED  BY <1>2, <2>1 DEF Keeps
<1> QED  BY <1>1, <1>2 DEF Keeps

\* A step that leaves the outboxes alone keeps what is owed.
LEMMA KeepsSame ==
    ASSUME NEW h \in Hubs, NEW g \in Hubs, h.rows = g.rows, h.executed = g.executed
    PROVE  Keeps(h, g)
  BY DEF Keeps

\* The parts of a hub.
LEMMA HubFields ==
    ASSUME NEW h \in Hubs
    PROVE  /\ h.stored \in [Topics -> 1..MaxStored] /\ h.rows \in [Stores -> Seq(OutboxRow)]
           /\ h.journal \in Journals /\ h.queues \in [Subscribers -> Queue]
           /\ h.poisoned \in SUBSET Stores /\ h.blocked \in SUBSET Stores
           /\ h.executed \in SUBSET OutboxRow /\ h.faults \in Nat
  BY DEF Hubs

\* A new stream: an empty journal, no queues, and nothing else changes.
LEMMA RotateIs ==
    ASSUME NEW h \in Hubs
    PROVE  /\ Rotate(h) \in Hubs
           /\ Rotate(h).stored = h.stored /\ Rotate(h).rows = h.rows
           /\ Rotate(h).journal = EmptyJournal(h.journal.epoch + 1)
           /\ Rotate(h).queues = [c \in Subscribers |-> NoQueue]
           /\ Rotate(h).poisoned = h.poisoned /\ Rotate(h).blocked = h.blocked
           /\ Rotate(h).executed = h.executed /\ Rotate(h).faults = h.faults
<1>0. h.journal.epoch + 1 \in Nat \ {0}  BY DEF Hubs, Journals
<1>1. EmptyJournal(h.journal.epoch + 1) \in Journals
  <2>1. <<>> \in Seq(Entry) /\ 0 \in 0..MaxStored  BY StreamAssumption
  <2> QED  BY <1>0, <2>1 DEF EmptyJournal, Journals
<1>2. [c \in Subscribers |-> NoQueue] \in [Subscribers -> Queue]
  <2>1. <<>> \in Seq(Entry)  OBVIOUS
  <2> QED  BY <2>1 DEF NoQueue, Queue
<1> DEFINE e == EmptyJournal(h.journal.epoch + 1)
           q == [c \in Subscribers |-> NoQueue]
<1> HIDE DEF e, q
<1> QED  BY <1>1, <1>2 DEF Hubs, e, q, Rotate

\* Reconciling keeps the rows that owe actions and no others.
LEMMA ReconciledIs ==
    ASSUME NEW h \in Hubs, NEW t \in Stores
    PROVE  /\ Reconciled(h, t) \in Hubs /\ SameStream(h, Reconciled(h, t))
           /\ Reconciled(h, t).poisoned = h.poisoned /\ Reconciled(h, t).blocked = h.blocked
           /\ Reconciled(h, t).executed = h.executed /\ Reconciled(h, t).faults = h.faults
           /\ \A u \in Stores \ {t} : Reconciled(h, t).rows[u] = h.rows[u]
           /\ \A n \in DOMAIN Reconciled(h, t).rows[t] :
                 /\ Reconciled(h, t).rows[t][n].owes
                 /\ \E i \in DOMAIN h.rows[t] : Reconciled(h, t).rows[t][n] = h.rows[t][i]
           /\ Keeps(h, Reconciled(h, t))
<1> DEFINE s == h.rows[t]
           at == {i \in DOMAIN s : s[i].owes}
           p == Picked(s, at)
           g == Reconciled(h, t)
<1>1. s \in Seq(OutboxRow) /\ DOMAIN s = 1..Len(s)  BY DEF Hubs
<1>2. at \in SUBSET (1..Len(s))  BY <1>1
<1>3. \A i \in at : i \in DOMAIN s /\ s[i].owes  OBVIOUS
<1>4. \A i \in DOMAIN s : s[i].owes => i \in at  OBVIOUS
<1>5. g = [h EXCEPT !.rows = [@ EXCEPT ![t] = p]]  BY DEF Reconciled
<1> HIDE DEF at
<1>6. /\ p \in Seq(OutboxRow)
      /\ \A n \in DOMAIN p : \E i \in at : p[n] = s[i]
      /\ \A i \in at : \E n \in DOMAIN p : p[n] = s[i]
  BY <1>1, <1>2, PickedMembers
<1> HIDE DEF p, g
<1>7. /\ g \in Hubs /\ g.rows = [h.rows EXCEPT ![t] = p] /\ SameStream(h, g)
      /\ g.poisoned = h.poisoned /\ g.blocked = h.blocked
      /\ g.executed = h.executed /\ g.faults = h.faults
  BY <1>5, <1>6 DEF Hubs, SameStream
<1>8. g.rows[t] = p /\ \A u \in Stores \ {t} : g.rows[u] = h.rows[u]  BY <1>7 DEF Hubs
<1>9. Keeps(h, g)
  <2> SUFFICES ASSUME NEW u \in Stores, NEW i \in DOMAIN h.rows[u], h.rows[u][i].owes
               PROVE  \E k \in DOMAIN g.rows[u] : g.rows[u][k] = h.rows[u][i]
    BY <1>7 DEF Keeps
  <2>1. CASE u = t  BY <1>4, <1>6, <1>8, <2>1
  <2>2. CASE u # t  BY <1>8, <2>2
  <2> QED  BY <2>1, <2>2
<1>10. ASSUME NEW n \in DOMAIN p PROVE p[n].owes /\ \E i \in DOMAIN s : p[n] = s[i]  BY <1>3, <1>6
<1> QED  BY <1>7, <1>8, <1>9, <1>10 DEF g

\* Recovery leaves no poisoned store.
LEMMA RecoveredIs ==
    ASSUME NEW h \in Hubs
    PROVE  /\ RecoveredPoison(h) \in Hubs /\ SameStream(h, RecoveredPoison(h))
           /\ RecoveredPoison(h).poisoned = {} /\ RecoveredPoison(h).blocked = h.blocked
           /\ RecoveredPoison(h).executed = h.executed /\ RecoveredPoison(h).faults = h.faults
           /\ \A t \in Stores \ h.poisoned : RecoveredPoison(h).rows[t] = h.rows[t]
           /\ \A t \in h.poisoned : \A n \in DOMAIN RecoveredPoison(h).rows[t] :
                 /\ RecoveredPoison(h).rows[t][n].owes
                 /\ \E i \in DOMAIN h.rows[t] : RecoveredPoison(h).rows[t][n] = h.rows[t][i]
           /\ Keeps(h, RecoveredPoison(h))
<1> DEFINE R == [t \in Stores |-> IF t \in h.poisoned THEN Reconciled(h, t).rows[t] ELSE h.rows[t]]
           g == RecoveredPoison(h)
<1>1. R \in [Stores -> Seq(OutboxRow)]
  <2>1. ASSUME NEW t \in Stores PROVE Reconciled(h, t).rows[t] \in Seq(OutboxRow)  BY ReconciledIs DEF Hubs
  <2>2. \A t \in Stores : h.rows[t] \in Seq(OutboxRow)  BY DEF Hubs
  <2> QED  BY <2>1, <2>2
<1>2. g = [h EXCEPT !.rows = R, !.poisoned = {}]  BY DEF RecoveredPoison
<1>3. /\ \A t \in Stores \ h.poisoned : R[t] = h.rows[t]
      /\ \A t \in Stores : t \in h.poisoned => R[t] = Reconciled(h, t).rows[t]
  OBVIOUS
<1> HIDE DEF R, g
<1>4. /\ g \in Hubs /\ g.rows = R /\ SameStream(h, g) /\ g.poisoned = {}
      /\ g.blocked = h.blocked /\ g.executed = h.executed /\ g.faults = h.faults
  BY <1>1, <1>2 DEF Hubs, SameStream
<1>5. ASSUME NEW t \in h.poisoned, NEW n \in DOMAIN g.rows[t]
      PROVE  g.rows[t][n].owes /\ \E i \in DOMAIN h.rows[t] : g.rows[t][n] = h.rows[t][i]
  <2>1. t \in Stores  BY DEF Hubs
  <2> QED  BY <1>3, <1>4, <1>5, <2>1, ReconciledIs
<1>6. Keeps(h, g)
  <2> SUFFICES ASSUME NEW u \in Stores, NEW i \in DOMAIN h.rows[u], h.rows[u][i].owes
               PROVE  \/ h.rows[u][i] \in g.executed
                      \/ \E k \in DOMAIN g.rows[u] : g.rows[u][k] = h.rows[u][i]
    BY <1>4 DEF Keeps
  <2>1. CASE u \in h.poisoned
    <3>1. g.rows[u] = Reconciled(h, u).rows[u]  BY <1>3, <1>4, <2>1
    <3> QED  BY <1>4, ReconciledIs, <3>1 DEF Keeps
  <2>2. CASE u \notin h.poisoned  BY <1>3, <1>4, <2>2
  <2> QED  BY <2>1, <2>2
<1> QED  BY <1>3, <1>4, <1>5, <1>6 DEF g

\* A committed change: one more revision, and its row at the end of an outbox.
LEMMA RecordedIs ==
    ASSUME NEW h \in Hubs, NEW x \in Topics, NEW owes \in BOOLEAN, h.stored[x] < MaxStored
    PROVE  /\ Recorded(h, x, owes) \in Hubs
           /\ Recorded(h, x, owes).stored = [h.stored EXCEPT ![x] = @ + 1]
           /\ Recorded(h, x, owes).rows[StoreOf[x]]
                 = Append(h.rows[StoreOf[x]], Row(x, h.stored[x] + 1, owes))
           /\ \A u \in Stores \ {StoreOf[x]} : Recorded(h, x, owes).rows[u] = h.rows[u]
           /\ Recorded(h, x, owes).journal = h.journal /\ Recorded(h, x, owes).queues = h.queues
           /\ Recorded(h, x, owes).poisoned = h.poisoned /\ Recorded(h, x, owes).blocked = h.blocked
           /\ Recorded(h, x, owes).executed = h.executed /\ Recorded(h, x, owes).faults = h.faults
           /\ Row(x, h.stored[x] + 1, owes) \in OutboxRow
           /\ Keeps(h, Recorded(h, x, owes))
<1> DEFINE t == StoreOf[x]
           r == Row(x, h.stored[x] + 1, owes)
           S == [h.stored EXCEPT ![x] = @ + 1]
           R == [h.rows EXCEPT ![t] = Append(@, r)]
           g == Recorded(h, x, owes)
<1>0. t \in Stores  BY DEF Stores
<1>1. h.stored[x] \in 1..MaxStored /\ MaxStored \in Nat  BY HubFields, StreamAssumption
<1>2. r \in OutboxRow  BY <1>1 DEF Row, OutboxRow
<1>3. S \in [Topics -> 1..MaxStored]  BY <1>1, HubFields
<1>4. R \in [Stores -> Seq(OutboxRow)]
  <2>1. h.rows \in [Stores -> Seq(OutboxRow)] /\ h.rows[t] \in Seq(OutboxRow)  BY <1>0, HubFields
  <2>2. Append(h.rows[t], r) \in Seq(OutboxRow)  BY <1>2, <2>1
  <2>3. R = [h.rows EXCEPT ![t] = Append(h.rows[t], r)]  BY <1>0, <2>1
  <2> HIDE DEF t, r, R
  <2> QED  BY <2>1, <2>2, <2>3
<1>5. g = [h EXCEPT !.stored = S, !.rows = R]  BY DEF Recorded
<1>6. /\ R[t] = Append(h.rows[t], r)
      /\ \A u \in Stores \ {t} : R[u] = h.rows[u]
  BY <1>0, HubFields
<1>7. h.rows[t] \in Seq(OutboxRow)  BY <1>0, HubFields
<1> HIDE DEF t, r, S, R, g
<1>8. /\ g \in Hubs /\ g.stored = S /\ g.rows = R /\ g.journal = h.journal /\ g.queues = h.queues
      /\ g.poisoned = h.poisoned /\ g.blocked = h.blocked
      /\ g.executed = h.executed /\ g.faults = h.faults
  BY <1>3, <1>4, <1>5 DEF Hubs
<1>9. Keeps(h, g)
  <2> SUFFICES ASSUME NEW u \in Stores, NEW i \in DOMAIN h.rows[u], h.rows[u][i].owes
               PROVE  \E k \in DOMAIN g.rows[u] : g.rows[u][k] = h.rows[u][i]
    BY <1>8 DEF Keeps
  <2>1. CASE u = t
    <3>1. i \in DOMAIN Append(h.rows[t], r) /\ Append(h.rows[t], r)[i] = h.rows[t][i]  BY <1>2, <1>7, <2>1
    <3> QED  BY <1>6, <1>8, <2>1, <3>1
  <2>2. CASE u # t  BY <1>6, <1>8, <2>2
  <2> QED  BY <2>1, <2>2
<1> QED  BY <1>2, <1>6, <1>8, <1>9 DEF t, r, S, g

\* After a drain no row of the store owes actions, and those that did are executed.
LEMMA DrainedIs ==
    ASSUME NEW h \in Hubs, NEW t \in Stores
    PROVE  /\ Drained(h, t) \in Hubs /\ SameStream(h, Drained(h, t))
           /\ Drained(h, t).poisoned = h.poisoned /\ Drained(h, t).blocked = h.blocked \ {t}
           /\ Drained(h, t).faults = h.faults
           /\ \A u \in Stores \ {t} : Drained(h, t).rows[u] = h.rows[u]
           /\ DOMAIN Drained(h, t).rows[t] = DOMAIN h.rows[t]
           /\ \A i \in DOMAIN h.rows[t] :
                 /\ Drained(h, t).rows[t][i].topic = h.rows[t][i].topic
                 /\ ~Drained(h, t).rows[t][i].owes
           /\ Keeps(h, Drained(h, t))
<1> DEFINE s == h.rows[t]
           d == [i \in DOMAIN s |-> [s[i] EXCEPT !.owes = FALSE]]
           X == h.executed \cup {h.rows[t][i] : i \in {k \in DOMAIN h.rows[t] : h.rows[t][k].owes}}
           B == h.blocked \ {t}
           R == [h.rows EXCEPT ![t] = d]
           g == Drained(h, t)
<1>1. /\ s \in Seq(OutboxRow) /\ DOMAIN s = 1..Len(s) /\ Len(s) \in Nat
      /\ \A i \in DOMAIN s : s[i] \in OutboxRow
  BY HubFields
<1>2. \A i \in DOMAIN s : /\ [s[i] EXCEPT !.owes = FALSE] \in OutboxRow
                          /\ [s[i] EXCEPT !.owes = FALSE].topic = s[i].topic
                          /\ ~[s[i] EXCEPT !.owes = FALSE].owes
  BY <1>1 DEF OutboxRow
<1>3. d \in [1..Len(s) -> OutboxRow]  BY <1>1, <1>2
<1>4. d \in Seq(OutboxRow)
  <2> HIDE DEF d
  <2> QED  BY <1>1, <1>3
<1>5. DOMAIN d = DOMAIN s /\ \A i \in DOMAIN s : d[i].topic = s[i].topic /\ ~d[i].owes  BY <1>2
<1>6. X \in SUBSET OutboxRow /\ h.executed \subseteq X  BY <1>1, HubFields
<1>7. \A i \in DOMAIN s : s[i].owes => s[i] \in X  OBVIOUS
<1>8. B \in SUBSET Stores  BY HubFields
<1>9. g = [h EXCEPT !.executed = X, !.rows = R, !.blocked = B]  BY DEF Drained
<1> HIDE DEF d
<1>10. /\ R \in [Stores -> Seq(OutboxRow)] /\ R[t] = d /\ \A u \in Stores \ {t} : R[u] = h.rows[u]  BY <1>4, HubFields
<1> HIDE DEF X, B, R, g
<1>11. /\ g \in Hubs /\ g.rows = R /\ SameStream(h, g) /\ g.poisoned = h.poisoned
       /\ g.blocked = B /\ g.executed = X /\ g.faults = h.faults
  BY <1>6, <1>8, <1>9, <1>10 DEF Hubs, SameStream
<1>12. Keeps(h, g)
  <2> SUFFICES ASSUME NEW u \in Stores, NEW i \in DOMAIN h.rows[u], h.rows[u][i].owes
               PROVE  \/ h.rows[u][i] \in g.executed
                      \/ \E k \in DOMAIN g.rows[u] : g.rows[u][k] = h.rows[u][i]
    BY <1>6, <1>11 DEF Keeps
  <2>1. CASE u = t  BY <1>7, <1>11, <2>1
  <2>2. CASE u # t  BY <1>10, <1>11, <2>2
  <2> QED  BY <2>1, <2>2
<1> QED  BY <1>5, <1>10, <1>11, <1>12 DEF g, B

\* A poisoned store keeps its rows, and the stream is new.
LEMMA PoisonIs ==
    ASSUME NEW h \in Hubs, NEW t \in Stores
    PROVE  /\ Poison(h, t) \in Hubs
           /\ Poison(h, t).stored = h.stored /\ Poison(h, t).rows = h.rows
           /\ Poison(h, t).journal = EmptyJournal(h.journal.epoch + 1)
           /\ Poison(h, t).queues = [c \in Subscribers |-> NoQueue]
           /\ Poison(h, t).poisoned = h.poisoned \cup {t}
           /\ Poison(h, t).executed = h.executed
<1> DEFINE r == Rotate(h)
<1>1. /\ r \in Hubs /\ r.stored = h.stored /\ r.rows = h.rows
      /\ r.journal = EmptyJournal(h.journal.epoch + 1)
      /\ r.queues = [c \in Subscribers |-> NoQueue]
      /\ r.poisoned = h.poisoned /\ r.executed = h.executed
  BY RotateIs
<1> DEFINE P == r.poisoned \cup {t}
           F == r.faults + 1
<1>2. Poison(h, t) = [r EXCEPT !.poisoned = P, !.faults = F]  BY DEF Poison
<1>3. P \in SUBSET Stores /\ F \in Nat  BY <1>1, HubFields
<1>4. P = h.poisoned \cup {t}  BY RotateIs
<1> HIDE DEF r, P, F
<1> QED  BY <1>1, <1>2, <1>3, <1>4 DEF Hubs

\* A blocked store keeps its rows, and the stream is new.
LEMMA BlockIs ==
    ASSUME NEW h \in Hubs, NEW t \in Stores
    PROVE  /\ BlockForRunActions(h, t) \in Hubs
           /\ BlockForRunActions(h, t).stored = h.stored /\ BlockForRunActions(h, t).rows = h.rows
           /\ BlockForRunActions(h, t).journal = EmptyJournal(h.journal.epoch + 1)
           /\ BlockForRunActions(h, t).queues = [c \in Subscribers |-> NoQueue]
           /\ BlockForRunActions(h, t).poisoned = h.poisoned
           /\ BlockForRunActions(h, t).executed = h.executed
<1> DEFINE r == Rotate(h)
<1>1. /\ r \in Hubs /\ r.stored = h.stored /\ r.rows = h.rows
      /\ r.journal = EmptyJournal(h.journal.epoch + 1)
      /\ r.queues = [c \in Subscribers |-> NoQueue]
      /\ r.poisoned = h.poisoned /\ r.executed = h.executed
  BY RotateIs
<1> DEFINE P == r.blocked \cup {t}
           F == r.faults + 1
<1>2. BlockForRunActions(h, t) = [r EXCEPT !.blocked = P, !.faults = F]  BY DEF BlockForRunActions
<1>3. P \in SUBSET Stores /\ F \in Nat  BY <1>1, HubFields
<1>4. P = h.blocked \cup {t}  BY RotateIs
<1> HIDE DEF r, P, F
<1> QED  BY <1>1, <1>2, <1>3, <1>4 DEF Hubs

\* A fault changes nothing but the count of faults.
LEMMA FaultIs ==
    ASSUME NEW h \in Hubs
    PROVE  /\ [h EXCEPT !.faults = @ + 1] \in Hubs /\ SameStream(h, [h EXCEPT !.faults = @ + 1])
           /\ [h EXCEPT !.faults = @ + 1].rows = h.rows
           /\ [h EXCEPT !.faults = @ + 1].poisoned = h.poisoned
           /\ [h EXCEPT !.faults = @ + 1].blocked = h.blocked
           /\ [h EXCEPT !.faults = @ + 1].executed = h.executed
<1> DEFINE F == h.faults + 1
<1>1. F \in Nat  BY HubFields
<1>2. [h EXCEPT !.faults = @ + 1] = [h EXCEPT !.faults = F]  OBVIOUS
<1> HIDE DEF F
<1>3. /\ [h EXCEPT !.faults = F] \in Hubs /\ SameStream(h, [h EXCEPT !.faults = F])
      /\ [h EXCEPT !.faults = F].rows = h.rows
      /\ [h EXCEPT !.faults = F].poisoned = h.poisoned
      /\ [h EXCEPT !.faults = F].blocked = h.blocked
      /\ [h EXCEPT !.faults = F].executed = h.executed
  BY <1>1 DEF Hubs, SameStream
<1> QED  BY <1>2, <1>3

----
(* Appending: fresh entries for the rows of a store.                       *)

\* The entries a batch of rows becomes.
Fresh(h, t) ==
    [i \in DOMAIN h.rows[t] |->
        [seq |-> h.journal.seq + i, topic |-> h.rows[t][i].topic, rev |-> h.rows[t][i].rev]]

\* They are numbered on from the journal and say what the rows say.
LEMMA FreshIs ==
    ASSUME NEW h \in Hubs, NEW t \in Stores
    PROVE  /\ Fresh(h, t) \in Seq(Entry) /\ Len(Fresh(h, t)) = Len(h.rows[t])
           /\ \A i \in 1..Len(h.rows[t]) :
                 /\ Fresh(h, t)[i].seq = h.journal.seq + i
                 /\ Fresh(h, t)[i].topic = h.rows[t][i].topic
                 /\ Fresh(h, t)[i].rev = h.rows[t][i].rev
           /\ Len(h.rows[t]) \in Nat /\ h.journal.seq \in Nat
<1> DEFINE s == h.rows[t]
           n == h.journal.seq
           f == Fresh(h, t)
<1>1. /\ s \in Seq(OutboxRow) /\ DOMAIN s = 1..Len(s) /\ Len(s) \in Nat
      /\ \A i \in DOMAIN s : s[i] \in OutboxRow
  BY HubFields
<1>2. n \in Nat  BY HubFields DEF Journals
<1>3. f = [i \in 1..Len(s) |-> [seq |-> n + i, topic |-> s[i].topic, rev |-> s[i].rev]]  BY <1>1 DEF Fresh
<1> HIDE DEF n
<1>4. \A i \in 1..Len(s) : [seq |-> n + i, topic |-> s[i].topic, rev |-> s[i].rev] \in Entry
  BY <1>1, <1>2 DEF Entry, OutboxRow
<1> HIDE DEF s, f
<1>5. f \in [1..Len(s) -> Entry]  BY <1>3, <1>4
<1>6. f \in Seq(Entry) /\ Len(f) = Len(s)  BY <1>1, <1>5
<1> QED  BY <1>1, <1>2, <1>6, <1>3 DEF f, s, n

\* The last revision of a topic is one that can be stored.
LEMMA LastRevType ==
    ASSUME NEW s \in Seq(OutboxRow), NEW x, NEW b \in 0..MaxStored
    PROVE  LastRev(s, x, b) \in 0..MaxStored
<1>1. \A i \in DOMAIN s : s[i].rev \in 0..MaxStored
  <2>1. \A i \in DOMAIN s : s[i] \in OutboxRow  OBVIOUS
  <2> QED  BY <2>1, StreamAssumption DEF OutboxRow
<1> QED  BY <1>1, LastRevIs

\* How much of a sequence is more than a limit, and what is left without it.
Excess(n, max) == IF n > max THEN n - max ELSE 0
Newest(s, max) == SubSeq(s, Excess(Len(s), max) + 1, Len(s))

\* What is left of two sequences: the end of the first, then the second, in their places.
NewestTwo(e, f, S, max, over, E) ==
    /\ over \in Nat /\ over <= Len(e)
    /\ E \in Seq(S) /\ Len(E) + over = Len(e) + Len(f) /\ Len(E) <= max
    /\ \A k \in 1..Len(E) :
          \/ over + k \in 1..Len(e) /\ E[k] = e[over + k]
          \/ \E i \in 1..Len(f) : over + k = Len(e) + i /\ E[k] = f[i]

\* The newest elements of two sequences, the second of which is kept as a whole.
LEMMA NewestOf ==
    ASSUME NEW S, NEW e \in Seq(S), NEW f \in Seq(S), NEW max \in Nat,
           Len(e) <= max, Len(f) <= max
    PROVE  NewestTwo(e, f, S, max, Excess(Len(e \o f), max), Newest(e \o f, max))
<1> DEFINE all == e \o f
           over == Excess(Len(all), max)
           E == Newest(all, max)
           a == Len(e)
           b == Len(f)
<1>1. a \in Nat /\ b \in Nat  OBVIOUS
<1>2. all \in Seq(S) /\ Len(all) = a + b  OBVIOUS
<1>3. /\ \A i \in 1..a : all[i] = e[i]
      /\ \A i \in 1..b : all[a + i] = f[i]
  BY <1>1
<1>0. a <= max /\ b <= max /\ over = Excess(Len(all), max) /\ E = Newest(all, max)  OBVIOUS
<1> HIDE DEF all, a, b, over, E
<1>4. over \in Nat /\ over <= a /\ a + b - over <= max /\ over <= a + b  BY <1>0, <1>1, <1>2 DEF Excess
<1>5. E = SubSeq(all, over + 1, a + b)  BY <1>0, <1>2 DEF Newest
<1>6. /\ E \in Seq(S) /\ Len(E) = a + b - over
      /\ \A k \in 1..Len(E) : E[k] = all[over + k]
  <2> DEFINE n == a + b
             m == over + 1
  <2>1. n \in Int /\ m \in Int /\ m >= 1 /\ n = Len(all) /\ m <= n + 1  BY <1>1, <1>2, <1>4
  <2>2. \A i \in m..n : all[i] \in S  BY <1>2, <2>1
  <2>3. E = SubSeq(all, m, n)  BY <1>5
  <2> HIDE DEF m, n
  <2>4. /\ E \in Seq(S) /\ Len(E) = IF m <= n THEN n - m + 1 ELSE 0
        /\ \A k \in 1..(n - m + 1) : E[k] = all[m + k - 1]
    BY <2>1, <2>2, <2>3, SubSeqProperties
  <2>5. Len(E) = n - m + 1  BY <2>1, <2>4
  <2>6. \A k \in 1..Len(E) : m + k - 1 = over + k  BY <1>4, <2>5 DEF m
  <2>7. n - m + 1 = a + b - over  BY <1>1, <1>4 DEF m, n
  <2> QED  BY <2>4, <2>5, <2>6, <2>7
<1>7. ASSUME NEW k \in 1..Len(E)
      PROVE  \/ over + k \in 1..a /\ E[k] = e[over + k]
             \/ \E i \in 1..b : over + k = a + i /\ E[k] = f[i]
  <2>1. CASE over + k <= a
    <3>1. over + k \in 1..a  BY <1>1, <1>4, <1>6, <2>1
    <3> QED  BY <1>3, <1>6, <3>1
  <2>2. CASE over + k > a
    <3> DEFINE i == over + k - a
    <3>1. i \in 1..b /\ over + k = a + i  BY <1>1, <1>4, <1>6, <2>2
    <3> HIDE DEF i
    <3>2. E[k] = f[i]  BY <1>3, <1>6, <3>1
    <3> QED  BY <3>1, <3>2
  <2>3. over + k <= a \/ over + k > a  BY <1>1, <1>4
  <2> QED  BY <2>1, <2>2, <2>3
<1>8. Len(E) + over = a + b /\ Len(E) <= max  BY <1>1, <1>4, <1>6
<1> QED  BY <1>4, <1>6, <1>7, <1>8 DEF a, b, over, E, all, NewestTwo

\* What appending does to the journal, and what it leaves.
Grown(h, t, g) ==
    /\ g \in Hubs /\ Numbered(g.journal)
    /\ g.journal.epoch = h.journal.epoch
    /\ g.journal.seq = h.journal.seq + Len(h.rows[t])
    /\ g.queues = [c \in Subscribers |-> FanOut(h.queues[c], Fresh(h, t))]
    /\ g.stored = h.stored /\ g.poisoned = h.poisoned /\ g.blocked = h.blocked
    /\ g.executed = h.executed /\ g.faults = h.faults
    /\ g.rows = [h.rows EXCEPT ![t] = <<>>]
    /\ Before(h.journal) <= Before(g.journal)
    /\ \A k \in DOMAIN g.journal.entries :
          \/ \E i \in DOMAIN h.journal.entries : g.journal.entries[k] = h.journal.entries[i]
          \/ \E i \in 1..Len(Fresh(h, t)) : g.journal.entries[k] = Fresh(h, t)[i]

\* What appending does to the journal.
LEMMA JournalGrows ==
    ASSUME NEW h \in Hubs, NEW t \in Stores, Numbered(h.journal), Len(h.rows[t]) <= JournalMax,
           NEW g, g = Appended(h, t)
    PROVE  Grown(h, t, g)
<1> DEFINE j == h.journal
           s == h.rows[t]
           f == Fresh(h, t)
           all == j.entries \o f
           over == Excess(Len(all), JournalMax)
           E == Newest(all, JournalMax)
           K == [x \in Topics |-> LastRev(s, x, j.known[x])]
           Q == [c \in Subscribers |-> FanOut(h.queues[c], f)]
           J == [j EXCEPT !.seq = @ + Len(s), !.entries = E, !.known = K]
           R == [h.rows EXCEPT ![t] = <<>>]
<1>1. g = [h EXCEPT !.rows = R, !.journal = J, !.queues = Q]
  <2>1. g = [h EXCEPT !.rows[t] = <<>>, !.journal.seq = @ + Len(s), !.journal.entries = E,
                      !.journal.known = K, !.queues = Q]
    BY DEF Appended, Fresh, Excess, Newest
  <2>2. j \in Journals /\ h \in Hubs  BY HubFields
  <2> HIDE DEF E, K, Q, s
  <2>3. /\ [h EXCEPT !.rows[t] = <<>>, !.journal.seq = @ + Len(s), !.journal.entries = E,
                      !.journal.known = K, !.queues = Q].journal = J
    BY <2>2 DEF Hubs, Journals
  <2> QED  BY <2>1, <2>2, <2>3 DEF Hubs
<1>2. /\ j \in Journals /\ j.entries \in Seq(Entry) /\ Len(j.entries) \in Nat /\ j.seq \in Nat
      /\ DOMAIN j.entries = 1..Len(j.entries) /\ JournalMax \in Nat
      /\ j.seq = Before(j) + Len(j.entries) /\ Before(j) \in Nat
      /\ Len(j.entries) <= JournalMax
  <2>1. j \in Journals  BY HubFields
  <2>2. Len(j.entries) <= JournalMax  BY StreamAssumption DEF Numbered
  <2> QED  BY <2>1, <2>2, BeforeIs, StreamAssumption DEF Journals
<1>3. /\ f \in Seq(Entry) /\ Len(f) = Len(s) /\ Len(s) \in Nat
      /\ \A i \in 1..Len(f) : f[i].seq = j.seq + i
  BY FreshIs
<1>4. s \in Seq(OutboxRow)  BY HubFields
<1>5. Len(f) <= JournalMax  BY <1>3
<1> HIDE DEF s, f, j
<1>6. /\ over \in Nat /\ over <= Len(j.entries)
      /\ E \in Seq(Entry) /\ Len(E) + over = Len(j.entries) + Len(f) /\ Len(E) <= JournalMax
      /\ \A k \in 1..Len(E) :
            \/ over + k \in 1..Len(j.entries) /\ E[k] = j.entries[over + k]
            \/ \E i \in 1..Len(f) : over + k = Len(j.entries) + i /\ E[k] = f[i]
  <2>1. over = Excess(Len(j.entries \o f), JournalMax) /\ E = Newest(j.entries \o f, JournalMax)  OBVIOUS
  <2> DEFINE e == j.entries
  <2>2. /\ e \in Seq(Entry) /\ f \in Seq(Entry) /\ JournalMax \in Nat
        /\ Len(e) <= JournalMax /\ Len(f) <= JournalMax
    BY <1>2, <1>3, <1>5
  <2> HIDE DEF over, E, all, e
  <2>3. NewestTwo(e, f, Entry, JournalMax, Excess(Len(e \o f), JournalMax),
                  Newest(e \o f, JournalMax))
    BY <2>2, NewestOf
  <2> QED  BY <2>1, <2>3 DEF e, NewestTwo
<1> HIDE DEF over, E, all
<1>7. Len(E) \in Nat  BY <1>6
<1>8. K \in [Topics -> 0..MaxStored]
  <2>1. \A x \in Topics : j.known[x] \in 0..MaxStored  BY <1>2 DEF Journals
  <2> QED  BY <1>4, <2>1, LastRevType
<1>9. Q \in [Subscribers -> Queue]
  <2>1. NoQueue \in Queue  BY DEF NoQueue, Queue
  <2>2. ASSUME NEW c \in Subscribers PROVE FanOut(h.queues[c], f) \in Queue
    <3> DEFINE q == h.queues[c]
    <3>1. q \in Queue  BY HubFields
    <3> HIDE DEF q
    <3>2. q.events \o f \in Seq(Entry)  BY <1>3, <3>1 DEF Queue
    <3>3. [q EXCEPT !.events = @ \o f] \in Queue  BY <3>1, <3>2 DEF Queue
    <3> QED  BY <2>1, <3>3 DEF FanOut, q
  <2> QED  BY <2>2
<1>10. R \in [Stores -> Seq(OutboxRow)]  BY HubFields
<1> HIDE DEF K, Q, R
<1>11. J \in Journals /\ J.seq = j.seq + Len(s) /\ J.entries = E /\ J.epoch = j.epoch
  <2> DEFINE n == j.seq + Len(s)
  <2>1. n \in Nat  BY <1>2, <1>3
  <2>2. J = [j EXCEPT !.seq = n, !.entries = E, !.known = K]  OBVIOUS
  <2> HIDE DEF n, J
  <2> QED  BY <1>2, <1>6, <1>8, <2>1, <2>2 DEF Journals, n
<1> HIDE DEF J
<1>12. /\ g \in Hubs /\ g.journal = J /\ g.queues = Q /\ g.rows = R
       /\ g.stored = h.stored /\ g.poisoned = h.poisoned /\ g.blocked = h.blocked
       /\ g.executed = h.executed /\ g.faults = h.faults
  BY <1>1, <1>9, <1>10, <1>11 DEF Hubs
<1>13. Before(J) = Before(j) + over /\ J.seq = Before(J) + Len(E)
  <2> DEFINE a == Len(j.entries)
             b == Len(s)
             n == Len(E)
             base == Before(j)
             first == j.seq
  <2>1. Before(J) = (first + b) - n  BY <1>11 DEF Before
  <2>2. n + over = a + b /\ first = base + a  BY <1>2, <1>3, <1>6
  <2>3. a \in Nat /\ b \in Nat /\ n \in Nat /\ base \in Nat /\ first \in Nat /\ over \in Nat  BY <1>2, <1>3, <1>6, <1>7
  <2>4. J.seq = first + b  BY <1>11
  <2> HIDE DEF a, b, n, base, first
  <2>5. (first + b) - n = base + over /\ first + b = (first + b) - n + n  BY <2>2, <2>3
  <2> QED  BY <2>1, <2>4, <2>5 DEF base, n
<1>14. ASSUME NEW k \in 1..Len(E)
       PROVE  /\ E[k].seq = Before(j) + (over + k)
              /\ \/ \E i \in DOMAIN j.entries : E[k] = j.entries[i]
                 \/ \E i \in 1..Len(f) : E[k] = f[i]
  <2>1. CASE over + k \in 1..Len(j.entries) /\ E[k] = j.entries[over + k]
    <3>1. over + k \in DOMAIN j.entries  BY <1>2, <2>1
    <3> QED  BY <2>1, <3>1 DEF Numbered, j
  <2>2. ASSUME NEW i \in 1..Len(f), over + k = Len(j.entries) + i, E[k] = f[i]
        PROVE  E[k].seq = Before(j) + (over + k)
    <3>1. f[i].seq = j.seq + i  BY <1>3
    <3>2. j.seq + i = Before(j) + (Len(j.entries) + i)  BY <1>2
    <3> QED  BY <2>2, <3>1, <3>2
  <2> QED  BY <1>6, <2>1, <2>2
<1>15. DOMAIN E = 1..Len(E)  BY <1>6
<1>16. Numbered(J)
  <2>1. ASSUME NEW k \in DOMAIN E PROVE E[k].seq = Before(J) + k
    <3>1. E[k].seq = Before(j) + (over + k)  BY <1>14, <1>15
    <3>2. Before(j) + (over + k) = (Before(j) + over) + k  BY <1>2, <1>6, <1>15
    <3> QED  BY <1>13, <3>1, <3>2
  <2>2. Len(E) \in 0..JournalMax /\ Len(E) <= J.seq
    <3>1. Before(J) \in Nat  BY <1>2, <1>6, <1>13
    <3> QED  BY <1>2, <1>6, <1>7, <1>13, <3>1
  <2> QED  BY <1>11, <2>1, <2>2 DEF Numbered
<1>17. Before(j) <= Before(J)  BY <1>2, <1>6, <1>13
<1>18. \A k \in DOMAIN E : \/ \E i \in DOMAIN j.entries : E[k] = j.entries[i]
                          \/ \E i \in 1..Len(f) : E[k] = f[i]
  BY <1>14, <1>15
<1> QED  BY <1>11, <1>12, <1>16, <1>17, <1>18 DEF Q, R, s, f, j, Grown

\* What every subscriber believes once it has heard what is coming, and the rows of a store
\* after it, is what is stored.
Owed(h, rows, cursors) ==
    \A c \in Subscribers :
        Reach(h.journal, h.queues[c], cursors[c]) =>
            \A f \in Flows :
                LastRev(rows, f,
                        LastRev(Coming(h.journal, h.queues[c], cursors[c]), f, cursors[c].view[f]))
                    = h.stored[f]

\* A new stream has no subscriber yet.
LEMMA NewStream ==
    ASSUME NEW h, NEW cursors, BaseInv(h, cursors), NEW g \in Hubs, OwesTidy(g),
           g.journal = EmptyJournal(h.journal.epoch + 1),
           g.queues = [c \in Subscribers |-> NoQueue]
    PROVE  BaseInv(g, cursors) /\ InStep(g, cursors)
<1>1. h.journal.epoch \in Nat /\ g.journal.epoch = h.journal.epoch + 1  BY DEF BaseInv, Hubs, Journals, EmptyJournal
<1>2. ASSUME NEW c \in Subscribers
      PROVE  cursors[c].epoch < g.journal.epoch /\ g.queues[c] = NoQueue
  BY <1>1 DEF BaseInv, Follows, Cursor
<1>3. \A c \in Subscribers : cursors[c].epoch \in Nat /\ g.journal.epoch \in Nat  BY <1>1 DEF BaseInv, Cursor
<1>4. Numbered(g.journal)  BY StreamAssumption DEF Numbered, EmptyJournal, Before
<1>5. InStep(g, cursors)  BY <1>2, <1>3 DEF InStep, Reach
<1> QED  BY <1>4, <1>2, <1>3, <1>5 DEF BaseInv, OwesTidy, Follows

\* What concerns the stream alone.
LEMMA SameStreamKept ==
    ASSUME NEW h, NEW cursors, BaseInv(h, cursors), NEW g \in Hubs, OwesTidy(g), SameStream(h, g)
    PROVE  BaseInv(g, cursors) /\ (InStep(h, cursors) => InStep(g, cursors))
  BY DEF BaseInv, OwesTidy, SameStream, InStep

\* Appending for one subscriber.
LEMMA AppendedFor ==
    ASSUME NEW h, NEW cursors, BaseInv(h, cursors), NEW t \in Stores,
           Len(h.rows[t]) <= JournalMax, NEW g, g = Appended(h, t),
           NEW c \in Subscribers
    PROVE  /\ Follows(g.journal, g.queues[c], cursors[c])
           /\ Reach(g.journal, g.queues[c], cursors[c]) =>
                 /\ Reach(h.journal, h.queues[c], cursors[c])
                 /\ Coming(h.journal, h.queues[c], cursors[c]) \in Seq(Entry)
                 /\ Coming(g.journal, g.queues[c], cursors[c])
                       = Coming(h.journal, h.queues[c], cursors[c]) \o Fresh(h, t)
<1> DEFINE j == h.journal
           k == g.journal
           q == h.queues[c]
           r == g.queues[c]
           cur == cursors[c]
           f == Fresh(h, t)
<1>1. /\ h \in Hubs /\ Numbered(j) /\ Follows(j, q, cur) /\ cur \in Cursor
      /\ j \in Journals /\ q \in Queue
  BY HubFields DEF BaseInv
<1>2. /\ g \in Hubs /\ Numbered(k) /\ k.epoch = j.epoch /\ k.seq = j.seq + Len(f)
      /\ r = FanOut(q, f) /\ Before(j) <= Before(k)
      /\ \A n \in DOMAIN k.entries :
            \/ \E i \in DOMAIN j.entries : k.entries[n] = j.entries[i]
            \/ \E i \in 1..Len(f) : k.entries[n] = f[i]
  <2>1. h \in Hubs /\ Numbered(h.journal)  BY <1>1
  <2>2. Len(f) = Len(h.rows[t])  BY <2>1, FreshIs
  <2>3. Grown(h, t, g)  BY <2>1, JournalGrows
  <2>4. r = FanOut(q, f)  BY <2>3 DEF Grown
  <2> QED  BY <2>2, <2>3, <2>4 DEF Grown
<1>3. /\ f \in Seq(Entry) /\ Len(f) \in Nat /\ j.seq \in Nat
      /\ \A i \in 1..Len(f) : f[i].seq = j.seq + i
  BY <1>1, FreshIs
<1>4. k \in Journals /\ r \in Queue  BY <1>2, HubFields
<1>5. /\ Before(j) \in Nat /\ Before(k) \in Nat /\ j.seq = Before(j) + Len(j.entries)
      /\ OldestSeq(j) = Before(j) + 1 /\ OldestSeq(k) = Before(k) + 1
      /\ Len(j.entries) \in Nat /\ DOMAIN j.entries = 1..Len(j.entries)
      /\ k.seq \in Nat /\ j.seq <= k.seq
  <2>1. k.seq \in Nat /\ j.seq <= k.seq  BY <1>2, <1>3
  <2> QED  BY <1>1, BeforeIs, <1>2, <1>4, <2>1
<1> HIDE DEF j, k, q, r, cur, f
\* The entries of the old journal stay what they are.
<1>6. ASSUME NEW from \in Nat, NEW upto \in Nat, upto <= j.seq, NEW s, RunsOn(j, from, upto, s)
      PROVE  RunsOn(k, from, upto, s)
  <2>1. s \in Seq(Entry) /\ from + Len(s) = upto /\ Len(s) \in Nat  BY <1>6 DEF RunsOn
  <2>2. \A n \in 1..Len(s) : s[n].seq = from + n  BY <1>6 DEF RunsOn
  <2>3. ASSUME NEW n \in 1..Len(s), NEW m \in DOMAIN k.entries, k.entries[m].seq = s[n].seq
        PROVE  k.entries[m] = s[n]
    <3>1. s[n].seq = from + n /\ from + n <= j.seq  BY <1>3, <1>6, <2>1, <2>2
    <3>2. CASE \E i \in DOMAIN j.entries : k.entries[m] = j.entries[i]  BY <2>3, <1>6, <3>2 DEF RunsOn
    <3>3. ASSUME NEW i \in 1..Len(f), k.entries[m] = f[i] PROVE FALSE
      <4>1. j.seq + i = from + n  BY <1>3, <2>3, <3>1, <3>3
      <4> QED  BY <1>3, <3>1, <4>1
    <3> QED  BY <1>2, <3>2, <3>3
  <2> QED  BY <2>1, <2>3, <2>2 DEF RunsOn
<1>7. RunsOn(k, j.seq, k.seq, f)
  <2>1. ASSUME NEW n \in 1..Len(f), NEW m \in DOMAIN k.entries, k.entries[m].seq = f[n].seq
        PROVE  k.entries[m] = f[n]
    <3>1. f[n].seq = j.seq + n  BY <1>3
    <3>2. ASSUME NEW i \in DOMAIN j.entries, k.entries[m] = j.entries[i] PROVE FALSE
      <4>1. j.entries[i].seq = Before(j) + i  BY <1>1 DEF Numbered
      <4>2. Before(j) + i = j.seq + n  BY <2>1, <3>1, <3>2, <4>1
      <4> QED  BY <1>3, <1>5, <4>2
    <3>3. ASSUME NEW i \in 1..Len(f), k.entries[m] = f[i] PROVE i = n
      <4>1. j.seq + i = j.seq + n  BY <1>3, <2>1, <3>1, <3>3
      <4> QED  BY <1>3, <4>1
    <3> QED  BY <1>2, <3>2, <3>3
  <2> QED  BY <1>2, <1>3, <2>1 DEF RunsOn
<1>8. q = NoQueue => r = NoQueue  BY <1>2 DEF FanOut
<1>9. CASE r = NoQueue
  <2>1. Follows(k, r, cur)
    <3>1. cur.epoch <= k.epoch  BY <1>1, <1>2 DEF Follows
    <3>2. cur.epoch = k.epoch => cur.seq <= k.seq
      <4>1. cur.epoch = j.epoch => cur.seq <= j.seq  BY <1>1 DEF Follows
      <4>2. cur.seq \in Nat  BY <1>1 DEF Cursor
      <4> QED  BY <1>2, <1>3, <1>5, <4>1, <4>2
    <3> QED  BY <1>9, <3>1, <3>2 DEF Follows
  <2>2. ASSUME Reach(k, r, cur)
        PROVE  /\ Reach(j, q, cur) /\ Coming(j, q, cur) \in Seq(Entry)
               /\ Coming(k, r, cur) = Coming(j, q, cur) \o f
    <3>1. /\ cur.epoch = j.epoch /\ cur.seq \in Nat /\ cur.seq <= j.seq
          /\ Before(k) <= cur.seq
      <4>1. cur.seq \in Nat  BY <1>1 DEF Cursor
      <4> QED  BY <1>1, <1>2, <1>5, <1>9, <2>2, <4>1 DEF Follows, Reach, Covers
    <3>2. Reach(j, q, cur)
      <4>1. cur.seq + 1 >= OldestSeq(j)  BY <1>2, <1>5, <3>1
      <4>2. q # NoQueue => q.upto = cur.seq  BY <1>1 DEF Follows
      <4> QED  BY <3>1, <4>1, <4>2 DEF Reach, Covers
    <3>3. RunsOn(j, cur.seq, j.seq, Coming(j, q, cur))  BY <1>1, <3>2, ComingIs
    <3>4. RunsOn(k, cur.seq, j.seq, Coming(j, q, cur))
      <4>1. j.seq <= j.seq  BY <1>3
      <4> QED  BY <1>3, <1>6, <3>1, <3>3, <4>1
    <3>5. RunsOn(k, cur.seq, k.seq, Coming(j, q, cur) \o f)  BY <1>3, <1>5, <1>7, <3>1, <3>4, RunsTogether
    <3>6. RunsOn(k, cur.seq, k.seq, Coming(k, r, cur))  BY <1>1, <1>2, <1>4, <2>1, <2>2, ComingIs
    <3>7. Coming(k, r, cur) = Coming(j, q, cur) \o f  BY <1>2, <1>4, <3>1, <3>5, <3>6, RunsOnce
    <3> QED  BY <3>2, <3>3, <3>7 DEF RunsOn
  <2> QED  BY <2>1, <2>2 DEF j, k, q, r, cur, f
<1>10. CASE q # NoQueue /\ r # NoQueue
  <2>1. /\ q.events \in Seq(Entry) /\ q.until \in Nat /\ q.upto = cur.seq /\ cur.seq \in Nat
        /\ cur.epoch = j.epoch /\ cur.seq <= j.seq /\ RunsOn(j, Mark(q), j.seq, q.events)
        /\ Len(q.events) \in Nat
    BY <1>1, <1>10 DEF Follows, Queue, Cursor
  <2>2. /\ r.events = q.events \o f /\ r.until = q.until /\ r.upto = q.upto /\ Mark(r) = Mark(q)
        /\ Len(r.events) = Len(q.events) + Len(f) /\ Len(r.events) <= QueueMax
    <3> DEFINE e == q.events \o f
    <3>1. r = [q EXCEPT !.events = e] /\ Len(q.events) + Len(f) <= QueueMax  BY <1>2, <1>10 DEF FanOut
    <3>2. e \in Seq(Entry) /\ Len(e) = Len(q.events) + Len(f)  BY <1>3, <2>1
    <3> HIDE DEF e
    <3>3. r.events = e /\ r.until = q.until /\ r.upto = q.upto  BY <1>1, <3>1 DEF Queue
    <3> QED  BY <3>1, <3>2, <3>3 DEF e, Mark
  <2>3. Mark(q) \in Nat  BY <2>1 DEF Mark
  <2>4. RunsOn(k, Mark(r), k.seq, r.events)
    <3>1. j.seq <= j.seq  BY <1>3
    <3>2. RunsOn(k, Mark(q), j.seq, q.events)  BY <1>3, <1>6, <2>1, <2>3, <3>1
    <3> QED  BY <1>3, <1>5, <1>7, <2>2, <2>3, <3>2, RunsTogether
  <2>5. Follows(k, r, cur)
    <3>1. cur.epoch <= k.epoch /\ cur.seq <= k.seq  BY <1>1, <1>2, <1>5, <2>1 DEF Follows
    <3> QED  BY <1>2, <2>1, <2>2, <2>4, <3>1 DEF Follows
  <2>6. ASSUME Reach(k, r, cur)
        PROVE  /\ Reach(j, q, cur) /\ Coming(j, q, cur) \in Seq(Entry)
               /\ Coming(k, r, cur) = Coming(j, q, cur) \o f
    <3>1. q.upto >= q.until \/ q.upto + 1 >= OldestSeq(k)  BY <1>10, <2>2, <2>6 DEF Reach
    <3>2. Reach(j, q, cur)
      <4>1. q.upto >= q.until \/ q.upto + 1 >= OldestSeq(j)  BY <1>2, <1>5, <2>1, <3>1
      <4> QED  BY <1>10, <2>1, <4>1 DEF Reach
    <3>3. RunsOn(j, cur.seq, j.seq, Coming(j, q, cur))  BY <1>1, <3>2, ComingIs
    <3>4. CASE q.upto >= q.until
      <4>1. Between(j, cur.seq, q.until) = <<>> /\ Between(k, cur.seq, r.until) = <<>>
        BY <1>1, <1>4, <2>1, <2>2, <3>4, BetweenNothing
      <4>2. Coming(j, q, cur) = q.events /\ Coming(k, r, cur) = r.events
        <5>1. <<>> \o q.events = q.events /\ <<>> \o r.events = r.events  BY <1>3, <2>1, <2>2
        <5> QED  BY <1>10, <4>1, <5>1 DEF Coming
      <4> QED  BY <2>1, <2>2, <3>2, <4>2
    <3>5. CASE q.upto + 1 >= OldestSeq(k)
      <4>1. Before(k) <= cur.seq  BY <1>5, <2>1, <3>5
      <4>2. RunsOn(k, cur.seq, j.seq, Coming(j, q, cur))
        <5>1. j.seq <= j.seq  BY <1>3
        <5> QED  BY <1>3, <1>6, <2>1, <3>3, <5>1
      <4>3. RunsOn(k, cur.seq, k.seq, Coming(k, r, cur))  BY <1>1, <1>2, <1>4, <2>5, <2>6, ComingIs
      <4>4. Coming(k, r, cur) = Coming(j, q, cur) \o f
        <5> DEFINE u == Coming(j, q, cur) \o f
                   v == Coming(k, r, cur)
        <5>1. RunsOn(k, cur.seq, k.seq, u) /\ RunsOn(k, cur.seq, k.seq, v)
          BY <1>3, <1>5, <1>7, <2>1, <4>2, RunsTogether, <4>3
        <5> HIDE DEF u, v
        <5>2. k \in Journals /\ Numbered(k) /\ cur.seq \in Nat /\ Before(k) <= cur.seq  BY <1>2, <1>4, <2>1, <4>1
        <5>3. v = u  BY <5>1, <5>2, RunsOnce
        <5> QED  BY <5>3 DEF u, v
      <4> QED  BY <3>2, <3>3, <4>4 DEF RunsOn
    <3> QED  BY <3>1, <3>4, <3>5
  <2> QED  BY <2>5, <2>6 DEF j, k, q, r, cur, f
<1> QED  BY <1>8, <1>9, <1>10

\* A publication keeps the stream sound: the rows become entries, every queue with room gets
\* them, and every other is dropped.
LEMMA AppendedKeeps ==
    ASSUME NEW h, NEW cursors, BaseInv(h, cursors), NEW t \in Stores, Hidden(h, {t}),
           Len(h.rows[t]) <= JournalMax, \A i \in DOMAIN h.rows[t] : ~h.rows[t][i].owes,
           Owed(h, h.rows[t], cursors), NEW g, g = Appended(h, t)
    PROVE  HubInv(g, cursors) /\ Keeps(h, g)
<1>1. h \in Hubs /\ Numbered(h.journal)  BY DEF BaseInv
<1>2. Grown(h, t, g)  BY <1>1, JournalGrows
<1>3. /\ g \in Hubs /\ Numbered(g.journal) /\ g.stored = h.stored /\ g.poisoned = h.poisoned
      /\ g.executed = h.executed /\ g.rows = [h.rows EXCEPT ![t] = <<>>]
  BY <1>2 DEF Grown
<1>4. g.rows[t] = <<>> /\ \A u \in Stores \ {t} : g.rows[u] = h.rows[u]  BY <1>1, <1>3, HubFields
<1>5. OwesTidy(g)
  <2>1. \A i \in DOMAIN <<>> : FALSE  OBVIOUS
  <2> QED  BY <1>4, <2>1 DEF OwesTidy, BaseInv
<1>6. BaseInv(g, cursors)  BY <1>3, <1>5, AppendedFor DEF BaseInv, OwesTidy
<1>7. Hidden(g, {})
  <2>1. \A i \in DOMAIN <<>> : FALSE  OBVIOUS
  <2> QED  BY <1>3, <1>4, <2>1 DEF Hidden
<1>8. InStep(g, cursors)
  <2> SUFFICES ASSUME NEW c \in Subscribers, Reach(g.journal, g.queues[c], cursors[c]),
                      NEW x \in Flows
               PROVE  LastRev(Coming(g.journal, g.queues[c], cursors[c]), x, cursors[c].view[x])
                          = g.stored[x]
      BY DEF InStep
  <2> DEFINE s == Coming(h.journal, h.queues[c], cursors[c])
             f == Fresh(h, t)
             v == cursors[c].view[x]
  <2>1. /\ Reach(h.journal, h.queues[c], cursors[c]) /\ s \in Seq(Entry)
        /\ Coming(g.journal, g.queues[c], cursors[c]) = s \o f
    BY AppendedFor
  <2>2. f \in Seq(Entry) /\ Len(f) = Len(h.rows[t]) /\ h.rows[t] \in Seq(OutboxRow)
        /\ \A i \in 1..Len(f) : f[i].topic = h.rows[t][i].topic /\ f[i].rev = h.rows[t][i].rev
    BY <1>1, FreshIs, HubFields
  <2>3. LastRev(h.rows[t], x, LastRev(s, x, v)) = h.stored[x]  BY <2>1 DEF Owed
  <2> HIDE DEF s, f, v
  <2>4. LastRev(f, x, LastRev(s, x, v)) = LastRev(h.rows[t], x, LastRev(s, x, v))  BY <2>2, LastRevAlike
  <2> QED  BY <1>3, <2>1, <2>3, <2>2, LastRevConcat, <2>4 DEF v
<1>9. Keeps(h, g)
  <2> SUFFICES ASSUME NEW u \in Stores, NEW i \in DOMAIN h.rows[u], h.rows[u][i].owes
               PROVE  \E k \in DOMAIN g.rows[u] : g.rows[u][k] = h.rows[u][i]
    BY <1>3 DEF Keeps
  <2>1. u # t  OBVIOUS
  <2> QED  BY <1>4, <2>1
<1> QED  BY <1>6, <1>7, <1>8, <1>9 DEF HubInv

\* No workflow has a row that owes actions.
LEMMA RunsOwe ==
    ASSUME NEW x \in Executions
    PROVE  x \notin Flows
  BY StreamAssumption

\* A rotation makes the stream sound whatever was pending in the store.
LEMMA RotatedKeeps ==
    ASSUME NEW h, NEW cursors, BaseInv(h, cursors), NEW t \in Stores, Hidden(h, {t}),
           NEW g \in RotateAndReconcile(h, t)
    PROVE  HubInv(g, cursors) /\ Keeps(h, g)
<1>1. h \in Hubs /\ OwesTidy(h)  BY DEF BaseInv, OwesTidy
<1>2. CASE g = Reconciled(Rotate(h), t)
  <2> DEFINE r == Rotate(h)
  <2>1. /\ r \in Hubs /\ r.rows = h.rows /\ r.executed = h.executed /\ r.poisoned = h.poisoned
        /\ r.journal = EmptyJournal(h.journal.epoch + 1)
        /\ r.queues = [c \in Subscribers |-> NoQueue]
    BY <1>1, RotateIs
  <2> HIDE DEF r
  <2>2. /\ g \in Hubs /\ SameStream(r, g) /\ g.poisoned = r.poisoned
        /\ \A u \in Stores \ {t} : g.rows[u] = r.rows[u]
        /\ \A n \in DOMAIN g.rows[t] :
              g.rows[t][n].owes /\ \E i \in DOMAIN r.rows[t] : g.rows[t][n] = r.rows[t][i]
        /\ Keeps(r, g)
    BY <1>2, <2>1, ReconciledIs DEF r
  <2>3. OwesTidy(g)  BY <1>1, <2>1, <2>2 DEF OwesTidy
  <2>4. BaseInv(g, cursors) /\ InStep(g, cursors)  BY <2>1, <2>2, <2>3, NewStream DEF SameStream
  <2>5. Hidden(g, {})
    <3> SUFFICES ASSUME NEW u \in Stores, NEW i \in DOMAIN g.rows[u], g.rows[u][i].topic \in Flows
                 PROVE  u \in g.poisoned
        BY DEF Hidden
    <3>1. CASE u = t  BY <2>2, <2>3, <3>1, RunsOwe DEF OwesTidy
    <3>2. CASE u # t  BY <2>1, <2>2, <3>2 DEF Hidden
    <3> QED  BY <3>1, <3>2
  <2>6. Keeps(h, g)  BY <1>1, <2>1, <2>2, KeepsSame, KeepsOn
  <2> QED  BY <2>4, <2>5, <2>6 DEF HubInv
<1>3. CASE g = Poison(h, t)
  <2>1. /\ g \in Hubs /\ g.rows = h.rows /\ g.executed = h.executed
        /\ g.poisoned = h.poisoned \cup {t}
        /\ g.journal = EmptyJournal(h.journal.epoch + 1)
        /\ g.queues = [c \in Subscribers |-> NoQueue]
    BY <1>1, <1>3, PoisonIs
  <2>2. BaseInv(g, cursors) /\ InStep(g, cursors)  BY <1>1, <2>1, NewStream DEF OwesTidy
  <2>3. Hidden(g, {})  BY <2>1 DEF Hidden
  <2>4. Keeps(h, g)  BY <1>1, <2>1, KeepsSame
  <2> QED  BY <2>2, <2>3, <2>4 DEF HubInv
<1> QED  BY <1>2, <1>3 DEF RotateAndReconcile

\* A fault disturbs nothing.
LEMMA FaultKeeps ==
    ASSUME NEW h, NEW cursors, BaseInv(h, cursors), NEW g, g = [h EXCEPT !.faults = @ + 1]
    PROVE  /\ BaseInv(g, cursors) /\ (InStep(h, cursors) => InStep(g, cursors))
           /\ \A but : Hidden(h, but) => Hidden(g, but)
           /\ g.rows = h.rows /\ g.executed = h.executed /\ Keeps(h, g)
<1>1. h \in Hubs /\ OwesTidy(h)  BY DEF BaseInv, OwesTidy
<1>2. /\ g \in Hubs /\ SameStream(h, g) /\ g.rows = h.rows /\ g.poisoned = h.poisoned
      /\ g.executed = h.executed
  BY <1>1, FaultIs
<1>3. OwesTidy(g)  BY <1>1, <1>2 DEF OwesTidy
<1> QED  BY <1>1, <1>2, <1>3, SameStreamKept, KeepsSame DEF Hidden

\* Publishing the rows of a store, when they say what is stored.
LEMMA PublishKeeps ==
    ASSUME NEW h, NEW cursors, BaseInv(h, cursors), NEW t \in Stores, Hidden(h, {t}),
           h.poisoned = {}, t \notin h.blocked, h.rows[t] # <<>>,
           Owed(h, h.rows[t], cursors), NEW g \in PublishPending(h, t)
    PROVE  HubInv(g, cursors) /\ Keeps(h, g)
<1> DEFINE k == [h EXCEPT !.faults = @ + 1]
           forced == \/ Len(h.rows[t]) > JournalMax
                     \/ \E i \in DOMAIN h.rows[t] : h.rows[t][i].owes
                     \/ ~Continues(h.rows[t], h.journal.known)
<1>0. h \in Hubs  BY DEF BaseInv
<1>1. \/ ~forced /\ g = Appended(h, t)
      \/ g \in RotateAndReconcile(h, t)
      \/ g \in RotateAndReconcile(k, t)
  <2> HIDE DEF k
  <2> QED  BY DEF PublishPending, k
<1>2. CASE ~forced /\ g = Appended(h, t)
  <2>1. Len(h.rows[t]) \in Nat /\ JournalMax \in Nat  BY <1>0, FreshIs, StreamAssumption
  <2> QED  BY <1>2, <2>1, AppendedKeeps
<1>3. CASE g \in RotateAndReconcile(h, t)  BY <1>3, RotatedKeeps
<1>4. CASE g \in RotateAndReconcile(k, t)
  <2>1. BaseInv(k, cursors) /\ Hidden(k, {t}) /\ Keeps(h, k)  BY FaultKeeps
  <2> HIDE DEF k
  <2>2. HubInv(g, cursors) /\ Keeps(k, g)  BY <1>4, <2>1, RotatedKeeps
  <2>3. k \in Hubs /\ g \in Hubs  BY <2>1, <2>2 DEF BaseInv, HubInv
  <2> QED  BY <1>0, <2>1, <2>2, <2>3, KeepsOn
<1> QED  BY <1>1, <1>2, <1>3, <1>4

\* ... when they are about runs.
LEMMA PublishRuns ==
    ASSUME NEW h, NEW cursors, HubInv(h, cursors), NEW t \in Stores, h.poisoned = {},
           NEW g \in PublishPending(h, t)
    PROVE  HubInv(g, cursors) /\ Keeps(h, g)
<1>1. BaseInv(h, cursors) /\ h \in Hubs /\ Hidden(h, {t}) /\ InStep(h, cursors)  BY DEF HubInv, BaseInv, Hidden
<1>2. ASSUME NEW x \in Flows, NEW b PROVE LastRev(h.rows[t], x, b) = b
  <2>1. h.rows[t] \in Seq(OutboxRow)  BY <1>1, HubFields
  <2> QED  BY <2>1, LastRevIs DEF HubInv, Hidden
<1>3. Owed(h, h.rows[t], cursors)  BY <1>1, <1>2 DEF Owed, InStep
<1>4. CASE t \in h.blocked \/ h.rows[t] = <<>>
  <2>1. g = h  BY <1>4 DEF PublishPending
  <2> QED  BY <1>1, <2>1, KeepsSame
<1>5. CASE t \notin h.blocked /\ h.rows[t] # <<>>  BY <1>1, <1>3, <1>5, PublishKeeps
<1> QED  BY <1>4, <1>5

\* A drain and the publication that follows keep the stream sound.
LEMMA DrainKeeps ==
    ASSUME NEW h, NEW cursors, HubInv(h, cursors), NEW t \in Stores, h.poisoned = {},
           NEW g \in DrainAndPublish(h, t)
    PROVE  HubInv(g, cursors) /\ Keeps(h, g)
<1>1. BaseInv(h, cursors) /\ h \in Hubs /\ OwesTidy(h) /\ Hidden(h, {}) /\ InStep(h, cursors)
  BY DEF HubInv, BaseInv, OwesTidy
<1>2. CASE g \in PublishPending(Drained(h, t), t)
  <2> DEFINE d == Drained(h, t)
  <2>1. /\ d \in Hubs /\ SameStream(h, d) /\ d.poisoned = h.poisoned
        /\ \A u \in Stores \ {t} : d.rows[u] = h.rows[u]
        /\ DOMAIN d.rows[t] = DOMAIN h.rows[t]
        /\ \A i \in DOMAIN h.rows[t] : d.rows[t][i].topic = h.rows[t][i].topic /\ ~d.rows[t][i].owes
        /\ Keeps(h, d)
    BY <1>1, DrainedIs
  <2> HIDE DEF d
  <2>2. OwesTidy(d)  BY <1>1, <2>1 DEF OwesTidy
  <2>3. Hidden(d, {})
    <3> SUFFICES ASSUME NEW u \in Stores, NEW i \in DOMAIN d.rows[u], d.rows[u][i].topic \in Flows
                 PROVE  u \in d.poisoned
        BY DEF Hidden
    <3> QED  BY <1>1, <2>1 DEF Hidden
  <2>4. HubInv(d, cursors)  BY <1>1, <2>1, <2>2, <2>3, SameStreamKept DEF HubInv
  <2>5. HubInv(g, cursors) /\ Keeps(d, g)  BY <1>2, <2>1, <2>4, PublishRuns DEF d
  <2>6. g \in Hubs  BY <2>5 DEF HubInv, BaseInv
  <2> QED  BY <1>1, <2>1, <2>5, <2>6, KeepsOn
<1>3. CASE g = BlockForRunActions(h, t)
  <2>1. /\ g \in Hubs /\ g.rows = h.rows /\ g.executed = h.executed /\ g.poisoned = h.poisoned
        /\ g.journal = EmptyJournal(h.journal.epoch + 1)
        /\ g.queues = [c \in Subscribers |-> NoQueue]
    BY <1>1, <1>3, BlockIs
  <2>2. BaseInv(g, cursors) /\ InStep(g, cursors)  BY <1>1, <2>1, NewStream DEF OwesTidy
  <2>3. Hidden(g, {}) /\ Keeps(h, g)  BY <1>1, <2>1, KeepsSame DEF Hidden
  <2> QED  BY <2>2, <2>3 DEF HubInv
<1> QED  BY <1>2, <1>3 DEF DrainAndPublish

\* Giving up the rows of poisoned stores leaves a sound stream with no poisoned store.
LEMMA RecoveredKeeps ==
    ASSUME NEW h, NEW cursors, HubInv(h, cursors), NEW g, g = RecoveredPoison(h)
    PROVE  HubInv(g, cursors) /\ g.poisoned = {} /\ Keeps(h, g) /\ SameStream(h, g)
           /\ g.blocked = h.blocked
<1>1. BaseInv(h, cursors) /\ h \in Hubs /\ OwesTidy(h) /\ Hidden(h, {}) /\ InStep(h, cursors)
  BY DEF HubInv, BaseInv, OwesTidy
<1>2. /\ g \in Hubs /\ SameStream(h, g) /\ g.poisoned = {} /\ g.blocked = h.blocked
      /\ \A t \in Stores \ h.poisoned : g.rows[t] = h.rows[t]
      /\ \A t \in h.poisoned : \A n \in DOMAIN g.rows[t] :
            g.rows[t][n].owes /\ \E i \in DOMAIN h.rows[t] : g.rows[t][n] = h.rows[t][i]
      /\ Keeps(h, g)
  BY <1>1, RecoveredIs
<1>3. OwesTidy(g)  BY <1>1, <1>2 DEF OwesTidy
<1>4. Hidden(g, {})
  <2> SUFFICES ASSUME NEW u \in Stores, NEW i \in DOMAIN g.rows[u], g.rows[u][i].topic \in Flows
               PROVE  FALSE
      BY DEF Hidden
  <2>1. CASE u \in h.poisoned  BY <1>2, <1>3, <2>1, RunsOwe DEF OwesTidy
  <2>2. CASE u \notin h.poisoned  BY <1>1, <1>2, <2>2 DEF Hidden
  <2> QED  BY <2>1, <2>2
<1> QED  BY <1>1, <1>2, <1>3, <1>4, SameStreamKept DEF HubInv

\* A sequence with one more element.
LEMMA OneMore ==
    ASSUME NEW S, NEW s \in Seq(S), NEW r \in S
    PROVE  /\ Append(s, r) \in Seq(S) /\ Len(s) \in Nat /\ Len(s) + 1 \in DOMAIN Append(s, r)
           /\ Append(s, r)[Len(s) + 1] = r /\ Append(s, r) # <<>>
           /\ \A i \in DOMAIN Append(s, r) : /\ i \in Int /\ i <= Len(s) + 1
                                             /\ \/ i = Len(s) + 1
                                                \/ i \in DOMAIN s /\ Append(s, r)[i] = s[i]
<1>1. /\ Append(s, r) \in Seq(S) /\ Len(Append(s, r)) = Len(s) + 1 /\ Len(s) \in Nat
      /\ DOMAIN s = 1..Len(s) /\ DOMAIN Append(s, r) = 1..(Len(s) + 1)
      /\ Append(s, r)[Len(s) + 1] = r
      /\ \A i \in 1..Len(s) : Append(s, r)[i] = s[i]
  OBVIOUS
<1>2. Append(s, r) # <<>>  BY <1>1
<1>3. ASSUME NEW i \in 1..(Len(s) + 1), i # Len(s) + 1
      PROVE  i \in DOMAIN s /\ Append(s, r)[i] = s[i]
  BY <1>1, <1>3
<1> QED  BY <1>1, <1>2, <1>3

\* A run that is recorded changes nothing for those who follow the workflows.
LEMMA RecordedRun ==
    ASSUME NEW h, NEW cursors, HubInv(h, cursors), NEW x \in Executions, h.stored[x] < MaxStored,
           NEW g, g = Recorded(h, x, TRUE)
    PROVE  HubInv(g, cursors) /\ g.poisoned = h.poisoned /\ Keeps(h, g)
<1>1. BaseInv(h, cursors) /\ h \in Hubs /\ OwesTidy(h) /\ Hidden(h, {}) /\ InStep(h, cursors)
  BY DEF HubInv, BaseInv, OwesTidy
<1> DEFINE t == StoreOf[x]
           r == Row(x, h.stored[x] + 1, TRUE)
<1>2. x \in Topics /\ t \in Stores /\ x \notin Flows  BY RunsOwe DEF Topics, Stores
<1>3. /\ g \in Hubs /\ g.stored = [h.stored EXCEPT ![x] = @ + 1]
      /\ g.rows[t] = Append(h.rows[t], r)
      /\ \A u \in Stores \ {t} : g.rows[u] = h.rows[u]
      /\ g.journal = h.journal /\ g.queues = h.queues /\ g.poisoned = h.poisoned
      /\ r \in OutboxRow /\ Keeps(h, g)
  BY <1>1, <1>2, RecordedIs
<1>4. r.topic = x  BY DEF Row
<1> HIDE DEF r, t
<1>5. \A i \in DOMAIN g.rows[t] :
         \/ g.rows[t][i] = r
         \/ i \in DOMAIN h.rows[t] /\ g.rows[t][i] = h.rows[t][i]
  <2>1. h.rows[t] \in Seq(OutboxRow)  BY <1>1, <1>2, HubFields
  <2> DEFINE s == h.rows[t]
  <2>2. s \in Seq(OutboxRow) /\ r \in OutboxRow  BY <1>3, <2>1
  <2> HIDE DEF s
  <2>3. \A i \in DOMAIN Append(s, r) :
            Append(s, r)[i] = r \/ (i \in DOMAIN s /\ Append(s, r)[i] = s[i])
    BY <2>2, OneMore
  <2> QED  BY <1>3, <2>3 DEF s
<1>6. ASSUME NEW u \in Stores, NEW i \in DOMAIN g.rows[u]
      PROVE  g.rows[u][i].topic = x \/ (i \in DOMAIN h.rows[u] /\ g.rows[u][i] = h.rows[u][i])
  <2>1. CASE u = t  BY <1>4, <1>5, <2>1
  <2>2. CASE u # t  BY <1>3, <2>2
  <2> QED  BY <2>1, <2>2
<1>7. OwesTidy(g)  BY <1>1, <1>6 DEF OwesTidy
<1>8. Hidden(g, {})  BY <1>1, <1>2, <1>3, <1>6 DEF Hidden
<1>9. \A f \in Flows : g.stored[f] = h.stored[f]  BY <1>1, <1>2, <1>3, HubFields DEF Topics
<1>10. BaseInv(g, cursors)  BY <1>1, <1>3, <1>7 DEF BaseInv, OwesTidy
<1>11. InStep(g, cursors)
  <2>1. g.journal = h.journal /\ g.queues = h.queues  BY <1>3
  <2>2. InStep(h, cursors)  BY <1>1
  <2> QED  BY <1>9, <2>1, <2>2 DEF InStep
<1> QED  BY <1>3, <1>10, <1>11, <1>8 DEF HubInv

\* The event of a workflow that is recorded says what is stored.
LEMMA RecordedFlow ==
    ASSUME NEW h, NEW cursors, HubInv(h, cursors), h.poisoned = {}, NEW x \in Flows,
           h.stored[x] < MaxStored, NEW g, g = Recorded(h, x, FALSE),
           NEW t, t = StoreOf[x]
    PROVE  /\ t \in Stores /\ BaseInv(g, cursors) /\ Hidden(g, {t}) /\ Keeps(h, g)
           /\ g.poisoned = {} /\ g.blocked = h.blocked /\ g.rows[t] # <<>>
           /\ Owed(g, g.rows[t], cursors)
<1>1. BaseInv(h, cursors) /\ h \in Hubs /\ OwesTidy(h) /\ Hidden(h, {}) /\ InStep(h, cursors)
  BY DEF HubInv, BaseInv, OwesTidy
<1> DEFINE r == Row(x, h.stored[x] + 1, FALSE)
<1>2. x \in Topics /\ t \in Stores  BY DEF Topics, Stores
<1>3. /\ g \in Hubs /\ g.stored = [h.stored EXCEPT ![x] = @ + 1]
      /\ g.rows[t] = Append(h.rows[t], r)
      /\ \A u \in Stores \ {t} : g.rows[u] = h.rows[u]
      /\ g.journal = h.journal /\ g.queues = h.queues /\ g.poisoned = h.poisoned
      /\ g.blocked = h.blocked
      /\ r \in OutboxRow /\ Keeps(h, g)
  BY <1>1, <1>2, RecordedIs, ZenonT(30)
<1>4. r.topic = x /\ r.rev = h.stored[x] + 1 /\ r.owes = FALSE  BY DEF Row
<1> HIDE DEF r
<1> DEFINE s == h.rows[t]
<1>5. s \in Seq(OutboxRow)  BY <1>1, <1>2, HubFields
<1> DEFINE p == g.rows[t]
           n == Len(s) + 1
<1>6. /\ p \in Seq(OutboxRow) /\ n \in DOMAIN p /\ p[n] = r /\ p # <<>>
      /\ \A i \in DOMAIN p : /\ i \in Int /\ i <= n
                             /\ i = n \/ (i \in DOMAIN s /\ p[i] = s[i])
  <2>1. p = Append(s, r) /\ r \in OutboxRow  BY <1>3
  <2> HIDE DEF p, s
  <2> QED  BY <1>5, <2>1, OneMore
<1> HIDE DEF n
<1>7. \A i \in DOMAIN s : s[i].topic \notin Flows  BY <1>1, <1>2 DEF Hidden
<1>8. OwesTidy(g)
  <2> SUFFICES ASSUME NEW u \in Stores, NEW i \in DOMAIN g.rows[u], g.rows[u][i].owes
               PROVE  g.rows[u][i].topic \in Executions
      BY DEF OwesTidy
  <2>1. CASE u = t
    <3>1. i \in DOMAIN p /\ p[i].owes  BY <2>1
    <3>2. i \in DOMAIN s /\ p[i] = s[i]
      <4> HIDE DEF p, s
      <4> QED  BY <1>4, <1>6, <3>1
    <3>3. h.rows[t][i].owes /\ i \in DOMAIN h.rows[t]  BY <3>1, <3>2
    <3> QED  BY <1>1, <1>2, <2>1, <3>2, <3>3 DEF OwesTidy
  <2>2. CASE u # t  BY <1>1, <1>3, <2>2 DEF OwesTidy
  <2> QED  BY <2>1, <2>2
<1>9. Hidden(g, {t})  BY <1>1, <1>3 DEF Hidden
<1>10. BaseInv(g, cursors)  BY <1>1, <1>3, <1>8 DEF BaseInv, OwesTidy
<1>11. ASSUME NEW f \in Flows, NEW b, b = h.stored[f]
       PROVE  LastRev(p, f, b) = g.stored[f]
  <2>0. f \in Topics /\ h.stored \in [Topics -> 1..MaxStored]  BY <1>1, HubFields DEF Topics
  <2>1. CASE f = x
    <3>0. g.stored[f] = h.stored[f] + 1  BY <1>3, <2>0, <2>1
    <3>1. p[n].topic = f  BY <1>4, <1>6, <2>1
    <3> HIDE DEF p
    <3>2. PICK m \in DOMAIN p : /\ p[m].topic = f /\ LastRev(p, f, b) = p[m].rev
                               /\ \A k \in DOMAIN p : p[k].topic = f => k <= m
      BY <1>6, <3>1, LastRevIs
    <3>3. n <= m /\ m <= n /\ m \in Int /\ n \in Int  BY <1>6, <3>1, <3>2
    <3>4. m = n  BY <3>3
    <3> QED  BY <1>4, <1>6, <2>1, <3>0, <3>2, <3>4
  <2>2. CASE f # x
    <3>1. ASSUME NEW i \in DOMAIN p PROVE p[i].topic # f
      <4> HIDE DEF p, s
      <4>1. CASE i = n  BY <1>4, <1>6, <2>2, <4>1
      <4>2. CASE i \in DOMAIN s /\ p[i] = s[i]  BY <1>7, <4>2
      <4> QED  BY <1>6, <3>1, <4>1, <4>2
    <3> HIDE DEF p
    <3>2. LastRev(p, f, b) = b  BY <1>6, <3>1, LastRevIs
    <3> QED  BY <1>3, <1>11, <2>0, <2>2, <3>2
  <2> QED  BY <2>1, <2>2
<1>12. Owed(g, p, cursors)
  <2> SUFFICES ASSUME NEW c \in Subscribers, Reach(g.journal, g.queues[c], cursors[c]),
                      NEW f \in Flows
               PROVE  LastRev(p, f, LastRev(Coming(g.journal, g.queues[c], cursors[c]), f,
                                            cursors[c].view[f])) = g.stored[f]
      BY DEF Owed
  <2>1. LastRev(Coming(g.journal, g.queues[c], cursors[c]), f, cursors[c].view[f]) = h.stored[f]
    <3>1. InStep(h, cursors) /\ g.journal = h.journal /\ g.queues = h.queues  BY <1>1, <1>3
    <3> QED  BY <3>1 DEF InStep
  <2> HIDE DEF p
  <2> QED  BY <1>11, <2>1
<1> QED  BY <1>2, <1>3, <1>6, <1>9, <1>10, <1>12

\* A step that leaves a hub behind.
LEMMA BecomesIs ==
    ASSUME NEW h \in Hubs, Becomes(h)
    PROVE  Hub' = h /\ journal'.epoch <= MaxStream /\ streamFaults' <= MaxStreamFaults
<1> QED  BY DEF Hub, Becomes, Hubs

\* What a step must show: the new hub is sound for the new cursors, and keeps what is owed.
StepOK == StreamInv' /\ Keeps(Hub, Hub')

\* A step is sound when it leaves a sound hub behind.
LEMMA StepIs ==
    ASSUME NEW h, HubInv(h, subscribed'), Keeps(Hub, h), Becomes(h)
    PROVE  StepOK
<1>1. h \in Hubs  BY DEF HubInv, BaseInv
<1> QED  BY <1>1, BecomesIs DEF StepOK, StreamInv

\* A command on a workflow.
LEMMA EditFlowKeeps == ASSUME StreamInv, NEW x \in Flows, EditFlow(x) PROVE StepOK
<1> DEFINE h == RecoveredPoison(Hub)
           r == Recorded(h, x, FALSE)
           k == [r EXCEPT !.faults = @ + 1]
           t == StoreOf[x]
<1>1. /\ HubInv(Hub, subscribed) /\ blocked = {} /\ stored[x] < MaxStored
      /\ subscribed' = subscribed
      /\ Hub.blocked = blocked /\ Hub.stored = stored /\ Hub \in Hubs
  BY DEF StreamInv, HubInv, BaseInv, Hub, EditFlow
<1>2. PICK g \in PublishPending(r, t) \cup CommitUnknown(h, x) : Becomes(g)  BY DEF EditFlow
<1>3. g \in PublishPending(r, t) \/ g \in RotateAndReconcile(k, t)  BY <1>2 DEF CommitUnknown
<1>4. /\ HubInv(h, subscribed) /\ h.poisoned = {} /\ Keeps(Hub, h) /\ SameStream(Hub, h)
      /\ h.blocked = {}
  BY <1>1, RecoveredKeeps
<1> HIDE DEF h
<1>5. h.stored[x] < MaxStored /\ h \in Hubs  BY <1>1, <1>4 DEF SameStream, HubInv, BaseInv
<1>6. /\ t \in Stores /\ BaseInv(r, subscribed) /\ Hidden(r, {t}) /\ Keeps(h, r)
      /\ r.poisoned = {} /\ r.blocked = h.blocked /\ r.rows[t] # <<>>
      /\ Owed(r, r.rows[t], subscribed)
  BY <1>4, <1>5, RecordedFlow
<1> HIDE DEF r, t
<1>7. r \in Hubs  BY <1>6 DEF BaseInv
<1>8. HubInv(g, subscribed) /\ Keeps(r, g)
  <2>1. CASE g \in PublishPending(r, t)  BY <1>4, <1>6, <2>1, PublishKeeps
  <2>2. CASE g \in RotateAndReconcile(k, t)
    <3>1. BaseInv(k, subscribed) /\ Hidden(k, {t}) /\ Keeps(r, k)  BY <1>6, FaultKeeps
    <3> HIDE DEF k
    <3>2. HubInv(g, subscribed) /\ Keeps(k, g)  BY <1>6, <2>2, <3>1, RotatedKeeps
    <3>3. k \in Hubs /\ g \in Hubs  BY <3>1, <3>2 DEF HubInv, BaseInv
    <3> QED  BY <1>7, <3>1, <3>2, <3>3, KeepsOn
  <2> QED  BY <1>3, <2>1, <2>2
<1>9. g \in Hubs  BY <1>8 DEF HubInv, BaseInv
<1>10. Keeps(Hub, g)  BY <1>1, <1>4, <1>5, <1>6, <1>7, <1>8, <1>9, KeepsOn
<1> QED  BY <1>1, <1>2, <1>8, <1>10, StepIs

\* A command on a run.
LEMMA CommandRunKeeps == ASSUME StreamInv, NEW x \in Executions, CommandRun(x) PROVE StepOK
<1> DEFINE h == RecoveredPoison(Hub)
           r == Recorded(h, x, TRUE)
           k == [r EXCEPT !.faults = @ + 1]
           t == StoreOf[x]
<1>1. /\ HubInv(Hub, subscribed) /\ stored[x] < MaxStored /\ subscribed' = subscribed
      /\ Hub.stored = stored /\ Hub \in Hubs
  BY DEF StreamInv, HubInv, BaseInv, Hub, CommandRun
<1>0. t \in Stores  BY DEF Stores, Topics
<1>2. PICK g \in DrainAndPublish(r, t) \cup {k} : Becomes(g)  BY DEF CommandRun
<1>3. HubInv(h, subscribed) /\ h.poisoned = {} /\ Keeps(Hub, h) /\ SameStream(Hub, h)  BY <1>1, RecoveredKeeps
<1> HIDE DEF h, t
<1>4. h.stored[x] < MaxStored /\ h \in Hubs  BY <1>1, <1>3 DEF SameStream, HubInv, BaseInv
<1>5. HubInv(r, subscribed) /\ r.poisoned = {} /\ Keeps(h, r)  BY <1>3, <1>4, RecordedRun
<1> HIDE DEF r
<1>6. r \in Hubs  BY <1>5 DEF HubInv, BaseInv
<1>7. HubInv(g, subscribed) /\ Keeps(r, g)
  <2>1. CASE g \in DrainAndPublish(r, t)  BY <1>0, <1>5, <2>1, DrainKeeps
  <2>2. CASE g = k  BY <1>5, <2>2, FaultKeeps DEF HubInv
  <2> QED  BY <1>2, <2>1, <2>2
<1>8. g \in Hubs  BY <1>7 DEF HubInv, BaseInv
<1>9. Keeps(Hub, g)  BY <1>1, <1>3, <1>4, <1>5, <1>6, <1>7, <1>8, KeepsOn
<1> QED  BY <1>1, <1>2, <1>7, <1>9, StepIs

\* A repeated command or a registration.
LEMMA DrainAgainKeeps == ASSUME StreamInv, NEW t \in Stores, DrainAgain(t) PROVE StepOK
<1> DEFINE h == RecoveredPoison(Hub)
<1>1. HubInv(Hub, subscribed) /\ subscribed' = subscribed /\ Hub \in Hubs  BY DEF StreamInv, HubInv, BaseInv, DrainAgain
<1>2. PICK g \in DrainAndPublish(h, t) : Becomes(g)  BY DEF DrainAgain
<1>3. HubInv(h, subscribed) /\ h.poisoned = {} /\ Keeps(Hub, h)  BY <1>1, RecoveredKeeps
<1> HIDE DEF h
<1>4. HubInv(g, subscribed) /\ Keeps(h, g)  BY <1>2, <1>3, DrainKeeps
<1>5. g \in Hubs /\ h \in Hubs  BY <1>3, <1>4 DEF HubInv, BaseInv
<1>6. Keeps(Hub, g)  BY <1>1, <1>3, <1>4, <1>5, KeepsOn
<1> QED  BY <1>1, <1>2, <1>4, <1>6, StepIs

\* A move of a run without an event.
LEMMA RunMovesKeeps == ASSUME StreamInv, NEW x \in Executions, RunMoves(x) PROVE StepOK
<1> DEFINE S == [stored EXCEPT ![x] = @ + 1]
<1>1. /\ HubInv(Hub, subscribed) /\ Hub \in Hubs /\ stored[x] < MaxStored /\ x \in Topics
      /\ x \notin Flows /\ stored' = S /\ stored \in [Topics -> 1..MaxStored]
      /\ UNCHANGED <<unpublished, journal, queues, poisoned, blocked, subscribed, executed,
                     streamFaults>>
  BY RunsOwe DEF StreamInv, HubInv, BaseInv, RunMoves, Topics, Hub, Hubs
<1>2. S \in [Topics -> 1..MaxStored] /\ \A f \in Flows : S[f] = stored[f]  BY <1>1, StreamAssumption DEF Topics
<1> HIDE DEF S
<1>3. /\ Hub'.stored = S /\ Hub.stored = stored
      /\ Hub'.rows = Hub.rows /\ Hub'.journal = Hub.journal
      /\ Hub'.queues = Hub.queues /\ Hub'.poisoned = Hub.poisoned /\ Hub'.blocked = Hub.blocked
      /\ Hub'.executed = Hub.executed /\ Hub'.faults = Hub.faults
  BY <1>1 DEF Hub
<1>4. Hub' \in Hubs  BY <1>1, <1>2 DEF Hub, Hubs
<1>5. Keeps(Hub, Hub')  BY <1>1, <1>3, <1>4, KeepsSame
<1> QED  BY <1>1, <1>2, <1>3, <1>4, <1>5 DEF StepOK, StreamInv, HubInv, BaseInv, Hidden, InStep

\* A new process.
LEMMA RestartKeeps == ASSUME StreamInv, RestartCore PROVE StepOK
<1> DEFINE R == [t \in Stores |-> Reconciled(Hub, t).rows[t]]
           B == {t \in Stores : R[t] # <<>>}
           r == Rotate(Hub)
           F == r.faults + 1
           g == [r EXCEPT !.rows = R, !.poisoned = {}, !.blocked = B, !.faults = F]
<1>1. HubInv(Hub, subscribed) /\ BaseInv(Hub, subscribed) /\ Hub \in Hubs /\ OwesTidy(Hub)
  BY DEF StreamInv, HubInv, BaseInv, OwesTidy
<1>2. Becomes(g) /\ subscribed' = subscribed  BY DEF RestartCore
<1>3. /\ r \in Hubs /\ r.stored = Hub.stored /\ r.executed = Hub.executed
      /\ r.journal = EmptyJournal(Hub.journal.epoch + 1)
      /\ r.queues = [c \in Subscribers |-> NoQueue]
  BY <1>1, RotateIs
<1>4. R \in [Stores -> Seq(OutboxRow)]
  <2>1. ASSUME NEW t \in Stores PROVE Reconciled(Hub, t).rows[t] \in Seq(OutboxRow)  BY <1>1, ReconciledIs, HubFields
  <2> QED  BY <2>1
<1>5. \A t \in Stores : R[t] = Reconciled(Hub, t).rows[t]  OBVIOUS
<1>6. B \in SUBSET Stores /\ F \in Nat  BY <1>3, HubFields
<1> HIDE DEF R, B, F, r
<1>7. /\ g \in Hubs /\ g.rows = R /\ g.poisoned = {} /\ g.executed = Hub.executed
      /\ g.journal = EmptyJournal(Hub.journal.epoch + 1)
      /\ g.queues = [c \in Subscribers |-> NoQueue]
  BY <1>3, <1>4, <1>6 DEF Hubs
<1> HIDE DEF g
<1>8. ASSUME NEW t \in Stores, NEW n \in DOMAIN g.rows[t]
      PROVE  g.rows[t][n].owes /\ g.rows[t][n].topic \in Executions
  BY <1>1, <1>5, <1>7, <1>8, ReconciledIs DEF OwesTidy
<1>9. OwesTidy(g) /\ Hidden(g, {})  BY <1>8, RunsOwe DEF OwesTidy, Hidden
<1>10. Keeps(Hub, g)
  <2> SUFFICES ASSUME NEW u \in Stores, NEW i \in DOMAIN Hub.rows[u], Hub.rows[u][i].owes
               PROVE  \/ Hub.rows[u][i] \in g.executed
                      \/ \E k \in DOMAIN g.rows[u] : g.rows[u][k] = Hub.rows[u][i]
    BY <1>7 DEF Keeps
  <2> QED  BY <1>5, <1>7, <1>1, ReconciledIs DEF Keeps
<1> QED  BY <1>2, <1>9, <1>1, <1>7, NewStream, <1>10, StepIs DEF HubInv

\* What a subscriber has yet to hear brings its view to what is stored.
LevelWith(h, q, v) ==
    Reach(h.journal, q, v) =>
        \A f \in Flows : LastRev(Coming(h.journal, q, v), f, v.view[f]) = h.stored[f]

\* A hub in which only the queue of one subscriber is another.
QueueSet(h, c, q, g) ==
    /\ g.stored = h.stored /\ g.rows = h.rows /\ g.journal = h.journal
    /\ g.queues = [h.queues EXCEPT ![c] = q]
    /\ g.poisoned = h.poisoned /\ g.executed = h.executed

\* The turn of one subscriber: its queue and its cursor change, and nothing else that matters.
LEMMA TurnKeeps ==
    ASSUME NEW h, NEW cursors, HubInv(h, cursors), NEW g \in Hubs, NEW c \in Subscribers,
           NEW q \in Queue, NEW v \in Cursor, QueueSet(h, c, q, g),
           Follows(h.journal, q, v), LevelWith(h, q, v)
    PROVE  HubInv(g, [cursors EXCEPT ![c] = v]) /\ Keeps(h, g)
<1> DEFINE new == [cursors EXCEPT ![c] = v]
<1>1. /\ h \in Hubs /\ cursors \in [Subscribers -> Cursor] /\ h.queues \in [Subscribers -> Queue]
  BY HubFields DEF HubInv, BaseInv
<1>2. new \in [Subscribers -> Cursor] /\ new[c] = v /\ g.queues[c] = q
      /\ \A d \in Subscribers \ {c} : new[d] = cursors[d] /\ g.queues[d] = h.queues[d]
  BY <1>1 DEF QueueSet
<1> HIDE DEF new
<1>3. /\ g.stored = h.stored /\ g.rows = h.rows /\ g.journal = h.journal
      /\ g.poisoned = h.poisoned /\ g.executed = h.executed
  BY DEF QueueSet
<1>4. ASSUME NEW d \in Subscribers PROVE Follows(g.journal, g.queues[d], new[d])
  <2>1. CASE d = c  BY <1>2, <1>3, <2>1
  <2>2. CASE d # c  BY <1>2, <1>3, <2>2 DEF HubInv, BaseInv
  <2> QED  BY <2>1, <2>2
<1>5. BaseInv(g, new)  BY <1>2, <1>3, <1>4 DEF HubInv, BaseInv
<1>6. Hidden(g, {})  BY <1>3 DEF HubInv, Hidden
<1>7. ASSUME NEW d \in Subscribers, Reach(g.journal, g.queues[d], new[d]), NEW f \in Flows
      PROVE  LastRev(Coming(g.journal, g.queues[d], new[d]), f, new[d].view[f]) = g.stored[f]
  <2>1. CASE d = c  BY <1>2, <1>3, <1>7, <2>1 DEF LevelWith
  <2>2. CASE d # c  BY <1>2, <1>3, <1>7, <2>2 DEF HubInv, InStep
  <2> QED  BY <2>1, <2>2
<1>8. InStep(g, new)  BY <1>7 DEF InStep
<1>9. Keeps(h, g)  BY <1>1, <1>3, KeepsSame
<1> QED  BY <1>5, <1>6, <1>8, <1>9 DEF HubInv, new

\* What a sound stream knows of one subscriber.
LEMMA TurnOf ==
    ASSUME NEW h, NEW cursors, HubInv(h, cursors), NEW c \in Subscribers
    PROVE  /\ h \in Hubs /\ h.journal \in Journals /\ Numbered(h.journal)
           /\ h.stored \in [Topics -> 1..MaxStored]
           /\ h.queues[c] \in Queue /\ cursors[c] \in Cursor
           /\ Follows(h.journal, h.queues[c], cursors[c])
           /\ LevelWith(h, h.queues[c], cursors[c])
<1> QED  BY HubFields DEF HubInv, BaseInv, InStep, LevelWith

\* Nothing follows a number from itself on.
LEMMA RunsNowhere ==
    ASSUME NEW j, NEW n \in Nat
    PROVE  RunsOn(j, n, n, <<>>)
BY DEF RunsOn

\* A sequence that is empty leaves a revision as it is.
LEMMA LastRevNone == ASSUME NEW x, NEW b PROVE LastRev(<<>>, x, b) = b
<1>1. <<>> \in Seq(Entry) /\ DOMAIN <<>> = {}  OBVIOUS
<1> QED  BY <1>1, LastRevAbsent

\* What a subscriber believes after it has received events is again a revision.
LEMMA CaughtType ==
    ASSUME NEW s \in Seq(Entry), NEW view \in [Flows -> 0..MaxStored]
    PROVE  Caught(view, s) \in [Flows -> 0..MaxStored]
<1>1. ASSUME NEW f \in Flows PROVE LastRev(s, f, view[f]) \in 0..MaxStored
  <2>1. CASE LastRev(s, f, view[f]) = view[f]  BY <2>1
  <2>2. CASE \E m \in DOMAIN s : LastRev(s, f, view[f]) = s[m].rev
    <3>1. PICK m \in DOMAIN s : LastRev(s, f, view[f]) = s[m].rev  BY <2>2
    <3>2. s[m] \in Entry  BY <3>1
    <3>3. s[m].rev \in 2..MaxStored /\ MaxStored \in Nat  BY <3>2, StreamAssumption DEF Entry
    <3> QED  BY <3>1, <3>3
  <2> QED  BY <2>1, <2>2, LastRevIs
<1> QED  BY <1>1 DEF Caught

\* Who is told to resynchronise is far from any stream.
LEMMA UnsyncedIs ==
    ASSUME NEW h \in Hubs
    PROVE  /\ Unsynced \in Cursor /\ NoQueue \in Queue
           /\ Follows(h.journal, NoQueue, Unsynced) /\ LevelWith(h, NoQueue, Unsynced)
<1>1. h.journal \in Journals /\ h.journal.epoch \in Nat \ {0} /\ MaxStored \in Nat
  BY HubFields, StreamAssumption DEF Journals
<1> QED  BY <1>1 DEF Follows, LevelWith, Reach, Unsynced, Cursor, NoQueue, Queue

\* A queue that holds nothing but a cursor's place is not the absence of a queue.
LEMMA QueueIs ==
    ASSUME NEW u \in Nat, NEW n \in Nat, NEW e \in Seq(Entry)
    PROVE  /\ [until |-> u, upto |-> n, events |-> e] \in Queue
           /\ [until |-> u, upto |-> n, events |-> e] # NoQueue
BY DEF Queue, NoQueue

\* A snapshot is level with the end of its stream.
LEMMA SnapshotLevel ==
    ASSUME NEW h \in Hubs, NEW v,
           v = [epoch |-> h.journal.epoch, seq |-> h.journal.seq,
                view |-> [f \in Flows |-> h.stored[f]]]
    PROVE  v \in Cursor /\ Follows(h.journal, NoQueue, v) /\ LevelWith(h, NoQueue, v)
<1>1. /\ h.journal \in Journals /\ h.journal.epoch \in Nat /\ h.journal.seq \in Nat
      /\ h.stored \in [Topics -> 1..MaxStored] /\ MaxStored \in Nat
  BY HubFields, StreamAssumption DEF Journals
<1>2. v.epoch = h.journal.epoch /\ v.seq = h.journal.seq /\ \A f \in Flows : v.view[f] = h.stored[f]  OBVIOUS
<1>3. v \in Cursor  BY <1>1 DEF Cursor, Topics
<1>4. Follows(h.journal, NoQueue, v)  BY <1>1, <1>2 DEF Follows
<1>5. Coming(h.journal, NoQueue, v) = <<>>  BY <1>1, <1>2, BetweenNothing DEF Coming
<1>6. LevelWith(h, NoQueue, v)  BY <1>2, <1>5, LastRevNone DEF LevelWith
<1> QED  BY <1>3, <1>4, <1>6

\* A snapshot.
LEMMA SnapshotKeeps == ASSUME StreamInv, NEW c \in Subscribers, Snapshot(c) PROVE StepOK
<1> DEFINE h == RecoveredPoison(Hub)
           g == [h EXCEPT !.queues[c] = NoQueue]
           v == [epoch |-> journal.epoch, seq |-> journal.seq,
                 view |-> [f \in Flows |-> stored[f]]]
<1>1. HubInv(Hub, subscribed) /\ Hub.journal = journal /\ Hub.stored = stored /\ Hub \in Hubs
  BY DEF StreamInv, Hub, HubInv, BaseInv
<1>2. Becomes(g) /\ subscribed' = [subscribed EXCEPT ![c] = v]  BY DEF Snapshot
<1>3. /\ HubInv(h, subscribed) /\ Keeps(Hub, h) /\ h \in Hubs
      /\ h.journal = journal /\ h.stored = stored
  BY <1>1, RecoveredKeeps DEF SameStream, HubInv, BaseInv
<1> HIDE DEF h
<1>4. v \in Cursor /\ Follows(h.journal, NoQueue, v) /\ LevelWith(h, NoQueue, v)  BY <1>3, SnapshotLevel
<1>5. NoQueue \in Queue  BY <1>3, UnsyncedIs
<1>6. g \in Hubs /\ QueueSet(h, c, NoQueue, g)  BY <1>3, <1>5 DEF Hubs, QueueSet
<1> HIDE DEF g, v
<1>7. HubInv(g, [subscribed EXCEPT ![c] = v]) /\ Keeps(h, g)  BY <1>3, <1>4, <1>5, <1>6, TurnKeeps
<1>8. Keeps(Hub, g)  BY <1>1, <1>3, <1>6, <1>7, KeepsOn
<1> QED  BY <1>2, <1>7, <1>8, StepIs

\* A subscription starts where its cursor stands.
LEMMA SubscribedLevel ==
    ASSUME NEW h, NEW cursors, HubInv(h, cursors), NEW c \in Subscribers,
           h.queues[c] = NoQueue, Covers(h.journal, cursors[c]), NEW q,
           q = [until |-> h.journal.seq, upto |-> cursors[c].seq, events |-> <<>>]
    PROVE  q \in Queue /\ Follows(h.journal, q, cursors[c]) /\ LevelWith(h, q, cursors[c])
<1> DEFINE j == h.journal
           v == cursors[c]
<1>1. /\ j \in Journals /\ Numbered(j) /\ v \in Cursor /\ Follows(j, NoQueue, v)
      /\ LevelWith(h, NoQueue, v)
  BY TurnOf
<1>2. /\ j.epoch \in Nat /\ j.seq \in Nat /\ v.seq \in Nat /\ v.epoch = j.epoch /\ v.seq <= j.seq
      /\ QueueMax \in Nat /\ <<>> \in Seq(Entry)
  BY <1>1, StreamAssumption DEF Journals, Cursor, Covers
<1>3. q \in Queue /\ q # NoQueue /\ q.until = j.seq /\ q.upto = v.seq /\ q.events = <<>>  BY <1>2, QueueIs
<1>4. Mark(q) = j.seq  BY <1>2, <1>3 DEF Mark
<1>5. Follows(j, q, v)  BY <1>2, <1>3, <1>4, RunsNowhere DEF Follows
<1>6. Reach(j, NoQueue, v)  BY <1>2 DEF Reach
<1>7. RunsOn(j, v.seq, j.seq, Coming(j, NoQueue, v))  BY <1>1, <1>3, <1>6, UnsyncedIs, ComingIs, TurnOf
<1>8. Coming(j, q, v) = Coming(j, NoQueue, v)  BY <1>3, <1>7 DEF Coming, RunsOn
<1> QED  BY <1>1, <1>3, <1>5, <1>6, <1>8 DEF LevelWith

\* A subscription, or the answer that the cursor is too old.
LEMMA SubscribeKeeps == ASSUME StreamInv, NEW c \in Subscribers, Subscribe(c) PROVE StepOK
<1> DEFINE h == RecoveredPoison(Hub)
           q == [until |-> journal.seq, upto |-> subscribed[c].seq, events |-> <<>>]
           g == [h EXCEPT !.queues[c] = q]
<1>1. /\ HubInv(Hub, subscribed) /\ Hub.journal = journal /\ Hub.queues = queues /\ Hub \in Hubs
      /\ queues[c] = NoQueue /\ subscribed \in [Subscribers -> Cursor]
  BY DEF StreamInv, Hub, HubInv, BaseInv, Subscribe
<1>2. IF Covers(h.journal, subscribed[c]) THEN Becomes(g) /\ UNCHANGED subscribed
                                          ELSE Becomes(h) /\ MustResync(c)
  BY DEF Subscribe
<1>3. /\ HubInv(h, subscribed) /\ Keeps(Hub, h) /\ h \in Hubs
      /\ h.journal = journal /\ h.queues = queues
  BY <1>1, RecoveredKeeps DEF SameStream, HubInv, BaseInv
<1> HIDE DEF h
<1>4. CASE Covers(h.journal, subscribed[c])
  <2>1. q \in Queue /\ Follows(h.journal, q, subscribed[c]) /\ LevelWith(h, q, subscribed[c])
    BY <1>1, <1>3, <1>4, SubscribedLevel
  <2>2. g \in Hubs /\ QueueSet(h, c, q, g)  BY <1>3, <2>1 DEF Hubs, QueueSet
  <2> HIDE DEF g, q
  <2>3. HubInv(g, subscribed) /\ Keeps(h, g)  BY <1>3, <2>1, <2>2, <1>1, TurnKeeps
  <2>4. Keeps(Hub, g)  BY <1>1, <1>3, <2>2, <2>3, KeepsOn
  <2> QED  BY <1>2, <1>4, <2>3, <2>4, StepIs
<1>5. CASE ~Covers(h.journal, subscribed[c])
  <2>1. QueueSet(h, c, NoQueue, h)  BY <1>1, <1>3, HubFields DEF QueueSet
  <2> QED  BY <1>3, <1>2, <1>5, <2>1, UnsyncedIs, TurnKeeps, StepIs DEF MustResync
<1> QED  BY <1>4, <1>5

\* A turn outside of the barrier.
LEMMA TurnIs ==
    ASSUME StreamInv, NEW c \in Subscribers, NEW q \in Queue, NEW v \in Cursor,
           queues' = [queues EXCEPT ![c] = q], subscribed' = [subscribed EXCEPT ![c] = v],
           UNCHANGED <<stored, unpublished, journal, poisoned, blocked, executed, streamFaults>>,
           Follows(journal, q, v), LevelWith(Hub, q, v)
    PROVE  StepOK
<1>1. HubInv(Hub, subscribed) /\ Hub \in Hubs /\ Hub.journal = journal  BY DEF StreamInv, HubInv, BaseInv, Hub
<1>2. Hub' \in Hubs  BY <1>1 DEF Hubs, Hub
<1>3. QueueSet(Hub, c, q, Hub')  BY DEF QueueSet, Hub
<1> QED  BY <1>1, <1>2, <1>3, TurnKeeps DEF StepOK, StreamInv

\* A subscriber that leaves has still the same to hear when it comes back.
LEMMA LeftLevel ==
    ASSUME NEW h, NEW cursors, HubInv(h, cursors), NEW c \in Subscribers, h.queues[c] # NoQueue
    PROVE  Follows(h.journal, NoQueue, cursors[c]) /\ LevelWith(h, NoQueue, cursors[c])
<1> DEFINE j == h.journal
           v == cursors[c]
           q == h.queues[c]
<1>1. /\ h \in Hubs /\ j \in Journals /\ Numbered(j) /\ v \in Cursor /\ q \in Queue
      /\ Follows(j, q, v)
      /\ LevelWith(h, q, v)
  BY TurnOf
<1>2. Follows(j, NoQueue, v)  BY <1>1 DEF Follows
<1>3. ASSUME Reach(j, NoQueue, v)
      PROVE  Reach(j, q, v) /\ Coming(j, q, v) = Coming(j, NoQueue, v)
  <2>1. Reach(j, q, v)  BY <1>1, <1>3 DEF Reach, Covers, Follows
  <2>2. /\ v.seq \in Nat /\ RunsOn(j, v.seq, j.seq, Coming(j, q, v))
        /\ RunsOn(j, v.seq, j.seq, Coming(j, NoQueue, v))
    BY <1>1, <1>2, <1>3, <2>1, UnsyncedIs, ComingIs
  <2>3. Before(j) <= v.seq
    <3>1. v.seq + 1 >= OldestSeq(j)  BY <1>3 DEF Reach, Covers
    <3> QED  BY <1>1, <2>2, <3>1, BeforeIs
  <2> QED  BY <1>1, <2>1, <2>2, <2>3, RunsOnce
<1> QED  BY <1>1, <1>2, <1>3 DEF LevelWith

\* A connection that ends.
LEMMA DisconnectKeeps == ASSUME StreamInv, NEW c \in Subscribers, Disconnect(c) PROVE StepOK
<1>1. /\ HubInv(Hub, subscribed) /\ Hub.journal = journal /\ Hub.queues = queues /\ Hub \in Hubs
      /\ subscribed \in [Subscribers -> Cursor] /\ queues[c] # NoQueue
      /\ queues' = [queues EXCEPT ![c] = NoQueue]
      /\ UNCHANGED <<stored, unpublished, journal, poisoned, blocked, executed, streamFaults>>
      /\ subscribed' = subscribed
  BY DEF StreamInv, Hub, HubInv, BaseInv, Disconnect
<1>2. NoQueue \in Queue  BY <1>1, UnsyncedIs
<1> QED  BY <1>1, LeftLevel, <1>2, TurnIs

\* The first part of a sequence, no longer than a limit.
LEMMA FirstOf ==
    ASSUME NEW S, NEW s \in Seq(S), NEW max \in Nat \ {0}, NEW r,
           r = SubSeq(s, 1, IF Len(s) < max THEN Len(s) ELSE max), s # <<>>
    PROVE  /\ r \in Seq(S) /\ Len(r) \in 1..Len(s)
           /\ \A i \in 1..Len(r) : r[i] = s[i]
<1> DEFINE n == IF Len(s) < max THEN Len(s) ELSE max
<1>1. Len(s) \in Nat \ {0}  OBVIOUS
<1>2. n \in 1..Len(s) /\ r = SubSeq(s, 1, n)  BY <1>1
<1> HIDE DEF n
<1>3. Len(r) = n  BY <1>1, <1>2
<1>4. \A i \in 1..n : r[i] = s[i]  BY <1>1, <1>2
<1>5. r \in Seq(S)  BY <1>1, <1>2
<1> QED  BY <1>2, <1>3, <1>4, <1>5

\* A queue that has something to replay: what a poll hands out, and what is left.
ReplayOf(j, q, r, n) ==
    /\ r \in Seq(Entry) /\ r # <<>> /\ n \in Nat /\ r[Len(r)].seq = n
    /\ q.upto < n /\ n <= q.until /\ q.until <= j.seq
    /\ Between(j, q.upto, q.until) \o q.events = r \o (Between(j, n, q.until) \o q.events)

\* What a poll replays is the beginning of what is missing, and leaves the rest.
LEMMA ReplayIs ==
    ASSUME NEW j \in Journals, Numbered(j), NEW q \in Queue, NEW v \in Cursor,
           Follows(j, q, v), q # NoQueue, q.upto < q.until, ~(q.upto + 1 < OldestSeq(j)),
           NEW r, NEW m, m = Between(j, q.upto, q.until),
           r = SubSeq(m, 1, IF Len(m) < QueueMax THEN Len(m) ELSE QueueMax), r # <<>>
    PROVE  ReplayOf(j, q, r, q.upto + Len(r))
<1> DEFINE k == Len(r)
           n == q.upto + k
           b == Between(j, n, q.until)
           e == q.events
<1>1. /\ q.upto = v.seq /\ v.seq \in Nat /\ q.until \in Nat /\ j.seq \in Nat
      /\ QueueMax \in Nat \ {0} /\ e \in Seq(Entry) /\ RunsOn(j, q.until, j.seq, e)
  <2>1. /\ q.upto = v.seq /\ v.seq \in Nat /\ q.until \in Nat /\ j.seq \in Nat
        /\ QueueMax \in Nat \ {0} /\ e \in Seq(Entry) /\ RunsOn(j, Mark(q), j.seq, e)
    BY StreamAssumption DEF Follows, Cursor, Queue, Journals
  <2>2. Mark(q) = q.until  BY <2>1 DEF Mark
  <2> QED  BY <2>1, <2>2
<1>2. q.until <= j.seq
  <2>1. Len(e) \in Nat /\ q.until + Len(e) = j.seq  BY <1>1 DEF RunsOn
  <2> QED  BY <1>1, <2>1
<1>3. Before(j) <= q.upto  BY <1>1, BeforeIs
<1>4. RunsOn(j, q.upto, q.until, m)  BY <1>1, <1>2, <1>3, BetweenIs
<1>5. m \in Seq(Entry) /\ q.upto + Len(m) = q.until /\ m # <<>> /\ Len(m) \in Nat  BY <1>1, <1>4 DEF RunsOn
<1>6. r \in Seq(Entry) /\ k \in 1..Len(m) /\ \A i \in 1..k : r[i] = m[i]  BY <1>1, <1>5, FirstOf
<1> HIDE DEF k
<1>7. n \in Nat /\ q.upto < n /\ n <= q.until /\ k \in Nat \ {0} /\ k = Len(r)  BY <1>1, <1>5, <1>6 DEF k
<1>8. RunsOn(j, q.upto, n, r)
  <2>1. /\ \A i \in 1..Len(m) : m[i].seq = q.upto + i
        /\ \A i \in 1..Len(m) : \A l \in DOMAIN j.entries :
              j.entries[l].seq = m[i].seq => j.entries[l] = m[i]
    BY <1>4 DEF RunsOn
  <2>2. \A i \in 1..k : i \in 1..Len(m)  BY <1>5, <1>6
  <2>3. /\ \A i \in 1..k : r[i].seq = q.upto + i
        /\ \A i \in 1..k : \A l \in DOMAIN j.entries :
              j.entries[l].seq = r[i].seq => j.entries[l] = r[i]
    <3> SUFFICES ASSUME NEW i \in 1..k
                 PROVE  /\ r[i].seq = q.upto + i
                        /\ \A l \in DOMAIN j.entries :
                              j.entries[l].seq = r[i].seq => j.entries[l] = r[i]
      OBVIOUS
    <3>1. r[i] = m[i] /\ i \in 1..Len(m)  BY <1>6, <2>2
    <3> QED  BY <2>1, <3>1
  <2> QED  BY <1>6, <1>7, <2>3 DEF RunsOn
<1>9. r[Len(r)].seq = n  BY <1>7, <1>8 DEF RunsOn
<1> HIDE DEF n
<1>10. RunsOn(j, n, q.until, b)
  <2>1. Before(j) \in Nat  BY BeforeIs
  <2>2. Before(j) <= n  BY <1>1, <1>3, <1>7, <2>1
  <2> QED  BY <1>1, <1>2, <1>7, <2>2, BetweenIs
<1> HIDE DEF b, e
<1>11. RunsOn(j, q.upto, j.seq, r \o (b \o e))  BY <1>1, <1>7, <1>8, <1>10, RunsTogether
<1>12. RunsOn(j, q.upto, j.seq, m \o e)  BY <1>1, <1>4, RunsTogether
<1>13. m \o e = r \o (b \o e)  BY <1>1, <1>3, <1>11, <1>12, RunsOnce
<1> QED  BY <1>1, <1>2, <1>6, <1>7, <1>9, <1>13 DEF ReplayOf, n, b, e, k

\* A subscriber that has received events has the rest yet to hear.
LEMMA ReceivedLevel ==
    ASSUME NEW h, NEW cursors, HubInv(h, cursors), NEW c \in Subscribers,
           NEW r \in Seq(Entry), NEW s \in Seq(Entry), NEW q, NEW v,
           v.view = Caught(cursors[c].view, r),
           Reach(h.journal, h.queues[c], cursors[c]),
           Coming(h.journal, h.queues[c], cursors[c]) = r \o s, Coming(h.journal, q, v) = s
    PROVE  LevelWith(h, q, v)
<1> SUFFICES ASSUME NEW f \in Flows
             PROVE  LastRev(s, f, v.view[f]) = h.stored[f]
  BY DEF LevelWith
<1>1. LastRev(r \o s, f, cursors[c].view[f]) = h.stored[f]  BY DEF HubInv, InStep
<1>2. v.view[f] = LastRev(r, f, cursors[c].view[f])  BY DEF Caught
<1> QED  BY <1>1, <1>2, LastRevConcat

\* What a subscriber's cursor becomes when it has received events.
CursorAfter(v, r, n) == [v EXCEPT !.seq = n, !.view = Caught(@, r)]

\* It is a cursor of the same stream at the number it has come to.
LEMMA CursorIs ==
    ASSUME NEW v \in Cursor, NEW r \in Seq(Entry), NEW n \in Nat
    PROVE  /\ CursorAfter(v, r, n) \in Cursor /\ CursorAfter(v, r, n).epoch = v.epoch
           /\ CursorAfter(v, r, n).seq = n /\ CursorAfter(v, r, n).view = Caught(v.view, r)
<1>1. v.view \in [Flows -> 0..MaxStored]  BY DEF Cursor
<1>2. Caught(v.view, r) \in [Flows -> 0..MaxStored]  BY <1>1, CaughtType
<1> HIDE DEF Caught
<1> QED  BY <1>2 DEF CursorAfter, Cursor

\* What a queue becomes when its subscriber has come to a number.
QueueTo(p, n, e, q) ==
    q \in Queue /\ q # NoQueue /\ q.until = p.until /\ q.upto = n /\ q.events = e

\* Both kinds of poll leave such a queue.
LEMMA QueueAfter ==
    ASSUME NEW p \in Queue, NEW n \in Nat
    PROVE  /\ QueueTo(p, n, p.events, [p EXCEPT !.upto = n])
           /\ QueueTo(p, n, <<>>, [p EXCEPT !.upto = n, !.events = <<>>])
<1> DEFINE x == [p EXCEPT !.upto = n]
           y == [p EXCEPT !.upto = n, !.events = <<>>]
<1>1. p.until \in Nat /\ p.events \in Seq(Entry) /\ <<>> \in Seq(Entry)  BY DEF Queue
<1>2. x \in Queue /\ x.until = p.until /\ x.upto = n /\ x.events = p.events  BY <1>1 DEF Queue
<1>3. y \in Queue /\ y.until = p.until /\ y.upto = n /\ y.events = <<>>  BY <1>1 DEF Queue
<1>4. NoQueue.upto = -1 /\ n # -1  BY DEF NoQueue
<1>5. x # NoQueue /\ y # NoQueue  BY <1>2, <1>3, <1>4
<1> QED  BY <1>2, <1>3, <1>5 DEF QueueTo

\* A poll that replays leaves its subscriber level with the stream.
LEMMA ReplayedLevel ==
    ASSUME NEW h, NEW cursors, HubInv(h, cursors), NEW c \in Subscribers,
           h.queues[c] # NoQueue, h.queues[c].upto < h.queues[c].until,
           ~(h.queues[c].upto + 1 < OldestSeq(h.journal)), NEW r, NEW n,
           ReplayOf(h.journal, h.queues[c], r, n),
           NEW q, q = [h.queues[c] EXCEPT !.upto = n], NEW v, v = CursorAfter(cursors[c], r, n)
    PROVE  q \in Queue /\ v \in Cursor /\ Follows(h.journal, q, v) /\ LevelWith(h, q, v)
<1> DEFINE j == h.journal
           p == h.queues[c]
           u == cursors[c]
           b == Between(j, n, p.until) \o p.events
<1>0. /\ p # NoQueue /\ p.upto < p.until /\ ~(p.upto + 1 < OldestSeq(j))
      /\ ReplayOf(j, p, r, n) /\ q = [p EXCEPT !.upto = n] /\ v = CursorAfter(u, r, n)
  OBVIOUS
<1>1. /\ j \in Journals /\ p \in Queue /\ u \in Cursor /\ Follows(j, p, u) /\ Numbered(j)
      /\ h \in Hubs
  BY TurnOf
<1>2. /\ p.upto = u.seq /\ u.seq \in Nat /\ p.until \in Nat /\ j.seq \in Nat /\ u.epoch = j.epoch
      /\ p.events \in Seq(Entry) /\ RunsOn(j, Mark(p), j.seq, p.events)
      /\ Len(p.events) <= QueueMax /\ j.epoch \in Nat /\ OldestSeq(j) \in Nat
  <2>1. OldestSeq(j) \in Nat  BY <1>1, BeforeIs
  <2> QED  BY <1>0, <1>1, <2>1 DEF Follows, Cursor, Queue, Journals
<1>3. /\ r \in Seq(Entry) /\ n \in Nat /\ p.upto < n /\ n <= p.until /\ p.until <= j.seq
      /\ Between(j, p.upto, p.until) \o p.events = r \o b
  BY <1>0 DEF ReplayOf
<1> HIDE DEF j, p, u
<1>4. q \in Queue /\ q # NoQueue /\ q.until = p.until /\ q.upto = n /\ q.events = p.events
  <2>1. p \in Queue /\ n \in Nat /\ q = [p EXCEPT !.upto = n]  BY <1>0, <1>1, <1>3
  <2>2. QueueTo(p, n, p.events, q)  BY <2>1, QueueAfter
  <2> QED  BY <2>2 DEF QueueTo
<1>5. /\ v \in Cursor /\ v.epoch = u.epoch /\ v.seq = n /\ v.view = Caught(u.view, r)  BY <1>0, <1>1, <1>3, CursorIs
<1>6. Mark(p) = p.until /\ Mark(q) = p.until  BY <1>2, <1>3, <1>4 DEF Mark
<1>7. Follows(j, q, v)  BY <1>0, <1>2, <1>3, <1>4, <1>5, <1>6 DEF Follows
<1>8. Reach(j, p, u)  BY <1>0, <1>2, <1>3 DEF Reach
<1>9. Coming(j, p, u) = r \o b /\ Coming(j, q, v) = b  BY <1>0, <1>2, <1>3, <1>4, <1>5 DEF Coming
<1>10. b \in Seq(Entry)
  <2>1. Before(j) <= n /\ n <= p.until
    <3>1. Before(j) \in Nat /\ OldestSeq(j) = Before(j) + 1  BY <1>1, BeforeIs
    <3> QED  BY <1>0, <1>2, <1>3, <3>1
  <2>2. Between(j, n, p.until) \in Seq(Entry)  BY <1>1, <1>2, <1>3, <2>1, BetweenIs DEF RunsOn
  <2> QED  BY <1>2, <2>2
<1>11. LevelWith(h, q, v)  BY <1>3, <1>5, <1>8, <1>9, <1>10, ReceivedLevel DEF j, p, u
<1> QED  BY <1>4, <1>5, <1>7, <1>11 DEF j

\* A poll that empties the queue leaves its subscriber at the end of the stream.
LEMMA EmptiedLevel ==
    ASSUME NEW h, NEW cursors, HubInv(h, cursors), NEW c \in Subscribers,
           h.queues[c] # NoQueue, h.queues[c].upto >= h.queues[c].until,
           NEW r, r = h.queues[c].events, r # <<>>, NEW n, n = r[Len(r)].seq,
           NEW q, q = [h.queues[c] EXCEPT !.upto = n, !.events = <<>>],
           NEW v, v = CursorAfter(cursors[c], r, n)
    PROVE  /\ q \in Queue /\ v \in Cursor /\ r \in Seq(Entry) /\ n \in Nat
           /\ Follows(h.journal, q, v) /\ LevelWith(h, q, v)
<1> DEFINE j == h.journal
           p == h.queues[c]
           u == cursors[c]
<1>0. p # NoQueue /\ r = p.events  OBVIOUS
<1>1. /\ j \in Journals /\ p \in Queue /\ u \in Cursor /\ Follows(j, p, u) /\ Numbered(j)
      /\ h \in Hubs
  BY TurnOf
<1>2. /\ p.upto = u.seq /\ u.seq \in Nat /\ p.until \in Nat /\ j.seq \in Nat /\ u.epoch = j.epoch
      /\ r \in Seq(Entry) /\ RunsOn(j, Mark(p), j.seq, r) /\ j.epoch \in Nat /\ u.seq <= j.seq
  BY <1>1 DEF Follows, Cursor, Queue, Journals
<1>3. Mark(p) = p.upto  BY <1>2 DEF Mark
<1>4. n = j.seq /\ n \in Nat
  <2>0. RunsOn(j, p.upto, j.seq, r)  BY <1>2, <1>3
  <2>1. r \in Seq(Entry) /\ p.upto + Len(r) = j.seq  BY <2>0 DEF RunsOn
  <2>2. Len(r) \in Nat \ {0} /\ p.upto + Len(r) = j.seq  BY <2>1
  <2>3. r[Len(r)].seq = p.upto + Len(r)
    <3>1. \A i \in 1..Len(r) : r[i].seq = p.upto + i  BY <2>0 DEF RunsOn
    <3>2. Len(r) \in 1..Len(r)  BY <2>2
    <3> QED  BY <3>1, <3>2
  <2> QED  BY <1>2, <2>2, <2>3
<1>5. q \in Queue /\ q # NoQueue /\ q.until = p.until /\ q.upto = n /\ q.events = <<>>
  BY <1>1, <1>4, QueueAfter DEF QueueTo
<1>6. /\ v \in Cursor /\ v.epoch = u.epoch /\ v.seq = n /\ v.view = Caught(u.view, r)
  BY <1>1, <1>2, <1>4, CursorIs, SMTT(30)
<1>7. Mark(q) = j.seq  BY <1>2, <1>4, <1>5 DEF Mark
<1>8. Follows(j, q, v)
  <2>1. Len(<<>>) <= QueueMax  BY StreamAssumption
  <2> QED  BY <1>2, <1>4, <1>5, <1>6, <1>7, <2>1, RunsNowhere DEF Follows
<1>9. Reach(j, p, u)  BY <1>2 DEF Reach
<1>10. Between(j, u.seq, p.until) = <<>> /\ Between(j, n, p.until) = <<>>
  <2>1. p.until <= u.seq /\ p.until <= n  BY <1>2, <1>4
  <2> QED  BY <1>1, <1>2, <1>4, <2>1, BetweenNothing
<1>11. Coming(j, p, u) = r \o <<>> /\ Coming(j, q, v) = <<>> /\ <<>> \in Seq(Entry)
  <2>1. <<>> \in Seq(Entry) /\ r \o <<>> = r /\ <<>> \o r = r /\ <<>> \o <<>> = <<>>  BY <1>2
  <2> QED  BY <1>0, <1>5, <1>6, <1>10, <2>1 DEF Coming
<1>12. LevelWith(h, q, v)  BY <1>2, <1>6, <1>9, <1>11, ReceivedLevel
<1> QED  BY <1>2, <1>4, <1>5, <1>6, <1>8, <1>12

\* A poll: a resynchronisation, a replay, or the queue.
LEMMA PollKeeps == ASSUME StreamInv, NEW c \in Subscribers, Poll(c) PROVE StepOK
<1> DEFINE q == queues[c]
           v == subscribed[c]
           r == Replayable(q)
<1>1. /\ HubInv(Hub, subscribed) /\ Hub.journal = journal /\ Hub.queues = queues /\ Hub \in Hubs
      /\ subscribed \in [Subscribers -> Cursor]
      /\ UNCHANGED <<stored, unpublished, journal, poisoned, blocked, executed, streamFaults>>
  BY DEF StreamInv, Hub, HubInv, BaseInv, Poll
<1>2. /\ journal \in Journals /\ Numbered(journal) /\ q \in Queue /\ v \in Cursor
      /\ Follows(journal, q, v) /\ queues \in [Subscribers -> Queue]
  BY <1>1, TurnOf, HubFields
<1>3. NoQueue \in Queue /\ Unsynced \in Cursor /\ Follows(journal, NoQueue, Unsynced)
      /\ LevelWith(Hub, NoQueue, Unsynced)
  BY <1>1, UnsyncedIs
<1>4. \/ (q = NoQueue \/ v.epoch # journal.epoch) /\ MustResync(c) /\ UNCHANGED queues
      \/ q # NoQueue /\ MustResync(c) /\ queues' = [queues EXCEPT ![c] = NoQueue]
      \/ /\ q # NoQueue /\ q.upto < q.until /\ ~ReplayGap(q) /\ r # <<>>
         /\ Receive(c, r) /\ queues' = [queues EXCEPT ![c].upto = r[Len(r)].seq]
      \/ /\ q # NoQueue /\ q.upto >= q.until /\ q.events # <<>> /\ Receive(c, q.events)
         /\ queues' = [queues EXCEPT ![c].upto = q.events[Len(q.events)].seq,
                                     ![c].events = <<>>]
  BY DEF Poll
<1>5. ASSUME MustResync(c), \/ q = NoQueue \/ v.epoch # journal.epoch, UNCHANGED queues
      PROVE  StepOK
  <2>1. q = NoQueue  BY <1>2, <1>5 DEF Follows
  <2>2. queues' = [queues EXCEPT ![c] = NoQueue]  BY <1>2, <1>5, <2>1
  <2> QED  BY <1>1, <1>3, <2>2, <1>5, TurnIs DEF MustResync
<1>6. ASSUME MustResync(c), queues' = [queues EXCEPT ![c] = NoQueue] PROVE StepOK
  BY <1>1, <1>3, <1>6, TurnIs DEF MustResync
<1>7. ASSUME q # NoQueue, q.upto < q.until, ~ReplayGap(q), r # <<>>, Receive(c, r),
             queues' = [queues EXCEPT ![c].upto = r[Len(r)].seq]
      PROVE  StepOK
  <2> DEFINE n == r[Len(r)].seq
             p == [q EXCEPT !.upto = n]
             w == CursorAfter(v, r, n)
             m == Between(journal, q.upto, q.until)
  <2>1. ~(q.upto + 1 < OldestSeq(journal))  BY <1>7 DEF ReplayGap
  <2> HIDE DEF m
  <2>2. ReplayOf(journal, q, r, q.upto + Len(r))  BY <1>2, <1>7, <2>1, ReplayIs DEF m, Replayable
  <2>3. ReplayOf(journal, q, r, n)  BY <2>2 DEF ReplayOf
  <2>4. queues' = [queues EXCEPT ![c] = p]  BY <1>2, <1>7
  <2>5. subscribed' = [subscribed EXCEPT ![c] = w]  BY <1>1, <1>7 DEF Receive, CursorAfter
  <2> HIDE DEF r
  <2>6. p \in Queue /\ w \in Cursor /\ Follows(journal, p, w) /\ LevelWith(Hub, p, w)
    BY <1>1, <1>7, <2>1, <2>3, ReplayedLevel
  <2> HIDE DEF p, w
  <2> QED  BY <1>1, <2>4, <2>5, <2>6, TurnIs
<1>8. ASSUME q # NoQueue, q.upto >= q.until, q.events # <<>>, Receive(c, q.events),
             queues' = [queues EXCEPT ![c].upto = q.events[Len(q.events)].seq,
                                      ![c].events = <<>>]
      PROVE  StepOK
  <2> DEFINE e == q.events
             n == e[Len(e)].seq
             p == [q EXCEPT !.upto = n, !.events = <<>>]
             w == CursorAfter(v, e, n)
  <2>1. queues' = [queues EXCEPT ![c] = p]  BY <1>2, <1>8
  <2>2. subscribed' = [subscribed EXCEPT ![c] = w]  BY <1>1, <1>8 DEF Receive, CursorAfter
  <2>3. p \in Queue /\ w \in Cursor /\ Follows(journal, p, w) /\ LevelWith(Hub, p, w)  BY <1>1, <1>8, EmptiedLevel
  <2> HIDE DEF p, w
  <2> QED  BY <1>1, <2>1, <2>2, <2>3, TurnIs
<1> HIDE DEF r
<1> QED  BY <1>4, <1>5, <1>6, <1>7, <1>8

\* A step that changes nothing.
LEMMA StutterKeeps == ASSUME StreamInv, UNCHANGED streamVars PROVE StepOK
<1>1. HubInv(Hub, subscribed) /\ Hub \in Hubs /\ Hub' = Hub /\ subscribed' = subscribed
      /\ journal' = journal /\ streamFaults' = streamFaults
  BY DEF StreamInv, HubInv, BaseInv, streamVars, Hub
<1>2. Keeps(Hub, Hub')  BY <1>1, KeepsSame
<1> QED  BY <1>1, <1>2 DEF StepOK, StreamInv

\* A stream begins sound.
LEMMA StreamBegins == ASSUME StreamInit PROVE StreamInv
<1>1. /\ Hub.stored = [x \in Topics |-> 1] /\ Hub.rows = [t \in Stores |-> <<>>]
      /\ Hub.journal = EmptyJournal(1) /\ Hub.queues = [c \in Subscribers |-> NoQueue]
      /\ Hub.poisoned = {} /\ Hub.blocked = {} /\ Hub.executed = {} /\ Hub.faults = 0
      /\ subscribed = [c \in Subscribers |-> Unsynced]
  BY DEF StreamInit, Hub
<1>2. /\ {JournalMax, QueueMax, MaxStored, MaxStream} \subseteq Nat \ {0}
      /\ MaxStreamFaults \in Nat
  BY StreamAssumption
<1>3. [x \in Topics |-> 1] \in [Topics -> 1..MaxStored]  BY <1>2
<1>4. EmptyJournal(1) \in Journals  BY <1>2 DEF EmptyJournal, Journals
<1>5. NoQueue \in Queue  BY DEF NoQueue, Queue
<1>6. Hub \in Hubs  BY <1>3, <1>4, <1>5 DEF Hub, Hubs, StreamInit
<1>7. Numbered(EmptyJournal(1))  BY <1>2 DEF EmptyJournal, Numbered, Before
<1>8. /\ Unsynced \in Cursor /\ Follows(Hub.journal, NoQueue, Unsynced)
      /\ LevelWith(Hub, NoQueue, Unsynced)
  BY <1>6, UnsyncedIs
<1>9. BaseInv(Hub, subscribed)  BY <1>1, <1>6, <1>7, <1>8 DEF BaseInv
<1>10. Hidden(Hub, {}) /\ InStep(Hub, subscribed)  BY <1>1, <1>8 DEF Hidden, InStep, LevelWith
<1> QED  BY <1>9, <1>10, <1>2 DEF StreamInv, HubInv, StreamInit, EmptyJournal

\* Every step keeps the stream sound and loses nothing that is owed.
LEMMA StreamStep == ASSUME StreamInv, [StreamNext]_streamVars PROVE StepOK
BY EditFlowKeeps, CommandRunKeeps, RunMovesKeeps, DrainAgainKeeps, RestartKeeps, SnapshotKeeps, SubscribeKeeps,
  PollKeeps, DisconnectKeeps, StutterKeeps DEF StreamNext

\* A sound stream says what the run checks of it.
LEMMA SoundIsSafe == ASSUME StreamInv PROVE StreamSafety
<1>1. /\ HubInv(Hub, subscribed) /\ Hub \in Hubs /\ Hub.stored = stored /\ Hub.rows = unpublished
      /\ Hub.journal = journal /\ Hub.queues = queues /\ Hub.poisoned = poisoned
      /\ Hub.blocked = blocked /\ Hub.faults = streamFaults
  BY DEF StreamInv, HubInv, BaseInv, Hub
<1>2. /\ stored \in [Topics -> 1..MaxStored] /\ unpublished \in [Stores -> Seq(OutboxRow)]
      /\ journal \in Journals /\ poisoned \in SUBSET Stores /\ blocked \in SUBSET Stores
      /\ streamFaults \in Nat /\ journal.epoch <= MaxStream /\ streamFaults <= MaxStreamFaults
      /\ Numbered(journal)
  BY <1>1, HubFields DEF StreamInv, HubInv, BaseInv
<1>3. ASSUME NEW c \in Subscribers
      PROVE  /\ queues[c] \in Queue /\ subscribed[c] \in Cursor
             /\ Follows(journal, queues[c], subscribed[c])
             /\ LevelWith(Hub, queues[c], subscribed[c])
  BY <1>1, TurnOf
<1>4. ASSUME NEW c \in Subscribers PROVE Len(queues[c].events) <= QueueMax
  <2>1. CASE queues[c] = NoQueue  BY <2>1, StreamAssumption DEF NoQueue
  <2>2. CASE queues[c] # NoQueue  BY <1>3, <2>2 DEF Follows
  <2> QED  BY <2>1, <2>2
<1>5. StreamTypeOK
  <2>1. \A t \in Stores : \A i \in DOMAIN unpublished[t] : unpublished[t][i] \in OutboxRow  BY <1>2
  <2>2. MaxStream \in Nat /\ MaxStreamFaults \in Nat /\ JournalMax \in Nat  BY StreamAssumption
  <2>3. journal.epoch \in 1..MaxStream /\ streamFaults \in 0..MaxStreamFaults  BY <1>2, <2>2 DEF Journals
  <2>4. Len(journal.entries) <= JournalMax  BY <1>2, <2>2 DEF Numbered
  <2> QED  BY <1>2, <1>4, <2>1, <2>3, <2>4 DEF StreamTypeOK, OutboxRow
<1>6. ASSUME NEW c \in Subscribers, subscribed[c].epoch = journal.epoch, Reachable(c)
      PROVE  /\ Reach(journal, queues[c], subscribed[c])
             /\ Ahead(c) = Coming(journal, queues[c], subscribed[c])
             /\ RunsOn(journal, subscribed[c].seq, journal.seq, Ahead(c))
             /\ subscribed[c].seq \in Nat /\ journal.seq \in Nat
  <2>1. Reach(journal, queues[c], subscribed[c])
    <3>1. CASE queues[c] = NoQueue  BY <1>6, <3>1 DEF Reachable, Reach
    <3>2. CASE queues[c] # NoQueue
      <4>1. OldestSeq(journal) \in Nat  BY <1>2, BeforeIs
      <4>2. queues[c].upto \in Nat  BY <1>3, <3>2 DEF Follows, Cursor
      <4> QED  BY <1>6, <3>2, <4>1, <4>2 DEF Reachable, Reach, ReplayGap
    <3> QED  BY <3>1, <3>2
  <2>2. journal.seq \in Nat  BY <1>2 DEF Journals
  <2> QED  BY <1>2, <1>3, <2>1, <2>2, ComingIs DEF Ahead, Coming
<1>7. NothingMissed
  <2> SUFFICES ASSUME NEW c \in Subscribers, subscribed[c].epoch = journal.epoch, Reachable(c)
               PROVE  /\ Len(Ahead(c)) = journal.seq - subscribed[c].seq
                      /\ \A i \in DOMAIN Ahead(c) : Ahead(c)[i].seq = subscribed[c].seq + i
    BY DEF NothingMissed
  <2> DEFINE a == Ahead(c)
             s == subscribed[c].seq
  <2>1. RunsOn(journal, s, journal.seq, a) /\ s \in Nat /\ journal.seq \in Nat  BY <1>6
  <2> HIDE DEF a, s
  <2>2. a \in Seq(Entry) /\ Len(a) \in Nat /\ s + Len(a) = journal.seq /\ DOMAIN a = 1..Len(a)
        /\ \A n \in 1..Len(a) : a[n].seq = s + n
    BY <2>1 DEF RunsOn
  <2> QED  BY <2>1, <2>2 DEF a, s
<1>8. EndsWithTheStore
  <2> SUFFICES ASSUME NEW c \in Subscribers, subscribed[c].epoch = journal.epoch, Reachable(c)
               PROVE  Caught(subscribed[c].view, Ahead(c)) = [f \in Flows |-> stored[f]]
    BY DEF EndsWithTheStore
  <2> QED  BY <1>1, <1>3, <1>6 DEF Caught, LevelWith
<1>9. UnpublishedIsHidden  BY <1>1 DEF UnpublishedIsHidden, HubInv, Hidden
<1> QED  BY <1>5, <1>7, <1>8, <1>9 DEF StreamSafety

\* The inductive invariant of the stream holds of every state.
THEOREM StreamInductive == StreamSpec => []StreamInv
<1>1. StreamInit => StreamInv  BY StreamBegins
<1>2. StreamInv /\ [StreamNext]_streamVars => StreamInv'  BY StreamStep DEF StepOK
<1> QED  BY <1>1, <1>2, PTL DEF StreamSpec

\* Each subscriber hears every event once and in order and ends up with the workflows as they
\* are stored, or it is told to resynchronise; and no change waits where it could be read.
THEOREM StreamIsSafe == StreamSpec => []StreamSafety
<1>1. StreamInv => StreamSafety  BY SoundIsSafe
<1> QED  BY <1>1, StreamInductive, PTL

\* Actions that a committed command owes are executed before their row leaves the outbox.
THEOREM OwedStays == StreamSpec => OwedIsExecuted
<1>1. ASSUME StreamInv, [StreamNext]_streamVars
      PROVE  \A t \in Stores : \A i \in DOMAIN unpublished[t] :
                unpublished[t][i].owes =>
                   \/ unpublished[t][i] \in executed'
                   \/ \E k \in DOMAIN unpublished'[t] : unpublished'[t][k] = unpublished[t][i]
  <2>1. Keeps(Hub, Hub')  BY <1>1, StreamStep DEF StepOK
  <2> QED  BY <2>1 DEF Keeps, Hub
<1> QED  BY <1>1, StreamInductive, PTL DEF StreamSpec, OwedIsExecuted

----
(* The receipts of commands. *)
USE CommandAssumption

Request == [client : Controllers, epoch : 1..MaxLeaseEpoch, expects : 1..MaxAggregate]
Landed == {c \in Commands : effects[c] > 0}

\* The types, and which requests and leases there can be.
TypeInv ==
    /\ CommandTypeOK
    /\ request \in [Commands -> {NoRequest} \cup Request]
    /\ lease.holder # "none" => lease.epoch > 0

\* A command that has come to the service store has been composed, and one that has taken
\* effect expects a revision of the past.
PastInv ==
    /\ \A c \in Commands : intent[c] # "none" \/ effects[c] > 0 => request[c] # NoRequest
    /\ \A c \in Commands : effects[c] > 0 => request[c].expects < aggregate
    /\ IsFiniteSet(Landed)

\* What neither store has finished, and neither has lost sight of, has not happened.
OpenInv ==
    \A c \in Commands :
        intent[c] \in {"none", "reserved"} /\ receipt[c] = 0 /\ c \notin disowned
            => effects[c] = 0

CommandInv == TypeInv /\ PastInv /\ OpenInv /\ CommandSafety

----
\* What is true of the first state.
LEMMA CommandInitial == CommandInit => CommandInv
<1> SUFFICES ASSUME CommandInit PROVE CommandInv  OBVIOUS
<1> USE DEF CommandInit, NoRequest, NoController, NoCommand, Refusals
<1>1. TypeInv  BY DEF TypeInv, CommandTypeOK
<1>2. Landed = {}  BY DEF Landed
<1>3. PastInv  BY <1>2, FS_EmptySet DEF PastInv
<1>4. OpenInv  BY DEF OpenInv
<1>5. aggregate = 1 + Cardinality(Landed)  BY <1>2, FS_EmptySet
<1>6. CommandSafety
  BY <1>1, <1>5 DEF CommandSafety, TypeInv, AtMostOneEffect, FinishedAsItHappened, NoLostUpdate, Landed
<1> QED  BY <1>1, <1>3, <1>4, <1>6 DEF CommandInv

----
(* The step that matters: a command takes effect.                          *)

Effect(c) ==
    /\ HoldsLease(c) /\ ~AnswersReceipt(c) /\ intent[c] = "reserved" /\ ExpectedHolds(c)
    /\ aggregate < MaxAggregate
    /\ aggregate' = aggregate + 1
    /\ receipt' = [receipt EXCEPT ![c] = aggregate + 1]
    /\ effects' = [effects EXCEPT ![c] = @ + 1]
    /\ UNCHANGED request

\* A command that takes effect has not done so before, and the aggregate counts it.
LEMMA EffectCounts ==
    ASSUME CommandInv, NEW c \in Commands, Effect(c)
    PROVE  /\ effects[c] = 0
           /\ effects' = [effects EXCEPT ![c] = 1]
           /\ Landed' = Landed \cup {c}
           /\ IsFiniteSet(Landed')
           /\ aggregate' = 1 + Cardinality(Landed')
<1> USE DEF Effect, CommandInv
<1>1. /\ effects \in [Commands -> Nat] /\ aggregate \in Nat
      /\ request \in [Commands -> {NoRequest} \cup Request]
  BY DEF TypeInv, CommandTypeOK
<1>2. effects[c] = 0  BY <1>1 DEF PastInv, ExpectedHolds, Request
<1>3. effects' = [effects EXCEPT ![c] = 1]  BY <1>1, <1>2
<1>4. Landed' = Landed \cup {c} /\ c \notin Landed  BY <1>1, <1>2, <1>3 DEF Landed
<1>5. IsFiniteSet(Landed) /\ aggregate = 1 + Cardinality(Landed)  BY DEF PastInv, CommandSafety, NoLostUpdate, Landed
<1>6. IsFiniteSet(Landed') /\ Cardinality(Landed') = Cardinality(Landed) + 1  BY <1>4, <1>5, FS_AddElement
<1>7. Cardinality(Landed) \in Nat  BY <1>5, FS_CardinalityType
<1> QED  BY <1>2, <1>3, <1>4, <1>5, <1>6, <1>7

----
(* Each part of the invariant through each action.                         *)

\* The types.
LEMMA TypesKept == CommandInv /\ [CommandNext]_commandVars => TypeInv'
<1> SUFFICES ASSUME CommandInv, [CommandNext]_commandVars PROVE TypeInv'  OBVIOUS
<1> USE DEF CommandInv, TypeInv, CommandTypeOK, Refusals
<1>1. ASSUME NEW who \in Controllers, GrantLease(who) PROVE TypeInv'  BY <1>1 DEF GrantLease
<1>2. ASSUME NEW c \in Commands, NEW seen \in 1..aggregate, Compose(c, seen) PROVE TypeInv'
  BY <1>2 DEF Compose, Request
<1>3. ASSUME NEW c \in Commands, ReserveIntent(c) PROVE TypeInv'  BY <1>3 DEF ReserveIntent
<1>4. ASSUME NEW c \in Commands, DispatchGuarded(c) PROVE TypeInv'
  <2> /\ receipt' \in [Commands -> 0..MaxAggregate] /\ aggregate' \in 1..MaxAggregate
      /\ effects' \in [Commands -> Nat] /\ disowned' \subseteq Commands
      /\ intent' \in [Commands -> {"none", "reserved", "applied"} \cup Refusals]
    BY <1>4 DEF DispatchGuarded, LeaseExpired, ReplayReceipt, ReceiptMissing, RevisionConflict, TakeEffect, Finished
  <2> QED  BY <1>4 DEF DispatchGuarded
<1>5. ASSUME NEW c \in Commands, DispatchLost(c) PROVE TypeInv'  BY <1>5 DEF DispatchLost, NoController
<1>6. CASE CoreFails  BY <1>6 DEF CoreFails, NoController
<1>7. CASE CoreRecovers  BY <1>7 DEF CoreRecovers
<1>8. ASSUME NEW c \in Commands, ReconcileIntent(c) PROVE TypeInv'
  BY <1>8 DEF ReconcileIntent, ReconciledIntent, Finished
<1>9. CASE CoreReady  BY <1>9 DEF CoreReady
<1>10. ASSUME NEW old \in SUBSET Commands, CollectIntents(old) PROVE TypeInv'  BY <1>10 DEF CollectIntents
<1>11. ASSUME NEW upto \in 1..aggregate, CollectReceipts(upto) PROVE TypeInv'  BY <1>11 DEF CollectReceipts
<1>12. CASE UNCHANGED commandVars  BY <1>12 DEF commandVars
<1> QED  BY <1>1, <1>2, <1>3, <1>4, <1>5, <1>6, <1>7, <1>8, <1>9, <1>10, <1>11, <1>12 DEF CommandNext

\* A step is one of three kinds: a command takes effect, or nobody's effect and not the
\* aggregate moves, and in that case only a composition adds a request.
LEMMA StepKinds ==
    ASSUME CommandInv, [CommandNext]_commandVars
    PROVE  \/ \E c \in Commands : Effect(c)
           \/ UNCHANGED <<effects, aggregate, request>>
           \/ /\ UNCHANGED <<effects, aggregate, intent>>
              /\ \E c \in Commands : /\ request[c] = NoRequest
                                     /\ \E r \in Request : request' = [request EXCEPT ![c] = r]
<1>1. ASSUME NEW c \in Commands, NEW seen \in 1..aggregate, Compose(c, seen)
      PROVE  \E r \in Request : request' = [request EXCEPT ![c] = r]
  <2>1. [client |-> lease.holder, epoch |-> lease.epoch, expects |-> seen] \in Request
    BY <1>1 DEF Compose, Request, CommandInv, TypeInv, CommandTypeOK
  <2> QED  BY <1>1, <2>1 DEF Compose
<1>2. ASSUME NEW c \in Commands, DispatchGuarded(c)
      PROVE  Effect(c) \/ UNCHANGED <<effects, aggregate, request>>
  BY <1>2 DEF DispatchGuarded, LeaseExpired, ReplayReceipt, ReceiptMissing, RevisionConflict, TakeEffect, Effect
<1>3. ASSUME NEW c \in Commands, DispatchLost(c) PROVE Effect(c)  BY <1>3 DEF DispatchLost, Effect
<1>4. CASE \E who \in Controllers : GrantLease(who)  BY <1>4 DEF GrantLease
<1>5. CASE \E c \in Commands : ReserveIntent(c) \/ ReconcileIntent(c)  BY <1>5 DEF ReserveIntent, ReconcileIntent
<1>6. CASE CoreFails \/ CoreRecovers \/ CoreReady \/ UNCHANGED commandVars
  BY <1>6 DEF CoreFails, CoreRecovers, CoreReady, commandVars
<1>7. CASE \/ \E old \in SUBSET Commands : CollectIntents(old)
           \/ \E upto \in 1..aggregate : CollectReceipts(upto)
  BY <1>7 DEF CollectIntents, CollectReceipts
<1>8. CASE \E c \in Commands, seen \in 1..aggregate : Compose(c, seen)  BY <1>1, <1>8 DEF Compose
<1> QED  BY <1>2, <1>3, <1>4, <1>5, <1>6, <1>7, <1>8 DEF CommandNext

\* Where the intents may go: nobody comes to the service store but by a reservation.
LEMMA IntentsCome ==
    ASSUME CommandInv, [CommandNext]_commandVars, NEW c \in Commands, intent'[c] # "none"
    PROVE  intent[c] # "none" \/ request[c] # NoRequest
<1> USE DEF CommandInv, TypeInv, CommandTypeOK
<1>1. ASSUME NEW d \in Commands, ReserveIntent(d) PROVE intent[c] # "none" \/ request[c] # NoRequest
  BY <1>1 DEF ReserveIntent
<1>2. ASSUME NEW d \in Commands, DispatchGuarded(d) PROVE intent[c] # "none"
  BY <1>2 DEF DispatchGuarded, LeaseExpired, ReplayReceipt, ReceiptMissing, RevisionConflict, TakeEffect, Finished
<1>3. ASSUME NEW d \in Commands, ReconcileIntent(d) PROVE intent[c] # "none"
  BY <1>3 DEF ReconcileIntent, ReconciledIntent, Finished
<1>4. CASE \E old \in SUBSET Commands : CollectIntents(old)  BY <1>4 DEF CollectIntents
<1>5. CASE UNCHANGED intent  BY <1>5
<1>6. CASE \/ \E who \in Controllers : GrantLease(who)
           \/ \E d \in Commands : DispatchLost(d)
           \/ \E d \in Commands, seen \in 1..aggregate : Compose(d, seen)
           \/ CoreFails \/ CoreRecovers \/ CoreReady \/ UNCHANGED commandVars
           \/ \E upto \in 1..aggregate : CollectReceipts(upto)
  <2> UNCHANGED intent
    BY <1>6 DEF GrantLease, DispatchLost, Compose, CoreFails, CoreRecovers, CoreReady, commandVars, CollectReceipts
  <2> QED  BY <1>5
<1> QED  BY <1>1, <1>2, <1>3, <1>4, <1>6 DEF CommandNext

\* The past: an effect lies behind the aggregate.
LEMMA PastKept ==
    CommandInv /\ [CommandNext]_commandVars => PastInv' /\ AtMostOneEffect' /\ NoLostUpdate'
<1> SUFFICES ASSUME CommandInv, [CommandNext]_commandVars
             PROVE  PastInv' /\ AtMostOneEffect' /\ NoLostUpdate'
    OBVIOUS
<1> USE DEF CommandInv
<1>0. /\ effects \in [Commands -> Nat] /\ aggregate \in Nat
      /\ request \in [Commands -> {NoRequest} \cup Request]
  BY DEF TypeInv, CommandTypeOK
<1>1. ASSUME NEW c \in Commands, Effect(c) PROVE PastInv' /\ AtMostOneEffect' /\ NoLostUpdate'
  <2>1. /\ effects' = [effects EXCEPT ![c] = 1] /\ aggregate' = aggregate + 1
        /\ request' = request /\ request[c].expects = aggregate
        /\ request[c] # NoRequest /\ intent[c] = "reserved"
    BY <1>1, EffectCounts DEF Effect, ExpectedHolds, PastInv
  <2>2. PastInv'
    <3>1. \A d \in Commands : effects'[d] > 0 => request'[d].expects < aggregate'
      <4> SUFFICES ASSUME NEW d \in Commands, effects'[d] > 0
                   PROVE  request[d].expects < aggregate + 1
        BY <2>1
      <4>1. CASE d = c  BY <1>0, <2>1, <4>1
      <4>2. CASE d # c
        <5>1. effects[d] > 0  BY <1>0, <2>1, <4>2
        <5> QED  BY <1>0, <5>1 DEF Request, PastInv
      <4> QED  BY <4>1, <4>2
    <3> QED  BY <1>1, <1>0, <2>1, IntentsCome, <3>1, EffectCounts DEF PastInv
  <2>3. AtMostOneEffect'  BY <1>0, <2>1 DEF AtMostOneEffect, CommandSafety
  <2>4. ASSUME NEW d \in Commands, NEW e \in Commands, d # e, effects'[d] > 0, effects'[e] > 0
        PROVE  request'[d].expects # request'[e].expects
    BY <1>0, <2>1, <2>4 DEF Request, CommandSafety, NoLostUpdate, PastInv
  <2> QED  BY <1>1, <2>2, <2>3, <2>4, EffectCounts DEF NoLostUpdate, Landed
<1>2. CASE UNCHANGED <<effects, aggregate, request>>
  BY <1>2, IntentsCome DEF PastInv, Landed, CommandSafety, AtMostOneEffect, NoLostUpdate
<1>3. CASE /\ UNCHANGED <<effects, aggregate, intent>>
           /\ \E c \in Commands : /\ request[c] = NoRequest
                                  /\ \E r \in Request : request' = [request EXCEPT ![c] = r]
  <2>1. PICK c \in Commands, r \in Request :
            request[c] = NoRequest /\ request' = [request EXCEPT ![c] = r]
    BY <1>3
  <2> QED  BY <1>3, <1>0, <2>1 DEF PastInv, Landed, CommandSafety, AtMostOneEffect, NoLostUpdate, Request, NoRequest
<1> QED  BY <1>1, <1>2, <1>3, StepKinds

\* What the two stores say of each command.
LEMMA StoresKept ==
    CommandInv /\ [CommandNext]_commandVars => OpenInv' /\ FinishedAsItHappened'
<1> SUFFICES ASSUME CommandInv, [CommandNext]_commandVars
             PROVE  OpenInv' /\ FinishedAsItHappened'
    OBVIOUS
<1> USE DEF CommandInv, CommandSafety, OpenInv, FinishedAsItHappened, Refusals
<1>0. /\ effects \in [Commands -> Nat] /\ receipt \in [Commands -> 0..MaxAggregate]
      /\ intent \in [Commands -> {"none", "reserved", "applied"} \cup Refusals]
      /\ aggregate \in 1..MaxAggregate
  BY DEF TypeInv, CommandTypeOK
<1>1. CASE UNCHANGED <<intent, receipt, effects, disowned>>  BY <1>1
<1>2. ASSUME NEW c \in Commands, ReserveIntent(c) PROVE OpenInv' /\ FinishedAsItHappened'
  BY <1>0, <1>2 DEF ReserveIntent
<1>3. ASSUME NEW c \in Commands, gate = c, LeaseExpired(c) PROVE OpenInv' /\ FinishedAsItHappened'
  BY <1>0, <1>3 DEF LeaseExpired, Finished
<1>4. ASSUME NEW c \in Commands, ReplayReceipt(c) \/ ReceiptMissing(c)
      PROVE  OpenInv' /\ FinishedAsItHappened'
  BY <1>0, <1>4 DEF ReplayReceipt, ReceiptMissing, AnswersReceipt, Finished
<1>5. ASSUME NEW c \in Commands, RevisionConflict(c) PROVE OpenInv' /\ FinishedAsItHappened'
  BY <1>0, <1>5 DEF RevisionConflict, AnswersReceipt, Finished
<1>6. ASSUME NEW c \in Commands, Effect(c), disowned' = disowned,
             intent' = intent \/ intent' = Finished(c, "applied")
      PROVE  OpenInv' /\ FinishedAsItHappened'
  <2>1. /\ effects' = [effects EXCEPT ![c] = 1] /\ intent[c] = "reserved"
        /\ receipt' = [receipt EXCEPT ![c] = aggregate + 1]
    BY <1>6, EffectCounts DEF Effect
  <2> QED  BY <1>0, <1>6, <2>1 DEF Finished
<1>7. ASSUME NEW c \in Commands, ReconcileIntent(c) PROVE OpenInv' /\ FinishedAsItHappened'
  BY <1>0, <1>7 DEF ReconcileIntent, ReconciledIntent, Finished
<1>8. ASSUME NEW old \in SUBSET Commands, CollectIntents(old)
      PROVE  OpenInv' /\ FinishedAsItHappened'
  BY <1>0, <1>8 DEF CollectIntents
<1>9. ASSUME NEW upto \in 1..aggregate, CollectReceipts(upto)
      PROVE  OpenInv' /\ FinishedAsItHappened'
  BY <1>0, <1>9 DEF CollectReceipts
<1>10. ASSUME NEW c \in Commands, DispatchGuarded(c) PROVE OpenInv' /\ FinishedAsItHappened'
  <2>1. CASE TakeEffect(c)  BY <1>6, <1>10, <2>1 DEF DispatchGuarded, TakeEffect, Effect
  <2> QED  BY <1>3, <1>4, <1>5, <1>10, <2>1 DEF DispatchGuarded
<1>11. ASSUME NEW c \in Commands, DispatchLost(c) PROVE OpenInv' /\ FinishedAsItHappened'
  BY <1>6, <1>11 DEF DispatchLost, Effect
<1>12. CASE \/ \E who \in Controllers : GrantLease(who)
            \/ \E c \in Commands, seen \in 1..aggregate : Compose(c, seen)
            \/ CoreFails \/ CoreRecovers \/ CoreReady \/ UNCHANGED commandVars
  <2> UNCHANGED <<intent, receipt, effects, disowned>>
    BY <1>12 DEF GrantLease, Compose, CoreFails, CoreRecovers, CoreReady, commandVars
  <2> QED  BY <1>1
<1> QED  BY <1>2, <1>7, <1>8, <1>9, <1>10, <1>11, <1>12 DEF CommandNext

----
(* Theorems.                                                               *)

\* The invariant is inductive.
THEOREM CommandInductive == CommandSpec => []CommandInv
<1>1. CommandInv /\ [CommandNext]_commandVars => CommandInv'
  BY TypesKept, PastKept, StoresKept DEF CommandInv, CommandSafety, TypeInv
<1> QED  BY <1>1, CommandInitial, PTL DEF CommandSpec

\* The rows of both stores, the gate and the lease keep their types.
THEOREM CommandTypes == CommandSpec => []CommandTypeOK
<1>1. CommandInv => CommandTypeOK  BY DEF CommandInv, CommandSafety
<1> QED  BY <1>1, CommandInductive, PTL

\* A command takes effect at most once, although what is remembered of it is collected.
THEOREM EffectOnce == CommandSpec => []AtMostOneEffect
<1>1. CommandInv => AtMostOneEffect  BY DEF CommandInv, CommandSafety
<1> QED  BY <1>1, CommandInductive, PTL

\* The end of a command in the service store is what happened in the project store.
THEOREM EndIsTrue == CommandSpec => []FinishedAsItHappened
<1>1. CommandInv => FinishedAsItHappened  BY DEF CommandInv, CommandSafety
<1> QED  BY <1>1, CommandInductive, PTL

\* No command overwrites what its client had not seen.
THEOREM EffectsInOrder == CommandSpec => []NoLostUpdate
<1>1. CommandInv => NoLostUpdate  BY DEF CommandInv, CommandSafety
<1> QED  BY <1>1, CommandInductive, PTL

\* All three together: one effect, a true end, nothing overwritten unseen.
THEOREM CommandsSettleOnce == CommandSpec => []CommandSafety
<1>1. CommandInv => CommandSafety  BY DEF CommandInv
<1> QED  BY <1>1, CommandInductive, PTL

\* A command takes effect only under the lease it was sent under.
THEOREM HolderActs == CommandSpec => OnlyTheHolderActs
<1>1. CommandInv /\ [CommandNext]_commandVars =>
        [\A c \in Commands : effects'[c] # effects[c] =>
            request[c].client = lease.holder /\ request[c].epoch = lease.epoch]_commandVars
  <2> SUFFICES ASSUME CommandInv, [CommandNext]_commandVars,
                      NEW c \in Commands, effects'[c] # effects[c]
               PROVE  request[c].client = lease.holder /\ request[c].epoch = lease.epoch
    OBVIOUS
  <2>1. PICK d \in Commands : Effect(d)  BY StepKinds
  <2>2. d = c  BY <2>1 DEF Effect, CommandInv, TypeInv, CommandTypeOK
  <2> QED  BY <2>1, <2>2 DEF Effect, HoldsLease
<1> QED  BY <1>1, CommandInductive, PTL DEF CommandSpec, OnlyTheHolderActs
=============================================================================
