---------------------------- MODULE EventJournal ----------------------------
(***************************************************************************)
(* The event stream of the kernel (journal.rs, projection.rs): commands    *)
(* commit a change and an outbox row, the row is published into a bounded  *)
(* journal and from there into one bounded queue for each subscriber.      *)
(*                                                                         *)
(* A command, a snapshot and a subscription each run under the publication *)
(* barrier, so each is one action; polls run between them.  A workflow     *)
(* changes under the barrier only, a run also outside of it (the           *)
(* orchestrator writes its rows directly), and its row may carry actions   *)
(* that must be executed before it is published.                           *)
(***************************************************************************)
EXTENDS Integers, Sequences, FiniteSets

CONSTANTS
    Flows, Executions,  \* workflows and workflow runs: what events are about
    StoreOf,            \* the target database of each
    Subscribers,
    JournalMax,         \* limits.journal_max_events
    QueueMax,           \* limits.client_event_queue_max_events
    MaxStored,          \* bound: revisions of one workflow or run
    MaxStream,          \* bound: stream epochs
    MaxStreamFaults     \* bound: failed publications and markings

Topics == Flows \cup Executions
Stores == {StoreOf[x] : x \in Topics}

ASSUME StreamAssumption ==
    /\ Flows \cap Executions = {}
    /\ {JournalMax, QueueMax, MaxStored, MaxStream} \subseteq Nat \ {0}
    /\ MaxStreamFaults \in Nat

VARIABLES
    stored,      \* the revision of each workflow and run in its store
    unpublished, \* projection_outbox of each store, rows without published_at
    journal,     \* JournalInner: epoch, last seq, entries, aggregate_heads
    queues,      \* JournalInner.clients
    poisoned,    \* poisoned_targets
    blocked,     \* run_action_blocked_targets
    subscribed,  \* each subscriber: its cursor, and the revisions it believes in
    executed,    \* observer: rows whose actions the lifecycle port has executed
    streamFaults

streamVars == <<stored, unpublished, journal, queues, poisoned, blocked, subscribed,
                executed, streamFaults>>

\* The elements of a sequence that are at some of its positions, in their order.
Rank(at, i) == Cardinality({k \in at : k <= i})
Picked(s, at) == [n \in 1..Cardinality(at) |-> s[CHOOSE i \in at : Rank(at, i) = n]]

NoQueue == [until |-> 0, upto |-> -1, events |-> <<>>]
Unsynced == [epoch |-> 0, seq |-> 0, view |-> [f \in Flows |-> 0]]
EmptyJournal(e) ==
    [epoch |-> e, seq |-> 0, entries |-> <<>>, known |-> [x \in Topics |-> 0]]
Row(x, r, owes) == [topic |-> x, rev |-> r, owes |-> owes]

StreamTypeOK ==
    /\ stored \in [Topics -> 1..MaxStored]
    /\ \A t \in Stores : \A i \in DOMAIN unpublished[t] :
          unpublished[t][i] \in [topic : Topics, rev : 2..MaxStored, owes : BOOLEAN]
    /\ journal.epoch \in 1..MaxStream /\ Len(journal.entries) <= JournalMax
    /\ \A c \in Subscribers : Len(queues[c].events) <= QueueMax
    /\ poisoned \subseteq Stores /\ blocked \subseteq Stores
    /\ streamFaults \in 0..MaxStreamFaults

StreamInit ==
    /\ stored = [x \in Topics |-> 1]
    /\ unpublished = [t \in Stores |-> <<>>]
    /\ journal = EmptyJournal(1)
    /\ queues = [c \in Subscribers |-> NoQueue]
    /\ poisoned = {} /\ blocked = {}
    /\ subscribed = [c \in Subscribers |-> Unsynced]
    /\ executed = {} /\ streamFaults = 0

-----------------------------------------------------------------------------
(* Publication.  A hub is what the barrier protects; each operator says    *)
(* what a call may leave behind.                                           *)

Hub == [stored |-> stored, rows |-> unpublished, journal |-> journal, queues |-> queues,
        poisoned |-> poisoned, blocked |-> blocked, executed |-> executed,
        faults |-> streamFaults]

Becomes(h) ==
    /\ h.journal.epoch <= MaxStream /\ h.faults <= MaxStreamFaults
    /\ stored' = h.stored /\ unpublished' = h.rows /\ journal' = h.journal
    /\ queues' = h.queues /\ poisoned' = h.poisoned /\ blocked' = h.blocked
    /\ executed' = h.executed /\ streamFaults' = h.faults

OldestSeq(j) == IF j.entries = <<>> THEN j.seq + 1 ELSE Head(j.entries).seq

Rotate(h) ==
    [h EXCEPT !.journal = EmptyJournal(h.journal.epoch + 1),
              !.queues = [c \in Subscribers |-> NoQueue]]

ReconciledAll(h, t) == [h EXCEPT !.rows[t] = <<>>]

\* Rows that still owe actions are never given up.
Reconciled(h, t) ==
    [h EXCEPT !.rows[t] = Picked(@, {i \in DOMAIN h.rows[t] : h.rows[t][i].owes})]

\* When the rows cannot be marked the store is poisoned until they are.
Poison(h, t) == [Rotate(h) EXCEPT !.poisoned = @ \cup {t}, !.faults = @ + 1]
RotateAndReconcile(h, t) == {Reconciled(Rotate(h), t), Poison(h, t)}

RecoveredPoison(h) ==
    [h EXCEPT !.rows = [t \in Stores |-> IF t \in h.poisoned THEN Reconciled(h, t).rows[t]
                                         ELSE h.rows[t]],
              !.poisoned = {}]

\* The revision of x after a sequence of rows or events.
LastRev(s, x, before) ==
    LET of == {i \in DOMAIN s : s[i].topic = x}
    IN IF of = {} THEN before ELSE s[CHOOSE i \in of : \A k \in of : k <= i].rev

Continues(rows, known) ==
    \A i \in DOMAIN rows :
        LET x == rows[i].topic
        IN LastRev(SubSeq(rows, 1, i - 1), x, known[x]) \in {0, rows[i].rev - 1}

FanOutDrops(queue, fresh) ==
    CASE queue = NoQueue -> NoQueue
      [] queue # NoQueue /\ Len(queue.events) + Len(fresh) <= QueueMax ->
            [queue EXCEPT !.events = @ \o fresh]
      [] OTHER -> queue

\* A queue without room for the whole batch is removed: its owner must resynchronise.
FanOut(queue, fresh) ==
    IF queue # NoQueue /\ Len(queue.events) + Len(fresh) <= QueueMax
    THEN [queue EXCEPT !.events = @ \o fresh]
    ELSE NoQueue

\* Entries give way to a batch when they are old enough, and never otherwise; the model lets
\* them be either.
Appended(h, t) ==
    LET rows == h.rows[t]
        j == h.journal
        fresh == [i \in DOMAIN rows |->
                     [seq |-> j.seq + i, topic |-> rows[i].topic, rev |-> rows[i].rev]]
        all == j.entries \o fresh
        over == IF Len(all) > JournalMax THEN Len(all) - JournalMax ELSE 0
    IN [h EXCEPT
          !.rows[t] = <<>>,
          !.journal.seq = @ + Len(rows),
          !.journal.entries = SubSeq(all, over + 1, Len(all)),
          !.journal.known = [x \in Topics |-> LastRev(rows, x, @[x])],
          !.queues = [c \in Subscribers |-> FanOut(@[c], fresh)]]

\* Rotations the rows force (too many, actions owed, a revision missing) are free; any other
\* failed publication uses up a fault.
PublishPending(h, t) ==
    LET rows == h.rows[t]
        forced == \/ Len(rows) > JournalMax
                  \/ \E i \in DOMAIN rows : rows[i].owes
                  \/ ~Continues(rows, h.journal.known)
        crowded == Len(h.journal.entries) + Len(rows) > JournalMax
    IN IF h.poisoned # {} \/ t \in h.blocked \/ rows = <<>> THEN {h}
       ELSE (IF forced THEN {} ELSE {Appended(h, t)})
              \cup RotateAndReconcile(IF forced \/ crowded THEN h
                                      ELSE [h EXCEPT !.faults = @ + 1], t)

-----------------------------------------------------------------------------
(* Commands.                                                               *)

Recorded(h, x, owes) ==
    [h EXCEPT !.stored[x] = @ + 1,
              !.rows[StoreOf[x]] = Append(@, Row(x, h.stored[x] + 1, owes))]

CommitUnknownForgotten(h, x) == {[Recorded(h, x, FALSE) EXCEPT !.faults = @ + 1]}

\* The dispatch failed, and the receipt shows (or cannot deny) that the change is committed.
CommitUnknown(h, x) ==
    RotateAndReconcile([Recorded(h, x, FALSE) EXCEPT !.faults = @ + 1], StoreOf[x])

\* A command on a workflow, applied or lost on the way back.
EditFlow(x) ==
    /\ blocked = {} /\ stored[x] < MaxStored
    /\ \E h \in PublishPending(Recorded(RecoveredPoison(Hub), x, FALSE), StoreOf[x])
                  \cup CommitUnknown(RecoveredPoison(Hub), x) :
          Becomes(h)
    /\ UNCHANGED subscribed

Drained(h, t) ==
    [h EXCEPT !.executed = @ \cup {h.rows[t][i] : i \in {k \in DOMAIN h.rows[t] :
                                                          h.rows[t][k].owes}},
              !.rows[t] = [i \in DOMAIN @ |-> [@[i] EXCEPT !.owes = FALSE]],
              !.blocked = @ \ {t}]

\* The actions cannot all be executed: the stream starts anew and the store is closed to
\* snapshots and publication until they are.
BlockForRunActions(h, t) ==
    [Rotate(h) EXCEPT !.blocked = @ \cup {t}, !.faults = @ + 1]

DrainAndPublish(h, t) ==
    PublishPending(Drained(h, t), t) \cup {BlockForRunActions(h, t)}

\* A command on a run.  When the dispatch fails after the commit its row is only kept.
CommandRun(x) ==
    /\ stored[x] < MaxStored
    /\ LET h0 == Recorded(RecoveredPoison(Hub), x, TRUE)
       IN \E h \in DrainAndPublish(h0, StoreOf[x]) \cup {[h0 EXCEPT !.faults = @ + 1]} :
             Becomes(h)
    /\ UNCHANGED subscribed

\* The same command again, or the registration of the port: nothing new is committed.
DrainAgain(t) ==
    /\ unpublished[t] # <<>> \/ t \in blocked
    /\ \E h \in DrainAndPublish(RecoveredPoison(Hub), t) : Becomes(h)
    /\ UNCHANGED subscribed

\* The orchestrator moves a run without an event.
RunMoves(x) ==
    /\ stored[x] < MaxStored
    /\ stored' = [stored EXCEPT ![x] = @ + 1]
    /\ UNCHANGED <<unpublished, journal, queues, poisoned, blocked, subscribed, executed,
                   streamFaults>>

\* A new process: what was pending belongs to an older stream, except what is still owed.
RestartCore ==
    /\ streamFaults < MaxStreamFaults
    /\ LET kept == [t \in Stores |-> Reconciled(Hub, t).rows[t]]
       IN Becomes([Rotate(Hub) EXCEPT !.rows = kept, !.poisoned = {},
                       !.blocked = {t \in Stores : kept[t] # <<>>}, !.faults = @ + 1])
    /\ UNCHANGED subscribed

-----------------------------------------------------------------------------
(* Subscribers.                                                            *)

\* Cursor and content are read under one barrier.
Snapshot(c) ==
    /\ blocked = {}
    /\ Becomes([RecoveredPoison(Hub) EXCEPT !.queues[c] = NoQueue])
    /\ subscribed' = [subscribed EXCEPT
          ![c] = [epoch |-> journal.epoch, seq |-> journal.seq,
                  view |-> [f \in Flows |-> stored[f]]]]

CoversAny(j, cursor) == cursor.epoch = j.epoch /\ cursor.seq <= j.seq

\* The cursor is of this stream and nothing after it has been dropped from the journal.
Covers(j, cursor) ==
    /\ cursor.epoch = j.epoch /\ cursor.seq <= j.seq
    /\ cursor.seq + 1 >= OldestSeq(j)

MustResync(c) == subscribed' = [subscribed EXCEPT ![c] = Unsynced]

Subscribe(c) ==
    /\ blocked = {} /\ subscribed[c].epoch # 0 /\ queues[c] = NoQueue
    /\ LET h == RecoveredPoison(Hub)
       IN IF Covers(h.journal, subscribed[c])
          THEN /\ Becomes([h EXCEPT !.queues[c] =
                     [until |-> journal.seq, upto |-> subscribed[c].seq, events |-> <<>>]])
               /\ UNCHANGED subscribed
          ELSE Becomes(h) /\ MustResync(c)

Caught(view, events) == [f \in Flows |-> LastRev(events, f, view[f])]

Receive(c, events) ==
    subscribed' = IF events = <<>> THEN subscribed
                  ELSE [subscribed EXCEPT ![c].seq = events[Len(events)].seq,
                                          ![c].view = Caught(@, events)]

\* The entries of the journal after one number, up to another.
Between(j, from, upto) ==
    Picked(j.entries, {i \in DOMAIN j.entries :
                          j.entries[i].seq > from /\ j.entries[i].seq <= upto})

Replayable(q) ==
    LET missing == Between(journal, q.upto, q.until)
    IN SubSeq(missing, 1, IF Len(missing) < QueueMax THEN Len(missing) ELSE QueueMax)

ReplayGapLate(q) == q.until < OldestSeq(journal)

\* What is to be replayed has been dropped from the journal since the subscription.
ReplayGap(q) == q.upto + 1 < OldestSeq(journal)

\* Until the replay has reached the subscription, batches come out of the journal and the
\* queue only fills.
Poll(c) ==
    /\ subscribed[c].epoch # 0
    /\ LET q == queues[c] IN
       \/ /\ q = NoQueue \/ subscribed[c].epoch # journal.epoch
          /\ MustResync(c) /\ UNCHANGED queues
       \/ /\ q # NoQueue /\ q.upto < q.until
          /\ ReplayGap(q) \/ Replayable(q) = <<>>
          /\ MustResync(c) /\ queues' = [queues EXCEPT ![c] = NoQueue]
       \/ /\ q # NoQueue /\ q.upto < q.until
          /\ ~ReplayGap(q) /\ Replayable(q) # <<>>
          /\ Receive(c, Replayable(q))
          /\ queues' = [queues EXCEPT ![c].upto = Replayable(q)[Len(Replayable(q))].seq]
       \/ /\ q # NoQueue /\ q.upto >= q.until /\ q.events # <<>>
          /\ Receive(c, q.events)
          /\ queues' = [queues EXCEPT ![c].upto = q.events[Len(q.events)].seq,
                                      ![c].events = <<>>]
    /\ UNCHANGED <<stored, unpublished, journal, poisoned, blocked, executed, streamFaults>>

\* The connection ends; the subscriber keeps its cursor.
Disconnect(c) ==
    /\ queues[c] # NoQueue
    /\ queues' = [queues EXCEPT ![c] = NoQueue]
    /\ UNCHANGED <<stored, unpublished, journal, poisoned, blocked, subscribed, executed,
                   streamFaults>>

StreamNext ==
    \/ \E x \in Flows : EditFlow(x)
    \/ \E x \in Executions : CommandRun(x)
    \/ \E x \in Executions : RunMoves(x)
    \/ \E t \in Stores : DrainAgain(t)
    \/ RestartCore
    \/ \E c \in Subscribers : Snapshot(c)
    \/ \E c \in Subscribers : Subscribe(c)
    \/ \E c \in Subscribers : Poll(c)
    \/ \E c \in Subscribers : Disconnect(c)

StreamSpec == StreamInit /\ [][StreamNext]_streamVars

-----------------------------------------------------------------------------
\* What a cursor of the current stream has still to hear: the entries after it, or, for one
\* that is subscribed, what its replay and its queue will give it.
Ahead(c) ==
    LET q == queues[c]
        cursor == subscribed[c].seq
    IN IF q = NoQueue THEN Between(journal, cursor, journal.seq)
       ELSE Between(journal, cursor, q.until) \o q.events

Reachable(c) ==
    IF queues[c] = NoQueue THEN Covers(journal, subscribed[c])
    ELSE queues[c].upto >= queues[c].until \/ ~ReplayGap(queues[c])

\* Whoever is not told to resynchronise misses nothing: its cursor, followed by what it has
\* still to hear, runs without a gap or a repetition to the end of the journal (fan_out,
\* poll_client, subscribe).
NothingMissed ==
    \A c \in Subscribers :
        subscribed[c].epoch = journal.epoch /\ Reachable(c) =>
            /\ Len(Ahead(c)) = journal.seq - subscribed[c].seq
            /\ \A i \in DOMAIN Ahead(c) : Ahead(c)[i].seq = subscribed[c].seq + i

\* ... and ends up with the workflows as they are stored: no snapshot shows a change whose
\* event its cursor still waits for, and none is lost between the store and the journal.
EndsWithTheStore ==
    \A c \in Subscribers :
        subscribed[c].epoch = journal.epoch /\ Reachable(c) =>
            Caught(subscribed[c].view, Ahead(c)) = [f \in Flows |-> stored[f]]

\* A change of a workflow waits unpublished only in a poisoned store, which is reconciled before
\* anybody can read it again; a row that owes actions never holds one up in silence.
UnpublishedIsHidden ==
    \A t \in Stores : \A i \in DOMAIN unpublished[t] :
        unpublished[t][i].topic \in Flows => t \in poisoned

\* Each subscriber hears everything that was committed, or is told to resynchronise.
StreamSafety == StreamTypeOK /\ NothingMissed /\ EndsWithTheStore /\ UnpublishedIsHidden

\* Actions that a committed command owes are never given up: its row stays in the outbox,
\* through rotations, poisoning and restarts, until they have been executed.
OwedIsExecuted ==
    [][\A t \in Stores : \A i \in DOMAIN unpublished[t] :
          unpublished[t][i].owes =>
              \/ unpublished[t][i] \in executed'
              \/ \E k \in DOMAIN unpublished'[t] : unpublished'[t][k] = unpublished[t][i]
      ]_streamVars
=============================================================================
