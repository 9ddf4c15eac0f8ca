--------------------------- MODULE TerminalOutput ---------------------------
(***************************************************************************)
(* What a terminal prints: the replay journal of each process (mf-terminal *)
(* journal.rs), the transcript that is made durable behind it              *)
(* (transcript.rs, the sink of session_runtime.rs, the tables of           *)
(* store.rs), and a web connection that follows the session                *)
(* (ws/terminal.rs, terminal_pump of workbench_serve.rs).                  *)
(*                                                                         *)
(* A session handle may be launched into again.  Every process has its own *)
(* epoch and a journal of its own that counts from 1; the transcript has   *)
(* one head and one set of segments per handle, and the connection asks    *)
(* for the handle, so both may meet a second epoch.  A chunk is its        *)
(* sequence number.                                                        *)
(***************************************************************************)
EXTENDS Integers, FiniteSets

CONSTANTS
    MaxOutputEpoch,   \* bound: processes launched under the handle
    MaxSeq,           \* bound: chunks a process prints
    RingMax,          \* the chunks replay_ring_max_bytes have room for
    BatchMax,         \* the chunks flush_batch_bytes have room for
    MaxSinkFaults     \* bound: commits of the transcript that fail

ASSUME OutputAssumption ==
    {MaxOutputEpoch, MaxSeq, RingMax, BatchMax} \subseteq Nat \ {0} /\ MaxSinkFaults \in Nat

Epochs == 1..MaxOutputEpoch

VARIABLES
    first, last,   \* TerminalJournal: first_available_seq and last_seq, per epoch
    outReader,     \* where the reader thread of an epoch is
    buffered,      \* TranscriptFlusher.buffer: the chunks not yet in a batch, per epoch
    hosted,        \* SessionRegistry.sessions: the epoch behind the handle, or 0
    segments,      \* terminal_transcript_segment: by seq_start, its end and its epoch
    head,          \* terminal_transcript
    sinkFaults,    \* observer: commits that failed
    unflushed,     \* observer: epochs whose last chunk never reached the flusher
    conn,          \* the connection: TerminalWsSession and last_seq of the pump; it
                   \* has crossed when it attached to two epochs
    got            \* observer: the chunks of its epoch the connection was sent

journalVars == <<first, last, outReader, buffered, hosted>>
transcriptVars == <<segments, head, sinkFaults, unflushed>>
connVars == <<conn, got>>
outputVars == <<journalVars, transcriptVars, connVars>>

Seq0 == 0..MaxSeq
NoSegment == [end |-> 0, epoch |-> 0]
NoConn == [at |-> "closed", epoch |-> 0, after |-> 0, sent |-> 0, final |-> 0,
           crossed |-> FALSE]

\* The journals, the transcript and the connection keep their types, and a journal's ring
\* is the contiguous end of what was printed.
OutputTypeOK ==
    /\ first \in [Epochs -> 1..(MaxSeq + 1)] /\ last \in [Epochs -> Seq0]
    /\ \A e \in Epochs : first[e] <= last[e] + 1 /\ last[e] - first[e] < RingMax
    /\ outReader \in [Epochs -> {"none", "read", "rest", "dead", "durable", "done"}]
    /\ buffered \in [Epochs -> SUBSET (1..MaxSeq)]
    /\ hosted \in 0..MaxOutputEpoch
    /\ segments \in [1..MaxSeq -> [end : Seq0, epoch : 0..MaxOutputEpoch]]
    /\ head \in [epoch : 0..MaxOutputEpoch, state : {"none", "live", "complete"}, through : Seq0]
    /\ sinkFaults \in 0..MaxSinkFaults
    /\ unflushed \subseteq Epochs
    /\ conn \in [at : {"closed", "open", "tick", "exited"}, epoch : 0..MaxOutputEpoch,
                 after : Seq0, sent : Seq0, final : Seq0, crossed : BOOLEAN]
    /\ got \subseteq 1..MaxSeq

OutputInit ==
    /\ first = [e \in Epochs |-> 1] /\ last = [e \in Epochs |-> 0]
    /\ outReader = [e \in Epochs |-> "none"]
    /\ buffered = [e \in Epochs |-> {}]
    /\ hosted = 0
    /\ segments = [s \in 1..MaxSeq |-> NoSegment]
    /\ head = [epoch |-> 0, state |-> "none", through |-> 0]
    /\ sinkFaults = 0 /\ unflushed = {}
    /\ conn = NoConn /\ got = {}

-----------------------------------------------------------------------------
(* The process and its reader.                                             *)

\* A launch into the handle: what it stood for is killed and taken out first.
LaunchEpoch(e) ==
    /\ outReader[e] = "none" /\ \A d \in Epochs : d < e => outReader[d] # "none"
    /\ outReader' = [outReader EXCEPT ![e] = "read"]
    /\ hosted' = e
    /\ UNCHANGED <<first, last, buffered, transcriptVars, connVars>>

\* Mutant of Append1: a chunk more than the ring has room for.
AppendOver(e) ==
    /\ last' = [last EXCEPT ![e] = @ + 1]
    /\ first' = [first EXCEPT ![e] = IF last[e] + 1 - @ > RingMax THEN @ + 1 ELSE @]

\* append never waits: what the ring has no room for is evicted.
Append1(e) ==
    /\ last' = [last EXCEPT ![e] = @ + 1]
    /\ first' = [first EXCEPT ![e] = IF last[e] + 1 - @ >= RingMax THEN @ + 1 ELSE @]

SetMin(S) == CHOOSE x \in S : \A y \in S : x <= y
SetMax(S) == CHOOSE x \in S : \A y \in S : x >= y

\* terminal_transcript_commit: segment and head in one transaction, which may fail.
Commit(e, batch, state, through) ==
    \/ /\ segments' = IF batch = {} THEN segments
                      ELSE [segments EXCEPT ![SetMin(batch)] = [end |-> SetMax(batch), epoch |-> e]]
       /\ head' = [epoch |-> e, state |-> state, through |-> through]
       /\ UNCHANGED sinkFaults
    \/ /\ sinkFaults < MaxSinkFaults
       /\ sinkFaults' = sinkFaults + 1
       /\ UNCHANGED <<segments, head>>

\* A chunk is read: journal, flusher, and a batch when it is full.
ReadChunk(e) ==
    /\ outReader[e] = "read" /\ last[e] < MaxSeq
    /\ Append1(e)
    /\ LET batch == buffered[e] \cup {last[e] + 1} IN
          IF Cardinality(batch) >= BatchMax
          THEN /\ buffered' = [buffered EXCEPT ![e] = {}]
               /\ Commit(e, batch, "live", last[e] + 1)
          ELSE /\ buffered' = [buffered EXCEPT ![e] = batch]
               /\ UNCHANGED <<segments, head, sinkFaults>>
    /\ UNCHANGED <<outReader, hosted, unflushed, connVars>>

\* Mutant of ReadRest: the session is called dead before its last bytes are in the journal.
DeadBeforeRest(e) ==
    \/ /\ outReader[e] = "read"
       /\ outReader' = [outReader EXCEPT ![e] = "dead"]
       /\ UNCHANGED <<first, last, buffered, hosted, transcriptVars, connVars>>
    \/ /\ outReader[e] = "dead" /\ last[e] < MaxSeq /\ e \notin unflushed
       /\ Append1(e) /\ unflushed' = unflushed \cup {e}
       /\ UNCHANGED <<buffered, hosted, outReader, segments, head, sinkFaults, connVars>>

\* End of file: what the redactor still held goes into the journal, but not to the flusher.
ReadRest(e) ==
    /\ outReader[e] = "read"
    /\ outReader' = [outReader EXCEPT ![e] = "rest"]
    /\ \/ UNCHANGED <<first, last, unflushed>>
       \/ last[e] < MaxSeq /\ Append1(e) /\ unflushed' = unflushed \cup {e}
    /\ UNCHANGED <<buffered, hosted, segments, head, sinkFaults, connVars>>

\* alive = false ...
ReaderDies(e) ==
    /\ outReader[e] = "rest"
    /\ outReader' = [outReader EXCEPT ![e] = "dead"]
    /\ UNCHANGED <<first, last, buffered, hosted, transcriptVars, connVars>>

\* Mutant of LastBatch: what waits for a full batch is forgotten.
NoLastBatch(e) == {}

LastBatch(e) == buffered[e]

\* ... the last batch and the exit become durable, unless that fails, ...
CommitExit(e) ==
    /\ outReader[e] = "dead"
    /\ outReader' = [outReader EXCEPT ![e] = "durable"]
    /\ buffered' = [buffered EXCEPT ![e] = {}]
    /\ Commit(e, LastBatch(e), "complete", last[e])
    /\ UNCHANGED <<first, last, hosted, unflushed, connVars>>

\* ... and the handle is taken out of the registry.
UnhostEpoch(e) ==
    /\ outReader[e] = "durable"
    /\ outReader' = [outReader EXCEPT ![e] = "done"]
    /\ hosted' = 0
    /\ UNCHANGED <<first, last, buffered, transcriptVars, connVars>>

-----------------------------------------------------------------------------
(* The connection.                                                         *)

HostAlive == hosted # 0 /\ outReader[hosted] \in {"read", "rest"}

\* plan_attach_facts
AheadOfJournal(after) == after > last[hosted]

\* Mutant of HistoryGap: off by one.
HistoryGapLate(after) == after + 2 < first[hosted]

HistoryGap(after) == after + 1 < first[hosted]

\* Mutant of Replay: the next chunk only.
ReplayNext(e, after) == {s \in first[e]..last[e] : s = after + 2}

Replay(e, after) == {s \in first[e]..last[e] : s > after}

\* attach: hello and replay, or the connection is closed.  It may be repeated, and
\* last_seq of the pump only grows.
Attach(after) ==
    /\ conn.at \in {"closed", "open"}
    /\ IF HostAlive /\ ~AheadOfJournal(after) /\ ~HistoryGap(after)
       THEN /\ conn' = [at |-> "open", epoch |-> hosted, after |-> after, final |-> 0,
                        sent |-> SetMax({IF conn.at = "open" THEN conn.sent ELSE 0}
                                           \cup Replay(hosted, after)),
                        crossed |-> conn.at = "open" /\ (conn.crossed \/ conn.epoch # hosted)]
            /\ got' = Replay(hosted, after)
       ELSE /\ conn' = NoConn
            /\ got' = {}
    /\ UNCHANGED <<journalVars, transcriptVars>>

\* Nothing is ever noted as sent, so an acknowledgement of anything after the point of
\* attachment is a protocol error.
Acknowledge(through) ==
    /\ conn.at = "open"
    /\ through > conn.after /\ through <= conn.sent
    /\ conn' = NoConn /\ got' = {}
    /\ UNCHANGED <<journalVars, transcriptVars>>

\* A tick of the pump: the output after last_seq, without looking for a gap ...
TickOutput ==
    /\ conn.at = "open"
    /\ LET fresh == IF hosted = 0 THEN {} ELSE Replay(hosted, conn.sent) IN
          /\ conn' = [conn EXCEPT !.at = "tick", !.sent = SetMax({@} \cup fresh)]
          /\ got' = IF hosted = conn.epoch THEN got \cup fresh ELSE got
    /\ UNCHANGED <<journalVars, transcriptVars>>

\* ... and then the exit, for which the handle must still be there.
SessionOver == hosted # 0 /\ ~HostAlive

TickExit ==
    /\ conn.at = "tick"
    /\ conn' = IF SessionOver
               THEN [conn EXCEPT !.at = "exited", !.final = last[hosted]]
               ELSE [conn EXCEPT !.at = "open"]
    /\ UNCHANGED <<journalVars, transcriptVars, got>>

OutputNext ==
    \/ \E e \in Epochs : \/ LaunchEpoch(e) \/ ReadChunk(e) \/ ReadRest(e) \/ ReaderDies(e)
                         \/ CommitExit(e) \/ UnhostEpoch(e)
    \/ \E s \in Seq0 : Attach(s) \/ Acknowledge(s)
    \/ TickOutput \/ TickExit

OutputSpec == OutputInit /\ [][OutputNext]_outputVars

-----------------------------------------------------------------------------
(* Properties.                                                             *)

\* A transcript called complete holds every chunk up to its durable_through_seq, unless
\* a commit failed, the redactor's last bytes bypassed the flusher, or a second process
\* wrote under the same handle.
TranscriptIsComplete ==
    head.state = "complete" /\ sinkFaults = 0 /\ Cardinality({e \in Epochs : outReader[e] # "none"}) = 1
        => \A s \in 1..head.through :
              \/ \E b \in 1..s : segments[b].end >= s
              \/ head.epoch \in unflushed /\ s = head.through

\* An attached connection has been sent everything after the point it asked for; a later
\* gap is the ring's doing: only what was evicted before the tick that should have sent it
\* is missing.  (Not so for a connection that attached again after the handle got a second
\* process: its last_seq counts the chunks of the first.)
OnlyEvictedIsMissing ==
    conn.at # "closed" /\ hosted = conn.epoch /\ ~conn.crossed =>
        \A s \in (conn.after + 1)..conn.sent :
            s \in got \/ s < first[conn.epoch]

\* Attaching leaves no gap: it sends all of what follows the point asked for, or closes.
AttachLeavesNoGap ==
    [][ \A s \in Seq0 : Attach(s) /\ conn'.at = "open" => got' = (s + 1)..last[hosted] ]_outputVars

\* The final_seq of an exit is the last the journal of that session will ever allot.
ExitIsFinal ==
    conn.at = "exited" /\ conn.epoch = hosted => conn.final = last[conn.epoch]

\* What is stored, sent and announced of the output of a process is what it wrote: nothing is
\* lost silently between the journal, the transcript and a connection.
OutputSafety == OutputTypeOK /\ TranscriptIsComplete /\ OnlyEvictedIsMissing /\ ExitIsFinal
=============================================================================
