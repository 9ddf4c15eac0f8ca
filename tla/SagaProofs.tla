----------------------------- MODULE SagaProofs -----------------------------
(***************************************************************************)
(* Proofs about OperationSaga, for any finite number of Starts, any number *)
(* of requests, takeovers, crashes and errors: an inductive invariant with *)
(* every safety property of the module, and its two action properties.     *)
(* Each lemma about a part of the invariant has one step per action.       *)
(*                                                                         *)
(* And about the terminals of the runs that were started, for any number   *)
(* of runs, session rows, processes and chunks.  TerminalOutput: nothing   *)
(* is lost silently between the journal, the transcript and a connection.  *)
(* TerminalSession: no process goes on that nobody can find, a stop tells  *)
(* the truth, and the end of a process reaches its run.  The three share   *)
(* no state.                                                               *)
(***************************************************************************)
EXTENDS OperationSaga, TerminalSession, TerminalOutput, SequenceTheorems, FiniteSetTheorems,
        WellFoundedInduction, TLAPS

----
(* Output.                                                                 *)

\* The epochs under the handle are launched in order; the last one launched is hosted, or none
\* is.  A journal is empty until its process is launched, and past the end of the process it
\* stays as it is.
EpochInv ==
    /\ hosted # 0 => outReader[hosted] # "none"
    /\ \A d, e \in Epochs : d < e /\ outReader[e] # "none" => outReader[d] # "none" /\ hosted # d
    /\ \A e \in Epochs :
          /\ outReader[e] = "none" => last[e] = 0 /\ buffered[e] = {}
          /\ outReader[e] \in {"none", "read"} => e \notin unflushed
          /\ first[e] <= last[e] \/ last[e] = 0
          /\ \A s \in buffered[e] : s <= last[e]

\* No other process has been launched under the handle.
Sole(e) == outReader[e] # "none" /\ \A d \in Epochs : outReader[d] # "none" => d = e

Covered(s) == \E b \in 1..s : segments[b].end >= s

\* Each chunk of a process is waiting for a batch, in a segment, or the one that the flusher was
\* not given; segments end before the chunks that wait; a head called complete is the end.
CoverOf(e) ==
    /\ \A s \in 1..last[e] : s \in buffered[e] \/ Covered(s) \/ (e \in unflushed /\ s = last[e])
    /\ \A b \in 1..MaxSeq : segments[b].end <= last[e] /\ \A s \in buffered[e] : segments[b].end < s
    /\ head.state = "complete" =>
          /\ outReader[e] \in {"durable", "done"} /\ buffered[e] = {}
          /\ head.epoch = e /\ head.through = last[e]

\* There is no transcript before the first launch; it covers the only process while commits succeed.
CoverInv ==
    /\ (\A e \in Epochs : outReader[e] = "none") =>
          head.state = "none" /\ \A b \in 1..MaxSeq : segments[b].end = 0
    /\ \A e \in Epochs : Sole(e) /\ sinkFaults = 0 => CoverOf(e)

\* The connection is at a process that was launched, and at the process hosted now it is not
\* ahead of the journal; an exit was announced of a process that prints no more.
ConnInv ==
    /\ conn.at # "closed" => conn.epoch \in Epochs /\ outReader[conn.epoch] # "none"
    /\ conn.at # "closed" /\ hosted = conn.epoch /\ ~conn.crossed => conn.sent <= last[conn.epoch]
    /\ conn.at = "exited" /\ hosted = conn.epoch => outReader[hosted] \in {"dead", "durable", "done"}

OutputInv == OutputTypeOK /\ EpochInv /\ CoverInv /\ ConnInv /\ OnlyEvictedIsMissing /\ ExitIsFinal

\* The bounds are numbers; epochs are positive.
LEMMA OutputBounds ==
    /\ MaxOutputEpoch \in Nat \ {0} /\ MaxSeq \in Nat \ {0} /\ RingMax \in Nat \ {0}
    /\ BatchMax \in Nat \ {0} /\ MaxSinkFaults \in Nat
    /\ \A e \in Epochs : e \in Nat \ {0} /\ e \in 0..MaxOutputEpoch
  BY OutputAssumption DEF Epochs

\* Epochs are positive; chunks, ends of journals and what was sent are natural numbers.
LEMMA OutputNumbers ==
    ASSUME OutputTypeOK
    PROVE  /\ 0 \in Seq0 /\ \A s \in Seq0 : s \in Nat
           /\ \A e \in Epochs : e # 0 /\ last[e] \in Seq0 /\ last[e] \in Nat /\ first[e] \in Nat \ {0}
           /\ conn.sent \in Seq0 /\ conn.after \in Seq0
           /\ hosted # 0 => hosted \in Epochs
<1>1. 0 \in Seq0 /\ \A s \in Seq0 : s \in Nat  BY OutputBounds DEF Seq0
<1>2. ASSUME NEW e \in Epochs
      PROVE  e # 0 /\ last[e] \in Seq0 /\ last[e] \in Nat /\ first[e] \in Nat \ {0}
  <2>1. last[e] \in Seq0 /\ first[e] \in 1..(MaxSeq + 1)  BY DEF OutputTypeOK
  <2> QED  BY <1>1, <2>1, OutputBounds
<1>3. hosted # 0 => hosted \in Epochs  BY OutputBounds DEF OutputTypeOK, Epochs
<1>4. conn.sent \in Seq0 /\ conn.after \in Seq0  BY DEF OutputTypeOK
<1> QED  BY <1>1, <1>2, <1>3, <1>4

\* A set of natural numbers has a least element.
LEMMA LeastOf ==
    ASSUME NEW S \in SUBSET Nat, S # {}
    PROVE  \E x \in S : \A y \in S : x <= y
<1>1. PICK x \in S : \A y \in S : <<y, x>> \notin OpToRel(<, Nat)  BY NatLessThanWellFounded, WFMin
<1>2. \A y \in S : ~(y < x)  BY <1>1 DEF OpToRel
<1> QED  BY <1>2

\* SetMin is the least element.
LEMMA MinOf ==
    ASSUME NEW S \in SUBSET Nat, S # {}
    PROVE  SetMin(S) \in S /\ \A y \in S : SetMin(S) <= y
  BY LeastOf DEF SetMin

\* SetMax is the greatest element.
LEMMA MaxOf ==
    ASSUME NEW n \in Nat, NEW S \in SUBSET (0..n), S # {}
    PROVE  SetMax(S) \in S /\ \A y \in S : SetMax(S) >= y
<1> DEFINE T == {n - x : x \in S}
<1>0. \A x \in S : x \in Int /\ n - x \in Nat  OBVIOUS
<1>1. T \in SUBSET Nat /\ T # {}  BY <1>0
<1>2. PICK m \in T : \A k \in T : m <= k  BY <1>1, LeastOf
<1>3. PICK x \in S : m = n - x  OBVIOUS
<1>4. \A y \in S : x >= y
  <2> SUFFICES ASSUME NEW y \in S PROVE x >= y  OBVIOUS
  <2>1. n - y \in T  OBVIOUS
  <2>2. n - x <= n - y  BY <1>2, <1>3, <2>1
  <2> QED  BY <2>2
<1>5. \E z \in S : \A y \in S : z >= y  BY <1>4
<1> QED  BY <1>5 DEF SetMax

\* The ring after one more chunk.
LEMMA Appended ==
    ASSUME OutputTypeOK, NEW e \in Epochs, last[e] < MaxSeq, Append1(e),
           first[e] <= last[e] \/ last[e] = 0
    PROVE  /\ last' \in [Epochs -> Seq0] /\ first' \in [Epochs -> 1..(MaxSeq + 1)]
           /\ last'[e] = last[e] + 1 /\ first[e] <= first'[e] /\ first'[e] <= last'[e]
           /\ \A d \in Epochs : first'[d] <= last'[d] + 1 /\ last'[d] - first'[d] < RingMax
           /\ \A d \in Epochs : d # e => last'[d] = last[d] /\ first'[d] = first[d]
<1>1. /\ last[e] \in 0..MaxSeq /\ first[e] \in 1..(MaxSeq + 1)
      /\ first[e] <= last[e] + 1 /\ last[e] - first[e] < RingMax
  BY DEF OutputTypeOK, Seq0
<1>2. last'[e] = last[e] + 1 /\ first'[e] = IF last[e] + 1 - first[e] >= RingMax THEN first[e] + 1 ELSE first[e]
  BY DEF Append1, OutputTypeOK
<1>3. last'[e] \in Seq0 /\ first'[e] \in 1..(MaxSeq + 1)  BY <1>1, <1>2, OutputBounds DEF Seq0
<1>4. last' \in [Epochs -> Seq0] /\ first' \in [Epochs -> 1..(MaxSeq + 1)]  BY <1>2, <1>3 DEF Append1, OutputTypeOK
<1>5. \A d \in Epochs : d # e => last'[d] = last[d] /\ first'[d] = first[d]  BY DEF Append1, OutputTypeOK
<1>6. /\ first[e] <= first'[e] /\ first'[e] <= last'[e]
      /\ first'[e] <= last'[e] + 1 /\ last'[e] - first'[e] < RingMax
  BY <1>1, <1>2, OutputBounds
<1>7. ASSUME NEW d \in Epochs, d # e PROVE first'[d] <= last'[d] + 1 /\ last'[d] - first'[d] < RingMax
  BY <1>5, <1>7 DEF OutputTypeOK
<1> QED  BY <1>2, <1>4, <1>5, <1>6, <1>7

\* The segment of a batch, from its least to its greatest chunk.
WritesSegment(batch) ==
    /\ batch = {} => segments' = segments
    /\ batch # {} => \E a, z \in batch :
          /\ \A s \in batch : a <= s /\ s <= z
          /\ segments'[a].end = z
          /\ \A b \in 1..MaxSeq : b # a => segments'[b] = segments[b]

\* A commit that has not failed, when none has failed before.
Wrote(e, batch, state, through) ==
    /\ sinkFaults = 0 /\ head' = [epoch |-> e, state |-> state, through |-> through]
    /\ WritesSegment(batch)

\* A commit writes one segment, from the least to the greatest chunk of its batch.
LEMMA Committed ==
    ASSUME OutputTypeOK, NEW e \in Epochs, NEW batch \in SUBSET (1..MaxSeq), NEW through \in Seq0,
           NEW state \in {"live", "complete"}, Commit(e, batch, state, through)
    PROVE  /\ segments' \in [1..MaxSeq -> [end : Seq0, epoch : 0..MaxOutputEpoch]]
           /\ head' \in [epoch : 0..MaxOutputEpoch, state : {"none", "live", "complete"}, through : Seq0]
           /\ sinkFaults' \in 0..MaxSinkFaults
           /\ sinkFaults' = 0 => Wrote(e, batch, state, through)
<1>1. CASE sinkFaults < MaxSinkFaults /\ sinkFaults' = sinkFaults + 1 /\ UNCHANGED <<segments, head>>
  <2>1. sinkFaults' # 0 /\ sinkFaults' \in 0..MaxSinkFaults  BY <1>1, OutputBounds DEF OutputTypeOK
  <2> QED  BY <1>1, <2>1 DEF OutputTypeOK
<1>2. CASE /\ segments' = IF batch = {} THEN segments
                          ELSE [segments EXCEPT ![SetMin(batch)] = [end |-> SetMax(batch), epoch |-> e]]
           /\ head' = [epoch |-> e, state |-> state, through |-> through]
           /\ UNCHANGED sinkFaults
  <2>1. /\ head' \in [epoch : 0..MaxOutputEpoch, state : {"none", "live", "complete"}, through : Seq0]
        /\ sinkFaults' \in 0..MaxSinkFaults
    BY <1>2, OutputBounds DEF OutputTypeOK
  <2>2. CASE batch = {}  BY <1>2, <2>1, <2>2 DEF OutputTypeOK, Wrote, WritesSegment
  <2>3. CASE batch # {}
    <3> DEFINE a == SetMin(batch)
               z == SetMax(batch)
    <3>1. batch \in SUBSET Nat /\ batch \in SUBSET (0..MaxSeq) /\ MaxSeq \in Nat  BY OutputBounds
    <3>2. a \in batch /\ \A s \in batch : a <= s  BY <2>3, <3>1, MinOf
    <3>3. z \in batch /\ \A s \in batch : z >= s  BY <2>3, <3>1, MaxOf
    <3>4. segments' = [segments EXCEPT ![a] = [end |-> z, epoch |-> e]]  BY <1>2, <2>3
    <3>5. a \in 1..MaxSeq /\ z \in Seq0  BY <3>1, <3>2, <3>3 DEF Seq0
    <3> HIDE DEF a, z
    <3>6. segments' \in [1..MaxSeq -> [end : Seq0, epoch : 0..MaxOutputEpoch]]
      BY <3>4, <3>5, OutputBounds DEF OutputTypeOK
    <3>7. \A s \in batch : a <= s /\ s <= z  BY <3>1, <3>2, <3>3
    <3>8. WritesSegment(batch)  BY <2>3, <3>2, <3>3, <3>4, <3>5, <3>7 DEF WritesSegment, OutputTypeOK
    <3> QED  BY <1>2, <2>1, <3>6, <3>8 DEF OutputTypeOK, Wrote
  <2> QED  BY <2>2, <2>3
<1> QED  BY <1>1, <1>2 DEF Commit

\* What is replayed are chunks; of those after a point, all that the ring still has.
LEMMA Replayed ==
    ASSUME OutputTypeOK, hosted \in Epochs, NEW after \in Seq0, NEW base \in Seq0
    PROVE  /\ Replay(hosted, after) \in SUBSET (1..MaxSeq)
           /\ SetMax({base} \cup Replay(hosted, after)) \in Seq0
           /\ base <= last[hosted] => SetMax({base} \cup Replay(hosted, after)) <= last[hosted]
           /\ \A s \in Replay(hosted, after) : s <= SetMax({base} \cup Replay(hosted, after))
           /\ \/ SetMax({base} \cup Replay(hosted, after)) = base
              \/ SetMax({base} \cup Replay(hosted, after)) \in Replay(hosted, after)
<1> DEFINE S == {base} \cup Replay(hosted, after)
<1>1. last[hosted] \in 0..MaxSeq /\ first[hosted] \in 1..(MaxSeq + 1) /\ MaxSeq \in Nat /\ base \in 0..MaxSeq
  BY OutputBounds DEF OutputTypeOK, Seq0
<1>2. Replay(hosted, after) \in SUBSET (1..MaxSeq) /\ \A s \in Replay(hosted, after) : s <= last[hosted]
  BY <1>1 DEF Replay
<1>3. S \in SUBSET (0..MaxSeq) /\ S # {}  BY <1>1, <1>2
<1>4. SetMax(S) \in S /\ \A y \in S : SetMax(S) >= y  BY <1>1, <1>3, MaxOf
<1>5. SetMax(S) \in 0..MaxSeq  BY <1>3, <1>4
<1> QED  BY <1>1, <1>2, <1>4, <1>5 DEF Seq0

\* The type of a connection that is closed.
LEMMA Disconnected ==
    NoConn \in [at : {"closed", "open", "tick", "exited"}, epoch : 0..MaxOutputEpoch,
                after : Seq0, sent : Seq0, final : Seq0, crossed : BOOLEAN]
<1>1. 0 \in Seq0 /\ 0 \in 0..MaxOutputEpoch  BY OutputBounds DEF Seq0
<1> QED  BY <1>1 DEF NoConn

\* Every step keeps the types.
LEMMA OutputTypesKept ==
    ASSUME OutputTypeOK, EpochInv, OutputNext
    PROVE  OutputTypeOK'
<1> USE DEF journalVars, transcriptVars, connVars
<1>1. ASSUME NEW e \in Epochs, LaunchEpoch(e) PROVE OutputTypeOK'  BY <1>1, OutputBounds DEF LaunchEpoch, OutputTypeOK
<1>2. ASSUME NEW e \in Epochs, ReadChunk(e) PROVE OutputTypeOK'
  <2> DEFINE batch == buffered[e] \cup {last[e] + 1}
  <2>1. /\ last' \in [Epochs -> Seq0] /\ first' \in [Epochs -> 1..(MaxSeq + 1)]
        /\ \A d \in Epochs : first'[d] <= last'[d] + 1 /\ last'[d] - first'[d] < RingMax
    <3>1. first[e] <= last[e] \/ last[e] = 0  BY DEF EpochInv
    <3>2. last[e] < MaxSeq /\ Append1(e)  BY <1>2 DEF ReadChunk
    <3> QED  BY <3>1, <3>2, Appended
  <2>2. batch \in SUBSET (1..MaxSeq) /\ last[e] + 1 \in Seq0
    <3>1. buffered[e] \in SUBSET (1..MaxSeq) /\ last[e] \in 0..MaxSeq /\ last[e] < MaxSeq /\ MaxSeq \in Nat
      BY <1>2, OutputBounds DEF ReadChunk, OutputTypeOK, Seq0
    <3> QED  BY <3>1 DEF Seq0
  <2>3. buffered' \in [Epochs -> SUBSET (1..MaxSeq)]  BY <1>2, <2>2 DEF ReadChunk, OutputTypeOK
  <2>4. /\ segments' \in [1..MaxSeq -> [end : Seq0, epoch : 0..MaxOutputEpoch]]
        /\ head' \in [epoch : 0..MaxOutputEpoch, state : {"none", "live", "complete"}, through : Seq0]
        /\ sinkFaults' \in 0..MaxSinkFaults
    <3>1. CASE Commit(e, batch, "live", last[e] + 1)  BY <2>2, <3>1, Committed
    <3>2. CASE UNCHANGED <<segments, head, sinkFaults>>  BY <3>2 DEF OutputTypeOK
    <3> QED  BY <1>2, <3>1, <3>2 DEF ReadChunk
  <2> QED  BY <1>2, <2>1, <2>3, <2>4 DEF ReadChunk, OutputTypeOK
<1>3. ASSUME NEW e \in Epochs, ReadRest(e) PROVE OutputTypeOK'
  <2>1. CASE UNCHANGED <<first, last, unflushed>>  BY <1>3, <2>1 DEF ReadRest, OutputTypeOK
  <2>2. CASE last[e] < MaxSeq /\ Append1(e) /\ unflushed' = unflushed \cup {e}
    <3>1. first[e] <= last[e] \/ last[e] = 0  BY DEF EpochInv
    <3>2. /\ last' \in [Epochs -> Seq0] /\ first' \in [Epochs -> 1..(MaxSeq + 1)]
          /\ \A d \in Epochs : first'[d] <= last'[d] + 1 /\ last'[d] - first'[d] < RingMax
      BY <2>2, <3>1, Appended
    <3> QED  BY <1>3, <2>2, <3>2 DEF ReadRest, OutputTypeOK
  <2> QED  BY <1>3, <2>1, <2>2 DEF ReadRest
<1>4. ASSUME NEW e \in Epochs, ReaderDies(e) PROVE OutputTypeOK'  BY <1>4 DEF ReaderDies, OutputTypeOK
<1>5. ASSUME NEW e \in Epochs, CommitExit(e) PROVE OutputTypeOK'
  BY <1>5, Committed DEF CommitExit, OutputTypeOK, LastBatch
<1>6. ASSUME NEW e \in Epochs, UnhostEpoch(e) PROVE OutputTypeOK'  BY <1>6, OutputBounds DEF UnhostEpoch, OutputTypeOK
<1>7. ASSUME NEW s \in Seq0, Attach(s) PROVE OutputTypeOK'
  <2>1. CASE HostAlive /\ ~AheadOfJournal(s) /\ ~HistoryGap(s)
    <3> DEFINE base == IF conn.at = "open" THEN conn.sent ELSE 0
    <3>1. hosted \in Epochs  BY <2>1 DEF HostAlive, OutputTypeOK, Epochs
    <3>2. base \in Seq0 /\ 0 \in Seq0  BY OutputBounds DEF OutputTypeOK, Seq0
    <3>3. SetMax({base} \cup Replay(hosted, s)) \in Seq0 /\ got' \in SUBSET (1..MaxSeq)
      BY <1>7, <2>1, <3>1, <3>2, Replayed DEF Attach
    <3>4. conn' = [at |-> "open", epoch |-> hosted, after |-> s, final |-> 0,
                   sent |-> SetMax({base} \cup Replay(hosted, s)),
                   crossed |-> conn.at = "open" /\ (conn.crossed \/ conn.epoch # hosted)]
      BY <1>7, <2>1 DEF Attach
    <3> HIDE DEF base
    <3> DEFINE top == SetMax({base} \cup Replay(hosted, s))
               across == conn.at = "open" /\ (conn.crossed \/ conn.epoch # hosted)
    <3>5. across \in BOOLEAN /\ top \in Seq0  BY <3>3
    <3> HIDE DEF top, across
    <3> QED  BY <1>7, <3>3, <3>2, <3>5, <3>4 DEF Attach, OutputTypeOK, top, across
  <2>2. CASE ~(HostAlive /\ ~AheadOfJournal(s) /\ ~HistoryGap(s))  BY <1>7, <2>2, Disconnected DEF Attach, OutputTypeOK
  <2> QED  BY <2>1, <2>2
<1>8. ASSUME NEW s \in Seq0, Acknowledge(s) PROVE OutputTypeOK'  BY <1>8, Disconnected DEF Acknowledge, OutputTypeOK
<1>9. ASSUME TickOutput PROVE OutputTypeOK'
  <2> DEFINE fresh == IF hosted = 0 THEN {} ELSE Replay(hosted, conn.sent)
  <2>1. conn.sent \in Seq0  BY DEF OutputTypeOK
  <2>2. SetMax({conn.sent} \cup fresh) \in Seq0 /\ fresh \in SUBSET (1..MaxSeq)
    <3>1. CASE hosted = 0
      <4>1. {conn.sent} \in SUBSET (0..MaxSeq) /\ {conn.sent} # {} /\ {conn.sent} \cup fresh = {conn.sent}
        BY <2>1, <3>1 DEF Seq0
      <4>2. SetMax({conn.sent}) \in {conn.sent}  BY <4>1, OutputBounds, MaxOf
      <4> QED  BY <2>1, <3>1, <4>1, <4>2
    <3>2. CASE hosted # 0
      <4>1. hosted \in Epochs  BY <3>2 DEF OutputTypeOK, Epochs
      <4> QED  BY <2>1, <3>2, <4>1, Replayed
    <3> QED  BY <3>1, <3>2
  <2>3. conn' = [conn EXCEPT !.at = "tick", !.sent = SetMax({conn.sent} \cup fresh)]  BY <1>9 DEF TickOutput
  <2>4. got' \in SUBSET (1..MaxSeq)  BY <1>9, <2>2 DEF TickOutput, OutputTypeOK
  <2> HIDE DEF fresh
  <2>5. conn' \in [at : {"closed", "open", "tick", "exited"}, epoch : 0..MaxOutputEpoch,
                   after : Seq0, sent : Seq0, final : Seq0, crossed : BOOLEAN]
    BY <2>2, <2>3 DEF OutputTypeOK
  <2> QED  BY <1>9, <2>4, <2>5 DEF TickOutput, OutputTypeOK
<1>10. ASSUME TickExit PROVE OutputTypeOK'
  <2>1. hosted # 0 => last[hosted] \in Seq0  BY DEF OutputTypeOK, Epochs
  <2> QED  BY <1>10, <2>1 DEF TickExit, SessionOver, OutputTypeOK
<1> QED  BY <1>1, <1>2, <1>3, <1>4, <1>5, <1>6, <1>7, <1>8, <1>9, <1>10 DEF OutputNext

\* The reader of an epoch, at its work, adds one chunk to the journal of that epoch.
Prints(e) ==
    /\ outReader[e] = "read" /\ last'[e] = last[e] + 1 /\ first[e] <= first'[e] /\ first'[e] <= last'[e]
    /\ \A d \in Epochs : d # e => last'[d] = last[d] /\ first'[d] = first[d]

\* A step of the process prints one chunk or none.
LEMMA Printing ==
    ASSUME OutputTypeOK, EpochInv, OutputNext
    PROVE  UNCHANGED <<first, last>> \/ \E e \in Epochs : Prints(e)
<1> USE DEF journalVars
<1>1. ASSUME NEW e \in Epochs, outReader[e] = "read", last[e] < MaxSeq, Append1(e) PROVE Prints(e)
  <2>1. first[e] <= last[e] \/ last[e] = 0  BY DEF EpochInv
  <2> QED  BY <1>1, <2>1, Appended DEF Prints
<1>2. ASSUME NEW e \in Epochs, ReadChunk(e) PROVE Prints(e)  BY <1>1, <1>2 DEF ReadChunk
<1>3. ASSUME NEW e \in Epochs, ReadRest(e) PROVE UNCHANGED <<first, last>> \/ Prints(e)  BY <1>1, <1>3 DEF ReadRest
<1>4. ASSUME NEW e \in Epochs, LaunchEpoch(e) \/ ReaderDies(e) \/ CommitExit(e) \/ UnhostEpoch(e)
      PROVE  UNCHANGED <<first, last>>
  BY <1>4 DEF LaunchEpoch, ReaderDies, CommitExit, UnhostEpoch
<1>5. ASSUME NEW s \in Seq0, Attach(s) \/ Acknowledge(s) PROVE UNCHANGED <<first, last>>
  BY <1>5 DEF Attach, Acknowledge
<1>6. ASSUME TickOutput \/ TickExit PROVE UNCHANGED <<first, last>>  BY <1>6 DEF TickOutput, TickExit
<1> QED  BY <1>2, <1>3, <1>4, <1>5, <1>6 DEF OutputNext

\* Readers only go on, and a step that is not a launch launches nothing.
LEMMA Reading ==
    ASSUME OutputTypeOK, OutputNext
    PROVE  /\ \A e \in Epochs : outReader[e] # "none" => outReader'[e] # "none"
           /\ \A e \in Epochs : outReader[e] \in {"dead", "durable", "done"} =>
                 outReader'[e] \in {"dead", "durable", "done"}
           /\ \/ \E e \in Epochs : LaunchEpoch(e)
              \/ /\ \A e \in Epochs : outReader[e] = "none" => outReader'[e] = "none"
                 /\ hosted' \in {0, hosted}
<1> USE DEF journalVars
<1>1. ASSUME NEW e \in Epochs, LaunchEpoch(e)
      PROVE  /\ \A d \in Epochs : outReader[d] # "none" => outReader'[d] = outReader[d]
  BY <1>1 DEF LaunchEpoch, OutputTypeOK
<1>2. ASSUME NEW e \in Epochs, ReadRest(e) \/ ReaderDies(e) \/ CommitExit(e) \/ UnhostEpoch(e)
      PROVE  /\ outReader[e] # "none" /\ outReader'[e] # "none" /\ hosted' \in {0, hosted}
             /\ outReader[e] \in {"dead", "durable", "done"} => outReader'[e] \in {"dead", "durable", "done"}
             /\ \A d \in Epochs : d # e => outReader'[d] = outReader[d]
  BY <1>2 DEF ReadRest, ReaderDies, CommitExit, UnhostEpoch, OutputTypeOK
<1>3. ASSUME NEW e \in Epochs, ReadChunk(e) PROVE UNCHANGED <<outReader, hosted>>  BY <1>3 DEF ReadChunk
<1>4. ASSUME NEW s \in Seq0, Attach(s) \/ Acknowledge(s) PROVE UNCHANGED <<outReader, hosted>>
  BY <1>4 DEF Attach, Acknowledge
<1>5. ASSUME TickOutput \/ TickExit PROVE UNCHANGED <<outReader, hosted>>  BY <1>5 DEF TickOutput, TickExit
<1>6. CASE \E e \in Epochs : LaunchEpoch(e)
  <2>1. PICK e \in Epochs : LaunchEpoch(e)  BY <1>6
  <2> QED  BY <1>1, <2>1
<1>7. CASE \E e \in Epochs : ReadRest(e) \/ ReaderDies(e) \/ CommitExit(e) \/ UnhostEpoch(e)
  <2>1. PICK e \in Epochs : ReadRest(e) \/ ReaderDies(e) \/ CommitExit(e) \/ UnhostEpoch(e)  BY <1>7
  <2> QED  BY <1>2, <2>1
<1>8. CASE UNCHANGED <<outReader, hosted>>  BY <1>8
<1> QED  BY <1>3, <1>4, <1>5, <1>6, <1>7, <1>8 DEF OutputNext

\* Every step keeps the order of the epochs.
LEMMA EpochsKept ==
    ASSUME OutputTypeOK, EpochInv, OutputNext
    PROVE  EpochInv'
<1> USE DEF journalVars, transcriptVars, connVars
<1>0. /\ outReader \in [Epochs -> {"none", "read", "rest", "dead", "durable", "done"}]
      /\ buffered \in [Epochs -> SUBSET (1..MaxSeq)] /\ unflushed \subseteq Epochs
      /\ \A d \in Epochs : last[d] \in Nat /\ first[d] \in Nat /\ d \in Nat \ {0}
  BY OutputBounds DEF OutputTypeOK, Seq0
<1>1. ASSUME NEW e \in Epochs, LaunchEpoch(e) PROVE EpochInv'
  <2>1. outReader' = [outReader EXCEPT ![e] = "read"] /\ hosted' = e /\ outReader[e] = "none"
        /\ UNCHANGED <<first, last, buffered, unflushed>> /\ \A d \in Epochs : d < e => outReader[d] # "none"
    BY <1>1 DEF LaunchEpoch
  <2>2. e \notin unflushed  BY <2>1 DEF EpochInv
  <2> QED  BY <2>1, <2>2, <1>0 DEF EpochInv
<1>2. ASSUME NEW e \in Epochs, outReader[e] = "read", last[e] < MaxSeq, Append1(e), UNCHANGED hosted,
             \A d \in Epochs : (outReader'[d] = "none") = (outReader[d] = "none"),
             \A d \in Epochs : outReader'[d] \in {"none", "read"} => d \notin unflushed',
             \A d \in Epochs : \A s \in buffered'[d] : s \in buffered[d] \/ (d = e /\ s = last[e] + 1),
             \A d \in Epochs : d # e => buffered'[d] = buffered[d]
      PROVE  EpochInv'
  <2>1. first[e] <= last[e] \/ last[e] = 0  BY DEF EpochInv
  <2>2. /\ last'[e] = last[e] + 1 /\ first'[e] <= last'[e]
        /\ \A d \in Epochs : d # e => last'[d] = last[d] /\ first'[d] = first[d]
    BY <1>2, <2>1, Appended
  <2>3. hosted' # 0 => outReader'[hosted'] # "none"  BY <1>2 DEF EpochInv, OutputTypeOK, Epochs
  <2>4. \A d, x \in Epochs : d < x /\ outReader'[x] # "none" => outReader'[d] # "none" /\ hosted' # d
    BY <1>2 DEF EpochInv
  <2>5. ASSUME NEW d \in Epochs
        PROVE  /\ outReader'[d] = "none" => last'[d] = 0 /\ buffered'[d] = {}
               /\ first'[d] <= last'[d] \/ last'[d] = 0
               /\ \A s \in buffered'[d] : s <= last'[d]
    <3>1. CASE d = e  BY <1>0, <1>2, <2>2, <3>1 DEF EpochInv
    <3>2. CASE d # e  BY <1>2, <2>2, <3>2 DEF EpochInv
    <3> QED  BY <3>1, <3>2
  <2> QED  BY <1>2, <2>3, <2>4, <2>5 DEF EpochInv
<1>3. ASSUME NEW e \in Epochs, ReadChunk(e) PROVE EpochInv'  BY <1>2, <1>3, <1>0 DEF EpochInv, ReadChunk
<1>4. ASSUME NEW e \in Epochs, ReadRest(e) PROVE EpochInv'
  <2>1. /\ outReader[e] = "read" /\ \A d \in Epochs : outReader'[d] = IF d = e THEN "rest" ELSE outReader[d]
        /\ UNCHANGED <<hosted, buffered>>
    BY <1>0, <1>4 DEF ReadRest
  <2>2. CASE UNCHANGED <<first, last, unflushed>>  BY <2>1, <2>2, OutputNumbers DEF EpochInv
  <2>3. CASE last[e] < MaxSeq /\ Append1(e) /\ unflushed' = unflushed \cup {e}  BY <1>2, <2>1, <2>3 DEF EpochInv
  <2> QED  BY <1>4, <2>2, <2>3 DEF ReadRest
<1>5. ASSUME NEW e \in Epochs, ReaderDies(e) \/ CommitExit(e) \/ UnhostEpoch(e) PROVE EpochInv'
  BY <1>0, <1>5, OutputNumbers DEF EpochInv, ReaderDies, CommitExit, UnhostEpoch
<1>6. ASSUME UNCHANGED <<first, last, outReader, buffered, hosted, unflushed>> PROVE EpochInv'  BY <1>6 DEF EpochInv
<1>7. ASSUME NEW s \in Seq0, Attach(s) \/ Acknowledge(s) PROVE EpochInv'  BY <1>6, <1>7 DEF Attach, Acknowledge
<1>8. ASSUME TickOutput \/ TickExit PROVE EpochInv'  BY <1>6, <1>8 DEF TickOutput, TickExit
<1> QED  BY <1>1, <1>3, <1>4, <1>5, <1>7, <1>8 DEF OutputNext

\* A commit covers its batch, and what was covered.
LEMMA CommitCovers ==
    ASSUME OutputTypeOK, NEW e \in Epochs, NEW batch \in SUBSET (1..MaxSeq), NEW through \in Seq0,
           NEW state \in {"live", "complete"}, Commit(e, batch, state, through), sinkFaults' = 0,
           \A b \in 1..MaxSeq : \A s \in batch : segments[b].end < s
    PROVE  /\ sinkFaults = 0 /\ head' = [epoch |-> e, state |-> state, through |-> through]
           /\ \A s \in batch : Covered(s)'
           /\ \A s \in 1..MaxSeq : Covered(s) => Covered(s)'
           /\ \A b \in 1..MaxSeq : segments'[b].end = segments[b].end \/ segments'[b].end \in batch
<1>0. MaxSeq \in Nat /\ \A b \in 1..MaxSeq : segments[b].end \in Nat  BY OutputBounds DEF OutputTypeOK, Seq0
<1>a. Wrote(e, batch, state, through)  BY Committed
<1>1. /\ sinkFaults = 0 /\ head' = [epoch |-> e, state |-> state, through |-> through]
      /\ WritesSegment(batch)
  BY <1>a DEF Wrote
<1>2. CASE batch = {}
  <2>1. segments' = segments  BY <1>1, <1>2 DEF WritesSegment
  <2> QED  BY <1>1, <1>2, <2>1 DEF Covered
<1>3. CASE batch # {}
  <2>1. PICK a, z \in batch : /\ \A s \in batch : a <= s /\ s <= z
                              /\ segments'[a].end = z
                              /\ \A b \in 1..MaxSeq : b # a => segments'[b] = segments[b]
    BY <1>1, <1>3 DEF WritesSegment
  <2>2. ASSUME NEW s \in batch PROVE Covered(s)'
    <3>1. a \in 1..s /\ z >= s  BY <1>0, <2>1
    <3> QED  BY <2>1, <3>1 DEF Covered
  <2>3. ASSUME NEW s \in 1..MaxSeq, Covered(s) PROVE Covered(s)'
    <3>1. PICK b \in 1..s : segments[b].end >= s  BY <2>3 DEF Covered
    <3>2. b \in 1..MaxSeq  BY <1>0
    <3>3. b # a  BY <1>0, <3>1, <3>2
    <3> QED  BY <2>1, <3>1, <3>2, <3>3 DEF Covered
  <2> QED  BY <1>1, <2>1, <2>2, <2>3
<1> QED  BY <1>2, <1>3

\* Every step keeps what the transcript covers.
LEMMA CoverKept ==
    ASSUME OutputTypeOK, EpochInv, CoverInv, OutputNext
    PROVE  CoverInv'
<1> USE DEF journalVars, transcriptVars, connVars
<1>0. /\ outReader \in [Epochs -> {"none", "read", "rest", "dead", "durable", "done"}]
      /\ buffered \in [Epochs -> SUBSET (1..MaxSeq)] /\ sinkFaults \in Nat /\ MaxSeq \in Nat
      /\ \A d \in Epochs : last[d] \in 0..MaxSeq
      /\ \A b \in 1..MaxSeq : segments[b].end \in Nat
      /\ \A d \in Epochs : \A s \in buffered[d] : s \in 1..MaxSeq /\ s <= last[d]
  BY OutputBounds DEF OutputTypeOK, EpochInv, Seq0
<1>1. ASSUME NEW e \in Epochs, LaunchEpoch(e) PROVE CoverInv'
  <2>1. /\ \A d \in Epochs : outReader'[d] = IF d = e THEN "read" ELSE outReader[d]
        /\ outReader[e] = "none" /\ UNCHANGED <<last, buffered, segments, head, sinkFaults, unflushed>>
    BY <1>0, <1>1 DEF LaunchEpoch
  <2>2. ASSUME NEW x \in Epochs, Sole(x)' PROVE CoverOf(x)'
    <3>1. x = e  BY <2>1, <2>2 DEF Sole
    <3>2. last[e] = 0 /\ buffered[e] = {}  BY <2>1 DEF EpochInv
    <3> QED  BY <2>1, <3>1, <2>2, <3>2 DEF CoverOf, CoverInv, Sole
  <2>3. ~(\A d \in Epochs : outReader'[d] = "none")  BY <2>1
  <2> QED  BY <2>2, <2>3 DEF CoverInv
<1>2. ASSUME NEW e \in Epochs, outReader[e] # "none", outReader'[e] # "none",
             \A d \in Epochs : d # e => outReader'[d] = outReader[d],
             sinkFaults' = 0 /\ Sole(e) => sinkFaults = 0,
             sinkFaults' = 0 /\ CoverOf(e) /\ Sole(e) => CoverOf(e)'
      PROVE  CoverInv'
  <2>1. ASSUME NEW x \in Epochs, Sole(x)', sinkFaults' = 0 PROVE CoverOf(x)'
    <3>1. x = e /\ Sole(e)  BY <1>2, <2>1 DEF Sole
    <3> QED  BY <1>2, <2>1, <3>1 DEF CoverInv
  <2> QED  BY <1>2, <2>1 DEF CoverInv
<1>3. ASSUME NEW e \in Epochs, ReadChunk(e) PROVE CoverInv'
  <2> DEFINE batch == buffered[e] \cup {last[e] + 1}
  <2>1. /\ outReader[e] = "read" /\ last[e] < MaxSeq /\ UNCHANGED <<outReader, unflushed>> /\ e \notin unflushed
        /\ last'[e] = last[e] + 1
    BY <1>0, <1>3 DEF ReadChunk, Append1, EpochInv, OutputTypeOK
  <2>2. batch \in SUBSET (1..MaxSeq) /\ last[e] + 1 \in Seq0  BY <1>0, <2>1 DEF Seq0
  <2>3. CASE Commit(e, batch, "live", last[e] + 1) /\ buffered' = [buffered EXCEPT ![e] = {}]
    <3>1. ASSUME sinkFaults' = 0, CoverOf(e) PROVE CoverOf(e)'
      <4>1. \A b \in 1..MaxSeq : \A s \in batch : segments[b].end < s  BY <1>0, <3>1 DEF CoverOf
      <4>2. /\ head' = [epoch |-> e, state |-> "live", through |-> last[e] + 1]
            /\ \A s \in batch : Covered(s)'
            /\ \A s \in 1..MaxSeq : Covered(s) => Covered(s)'
            /\ \A b \in 1..MaxSeq : segments'[b].end = segments[b].end \/ segments'[b].end \in batch
        BY <2>2, <2>3, <3>1, <4>1, CommitCovers
      <4>3. \A s \in 1..last'[e] : Covered(s)'
        <5> SUFFICES ASSUME NEW s \in 1..last'[e] PROVE Covered(s)'  OBVIOUS
        <5>1. CASE s \in batch  BY <4>2, <5>1
        <5>2. CASE s \notin batch
          <6>1. s \in 1..last[e] /\ s \in 1..MaxSeq /\ s \notin buffered[e]  BY <1>0, <2>1, <5>2
          <6>2. Covered(s)  BY <2>1, <3>1, <6>1 DEF CoverOf
          <6> QED  BY <4>2, <6>1, <6>2
        <5> QED  BY <5>1, <5>2
      <4> QED  BY <4>3, <1>0, <2>1, <3>1, <4>2, <2>3 DEF CoverOf
    <3>2. sinkFaults' = 0 => sinkFaults = 0  BY <2>2, <2>3, Committed DEF Wrote
    <3> QED  BY <1>2, <2>1, <3>1, <3>2
  <2>4. CASE UNCHANGED <<segments, head, sinkFaults>> /\ buffered' = [buffered EXCEPT ![e] = batch]
    <3>1. ASSUME CoverOf(e) PROVE CoverOf(e)'
      <4>1. buffered'[e] = batch  BY <1>0, <2>4
      <4>2. head.state # "complete"  BY <2>1, <3>1 DEF CoverOf
      <4>3. \A b \in 1..MaxSeq : segments[b].end <= last[e] + 1 /\ \A s \in batch : segments[b].end < s
        BY <1>0, <3>1 DEF CoverOf
      <4>4. \A s \in 1..last'[e] : s \in batch \/ Covered(s)  BY <1>0, <2>1, <3>1 DEF CoverOf
      <4>5. \A s \in 1..last'[e] : s \in batch \/ Covered(s)'  BY <2>4, <4>4 DEF Covered
      <4> HIDE DEF batch
      <4> QED  BY <2>1, <2>4, <4>1, <4>2, <4>3, <4>5 DEF CoverOf
    <3> QED  BY <1>2, <2>1, <2>4, <3>1
  <2> QED  BY <1>3, <2>3, <2>4 DEF ReadChunk
<1>4. ASSUME NEW e \in Epochs, ReadRest(e) PROVE CoverInv'
  <2>1. /\ outReader[e] = "read" /\ e \notin unflushed /\ outReader'[e] = "rest"
        /\ \A d \in Epochs : d # e => outReader'[d] = outReader[d]
        /\ UNCHANGED <<buffered, segments, head, sinkFaults>>
    BY <1>0, <1>4 DEF ReadRest, EpochInv
  <2>2. last'[e] = last[e] \/ (last'[e] = last[e] + 1 /\ e \in unflushed')
    BY <1>0, <1>4 DEF ReadRest, Append1, OutputTypeOK
  <2>3. ASSUME CoverOf(e) PROVE CoverOf(e)'
    <3>1. head.state # "complete"  BY <2>1, <2>3 DEF CoverOf
    <3>2. \A s \in 1..last'[e] : s \in buffered[e] \/ Covered(s)' \/ (e \in unflushed' /\ s = last'[e])
      <4> HIDE DEF Covered
      <4> QED  BY <1>0, <2>2, <2>1, <2>3 DEF CoverOf, Covered
    <3> QED  BY <2>1, <3>1, <3>2, <1>0, <2>2, <2>3 DEF CoverOf
  <2> QED  BY <1>2, <2>1, <2>3
<1>5. ASSUME NEW e \in Epochs, CommitExit(e) PROVE CoverInv'
  <2>1. /\ outReader[e] = "dead" /\ outReader'[e] = "durable"
        /\ \A d \in Epochs : d # e => outReader'[d] = outReader[d]
        /\ buffered'[e] = {} /\ UNCHANGED <<last, unflushed>> /\ Commit(e, buffered[e], "complete", last[e])
    BY <1>0, <1>5 DEF CommitExit, LastBatch
  <2>2. buffered[e] \in SUBSET (1..MaxSeq) /\ last[e] \in Seq0  BY <1>0 DEF Seq0
  <2>3. sinkFaults' = 0 => sinkFaults = 0  BY <2>1, <2>2, Committed DEF Wrote
  <2>4. ASSUME sinkFaults' = 0, CoverOf(e) PROVE CoverOf(e)'
    <3>1. /\ head' = [epoch |-> e, state |-> "complete", through |-> last[e]]
          /\ \A s \in buffered[e] : Covered(s)'
          /\ \A s \in 1..MaxSeq : Covered(s) => Covered(s)'
          /\ \A b \in 1..MaxSeq : segments'[b].end = segments[b].end \/ segments'[b].end \in buffered[e]
      BY <2>1, <2>2, <2>4, CommitCovers DEF CoverOf
    <3>2. \A s \in 1..last[e] : s \in 1..MaxSeq  BY <1>0
    <3> QED  BY <2>1, <3>1, <2>4, <3>2, <1>0 DEF CoverOf
  <2> QED  BY <1>2, <2>1, <2>3, <2>4
<1>6. ASSUME NEW e \in Epochs, ReaderDies(e) \/ UnhostEpoch(e) PROVE CoverInv'
  <2>1. /\ outReader[e] # "none" /\ outReader'[e] # "none"
        /\ outReader[e] \in {"durable", "done"} => outReader'[e] \in {"durable", "done"}
        /\ \A d \in Epochs : d # e => outReader'[d] = outReader[d]
        /\ UNCHANGED <<last, buffered, segments, head, sinkFaults, unflushed>>
    BY <1>0, <1>6 DEF ReaderDies, UnhostEpoch
  <2>2. CoverOf(e) => CoverOf(e)'  BY <2>1 DEF CoverOf, Covered
  <2> QED  BY <1>2, <2>1, <2>2
<1>7. ASSUME UNCHANGED <<outReader, last, buffered, segments, head, sinkFaults, unflushed>> PROVE CoverInv'
  BY <1>7 DEF CoverInv, CoverOf, Covered, Sole
<1>8. ASSUME NEW s \in Seq0, Attach(s) \/ Acknowledge(s) PROVE CoverInv'  BY <1>7, <1>8 DEF Attach, Acknowledge
<1>9. ASSUME TickOutput \/ TickExit PROVE CoverInv'  BY <1>7, <1>9 DEF TickOutput, TickExit
<1> QED  BY <1>1, <1>3, <1>4, <1>5, <1>6, <1>8, <1>9 DEF OutputNext

\* Attaching replays all that follows the point asked for.
LEMMA AttachReplays ==
    ASSUME OutputTypeOK, NEW s \in Seq0, Attach(s), conn'.at = "open"
    PROVE  /\ HostAlive /\ hosted \in Epochs /\ s <= last[hosted]
           /\ conn'.epoch = hosted /\ conn'.after = s /\ got' = Replay(hosted, s)
           /\ conn'.sent = SetMax({IF conn.at = "open" THEN conn.sent ELSE 0} \cup Replay(hosted, s))
           /\ conn'.crossed = (conn.at = "open" /\ (conn.crossed \/ conn.epoch # hosted))
           /\ got' = (s + 1)..last[hosted]
<1>1. HostAlive /\ ~AheadOfJournal(s) /\ ~HistoryGap(s)  BY DEF Attach, NoConn
<1>2. hosted \in Epochs  BY <1>1 DEF HostAlive, OutputTypeOK, Epochs
<1>3. last[hosted] \in Nat /\ first[hosted] \in Nat \ {0} /\ s \in Nat  BY <1>2, OutputNumbers
<1>4. s <= last[hosted] /\ first[hosted] <= s + 1  BY <1>1, <1>3 DEF AheadOfJournal, HistoryGap
<1>5. Replay(hosted, s) = (s + 1)..last[hosted]  BY <1>3, <1>4 DEF Replay
<1>6. got' = Replay(hosted, s)  BY <1>1 DEF Attach
<1> QED  BY <1>1, <1>2, <1>4, <1>5, <1>6 DEF Attach

\* Every step keeps what is known of the connection.
LEMMA ConnKept ==
    ASSUME OutputTypeOK, EpochInv, ConnInv, OnlyEvictedIsMissing, ExitIsFinal, OutputNext
    PROVE  ConnInv' /\ OnlyEvictedIsMissing' /\ ExitIsFinal'
<1> USE DEF journalVars, transcriptVars, connVars
<1>0. /\ \A e \in Epochs : e # 0 /\ last[e] \in Nat /\ first[e] \in Nat /\ last[e] \in Seq0
      /\ conn.sent \in Seq0 /\ conn.after \in Seq0 /\ \A s \in Seq0 : s \in Nat
      /\ hosted # 0 => hosted \in Epochs
  BY OutputNumbers
<1>1. ASSUME UNCHANGED connVars PROVE ConnInv' /\ OnlyEvictedIsMissing' /\ ExitIsFinal'
  <2>1. UNCHANGED <<first, last>> \/ \E e \in Epochs : Prints(e)  BY Printing
  <2>2. \A e \in Epochs : last[e] <= last'[e] /\ first[e] <= first'[e]  BY <1>0, <2>1 DEF Prints
  <2>3. conn.at # "closed" /\ hosted' = conn.epoch => hosted = conn.epoch
    <3>1. CASE \E e \in Epochs : LaunchEpoch(e)  BY <3>1 DEF LaunchEpoch, ConnInv
    <3>2. CASE hosted' \in {0, hosted}  BY <1>0, <3>2 DEF ConnInv
    <3> QED  BY <3>1, <3>2, Reading
  <2>4. ConnInv'
    <3>1. conn.at # "closed" /\ hosted' = conn.epoch /\ ~conn.crossed => conn.sent <= last'[conn.epoch]
      <4> SUFFICES ASSUME conn.at # "closed", hosted' = conn.epoch, ~conn.crossed
                   PROVE  conn.sent <= last'[conn.epoch]
        OBVIOUS
      <4>1. conn.epoch \in Epochs /\ conn.sent <= last[conn.epoch]  BY <2>3 DEF ConnInv
      <4>2. last'[conn.epoch] \in Nat  BY <1>0, <2>1, <4>1 DEF Prints
      <4> QED  BY <1>0, <2>2, <4>1, <4>2
    <3> QED  BY <1>1, Reading, <3>1, <2>3 DEF ConnInv
  <2>5. OnlyEvictedIsMissing'
    <3> SUFFICES ASSUME conn.at # "closed", hosted' = conn.epoch, ~conn.crossed,
                        NEW s \in (conn.after + 1)..conn.sent
                 PROVE  s \in got \/ s < first'[conn.epoch]
      BY <1>1 DEF OnlyEvictedIsMissing
    <3>1. conn.epoch \in Epochs  BY DEF ConnInv
    <3>2. s \in got \/ s < first[conn.epoch]  BY <2>3 DEF OnlyEvictedIsMissing
    <3>3. first'[conn.epoch] \in Int  BY <3>1, OutputTypesKept DEF OutputTypeOK
    <3>4. s \in Int  BY <1>0
    <3> QED  BY <1>0, <2>2, <3>1, <3>2, <3>3, <3>4
  <2>6. ExitIsFinal'
    <3> SUFFICES ASSUME conn.at = "exited", conn.epoch = hosted' PROVE conn.final = last'[conn.epoch]
      BY <1>1 DEF ExitIsFinal
    <3> QED  BY <2>1, <2>3 DEF ConnInv, ExitIsFinal, Prints
  <2> QED  BY <2>4, <2>5, <2>6
<1>2. ASSUME conn' = NoConn PROVE ConnInv' /\ OnlyEvictedIsMissing' /\ ExitIsFinal'
  BY <1>2 DEF NoConn, ConnInv, OnlyEvictedIsMissing, ExitIsFinal
<1>3. ASSUME NEW s \in Seq0, Attach(s) PROVE ConnInv' /\ OnlyEvictedIsMissing' /\ ExitIsFinal'
  <2>1. CASE conn'.at = "open"
    <3>1. /\ HostAlive /\ hosted \in Epochs /\ s <= last[hosted]
          /\ conn'.epoch = hosted /\ conn'.after = s /\ got' = Replay(hosted, s)
          /\ conn'.sent = SetMax({IF conn.at = "open" THEN conn.sent ELSE 0} \cup Replay(hosted, s))
          /\ conn'.crossed = (conn.at = "open" /\ (conn.crossed \/ conn.epoch # hosted))
          /\ got' = (s + 1)..last[hosted]
      BY <1>3, <2>1, AttachReplays
    <3>2. UNCHANGED <<first, last, outReader, hosted>>  BY <1>3 DEF Attach
    <3>3. ~conn'.crossed => conn'.sent <= last[hosted]
      <4> SUFFICES ASSUME ~conn'.crossed PROVE conn'.sent <= last[hosted]  OBVIOUS
      <4> DEFINE base == IF conn.at = "open" THEN conn.sent ELSE 0
      <4>1. base \in Seq0 /\ base <= last[hosted]
        <5>1. CASE conn.at = "open"
          <6>1. hosted = conn.epoch /\ ~conn.crossed  BY <3>1, <5>1
          <6> QED  BY <1>0, <5>1, <6>1 DEF ConnInv
        <5>2. CASE conn.at # "open"  BY <3>1, <5>2, OutputNumbers
        <5> QED  BY <5>1, <5>2
      <4> HIDE DEF base
      <4>2. SetMax({base} \cup Replay(hosted, s)) <= last[hosted]  BY <3>1, <4>1, Replayed
      <4> QED  BY <3>1, <4>2 DEF base
    <3>4. ConnInv'  BY <2>1, <3>1, <3>2, <3>3 DEF ConnInv, HostAlive
    <3>5. OnlyEvictedIsMissing'
      <4> SUFFICES ASSUME ~conn'.crossed, NEW n \in (s + 1)..conn'.sent PROVE n \in got'
        BY <3>1 DEF OnlyEvictedIsMissing
      <4>1. conn'.sent \in Nat  BY <1>0, OutputTypesKept DEF OutputTypeOK
      <4> QED  BY <1>0, <3>1, <3>3, <4>1
    <3> QED  BY <2>1, <3>4, <3>5 DEF ExitIsFinal
  <2>2. CASE conn'.at # "open"  BY <1>2, <1>3, <2>2 DEF Attach
  <2> QED  BY <2>1, <2>2
<1>4. ASSUME NEW s \in Seq0, Acknowledge(s) PROVE ConnInv' /\ OnlyEvictedIsMissing' /\ ExitIsFinal'
  BY <1>2, <1>4 DEF Acknowledge
<1>5. ASSUME TickOutput PROVE ConnInv' /\ OnlyEvictedIsMissing' /\ ExitIsFinal'
  <2> DEFINE fresh == IF hosted = 0 THEN {} ELSE Replay(hosted, conn.sent)
  <2>1. /\ conn.at = "open" /\ conn'.at = "tick" /\ conn'.sent = SetMax({conn.sent} \cup fresh)
        /\ conn'.epoch = conn.epoch /\ conn'.after = conn.after /\ conn'.crossed = conn.crossed
        /\ got' = IF hosted = conn.epoch THEN got \cup fresh ELSE got
        /\ UNCHANGED <<first, last, outReader, hosted>>
    BY <1>5 DEF TickOutput, OutputTypeOK
  <2>2. ASSUME hosted = conn.epoch
        PROVE  /\ hosted \in Epochs /\ fresh = Replay(hosted, conn.sent)
               /\ conn.sent <= last[hosted] => conn'.sent <= last[hosted]
               /\ conn'.sent = conn.sent \/ conn'.sent \in fresh
    <3>1. hosted \in Epochs /\ fresh = Replay(hosted, conn.sent)  BY <1>0, <2>1, <2>2 DEF ConnInv
    <3> HIDE DEF fresh
    <3> QED  BY <1>0, <2>1, <3>1, Replayed
  <2>3. ConnInv'  BY <2>1, <2>2 DEF ConnInv
  <2>4. OnlyEvictedIsMissing'
    <3> SUFFICES ASSUME hosted = conn.epoch, ~conn.crossed, NEW n \in (conn.after + 1)..conn'.sent
                 PROVE  n \in got' \/ n < first[hosted]
      BY <2>1 DEF OnlyEvictedIsMissing
    <3>1. conn'.sent \in Nat /\ conn.sent <= last[hosted]  BY <1>0, <2>1, OutputTypesKept DEF OutputTypeOK, ConnInv
    <3>2. n \in Nat /\ n <= last[hosted]  BY <1>0, <2>2, <3>1
    <3>3. CASE n <= conn.sent
      <4>1. n \in (conn.after + 1)..conn.sent  BY <1>0, <3>2, <3>3
      <4>2. n \in got \/ n < first[conn.epoch]  BY <2>1, <4>1 DEF OnlyEvictedIsMissing
      <4> QED  BY <2>1, <4>2
    <3>4. CASE n > conn.sent /\ n >= first[hosted]
      <4>1. n \in Replay(hosted, conn.sent)  BY <1>0, <2>2, <3>2, <3>4 DEF Replay
      <4> QED  BY <2>1, <2>2, <4>1
    <3> QED  BY <1>0, <2>2, <3>2, <3>3, <3>4
  <2> QED  BY <2>1, <2>3, <2>4 DEF ExitIsFinal
<1>6. ASSUME TickExit PROVE ConnInv' /\ OnlyEvictedIsMissing' /\ ExitIsFinal'
  <2>1. /\ conn.at = "tick" /\ UNCHANGED <<first, last, outReader, hosted, got>>
        /\ conn'.epoch = conn.epoch /\ conn'.after = conn.after /\ conn'.crossed = conn.crossed
        /\ conn'.sent = conn.sent /\ conn'.at \in {"open", "exited"}
        /\ conn'.at = "exited" => SessionOver /\ conn'.final = last[hosted]
    BY <1>6 DEF TickExit, OutputTypeOK
  <2>2. SessionOver => outReader[hosted] \in {"dead", "durable", "done"}
    BY <1>0 DEF SessionOver, HostAlive, EpochInv, OutputTypeOK
  <2> QED  BY <2>1, <2>2 DEF ConnInv, OnlyEvictedIsMissing, ExitIsFinal
<1>7. ASSUME NEW e \in Epochs,
             LaunchEpoch(e) \/ ReadChunk(e) \/ ReadRest(e) \/ ReaderDies(e) \/ CommitExit(e) \/ UnhostEpoch(e)
      PROVE  UNCHANGED connVars
  BY <1>7 DEF LaunchEpoch, ReadChunk, ReadRest, ReaderDies, CommitExit, UnhostEpoch
<1> QED  BY <1>1, <1>3, <1>4, <1>5, <1>6, <1>7 DEF OutputNext

\* The invariant is inductive.
THEOREM OutputInductive == OutputSpec => []OutputInv
<1>1. OutputInit => OutputInv
  <2> SUFFICES ASSUME OutputInit PROVE OutputInv  OBVIOUS
  <2>1. OutputTypeOK  BY OutputBounds, Disconnected DEF OutputInit, OutputTypeOK, NoSegment, Seq0
  <2>2. EpochInv /\ CoverInv  BY DEF OutputInit, EpochInv, CoverInv, Sole, NoSegment
  <2> QED  BY <2>1, <2>2 DEF OutputInv, OutputInit, NoConn, ConnInv, OnlyEvictedIsMissing, ExitIsFinal
<1>2. OutputInv /\ [OutputNext]_outputVars => OutputInv'
  <2> SUFFICES ASSUME OutputInv, [OutputNext]_outputVars PROVE OutputInv'  OBVIOUS
  <2>1. CASE OutputNext  BY <2>1, OutputTypesKept, EpochsKept, CoverKept, ConnKept DEF OutputInv
  <2>2. CASE UNCHANGED outputVars
    BY <2>2 DEF outputVars, journalVars, transcriptVars, connVars, OutputInv, OutputTypeOK, EpochInv, CoverInv, CoverOf,
      Covered, Sole, ConnInv, OnlyEvictedIsMissing, ExitIsFinal
  <2> QED  BY <2>1, <2>2
<1> QED  BY <1>1, <1>2, PTL DEF OutputSpec

\* What is covered of the only process is what its transcript calls complete.
LEMMA CoveredIsComplete ==
    ASSUME OutputTypeOK, EpochInv, CoverInv
    PROVE  TranscriptIsComplete
<1> DEFINE launched == {e \in Epochs : outReader[e] # "none"}
<1> SUFFICES ASSUME head.state = "complete", sinkFaults = 0, Cardinality(launched) = 1,
                    NEW s \in 1..head.through
             PROVE  \/ \E b \in 1..s : segments[b].end >= s
                    \/ head.epoch \in unflushed /\ s = head.through
  BY DEF TranscriptIsComplete
<1>1. IsFiniteSet(launched)
  <2>1. IsFiniteSet(1..MaxOutputEpoch)  BY OutputBounds, FS_Interval
  <2> QED  BY <2>1, FS_Subset DEF Epochs
<1>2. PICK e : launched = {e}  BY <1>1, FS_Singleton
<1>3. e \in Epochs /\ Sole(e)  BY <1>2 DEF Sole
<1>4. CoverOf(e)  BY <1>3 DEF CoverInv
<1> QED  BY <1>4 DEF CoverOf, Covered

\* Nothing is lost silently between the journal, the transcript and a connection.
THEOREM NothingLostSilently == OutputSpec => []OutputSafety
<1>1. OutputInv => OutputSafety  BY CoveredIsComplete DEF OutputInv, OutputSafety
<1> QED  BY <1>1, OutputInductive, PTL

\* Attaching sends all of what follows the point asked for, or closes.
THEOREM AttachingLeavesNoGap == OutputSpec => AttachLeavesNoGap
<1>1. OutputInv /\ [OutputNext]_outputVars =>
         [\A s \in Seq0 : Attach(s) /\ conn'.at = "open" => got' = (s + 1)..last[hosted]]_outputVars
  BY AttachReplays DEF OutputInv
<1> QED  BY <1>1, OutputInductive, PTL DEF AttachLeavesNoGap, OutputSpec

----
(* Sessions and their processes.                                           *)

USE SessionRunsAssumption, SessionRowsAssumption

\* The run being launched: what its process, its binding and the handle are at each place.
LaunchInv ==
    /\ launcher.pc = "idle" => launcher.run = None
    /\ launcher.pc # "idle" => /\ launcher.run \in SessionRuns /\ runState[launcher.run] # "unborn"
                               /\ reader[launcher.run] = "none" \/ launcher.pc = "launched"
    /\ launcher.pc \in {"launch", "prompt", "spawn"} =>
          process[launcher.run] = "none" /\ prompted[launcher.run] = None
    /\ launcher.pc = "prompt" => binding[launcher.run] = Target \/ registry[Target] = None
    /\ launcher.pc = "spawn" => registry[Target] = None
    /\ launcher.pc \in {"bind", "stdin", "launched"} => prompted[launcher.run] = launcher.run
    /\ launcher.pc \in {"stdin", "launched"} =>
          binding[launcher.run] # None \/ Doomed(launcher.run) \/ launcher.run \in displaced

\* A run keeps to the row it was dispatched to, and so does the process it was prompted in.
RunInv ==
    \A r \in SessionRuns :
        /\ runState[r] = "unborn" => process[r] = "none" /\ reader[r] = "none" /\ prompted[r] = None
        /\ runState[r] # "unborn" => rowOf[r] \in SessionRows
        /\ binding[r] # None => binding[r] = rowOf[r]
        /\ binding[r] # None => runState[r] # "unborn"
        /\ prompted[r] # None => process[prompted[r]] # "none" /\ rowOf[prompted[r]] = rowOf[r]

\* The registry holds processes, each under the handle it was launched into.
RegistryInv ==
    \A h \in SessionRows :
        registry[h] # None => process[registry[h]] # "none" /\ rowOf[registry[h]] = h

\* What a stop has looked up.
StopInv ==
    /\ stopper.pc # "idle" => stopper.handle \in SessionRows
    /\ stopper.pc = "wait" => stopper.of # None
    /\ stopper.of # None => process[stopper.of] # "none"

SessionInv ==
    /\ SessionTypeOK /\ LaunchInv /\ RunInv /\ RegistryInv /\ StopInv
    /\ NoStrayProcess /\ UnboundIsStopped /\ ConfirmedIsGone /\ ExitIsReported

\* What remove_session_and_bindings does.
LEMMA Unregistered ==
    ASSUME SessionTypeOK, NEW h \in SessionRows, Unregister(h)
    PROVE  /\ registry' \in [SessionRows -> Process] /\ binding' \in [SessionRuns -> Handle]
           /\ \A g \in SessionRows : registry'[g] = IF g = h THEN None ELSE registry[g]
           /\ \A q \in SessionRuns : binding'[q] = IF binding[q] = h THEN None ELSE binding[q]
  BY DEF SessionTypeOK, Unregister, Handle, Process, None

\* The run that is being launched, and its row.
LEMMA LaunchNames ==
    ASSUME SessionTypeOK, LaunchInv, RunInv, launcher.pc # "idle"
    PROVE  /\ Launching \in SessionRuns /\ Target \in SessionRows /\ Target = rowOf[Launching]
           /\ Launching # None /\ Target # None /\ registry[Target] \in Process
  BY DEF SessionTypeOK, LaunchInv, RunInv, Launching, Target, None

\* A step that takes a session out of the registry, and what becomes of its process: it is
\* killed, it has ended, or the stop of another one displaces it.
Removes(h) ==
    /\ h \in SessionRows /\ Unregister(h) /\ UNCHANGED <<rowOf, process>>
    /\ killed \subseteq killed' /\ displaced \subseteq displaced'
    /\ registry[h] # None =>
          process[registry[h]] = "gone" \/ registry[h] \in killed' \/ registry[h] \in displaced'

\* The steps that do.
LEMMA Removers ==
    ASSUME SessionTypeOK, LaunchInv, RunInv, StopInv, ConfirmedIsGone
    PROVE  /\ \A h \in SessionRows : CloseTerminal(h) => Removes(h)
           /\ \A i \in SessionRuns : ReaderUnregisters(i) => Removes(rowOf[i])
           /\ StopDrops => Removes(stopper.handle)
           /\ LaunchFresh => Removes(Target)
           /\ StdinFails => Removes(Target)
<1>1. ASSUME NEW h \in SessionRows, CloseTerminal(h) PROVE Removes(h)
  BY <1>1 DEF CloseTerminal, KillSession, Removes, orchestratorVars, sessionObservers
<1>2. ASSUME NEW i \in SessionRuns, ReaderUnregisters(i) PROVE Removes(rowOf[i])
  BY <1>2 DEF ReaderUnregisters, KillSession, Removes, orchestratorVars, sessionObservers, RunInv
<1>3. ASSUME StopDrops PROVE Removes(stopper.handle)
  BY <1>3 DEF StopDrops, StopAt, StopInv, ConfirmedIsGone, Removes, orchestratorVars
<1>4. ASSUME LaunchFresh PROVE Removes(Target)
  BY <1>4, LaunchNames DEF LaunchFresh, LaunchAt, KillSession, Removes, orchestratorVars, sessionObservers
<1>5. ASSUME StdinFails PROVE Removes(Target)
  BY <1>5, LaunchNames DEF StdinFails, DispatchFailed, LaunchAt, Removes, sessionObservers
<1> QED  BY <1>1, <1>2, <1>3, <1>4, <1>5

\* Nothing that such a step takes out goes on unnoticed.
LEMMA Removal ==
    ASSUME SessionTypeOK, NoStrayProcess, NEW h, Removes(h)
    PROVE  /\ NoStrayProcess'
           /\ \A q \in Process : Doomed(q) => Doomed(q)'
           /\ \A q \in SessionRuns : rowOf[q] = h => Doomed(q)' \/ q \in displaced'
           /\ \A g \in SessionRows : registry'[g] = IF g = h THEN None ELSE registry[g]
           /\ \A q \in SessionRuns : binding'[q] = IF binding[q] = h THEN None ELSE binding[q]
<1>1. \A q \in Process : Doomed(q) => Doomed(q)'  BY DEF Removes, Doomed
<1>2. \A q \in SessionRuns : rowOf[q] = h => Doomed(q)' \/ q \in displaced'
  <2> SUFFICES ASSUME NEW q \in SessionRuns, rowOf[q] = h, registry[h] = q
               PROVE  Doomed(q)' \/ q \in displaced'
    BY <1>1 DEF NoStrayProcess, Removes, Process
  <2> QED  BY DEF Removes, Doomed, None
<1>3. NoStrayProcess'
  <2> SUFFICES ASSUME NEW q \in SessionRuns, rowOf[q] # h, registry[rowOf[q]] = q
               PROVE  Doomed(q)' \/ registry'[rowOf[q]] = q \/ q \in displaced'
    BY <1>1, <1>2 DEF NoStrayProcess, Removes, Process
  <2> QED  BY DEF Removes, Unregister, SessionTypeOK
<1> QED  BY Unregistered, <1>1, <1>2, <1>3 DEF Removes

\* Steps that leave the reports alone.
LEMMA ReportStays ==
    ASSUME ExitIsReported, reports' = reports,
           \A r \in SessionRuns : reader'[r] \in {"unregister", "done"} /\ runState'[r] = "running" =>
               reader[r] \in {"unregister", "done"} /\ runState[r] = "running"
    PROVE  ExitIsReported'
  BY DEF ExitIsReported

\* Every step keeps the types.
LEMMA SessionTypesKept ==
    ASSUME SessionTypeOK, LaunchInv, RunInv, RegistryInv, StopInv, SessionNext
    PROVE  SessionTypeOK'
<1>1. ASSUME NEW r \in SessionRuns, NEW h \in SessionRows, DispatchRun(r, h) PROVE SessionTypeOK'
  BY <1>1 DEF DispatchRun, registryVars, flags, sessionObservers, SessionTypeOK, Handle, Process, Active
<1>2. ASSUME AttachRun PROVE SessionTypeOK'
  BY <1>2 DEF AttachRun, Launching, Target, Go, orchestratorVars, flags, sessionObservers, SessionTypeOK
<1>3. ASSUME PromptSession PROVE SessionTypeOK'
  <2>1. Launching \in SessionRuns /\ registry[Target] \in Process  BY <1>3, LaunchNames DEF PromptSession, LaunchAt
  <2>2. [run |-> Launching, kind |-> "up"] \in Report  BY <2>1 DEF Report
  <2> QED  BY <1>3, <2>1, <2>2, AppendProperties DEF PromptSession, SessionTypeOK, orchestratorVars, registryVars,
      flags, Idle, Process
<1>4. ASSUME PromptFails PROVE SessionTypeOK'
  BY <1>4 DEF PromptFails, DispatchFailed, Idle, flags, sessionObservers, SessionTypeOK, Handle, Process
<1>5. ASSUME LaunchFresh PROVE SessionTypeOK'
  <2>1. Target \in SessionRows /\ KillSession(Target)  BY <1>5, LaunchNames DEF LaunchFresh, LaunchAt
  <2>2. registry' \in [SessionRows -> Process] /\ binding' \in [SessionRuns -> Handle]
    BY <2>1, Unregistered DEF KillSession
  <2>3. killed' \subseteq SessionRuns  BY <2>1 DEF KillSession, SessionTypeOK, Process
  <2>4. launcher' \in [pc : {"idle", "launch", "attach", "prompt", "spawn",
                               "bind", "stdin", "launched"}, run : Process, attach : BOOLEAN]
    BY <1>5 DEF LaunchFresh, Go, SessionTypeOK
  <2> QED  BY <1>5, <2>2, <2>3, <2>4 DEF LaunchFresh, SessionTypeOK, orchestratorVars, flags, sessionObservers
<1>6. ASSUME SpawnProcess PROVE SessionTypeOK'
  <2>1. Launching \in SessionRuns /\ Target \in SessionRows  BY <1>6, LaunchNames DEF SpawnProcess, LaunchAt
  <2>2. /\ process' \in [SessionRuns -> {"none", "live", "orphans", "gone"}] /\ alive' \subseteq SessionRuns
        /\ prompted' \in [SessionRuns -> Process] /\ registry' \in [SessionRows -> Process]
    BY <1>6, <2>1 DEF SpawnProcess, SessionTypeOK, Process
  <2>3. launcher' \in [pc : {"idle", "launch", "attach", "prompt", "spawn",
                               "bind", "stdin", "launched"}, run : Process, attach : BOOLEAN]
    BY <1>6 DEF SpawnProcess, Go, SessionTypeOK
  <2> QED  BY <1>6, <2>2, <2>3 DEF SpawnProcess, SessionTypeOK, orchestratorVars
<1>7. ASSUME SpawnFails PROVE SessionTypeOK'
  BY <1>7 DEF SpawnFails, DispatchFailed, Idle, registryVars, flags, sessionObservers, SessionTypeOK, Process
<1>8. ASSUME BindRun PROVE SessionTypeOK'
  BY <1>8 DEF BindRun, Launching, Target, Go, orchestratorVars, flags, sessionObservers, SessionTypeOK
<1>9. ASSUME StdinFails PROVE SessionTypeOK'
  <2>1. Launching \in SessionRuns /\ Target \in SessionRows /\ registry[Target] \in Process
    BY <1>9, LaunchNames DEF StdinFails, LaunchAt
  <2>2. registry' \in [SessionRows -> Process] /\ binding' \in [SessionRuns -> Handle]
    BY <1>9, <2>1, Unregistered DEF StdinFails
  <2>3. killed' \subseteq SessionRuns /\ alive' \subseteq SessionRuns
    BY <1>9, <2>1 DEF StdinFails, SessionTypeOK, Process
  <2>4. launcher' \in [pc : {"idle", "launch", "attach", "prompt", "spawn",
                               "bind", "stdin", "launched"}, run : Process, attach : BOOLEAN]
    BY <1>9 DEF StdinFails, DispatchFailed, Idle, Process
  <2>5. /\ sessionRow' \in [SessionRows -> {"none", "usable", "dead"}]
        /\ runState' \in [SessionRuns -> {"unborn", "ended"} \cup Active] /\ rowOf' = rowOf
    BY <1>9 DEF StdinFails, DispatchFailed, SessionTypeOK
  <2> QED  BY <1>9, <2>2, <2>3, <2>4, <2>5 DEF StdinFails, SessionTypeOK, sessionObservers
<1>10. ASSUME StartThreads PROVE SessionTypeOK'
  BY <1>10 DEF StartThreads, Go, orchestratorVars, registryVars, flags, sessionObservers, SessionTypeOK
<1>11. ASSUME ReportLaunched PROVE SessionTypeOK'
  <2>1. reports' \in Seq(Report)
    BY <1>11, LaunchNames, AppendProperties DEF ReportLaunched, SessionTypeOK, LaunchAt, Report
  <2> QED  BY <1>11, <2>1 DEF ReportLaunched, SessionTypeOK, orchestratorVars, registryVars, flags, sessionObservers,
      Idle, Process
<1>12. ASSUME NEW i \in SessionRuns, ProcessEnds(i) PROVE SessionTypeOK'
  BY <1>12 DEF ProcessEnds, orchestratorVars, registryVars, flags, sessionObservers, SessionTypeOK
<1>13. ASSUME NEW i \in SessionRuns, ReadEof(i) PROVE SessionTypeOK'
  BY <1>13 DEF ReadEof, orchestratorVars, registryVars, sessionObservers, SessionTypeOK, Report
<1>14. ASSUME NEW i \in SessionRuns, ReaderUnregisters(i) PROVE SessionTypeOK'
  <2>1. rowOf[i] \in SessionRows /\ KillSession(rowOf[i])  BY <1>14 DEF ReaderUnregisters, RunInv
  <2>2. registry' \in [SessionRows -> Process] /\ binding' \in [SessionRuns -> Handle]
    BY <2>1, Unregistered DEF KillSession
  <2>3. killed' \subseteq SessionRuns  BY <2>1 DEF KillSession, SessionTypeOK, Process
  <2>4. reader' \in [SessionRuns -> {"none", "read", "unregister", "done"}]
    BY <1>14 DEF ReaderUnregisters, SessionTypeOK
  <2> QED  BY <1>14, <2>2, <2>3, <2>4 DEF ReaderUnregisters, SessionTypeOK, orchestratorVars, flags, sessionObservers
<1>15. ASSUME NEW i \in SessionRuns, WaiterConfirms(i) PROVE SessionTypeOK'
  BY <1>15 DEF WaiterConfirms, orchestratorVars, registryVars, sessionObservers, SessionTypeOK
<1>16. ASSUME PumpReport PROVE SessionTypeOK'
  BY <1>16, HeadTailProperties DEF PumpReport, SessionTypeOK, registryVars, flags, sessionObservers, Active
<1>17. ASSUME NEW r \in SessionRuns, SettleRun(r) PROVE SessionTypeOK'
  BY <1>17 DEF SettleRun, registryVars, flags, sessionObservers, SessionTypeOK
<1>18. ASSUME NEW r \in SessionRuns, StopRun(r) PROVE SessionTypeOK'
  <2>1. binding[r] \in SessionRows /\ registry[binding[r]] \in Process  BY <1>18 DEF StopRun, SessionTypeOK, Handle
  <2>2. killed' \subseteq SessionRuns  BY <1>18, <2>1 DEF StopRun, SessionTypeOK, Process
  <2>3. stopper' \in [pc : {"idle", "wait", "drop"}, run : Process, of : Process, handle : Handle]
    BY <1>18, <2>1 DEF StopRun, Process, Handle
  <2> QED  BY <1>18, <2>2, <2>3 DEF StopRun, SessionTypeOK, orchestratorVars, registryVars, flags, sessionObservers
<1>19. ASSUME StopConfirms PROVE SessionTypeOK'
  BY <1>19 DEF StopConfirms, orchestratorVars, registryVars, flags, sessionObservers, SessionTypeOK
<1>20. ASSUME StopTimesOut PROVE SessionTypeOK'
  BY <1>20 DEF StopTimesOut, NoStop, orchestratorVars, registryVars, flags, sessionObservers, SessionTypeOK, Handle,
    Process
<1>21. ASSUME StopDrops PROVE SessionTypeOK'
  <2>1. stopper.handle \in SessionRows /\ registry[stopper.handle] \in Process
    BY <1>21 DEF StopDrops, StopAt, StopInv, SessionTypeOK
  <2>2. displaced' \subseteq SessionRuns  BY <1>21, <2>1 DEF StopDrops, SessionTypeOK, Process
  <2> QED  BY <1>21, <2>1, Unregistered, <2>2 DEF StopDrops, SessionTypeOK, orchestratorVars, flags, NoStop, Process,
      Handle
<1>22. ASSUME NEW h \in SessionRows, CloseTerminal(h) PROVE SessionTypeOK'
  BY <1>22 DEF CloseTerminal, KillSession, Unregister, orchestratorVars, flags, sessionObservers, SessionTypeOK, Handle,
    Process
<1> QED  BY <1>1, <1>2, <1>3, <1>4, <1>5, <1>6, <1>7, <1>8, <1>9, <1>10, <1>11, <1>12, <1>13, <1>14, <1>15,
     <1>16, <1>17, <1>18, <1>19, <1>20, <1>21, <1>22
     DEF SessionNext, Launch, Reader, Stop

\* The dispatch thread goes from place to place.
LEMMA LaunchKept ==
    ASSUME SessionTypeOK, LaunchInv, RunInv, RegistryInv, StopInv, NoStrayProcess, ConfirmedIsGone, SessionNext
    PROVE  LaunchInv'
<1>1. ASSUME NEW r \in SessionRuns, NEW h \in SessionRows, DispatchRun(r, h) PROVE LaunchInv'
  BY <1>1 DEF LaunchInv, DispatchRun, NextRun, RunInv, SessionTypeOK, sessionObservers
<1>2. ASSUME AttachRun PROVE LaunchInv'
  BY <1>2 DEF AttachRun, LaunchAt, Launching, Target, Go, orchestratorVars, sessionObservers, SessionTypeOK, LaunchInv,
    Target
<1>3. ASSUME PromptSession PROVE LaunchInv'
  <2>1. launcher' = Idle  BY <1>3 DEF PromptSession
  <2> QED  BY <2>1 DEF LaunchInv, Idle
<1>4. ASSUME PromptFails PROVE LaunchInv'  BY <1>4 DEF PromptFails, DispatchFailed, Idle, LaunchInv
<1>5. ASSUME LaunchFresh PROVE LaunchInv'
  BY <1>5 DEF LaunchFresh, KillSession, Unregister, LaunchAt, Target, Go, orchestratorVars, sessionObservers,
    SessionTypeOK, LaunchInv, RunInv, Target
<1>6. ASSUME SpawnProcess PROVE LaunchInv'
  BY <1>6 DEF SpawnProcess, LaunchAt, Launching, Go, orchestratorVars, SessionTypeOK, LaunchInv
<1>7. ASSUME SpawnFails PROVE LaunchInv'  BY <1>7 DEF SpawnFails, DispatchFailed, Idle, LaunchInv
<1>8. ASSUME BindRun PROVE LaunchInv'
  BY <1>8 DEF BindRun, LaunchAt, Launching, Target, Go, orchestratorVars, sessionObservers, SessionTypeOK, None,
    LaunchInv, RunInv, Target
<1>9. ASSUME StdinFails PROVE LaunchInv'  BY <1>9 DEF StdinFails, DispatchFailed, Idle, LaunchInv
<1>10. ASSUME StartThreads PROVE LaunchInv'
  BY <1>10 DEF StartThreads, LaunchAt, Go, orchestratorVars, registryVars, sessionObservers, LaunchInv, Doomed
<1>11. ASSUME ReportLaunched PROVE LaunchInv'  BY <1>11 DEF ReportLaunched, Idle, LaunchInv
<1>12. ASSUME NEW i \in SessionRuns, ProcessEnds(i) PROVE LaunchInv'
  BY <1>12 DEF ProcessEnds, orchestratorVars, registryVars, sessionObservers, LaunchInv, Target, Doomed
<1>13. ASSUME NEW i \in SessionRuns, ReadEof(i) PROVE LaunchInv'
  BY <1>13 DEF ReadEof, orchestratorVars, registryVars, sessionObservers, LaunchInv, Target, Doomed
<1>14. ASSUME NEW i \in SessionRuns, ReaderUnregisters(i) PROVE LaunchInv'
  <2>1. Removes(rowOf[i]) /\ rowOf[i] \in SessionRows  BY <1>14, Removers DEF Removes
  <2>2. /\ \A q \in Process : Doomed(q) => Doomed(q)'
        /\ \A q \in SessionRuns : rowOf[q] = rowOf[i] => Doomed(q)' \/ q \in displaced'
        /\ \A g \in SessionRows : registry'[g] = IF g = rowOf[i] THEN None ELSE registry[g]
        /\ \A q \in SessionRuns : binding'[q] = IF binding[q] = rowOf[i] THEN None ELSE binding[q]
    BY <2>1, Removal
  <2>3. UNCHANGED <<launcher, runState, rowOf, process, prompted>> /\ displaced \subseteq displaced'
    BY <1>14, <2>1 DEF ReaderUnregisters, orchestratorVars, sessionObservers
  <2>4. launcher.pc # "idle" => /\ Launching \in SessionRuns /\ Target \in SessionRows /\ Target # None
                                /\ Target = rowOf[Launching] /\ Target' = Target
    BY <2>3, LaunchNames DEF Target, Launching
  <2>5. launcher.pc = "prompt" => binding'[Launching] = Target \/ registry'[Target] = None
    BY <2>2, <2>4 DEF LaunchInv, Launching
  <2>6. launcher.pc = "spawn" => registry'[Target] = None  BY <2>2, <2>4 DEF LaunchInv
  <2>7. launcher.pc \in {"stdin", "launched"} =>
           binding'[Launching] # None \/ Doomed(Launching)' \/ Launching \in displaced'
    BY <2>2, <2>3, <2>4 DEF LaunchInv, Launching, RunInv, Process
  <2>8. \A q \in SessionRuns : reader[q] = "none" => reader'[q] = "none"  BY <1>14 DEF ReaderUnregisters, SessionTypeOK
  <2> QED  BY <2>3, <2>4, <2>5, <2>6, <2>7, <2>8 DEF LaunchInv, Launching
<1>15. ASSUME NEW i \in SessionRuns, WaiterConfirms(i) PROVE LaunchInv'
  BY <1>15 DEF WaiterConfirms, orchestratorVars, registryVars, sessionObservers, LaunchInv, Target, Doomed
<1>16. ASSUME PumpReport PROVE LaunchInv'
  BY <1>16 DEF PumpReport, registryVars, sessionObservers, LaunchInv, Target, Doomed
<1>17. ASSUME NEW r \in SessionRuns, SettleRun(r) PROVE LaunchInv'
  BY <1>17 DEF SettleRun, registryVars, sessionObservers, LaunchInv, Target, Doomed
<1>18. ASSUME NEW r \in SessionRuns, StopRun(r) PROVE LaunchInv'
  BY <1>18 DEF StopRun, orchestratorVars, registryVars, sessionObservers, LaunchInv, Target, Doomed
<1>19. ASSUME StopConfirms PROVE LaunchInv'
  BY <1>19 DEF StopConfirms, orchestratorVars, registryVars, sessionObservers, LaunchInv, Target, Doomed
<1>20. ASSUME StopTimesOut PROVE LaunchInv'
  BY <1>20 DEF StopTimesOut, orchestratorVars, registryVars, sessionObservers, LaunchInv, Target, Doomed
<1>21. ASSUME StopDrops PROVE LaunchInv'
  <2>1. Removes(stopper.handle) /\ stopper.handle \in SessionRows  BY <1>21, Removers DEF Removes
  <2>2. /\ \A q \in Process : Doomed(q) => Doomed(q)'
        /\ \A q \in SessionRuns : rowOf[q] = stopper.handle => Doomed(q)' \/ q \in displaced'
        /\ \A g \in SessionRows : registry'[g] = IF g = stopper.handle THEN None ELSE registry[g]
        /\ \A q \in SessionRuns : binding'[q] = IF binding[q] = stopper.handle THEN None ELSE binding[q]
    BY <2>1, Removal
  <2>3. UNCHANGED <<launcher, runState, rowOf, process, prompted>> /\ displaced \subseteq displaced'
    BY <1>21, <2>1 DEF StopDrops, orchestratorVars
  <2>4. launcher.pc # "idle" => /\ Launching \in SessionRuns /\ Target \in SessionRows /\ Target # None
                                /\ Target = rowOf[Launching] /\ Target' = Target
    BY <2>3, LaunchNames DEF Target, Launching
  <2>5. launcher.pc = "prompt" => binding'[Launching] = Target \/ registry'[Target] = None
    BY <2>2, <2>4 DEF LaunchInv, Launching
  <2>6. launcher.pc = "spawn" => registry'[Target] = None  BY <2>2, <2>4 DEF LaunchInv
  <2>7. launcher.pc \in {"stdin", "launched"} =>
           binding'[Launching] # None \/ Doomed(Launching)' \/ Launching \in displaced'
    BY <2>2, <2>3, <2>4 DEF LaunchInv, Launching, RunInv, Process
  <2>8. \A q \in SessionRuns : reader[q] = "none" => reader'[q] = "none"  BY <1>21 DEF StopDrops, SessionTypeOK
  <2> QED  BY <2>3, <2>4, <2>5, <2>6, <2>7, <2>8 DEF LaunchInv, Launching
<1>22. ASSUME NEW h \in SessionRows, CloseTerminal(h) PROVE LaunchInv'
  <2>1. Removes(h) /\ h \in SessionRows  BY <1>22, Removers DEF Removes
  <2>2. /\ \A q \in Process : Doomed(q) => Doomed(q)'
        /\ \A q \in SessionRuns : rowOf[q] = h => Doomed(q)' \/ q \in displaced'
        /\ \A g \in SessionRows : registry'[g] = IF g = h THEN None ELSE registry[g]
        /\ \A q \in SessionRuns : binding'[q] = IF binding[q] = h THEN None ELSE binding[q]
    BY <2>1, Removal
  <2>3. UNCHANGED <<launcher, runState, rowOf, process, prompted>> /\ displaced \subseteq displaced'
    BY <1>22, <2>1 DEF CloseTerminal, orchestratorVars, sessionObservers
  <2>4. launcher.pc # "idle" => /\ Launching \in SessionRuns /\ Target \in SessionRows /\ Target # None
                                /\ Target = rowOf[Launching] /\ Target' = Target
    BY <2>3, LaunchNames DEF Target, Launching
  <2>5. launcher.pc = "prompt" => binding'[Launching] = Target \/ registry'[Target] = None
    BY <2>2, <2>4 DEF LaunchInv, Launching
  <2>6. launcher.pc = "spawn" => registry'[Target] = None  BY <2>2, <2>4 DEF LaunchInv
  <2>7. launcher.pc \in {"stdin", "launched"} =>
           binding'[Launching] # None \/ Doomed(Launching)' \/ Launching \in displaced'
    BY <2>2, <2>3, <2>4 DEF LaunchInv, Launching, RunInv, Process
  <2>8. \A q \in SessionRuns : reader[q] = "none" => reader'[q] = "none"  BY <1>22 DEF CloseTerminal, SessionTypeOK
  <2> QED  BY <2>3, <2>4, <2>5, <2>6, <2>7, <2>8 DEF LaunchInv, Launching
<1> QED  BY <1>1, <1>2, <1>3, <1>4, <1>5, <1>6, <1>7, <1>8, <1>9, <1>10, <1>11, <1>12, <1>13, <1>14, <1>15,
     <1>16, <1>17, <1>18, <1>19, <1>20, <1>21, <1>22
     DEF SessionNext, Launch, Reader, Stop

\* A run is dispatched once, and bound to its own row.
LEMMA RunsKept ==
    ASSUME SessionTypeOK, LaunchInv, RunInv, RegistryInv, StopInv, SessionNext
    PROVE  RunInv'
<1>1. ASSUME NEW r \in SessionRuns, NEW h \in SessionRows, DispatchRun(r, h) PROVE RunInv'
  BY <1>1 DEF RunInv, SessionTypeOK, Process, None, DispatchRun, NextRun, registryVars, sessionObservers
<1>2. ASSUME AttachRun PROVE RunInv'
  BY <1>2 DEF AttachRun, Launching, Target, orchestratorVars, sessionObservers, None, LaunchInv, RunInv, Target
<1>3. ASSUME PromptSession PROVE RunInv'
  <2>1. Launching \in SessionRuns /\ Target \in SessionRows /\ Target = rowOf[Launching] /\ runState[Launching] # "unborn"
    BY <1>3, LaunchNames DEF PromptSession, LaunchAt, LaunchInv, Launching
  <2> QED  BY <2>1, <1>3 DEF RunInv, SessionTypeOK, PromptSession, orchestratorVars, registryVars, RegistryInv
<1>4. ASSUME PromptFails PROVE RunInv'
  BY <1>4 DEF PromptFails, DispatchFailed, Launching, sessionObservers, None, LaunchInv, RunInv
<1>5. ASSUME LaunchFresh PROVE RunInv'
  BY <1>5 DEF LaunchFresh, KillSession, Unregister, orchestratorVars, sessionObservers, RunInv
<1>6. ASSUME SpawnProcess PROVE RunInv'
  BY <1>6 DEF SpawnProcess, Launching, orchestratorVars, SessionTypeOK, None, LaunchInv, RunInv
<1>7. ASSUME SpawnFails PROVE RunInv'
  BY <1>7 DEF SpawnFails, DispatchFailed, Launching, registryVars, sessionObservers, None, LaunchInv, RunInv
<1>8. ASSUME BindRun PROVE RunInv'
  BY <1>8 DEF BindRun, Launching, Target, orchestratorVars, sessionObservers, None, LaunchInv, RunInv, Target
<1>9. ASSUME StdinFails PROVE RunInv'
  BY <1>9 DEF StdinFails, Unregister, DispatchFailed, Launching, sessionObservers, None, LaunchInv, RunInv
<1>10. ASSUME StartThreads PROVE RunInv'
  BY <1>10 DEF StartThreads, Launching, orchestratorVars, registryVars, sessionObservers, None, LaunchInv, RunInv
<1>11. ASSUME ReportLaunched PROVE RunInv'
  BY <1>11 DEF ReportLaunched, orchestratorVars, registryVars, sessionObservers, RunInv
<1>12. ASSUME NEW i \in SessionRuns, ProcessEnds(i) PROVE RunInv'
  BY <1>12 DEF ProcessEnds, orchestratorVars, registryVars, sessionObservers, RunInv
<1>13. ASSUME NEW i \in SessionRuns, ReadEof(i) PROVE RunInv'
  BY <1>13 DEF ReadEof, orchestratorVars, registryVars, sessionObservers, RunInv
<1>14. ASSUME NEW i \in SessionRuns, ReaderUnregisters(i) PROVE RunInv'
  BY <1>14 DEF ReaderUnregisters, KillSession, Unregister, orchestratorVars, sessionObservers, RunInv
<1>15. ASSUME NEW i \in SessionRuns, WaiterConfirms(i) PROVE RunInv'
  BY <1>15 DEF WaiterConfirms, orchestratorVars, registryVars, sessionObservers, RunInv
<1>16. ASSUME PumpReport PROVE RunInv'
  BY <1>16 DEF PumpReport, Concerns, registryVars, sessionObservers, Active, RunInv
<1>17. ASSUME NEW r \in SessionRuns, SettleRun(r) PROVE RunInv'
  BY <1>17 DEF SettleRun, registryVars, sessionObservers, Active, RunInv
<1>18. ASSUME NEW r \in SessionRuns, StopRun(r) PROVE RunInv'
  BY <1>18 DEF StopRun, orchestratorVars, registryVars, sessionObservers, RunInv
<1>19. ASSUME StopConfirms PROVE RunInv'
  BY <1>19 DEF StopConfirms, orchestratorVars, registryVars, sessionObservers, RunInv
<1>20. ASSUME StopTimesOut PROVE RunInv'
  BY <1>20 DEF StopTimesOut, orchestratorVars, registryVars, sessionObservers, RunInv
<1>21. ASSUME StopDrops PROVE RunInv'  BY <1>21 DEF StopDrops, Unregister, orchestratorVars, RunInv
<1>22. ASSUME NEW h \in SessionRows, CloseTerminal(h) PROVE RunInv'
  BY <1>22 DEF CloseTerminal, KillSession, Unregister, orchestratorVars, sessionObservers, RunInv
<1> QED  BY <1>1, <1>2, <1>3, <1>4, <1>5, <1>6, <1>7, <1>8, <1>9, <1>10, <1>11, <1>12, <1>13, <1>14, <1>15,
     <1>16, <1>17, <1>18, <1>19, <1>20, <1>21, <1>22
     DEF SessionNext, Launch, Reader, Stop

\* Only a launch registers a process.
LEMMA RegistryKept ==
    ASSUME SessionTypeOK, LaunchInv, RunInv, RegistryInv, StopInv, SessionNext
    PROVE  RegistryInv'
<1>1. ASSUME NEW r \in SessionRuns, NEW h \in SessionRows, DispatchRun(r, h) PROVE RegistryInv'
  BY <1>1 DEF RegistryInv, SessionTypeOK, Process, None, DispatchRun, NextRun, registryVars, RunInv
<1>2. ASSUME AttachRun PROVE RegistryInv'  BY <1>2 DEF AttachRun, orchestratorVars, RegistryInv
<1>3. ASSUME PromptSession PROVE RegistryInv'  BY <1>3 DEF PromptSession, orchestratorVars, registryVars, RegistryInv
<1>4. ASSUME PromptFails PROVE RegistryInv'  BY <1>4 DEF PromptFails, DispatchFailed, RegistryInv
<1>5. ASSUME LaunchFresh PROVE RegistryInv'
  BY <1>5 DEF LaunchFresh, KillSession, Unregister, Go, orchestratorVars, RegistryInv
<1>6. ASSUME SpawnProcess PROVE RegistryInv'
  BY <1>6 DEF SpawnProcess, Launching, Target, orchestratorVars, SessionTypeOK, LaunchInv, RegistryInv, Target
<1>7. ASSUME SpawnFails PROVE RegistryInv'  BY <1>7 DEF SpawnFails, DispatchFailed, registryVars, RegistryInv
<1>8. ASSUME BindRun PROVE RegistryInv'  BY <1>8 DEF BindRun, orchestratorVars, RegistryInv
<1>9. ASSUME StdinFails PROVE RegistryInv'  BY <1>9 DEF StdinFails, Unregister, DispatchFailed, RegistryInv
<1>10. ASSUME StartThreads PROVE RegistryInv'  BY <1>10 DEF StartThreads, orchestratorVars, registryVars, RegistryInv
<1>11. ASSUME ReportLaunched PROVE RegistryInv'
  BY <1>11 DEF ReportLaunched, orchestratorVars, registryVars, RegistryInv
<1>12. ASSUME NEW i \in SessionRuns, ProcessEnds(i) PROVE RegistryInv'
  BY <1>12 DEF ProcessEnds, orchestratorVars, registryVars, RegistryInv
<1>13. ASSUME NEW i \in SessionRuns, ReadEof(i) PROVE RegistryInv'
  BY <1>13 DEF ReadEof, orchestratorVars, registryVars, RegistryInv
<1>14. ASSUME NEW i \in SessionRuns, ReaderUnregisters(i) PROVE RegistryInv'
  BY <1>14 DEF ReaderUnregisters, KillSession, Unregister, orchestratorVars, RegistryInv
<1>15. ASSUME NEW i \in SessionRuns, WaiterConfirms(i) PROVE RegistryInv'
  BY <1>15 DEF WaiterConfirms, orchestratorVars, registryVars, RegistryInv
<1>16. ASSUME PumpReport PROVE RegistryInv'  BY <1>16 DEF PumpReport, registryVars, RegistryInv
<1>17. ASSUME NEW r \in SessionRuns, SettleRun(r) PROVE RegistryInv'  BY <1>17 DEF SettleRun, registryVars, RegistryInv
<1>18. ASSUME NEW r \in SessionRuns, StopRun(r) PROVE RegistryInv'
  BY <1>18 DEF StopRun, orchestratorVars, registryVars, RegistryInv
<1>19. ASSUME StopConfirms PROVE RegistryInv'  BY <1>19 DEF StopConfirms, orchestratorVars, registryVars, RegistryInv
<1>20. ASSUME StopTimesOut PROVE RegistryInv'  BY <1>20 DEF StopTimesOut, orchestratorVars, registryVars, RegistryInv
<1>21. ASSUME StopDrops PROVE RegistryInv'  BY <1>21 DEF StopDrops, Unregister, orchestratorVars, RegistryInv
<1>22. ASSUME NEW h \in SessionRows, CloseTerminal(h) PROVE RegistryInv'
  BY <1>22 DEF CloseTerminal, KillSession, Unregister, orchestratorVars, RegistryInv
<1> QED  BY <1>1, <1>2, <1>3, <1>4, <1>5, <1>6, <1>7, <1>8, <1>9, <1>10, <1>11, <1>12, <1>13, <1>14, <1>15,
     <1>16, <1>17, <1>18, <1>19, <1>20, <1>21, <1>22
     DEF SessionNext, Launch, Reader, Stop

\* A process that is gone stays gone.
LEMMA StopsKept ==
    ASSUME SessionTypeOK, LaunchInv, RunInv, RegistryInv, StopInv, ConfirmedIsGone, SessionNext
    PROVE  StopInv' /\ ConfirmedIsGone'
<1>1. ASSUME NEW r \in SessionRuns, NEW h \in SessionRows, DispatchRun(r, h) PROVE StopInv' /\ ConfirmedIsGone'
  BY <1>1 DEF DispatchRun, StopInv, ConfirmedIsGone
<1>2. ASSUME AttachRun PROVE StopInv' /\ ConfirmedIsGone'  BY <1>2 DEF AttachRun, StopInv, ConfirmedIsGone
<1>3. ASSUME PromptSession PROVE StopInv' /\ ConfirmedIsGone'  BY <1>3 DEF PromptSession, StopInv, ConfirmedIsGone
<1>4. ASSUME PromptFails PROVE StopInv' /\ ConfirmedIsGone'  BY <1>4 DEF PromptFails, StopInv, ConfirmedIsGone
<1>5. ASSUME LaunchFresh PROVE StopInv' /\ ConfirmedIsGone'  BY <1>5 DEF LaunchFresh, StopInv, ConfirmedIsGone
<1>6. ASSUME SpawnProcess PROVE StopInv' /\ ConfirmedIsGone'
  BY <1>6 DEF SpawnProcess, LaunchAt, Launching, LaunchInv, StopInv, ConfirmedIsGone
<1>7. ASSUME SpawnFails PROVE StopInv' /\ ConfirmedIsGone'  BY <1>7 DEF SpawnFails, StopInv, ConfirmedIsGone
<1>8. ASSUME BindRun PROVE StopInv' /\ ConfirmedIsGone'  BY <1>8 DEF BindRun, StopInv, ConfirmedIsGone
<1>9. ASSUME StdinFails PROVE StopInv' /\ ConfirmedIsGone'  BY <1>9 DEF StdinFails, StopInv, ConfirmedIsGone
<1>10. ASSUME StartThreads PROVE StopInv' /\ ConfirmedIsGone'  BY <1>10 DEF StartThreads, StopInv, ConfirmedIsGone
<1>11. ASSUME ReportLaunched PROVE StopInv' /\ ConfirmedIsGone'  BY <1>11 DEF ReportLaunched, StopInv, ConfirmedIsGone
<1>12. ASSUME NEW i \in SessionRuns, ProcessEnds(i) PROVE StopInv' /\ ConfirmedIsGone'
  BY <1>12 DEF ProcessEnds, StopInv, ConfirmedIsGone
<1>13. ASSUME NEW i \in SessionRuns, ReadEof(i) PROVE StopInv' /\ ConfirmedIsGone'
  BY <1>13 DEF ReadEof, StopInv, ConfirmedIsGone
<1>14. ASSUME NEW i \in SessionRuns, ReaderUnregisters(i) PROVE StopInv' /\ ConfirmedIsGone'
  BY <1>14 DEF ReaderUnregisters, StopInv, ConfirmedIsGone
<1>15. ASSUME NEW i \in SessionRuns, WaiterConfirms(i) PROVE StopInv' /\ ConfirmedIsGone'
  BY <1>15 DEF WaiterConfirms, StopInv, ConfirmedIsGone
<1>16. ASSUME PumpReport PROVE StopInv' /\ ConfirmedIsGone'  BY <1>16 DEF PumpReport, StopInv, ConfirmedIsGone
<1>17. ASSUME NEW r \in SessionRuns, SettleRun(r) PROVE StopInv' /\ ConfirmedIsGone'
  BY <1>17 DEF SettleRun, StopInv, ConfirmedIsGone
<1>18. ASSUME NEW r \in SessionRuns, StopRun(r) PROVE StopInv' /\ ConfirmedIsGone'
  BY <1>18 DEF StopRun, RunInv, RegistryInv, StopInv, ConfirmedIsGone
<1>19. ASSUME StopConfirms PROVE StopInv' /\ ConfirmedIsGone'
  BY <1>19 DEF StopConfirms, StopAt, StopDone, StopInv, ConfirmedIsGone
<1>20. ASSUME StopTimesOut PROVE StopInv' /\ ConfirmedIsGone'
  BY <1>20 DEF StopTimesOut, NoStop, StopInv, ConfirmedIsGone
<1>21. ASSUME StopDrops PROVE StopInv' /\ ConfirmedIsGone'  BY <1>21 DEF StopDrops, NoStop, StopInv, ConfirmedIsGone
<1>22. ASSUME NEW h \in SessionRows, CloseTerminal(h) PROVE StopInv' /\ ConfirmedIsGone'
  BY <1>22 DEF CloseTerminal, StopInv, ConfirmedIsGone
<1> QED  BY <1>1, <1>2, <1>3, <1>4, <1>5, <1>6, <1>7, <1>8, <1>9, <1>10, <1>11, <1>12, <1>13, <1>14, <1>15,
     <1>16, <1>17, <1>18, <1>19, <1>20, <1>21, <1>22
     DEF SessionNext, Launch, Reader, Stop

\* What takes a process out of the registry kills it, or is the stop of its predecessor.
LEMMA FindableKept ==
    ASSUME SessionTypeOK, LaunchInv, RunInv, RegistryInv, StopInv, ConfirmedIsGone, NoStrayProcess, SessionNext
    PROVE  NoStrayProcess'
<1>1. ASSUME NEW r \in SessionRuns, NEW h \in SessionRows, DispatchRun(r, h) PROVE NoStrayProcess'
  BY <1>1 DEF NoStrayProcess, Doomed, SessionTypeOK, DispatchRun, NextRun, registryVars, sessionObservers, RunInv
<1>2. ASSUME AttachRun PROVE NoStrayProcess'
  BY <1>2 DEF AttachRun, orchestratorVars, sessionObservers, NoStrayProcess, Doomed
<1>3. ASSUME PromptSession PROVE NoStrayProcess'
  BY <1>3 DEF PromptSession, orchestratorVars, registryVars, NoStrayProcess, Doomed
<1>4. ASSUME PromptFails PROVE NoStrayProcess'
  BY <1>4 DEF PromptFails, DispatchFailed, sessionObservers, NoStrayProcess, Doomed
<1>5. ASSUME LaunchFresh PROVE NoStrayProcess'  BY <1>5, Removers, Removal
<1>6. ASSUME SpawnProcess PROVE NoStrayProcess'
  BY <1>6 DEF SpawnProcess, LaunchAt, Launching, Target, orchestratorVars, SessionTypeOK, LaunchInv, RunInv, Target,
    NoStrayProcess, Doomed
<1>7. ASSUME SpawnFails PROVE NoStrayProcess'
  BY <1>7 DEF SpawnFails, DispatchFailed, registryVars, sessionObservers, NoStrayProcess, Doomed
<1>8. ASSUME BindRun PROVE NoStrayProcess'
  BY <1>8 DEF BindRun, orchestratorVars, sessionObservers, NoStrayProcess, Doomed
<1>9. ASSUME StdinFails PROVE NoStrayProcess'  BY <1>9, Removers, Removal
<1>10. ASSUME StartThreads PROVE NoStrayProcess'
  BY <1>10 DEF StartThreads, orchestratorVars, registryVars, sessionObservers, NoStrayProcess, Doomed
<1>11. ASSUME ReportLaunched PROVE NoStrayProcess'
  BY <1>11 DEF ReportLaunched, orchestratorVars, registryVars, sessionObservers, NoStrayProcess, Doomed
<1>12. ASSUME NEW i \in SessionRuns, ProcessEnds(i) PROVE NoStrayProcess'
  BY <1>12 DEF ProcessEnds, orchestratorVars, registryVars, sessionObservers, SessionTypeOK, LaunchInv, RunInv,
    NoStrayProcess, Doomed
<1>13. ASSUME NEW i \in SessionRuns, ReadEof(i) PROVE NoStrayProcess'
  BY <1>13 DEF ReadEof, orchestratorVars, registryVars, sessionObservers, NoStrayProcess, Doomed
<1>14. ASSUME NEW i \in SessionRuns, ReaderUnregisters(i) PROVE NoStrayProcess'  BY <1>14, Removers, Removal
<1>15. ASSUME NEW i \in SessionRuns, WaiterConfirms(i) PROVE NoStrayProcess'
  BY <1>15 DEF WaiterConfirms, orchestratorVars, registryVars, sessionObservers, NoStrayProcess, Doomed
<1>16. ASSUME PumpReport PROVE NoStrayProcess'
  BY <1>16 DEF PumpReport, registryVars, sessionObservers, NoStrayProcess, Doomed
<1>17. ASSUME NEW r \in SessionRuns, SettleRun(r) PROVE NoStrayProcess'
  BY <1>17 DEF SettleRun, registryVars, sessionObservers, NoStrayProcess, Doomed
<1>18. ASSUME NEW r \in SessionRuns, StopRun(r) PROVE NoStrayProcess'
  BY <1>18 DEF StopRun, orchestratorVars, registryVars, sessionObservers, NoStrayProcess, Doomed
<1>19. ASSUME StopConfirms PROVE NoStrayProcess'
  BY <1>19 DEF StopConfirms, orchestratorVars, registryVars, sessionObservers, NoStrayProcess, Doomed
<1>20. ASSUME StopTimesOut PROVE NoStrayProcess'
  BY <1>20 DEF StopTimesOut, orchestratorVars, registryVars, sessionObservers, NoStrayProcess, Doomed
<1>21. ASSUME StopDrops PROVE NoStrayProcess'  BY <1>21, Removers, Removal
<1>22. ASSUME NEW h \in SessionRows, CloseTerminal(h) PROVE NoStrayProcess'  BY <1>22, Removers, Removal
<1> QED  BY <1>1, <1>2, <1>3, <1>4, <1>5, <1>6, <1>7, <1>8, <1>9, <1>10, <1>11, <1>12, <1>13, <1>14, <1>15,
     <1>16, <1>17, <1>18, <1>19, <1>20, <1>21, <1>22
     DEF SessionNext, Launch, Reader, Stop

\* A binding and its process go together.
LEMMA UnboundKept ==
    ASSUME SessionTypeOK, LaunchInv, RunInv, RegistryInv, StopInv, ConfirmedIsGone, NoStrayProcess, UnboundIsStopped, SessionNext
    PROVE  UnboundIsStopped'
<1>1. ASSUME NEW r \in SessionRuns, NEW h \in SessionRows, DispatchRun(r, h) PROVE UnboundIsStopped'
  BY <1>1 DEF DispatchRun, registryVars, sessionObservers, None, LaunchInv, UnboundIsStopped, Doomed
<1>2. ASSUME AttachRun PROVE UnboundIsStopped'
  BY <1>2 DEF AttachRun, Launching, Go, orchestratorVars, sessionObservers, UnboundIsStopped, Doomed
<1>3. ASSUME PromptSession PROVE UnboundIsStopped'
  BY <1>3, LaunchNames DEF UnboundIsStopped, Doomed, PromptSession, orchestratorVars, registryVars, LaunchAt, LaunchInv,
    Launching
<1>4. ASSUME PromptFails PROVE UnboundIsStopped'
  BY <1>4 DEF PromptFails, DispatchFailed, Launching, sessionObservers, SessionTypeOK, Active, UnboundIsStopped, Doomed
<1>5. ASSUME LaunchFresh PROVE UnboundIsStopped'
  <2>1. Removes(Target)  BY <1>5, Removers
  <2>2. /\ \A q \in Process : Doomed(q) => Doomed(q)'
        /\ \A q \in SessionRuns : rowOf[q] = Target => Doomed(q)' \/ q \in displaced'
        /\ \A q \in SessionRuns : binding'[q] = IF binding[q] = Target THEN None ELSE binding[q]
    BY <2>1, Removal
  <2>3. \A r \in SessionRuns, q \in SessionRuns :
           binding'[r] = None /\ binding[r] # None /\ prompted[r] = q => Doomed(q)' \/ q \in displaced'
    BY <2>2 DEF RunInv, None
  <2>4. Doomed(None)' /\ \A r \in SessionRuns : prompted[r] \in SessionRuns \cup {None}
    BY DEF SessionTypeOK, Process, Doomed
  <2> QED  BY <1>5, <2>1, <2>4, <2>2, <2>3 DEF UnboundIsStopped, Doomed, Process, LaunchFresh, Go, orchestratorVars,
      sessionObservers
<1>6. ASSUME SpawnProcess PROVE UnboundIsStopped'
  BY <1>6 DEF SpawnProcess, LaunchAt, Launching, Go, orchestratorVars, LaunchInv, RunInv, UnboundIsStopped, Doomed
<1>7. ASSUME SpawnFails PROVE UnboundIsStopped'
  BY <1>7 DEF SpawnFails, DispatchFailed, Launching, registryVars, sessionObservers, SessionTypeOK, Active,
    UnboundIsStopped, Doomed
<1>8. ASSUME BindRun PROVE UnboundIsStopped'
  BY <1>8 DEF BindRun, Launching, Go, orchestratorVars, sessionObservers, UnboundIsStopped, Doomed
<1>9. ASSUME StdinFails PROVE UnboundIsStopped'
  <2>1. Removes(Target)  BY <1>9, Removers
  <2>2. /\ \A q \in Process : Doomed(q) => Doomed(q)'
        /\ \A q \in SessionRuns : rowOf[q] = Target => Doomed(q)' \/ q \in displaced'
        /\ \A q \in SessionRuns : binding'[q] = IF binding[q] = Target THEN None ELSE binding[q]
    BY <2>1, Removal
  <2>3. /\ prompted' = prompted /\ displaced \subseteq displaced'
        /\ \A r \in SessionRuns : runState'[r] \in Active => runState[r] \in Active /\ r # launcher.run
    BY <1>9, <2>1 DEF StdinFails, DispatchFailed, Launching, SessionTypeOK, sessionObservers, Active
  <2>4. \A r \in SessionRuns, q \in SessionRuns :
           binding'[r] = None /\ binding[r] # None /\ prompted[r] = q => Doomed(q)' \/ q \in displaced'
    BY <2>2 DEF RunInv, None
  <2>5. Doomed(None)' /\ \A r \in SessionRuns : prompted[r] \in SessionRuns \cup {None}
    BY DEF SessionTypeOK, Process, Doomed
  <2> QED  BY <2>3, <2>5, <2>2, <2>4 DEF UnboundIsStopped, Doomed, Process
<1>10. ASSUME StartThreads PROVE UnboundIsStopped'
  BY <1>10 DEF StartThreads, Go, orchestratorVars, registryVars, sessionObservers, UnboundIsStopped, Doomed
<1>11. ASSUME ReportLaunched PROVE UnboundIsStopped'
  BY <1>11 DEF ReportLaunched, LaunchAt, orchestratorVars, registryVars, sessionObservers, LaunchInv, UnboundIsStopped,
    Doomed
<1>12. ASSUME NEW i \in SessionRuns, ProcessEnds(i) PROVE UnboundIsStopped'
  BY <1>12 DEF ProcessEnds, orchestratorVars, registryVars, sessionObservers, UnboundIsStopped, Doomed
<1>13. ASSUME NEW i \in SessionRuns, ReadEof(i) PROVE UnboundIsStopped'
  BY <1>13 DEF ReadEof, orchestratorVars, registryVars, sessionObservers, UnboundIsStopped, Doomed
<1>14. ASSUME NEW i \in SessionRuns, ReaderUnregisters(i) PROVE UnboundIsStopped'
  <2>1. Removes(rowOf[i])  BY <1>14, Removers
  <2>2. /\ \A q \in Process : Doomed(q) => Doomed(q)'
        /\ \A q \in SessionRuns : rowOf[q] = rowOf[i] => Doomed(q)' \/ q \in displaced'
        /\ \A q \in SessionRuns : binding'[q] = IF binding[q] = rowOf[i] THEN None ELSE binding[q]
    BY <2>1, Removal
  <2>3. \A r \in SessionRuns, q \in SessionRuns :
           binding'[r] = None /\ binding[r] # None /\ prompted[r] = q => Doomed(q)' \/ q \in displaced'
    BY <2>2 DEF RunInv, None
  <2>4. Doomed(None)' /\ \A r \in SessionRuns : prompted[r] \in SessionRuns \cup {None}
    BY DEF SessionTypeOK, Process, Doomed
  <2> QED  BY <1>14, <2>1, <2>4, <2>2, <2>3 DEF UnboundIsStopped, Doomed, Process, ReaderUnregisters, orchestratorVars,
      sessionObservers
<1>15. ASSUME NEW i \in SessionRuns, WaiterConfirms(i) PROVE UnboundIsStopped'
  BY <1>15 DEF WaiterConfirms, orchestratorVars, registryVars, sessionObservers, UnboundIsStopped, Doomed
<1>16. ASSUME PumpReport PROVE UnboundIsStopped'
  BY <1>16 DEF PumpReport, Concerns, registryVars, sessionObservers, RunInv, UnboundIsStopped, Doomed
<1>17. ASSUME NEW r \in SessionRuns, SettleRun(r) PROVE UnboundIsStopped'
  BY <1>17 DEF SettleRun, registryVars, sessionObservers, UnboundIsStopped, Doomed
<1>18. ASSUME NEW r \in SessionRuns, StopRun(r) PROVE UnboundIsStopped'
  BY <1>18 DEF StopRun, orchestratorVars, registryVars, sessionObservers, UnboundIsStopped, Doomed
<1>19. ASSUME StopConfirms PROVE UnboundIsStopped'
  BY <1>19 DEF StopConfirms, orchestratorVars, registryVars, sessionObservers, UnboundIsStopped, Doomed
<1>20. ASSUME StopTimesOut PROVE UnboundIsStopped'
  BY <1>20 DEF StopTimesOut, orchestratorVars, registryVars, sessionObservers, UnboundIsStopped, Doomed
<1>21. ASSUME StopDrops PROVE UnboundIsStopped'
  <2>1. Removes(stopper.handle)  BY <1>21, Removers
  <2>2. /\ \A q \in Process : Doomed(q) => Doomed(q)'
        /\ \A q \in SessionRuns : rowOf[q] = stopper.handle => Doomed(q)' \/ q \in displaced'
        /\ \A q \in SessionRuns : binding'[q] = IF binding[q] = stopper.handle THEN None ELSE binding[q]
    BY <2>1, Removal
  <2>3. \A r \in SessionRuns, q \in SessionRuns :
           binding'[r] = None /\ binding[r] # None /\ prompted[r] = q => Doomed(q)' \/ q \in displaced'
    BY <2>2 DEF RunInv, None
  <2>4. Doomed(None)' /\ \A r \in SessionRuns : prompted[r] \in SessionRuns \cup {None}
    BY DEF SessionTypeOK, Process, Doomed
  <2> QED  BY <1>21, <2>1, <2>4, <2>2, <2>3 DEF UnboundIsStopped, Doomed, Process, StopDrops, orchestratorVars
<1>22. ASSUME NEW h \in SessionRows, CloseTerminal(h) PROVE UnboundIsStopped'
  <2>1. Removes(h)  BY <1>22, Removers
  <2>2. /\ \A q \in Process : Doomed(q) => Doomed(q)'
        /\ \A q \in SessionRuns : rowOf[q] = h => Doomed(q)' \/ q \in displaced'
        /\ \A q \in SessionRuns : binding'[q] = IF binding[q] = h THEN None ELSE binding[q]
    BY <2>1, Removal
  <2>3. \A r \in SessionRuns, q \in SessionRuns :
           binding'[r] = None /\ binding[r] # None /\ prompted[r] = q => Doomed(q)' \/ q \in displaced'
    BY <2>2 DEF RunInv, None
  <2>4. Doomed(None)' /\ \A r \in SessionRuns : prompted[r] \in SessionRuns \cup {None}
    BY DEF SessionTypeOK, Process, Doomed
  <2> QED  BY <1>22, <2>1, <2>4, <2>2, <2>3 DEF UnboundIsStopped, Doomed, Process, CloseTerminal, orchestratorVars,
      sessionObservers
<1> QED  BY <1>1, <1>2, <1>3, <1>4, <1>5, <1>6, <1>7, <1>8, <1>9, <1>10, <1>11, <1>12, <1>13, <1>14, <1>15,
     <1>16, <1>17, <1>18, <1>19, <1>20, <1>21, <1>22
     DEF SessionNext, Launch, Reader, Stop

\* The reports of a process stay in the queue until the pump has applied them.
LEMMA ReportedKept ==
    ASSUME SessionTypeOK, LaunchInv, RunInv, ExitIsReported, SessionNext
    PROVE  ExitIsReported'
<1>1. ASSUME NEW r \in SessionRuns, NEW h \in SessionRows, DispatchRun(r, h) PROVE ExitIsReported'
  BY <1>1, ReportStays DEF DispatchRun, NextRun, RunInv
<1>2. ASSUME AttachRun PROVE ExitIsReported'  BY <1>2, ReportStays DEF AttachRun, orchestratorVars
<1>3. ASSUME PromptSession PROVE ExitIsReported'
  <2>1. reports' = Append(reports, [run |-> Launching, kind |-> "up"]) /\ UNCHANGED <<reader, runState>>
    BY <1>3 DEF PromptSession, orchestratorVars
  <2>2. [run |-> Launching, kind |-> "up"] \in Report  BY <1>3, LaunchNames DEF PromptSession, LaunchAt, Report
  <2>3. Len(reports) \in Nat  BY LenProperties DEF SessionTypeOK
  <2> SUFFICES ASSUME NEW r \in SessionRuns, reader[r] \in {"unregister", "done"}, runState[r] = "running"
               PROVE  \E n \in 1..Len(reports') : reports'[n].run = r /\ reports'[n].kind # "up"
    BY <2>1 DEF ExitIsReported
  <2>4. PICK n \in 1..Len(reports) : reports[n].run = r /\ reports[n].kind # "up"  BY DEF ExitIsReported
  <2> QED  BY <2>4, <2>1, <2>2, AppendProperties, <2>3 DEF SessionTypeOK
<1>4. ASSUME PromptFails PROVE ExitIsReported'  BY <1>4, ReportStays DEF PromptFails, DispatchFailed
<1>5. ASSUME LaunchFresh PROVE ExitIsReported'  BY <1>5, ReportStays DEF LaunchFresh, orchestratorVars
<1>6. ASSUME SpawnProcess PROVE ExitIsReported'  BY <1>6, ReportStays DEF SpawnProcess, orchestratorVars
<1>7. ASSUME SpawnFails PROVE ExitIsReported'  BY <1>7, ReportStays DEF SpawnFails, DispatchFailed
<1>8. ASSUME BindRun PROVE ExitIsReported'  BY <1>8, ReportStays DEF BindRun, orchestratorVars
<1>9. ASSUME StdinFails PROVE ExitIsReported'  BY <1>9, ReportStays DEF StdinFails, DispatchFailed
<1>10. ASSUME StartThreads PROVE ExitIsReported'  BY <1>10, ReportStays DEF StartThreads, orchestratorVars
<1>11. ASSUME ReportLaunched PROVE ExitIsReported'
  <2>1. reports' = Append(reports, [run |-> Launching, kind |-> "up"]) /\ UNCHANGED <<reader, runState>>
    BY <1>11 DEF ReportLaunched, orchestratorVars
  <2>2. [run |-> Launching, kind |-> "up"] \in Report  BY <1>11, LaunchNames DEF ReportLaunched, LaunchAt, Report
  <2>3. Len(reports) \in Nat  BY LenProperties DEF SessionTypeOK
  <2> SUFFICES ASSUME NEW r \in SessionRuns, reader[r] \in {"unregister", "done"}, runState[r] = "running"
               PROVE  \E n \in 1..Len(reports') : reports'[n].run = r /\ reports'[n].kind # "up"
    BY <2>1 DEF ExitIsReported
  <2>4. PICK n \in 1..Len(reports) : reports[n].run = r /\ reports[n].kind # "up"  BY DEF ExitIsReported
  <2> QED  BY <2>4, <2>1, <2>2, AppendProperties, <2>3 DEF SessionTypeOK
<1>12. ASSUME NEW i \in SessionRuns, ProcessEnds(i) PROVE ExitIsReported'
  BY <1>12, ReportStays DEF ProcessEnds, orchestratorVars
<1>13. ASSUME NEW i \in SessionRuns, ReadEof(i) PROVE ExitIsReported'
  <2> DEFINE exit == <<[run |-> i, kind |-> "exited"], [run |-> i, kind |-> "dead"]>>
  <2>1. reports' = reports \o exit /\ runState' = runState /\ reader' = [reader EXCEPT ![i] = "unregister"]
    BY <1>13 DEF ReadEof, orchestratorVars
  <2>2. exit \in Seq(Report) /\ Len(exit) = 2 /\ exit[1].run = i /\ exit[1].kind # "up"  BY DEF Report
  <2> HIDE DEF exit
  <2>3. /\ Len(reports') = Len(reports) + 2 /\ Len(reports) \in Nat
        /\ \A n \in 1..Len(reports) : reports'[n] = reports[n]
        /\ reports'[Len(reports) + 1] = exit[1]
    <3>1. Len(reports) \in Nat /\ reports \in Seq(Report)  BY LenProperties DEF SessionTypeOK
    <3>2. /\ Len(reports \o exit) = Len(reports) + Len(exit)
          /\ \A n \in 1..Len(reports) + Len(exit) :
                (reports \o exit)[n] = IF n <= Len(reports) THEN reports[n] ELSE exit[n - Len(reports)]
      BY <2>2, <3>1, ConcatProperties
    <3> QED  BY <2>1, <2>2, <3>1, <3>2
  <2> QED  BY <2>1, <2>2, <2>3 DEF ExitIsReported, SessionTypeOK
<1>14. ASSUME NEW i \in SessionRuns, ReaderUnregisters(i) PROVE ExitIsReported'
  BY <1>14, ReportStays DEF ReaderUnregisters, orchestratorVars
<1>15. ASSUME NEW i \in SessionRuns, WaiterConfirms(i) PROVE ExitIsReported'
  BY <1>15, ReportStays DEF WaiterConfirms, orchestratorVars
<1>16. ASSUME PumpReport PROVE ExitIsReported'
  <2> DEFINE e == Head(reports)
  <2>1. /\ reports # <<>> /\ reports' = Tail(reports) /\ reader' = reader
        /\ runState' = IF Concerns(e) /\ e.kind # "up" THEN [runState EXCEPT ![e.run] = "awaiting"] ELSE runState
    BY <1>16 DEF PumpReport
  <2>2. e \in Report /\ e = reports[1] /\ Len(reports) \in Nat \ {0} /\ Len(reports') = Len(reports) - 1
        /\ \A n \in 1..Len(reports') : reports'[n] = reports[n + 1]
    <3>1. Len(reports) \in Nat \ {0}  BY <2>1, EmptySeq, Zenon DEF SessionTypeOK
    <3> QED  BY <3>1, <2>1, HeadTailProperties DEF SessionTypeOK
  <2> SUFFICES ASSUME NEW r \in SessionRuns, reader[r] \in {"unregister", "done"}, runState'[r] = "running"
               PROVE  \E n \in 1..Len(reports') : reports'[n].run = r /\ reports'[n].kind # "up"
    BY <2>1 DEF ExitIsReported
  <2>3. runState[r] = "running" /\ ~(e.run = r /\ e.kind # "up")  BY <2>1, <2>2 DEF Concerns, SessionTypeOK
  <2>4. PICK n \in 1..Len(reports) : reports[n].run = r /\ reports[n].kind # "up"  BY <2>3 DEF ExitIsReported
  <2>5. n # 1  BY <2>2, <2>3, <2>4
  <2>6. n - 1 \in 1..Len(reports') /\ reports'[n - 1] = reports[n]  BY <2>2, <2>4, <2>5
  <2> QED  BY <2>4, <2>6
<1>17. ASSUME NEW r \in SessionRuns, SettleRun(r) PROVE ExitIsReported'  BY <1>17, ReportStays DEF SettleRun
<1>18. ASSUME NEW r \in SessionRuns, StopRun(r) PROVE ExitIsReported'
  BY <1>18, ReportStays DEF StopRun, orchestratorVars
<1>19. ASSUME StopConfirms PROVE ExitIsReported'  BY <1>19, ReportStays DEF StopConfirms, orchestratorVars
<1>20. ASSUME StopTimesOut PROVE ExitIsReported'  BY <1>20, ReportStays DEF StopTimesOut, orchestratorVars
<1>21. ASSUME StopDrops PROVE ExitIsReported'  BY <1>21, ReportStays DEF StopDrops, orchestratorVars
<1>22. ASSUME NEW h \in SessionRows, CloseTerminal(h) PROVE ExitIsReported'
  BY <1>22, ReportStays DEF CloseTerminal, orchestratorVars
<1> QED  BY <1>1, <1>2, <1>3, <1>4, <1>5, <1>6, <1>7, <1>8, <1>9, <1>10, <1>11, <1>12, <1>13, <1>14, <1>15,
     <1>16, <1>17, <1>18, <1>19, <1>20, <1>21, <1>22
     DEF SessionNext, Launch, Reader, Stop

\* The invariant is inductive.
THEOREM SessionInductive == SessionSpec => []SessionInv
<1>1. SessionInit => SessionInv
  <2> SUFFICES ASSUME SessionInit PROVE SessionInv  OBVIOUS
  <2>1. SessionTypeOK
    <3>1. reports \in Seq(Report)  BY EmptySeq DEF SessionInit
    <3> QED  BY <3>1 DEF SessionInit, SessionTypeOK, Handle, Process, Idle, NoStop
  <2>2. LaunchInv /\ RunInv /\ RegistryInv /\ StopInv
    BY DEF SessionInit, LaunchInv, RunInv, RegistryInv, StopInv, Idle, NoStop, None
  <2>3. NoStrayProcess /\ UnboundIsStopped /\ ConfirmedIsGone /\ ExitIsReported
    BY DEF SessionInit, NoStrayProcess, UnboundIsStopped, ConfirmedIsGone, ExitIsReported, Doomed, Active, NoStop, None
  <2> QED  BY <2>1, <2>2, <2>3 DEF SessionInv
<1>2. SessionInv /\ [SessionNext]_sessionVars => SessionInv'
  <2> SUFFICES ASSUME SessionInv, [SessionNext]_sessionVars PROVE SessionInv'  OBVIOUS
  <2>1. CASE SessionNext
    BY <2>1, SessionTypesKept, LaunchKept, RunsKept, RegistryKept, StopsKept, FindableKept, UnboundKept, ReportedKept
      DEF SessionInv
  <2>2. CASE UNCHANGED sessionVars
    BY <2>2 DEF sessionVars, orchestratorVars, registryVars, flags, sessionObservers, SessionInv, SessionTypeOK,
      LaunchInv, RunInv, RegistryInv, StopInv, Target, NoStrayProcess, UnboundIsStopped, ConfirmedIsGone,
      ExitIsReported, Doomed
  <2> QED  BY <2>1, <2>2
<1> QED  BY <1>1, <1>2, PTL DEF SessionSpec

\* Whatever threads meet in the registry, and however many runs and rows there are: no agent
\* works where nobody can find it, stop_run tells the truth, and no run waits for an agent
\* that has ended.
THEOREM SessionsFound == SessionSpec => []SessionSafety
<1>1. SessionInv => SessionSafety  BY DEF SessionInv, SessionSafety
<1> QED  BY <1>1, SessionInductive, PTL

----
(* The start of a run.                                                     *)

USE DEF store, service, barrier, requests, worker, observers
USE RequestsAssumption, BoundsAssumption

\* The sequence of the commands that are resumed.
LEMMA ResumedType ==
    ASSUME NEW S \in SUBSET Commands
    PROVE  /\ SetToSeq(S) \in Seq(Commands)
           /\ \A i \in 1..Len(SetToSeq(S)) : SetToSeq(S)[i] \in S
<1>1. IsFiniteSet(S)  BY FS_Subset
<1>2. Cardinality(S) \in Nat /\ ExistsBijection(1..Cardinality(S), S)  BY <1>1, FS_CardinalityType
<1>3. \E f \in [1..Cardinality(S) -> S] : IsInjective(f)  BY <1>2 DEF ExistsBijection, Bijection, Injection
<1>4. SetToSeq(S) \in [1..Cardinality(S) -> S]  BY <1>3 DEF SetToSeq
<1> QED  BY <1>2, <1>4

\* What holds of the worker and of a request in the critical section.
Holders ==
    /\ at \in Phases \cup {"decide", "deliver"} => mutex = "worker"
    /\ \A r \in Requests : pc[r] \in {"reserved", "accepted"} => mutex = r
    /\ saved => at \in Phases

----
(* Types.                                                                  *)

Ops == {"none"} \cup OpOpen \cup OpEnded
Intents == {"none", "reserved", "applied", "failed", "revoked"}
Outcomes == {"none", "applied", "compensated", "needs_you", "not_accepted"}
Places == {"idle", "look", "ready", "decide", "deliver"} \cup Phases

\* The faults stay within their bound.
LEMMA FaultType ==
    ASSUME TypeOK, Fault
    PROVE  faults' \in 0..MaxFaults
BY DEF TypeOK, Fault

\* The counter of a Start that the worker takes, and where a step leads.
LEMMA PlaceTypes ==
    /\ 0 \in 0..MaxTries - 1
    /\ \A p \in Phases : After(p) \in {"activate", "decide"} /\ After(p) \in Places
    /\ {"materialize", "activate", "discard", "decide", "deliver", "idle", "look"} \subseteq Places
    /\ Phases = {"materialize", "activate", "discard"}
BY DEF MaxTries, After, Places, Phases, Forward

\* What the end of an attempt of the worker writes.
LEMMA RetryType ==
    ASSUME TypeOK, Retry
    PROVE  /\ at' \in {"look", "idle"} /\ cmd' = cmd /\ tries' \in 0..MaxTries - 1
           /\ seen' = FALSE /\ saved' = FALSE
BY DEF TypeOK, Retry, MoreTries, MaxTries

\* An operation is begun, or stays what it is.
LEMMA BegunType ==
    ASSUME TypeOK
    PROVE  Begun(cmd) \in [Commands -> Ops]
BY DEF TypeOK, Begun, Ops, OpOpen

\* What the end of an operation writes.
LEMMA FinishType ==
    ASSUME TypeOK, NEW c \in Commands, NEW how \in Outcomes, NEW state \in Intents, Finish(c, how, state)
    PROVE  /\ op' \in [Commands -> Ops] /\ outcome' \in [Commands -> Outcomes]
           /\ intent' \in [Commands -> Intents]
BY DEF TypeOK, Finish, Ops, OpEnded, Outcomes, Intents

\* What the end of an operation that was not accepted writes.
LEMMA RejectType ==
    ASSUME TypeOK, NEW c \in Commands, NEW state \in Intents, Reject(c, state)
    PROVE  /\ op' \in [Commands -> Ops] /\ outcome' \in [Commands -> Outcomes]
           /\ intent' \in [Commands -> Intents]
           /\ step' \in [Commands -> [Phases -> {"pending", "succeeded", "failed", "revoked"}]]
<1>1. step' \in [Commands -> [Phases -> {"pending", "succeeded", "failed", "revoked"}]]  BY DEF TypeOK, Reject
<1>2. CASE op[c] \in OpOpen  BY <1>1, <1>2, FinishType DEF Reject, Outcomes
<1>3. CASE op[c] \notin OpOpen  BY <1>1, <1>3 DEF TypeOK, Reject, Ops, Outcomes, Intents
<1> QED  BY <1>2, <1>3

\* What the result of a step writes.
LEMMA StepToType ==
    ASSUME TypeOK, NEW s \in {"succeeded", "failed", "revoked"}, at \in Phases, StepTo(s)
    PROVE  step' \in [Commands -> [Phases -> {"pending", "succeeded", "failed", "revoked"}]]
BY DEF TypeOK, StepTo

\* A critical section that is left without an acceptance keeps the types.
LEMMA RefuseType ==
    ASSUME TypeOK, NEW r \in Requests, Refuse(r),
           op' \in [Commands -> Ops], outcome' \in [Commands -> Outcomes], intent' \in [Commands -> Intents],
           step' \in [Commands -> [Phases -> {"pending", "succeeded", "failed", "revoked"}]],
           faults' \in 0..MaxFaults
    PROVE  TypeOK'
<1>1. pc' \in [Requests -> {"idle", "prepared", "reserved", "accepted", "over"}]  BY DEF TypeOK, Refuse, Over
<1>2. sent' \in [Requests -> Nat]  BY DEF TypeOK, Refuse, Over, NoLease
<1>3. mutex' \in {"free", "worker"} \cup Requests  BY DEF Refuse
<1> QED  BY <1>1, <1>2, <1>3 DEF TypeOK, Refuse, Ops, Outcomes, Intents

\* Every step keeps the types.
LEMMA TypeStep ==
    ASSUME TypeOK, Holders, Next
    PROVE  TypeOK'
<1>1. ASSUME NEW r \in Requests, Send(r) PROVE TypeOK'  BY <1>1 DEF Send, TypeOK
<1>2. ASSUME NEW r \in Requests, TurnAway(r) PROVE TypeOK'  BY <1>2 DEF TurnAway, Refuse, Over, NoLease, TypeOK
<1>3. ASSUME NEW r \in Requests, Reserve(r) PROVE TypeOK'  BY <1>3 DEF Reserve, OpOpen, TypeOK
<1>4. ASSUME NEW r \in Requests, Accept(r) PROVE TypeOK'  BY <1>4 DEF Accept, TypeOK
<1>5. ASSUME NEW r \in Requests, AcceptExpired(r) PROVE TypeOK'
  <2>1. CmdOf[r] \in Commands /\ "revoked" \in Intents  BY DEF Intents
  <2>2. faults' \in 0..MaxFaults  BY <1>5 DEF AcceptExpired, TypeOK
  <2> QED  BY <1>5, <2>1, <2>2, RejectType, RefuseType DEF AcceptExpired
<1>6. ASSUME NEW r \in Requests, AcceptConflict(r) PROVE TypeOK'
  <2>1. CmdOf[r] \in Commands /\ "failed" \in Intents  BY DEF Intents
  <2>2. faults' \in 0..MaxFaults  BY <1>6 DEF AcceptConflict, TypeOK
  <2> QED  BY <1>6, <2>1, <2>2, RejectType, RefuseType DEF AcceptConflict
<1>7. ASSUME NEW r \in Requests, AcceptFailed(r) PROVE TypeOK'
  BY <1>7, RefuseType DEF AcceptFailed, TypeOK, Ops, Outcomes, Intents
<1>8. ASSUME NEW r \in Requests, AcceptError(r) PROVE TypeOK'
  BY <1>8, FaultType, RefuseType DEF AcceptError, TypeOK, Ops, Outcomes, Intents
<1>9. ASSUME NEW r \in Requests, Answer(r) PROVE TypeOK'
  <2>1. queue' \in Seq(Commands)
    <3>1. queue \in Seq(Commands) /\ CmdOf[r] \in Commands  BY DEF TypeOK
    <3>2. Append(queue, CmdOf[r]) \in Seq(Commands)  BY <3>1
    <3> QED  BY <1>9, <3>1, <3>2 DEF Answer
  <2>2. faults' \in 0..MaxFaults /\ unqueued' \subseteq Commands  BY <1>9, FaultType DEF Answer, TypeOK
  <2> QED  BY <1>9, <2>1, <2>2 DEF Answer, Over, NoLease, TypeOK
<1>10. ASSUME Take PROVE TypeOK'
  <2>1. queue \in Seq(Commands) /\ queue # <<>>  BY <1>10 DEF Take, TypeOK
  <2>2. queue' \in Seq(Commands) /\ cmd' \in Commands /\ tries' \in 0..MaxTries - 1
    BY <1>10, <2>1, HeadTailProperties, PlaceTypes DEF Take
  <2> QED  BY <1>10, <2>2 DEF Take, TypeOK
<1>11. ASSUME Look PROVE TypeOK'
  <2>1. CASE project = "serving"  BY <1>11, <2>1 DEF Look, Ended, TypeOK
  <2>2. CASE project # "serving"  BY <1>11, <2>2, RetryType DEF Look, TypeOK
  <2> QED  BY <2>1, <2>2
<1>12. ASSUME Begin PROVE TypeOK'  BY <1>12, PlaceTypes DEF Begin, TypeOK
<1>13. ASSUME StepSaved PROVE TypeOK'
  <2>1. at \in Phases  BY <1>13 DEF StepSaved, Holders
  <2> QED  BY <1>13, <2>1, BegunType, StepToType, PlaceTypes DEF StepSaved, Ops, TypeOK, Places
<1>14. ASSUME StepUnsaved PROVE TypeOK'  BY <1>14, RetryType, FaultType DEF StepUnsaved, Leave, TypeOK
<1>15. ASSUME Decide PROVE TypeOK'
  <2>1. op' \in [Commands -> Ops] /\ outcome' \in [Commands -> Outcomes] /\ intent' \in [Commands -> Intents]
    <3>1. CASE ~ForwardDone(cmd) /\ Owed(cmd) /\ step[cmd]["discard"] = "pending"
      <4>1. op' \in [Commands -> Ops]
        <5>1. op' = [op EXCEPT ![cmd] = IF @ \in {"accepted", "running"} THEN "compensating" ELSE @]
          BY <1>15, <3>1 DEF Decide
        <5> QED  BY <5>1 DEF TypeOK, Ops, OpOpen
      <4> QED  BY <1>15, <3>1, <4>1 DEF Decide, TypeOK, Outcomes, Intents
    <3>2. CASE ~(~ForwardDone(cmd) /\ Owed(cmd) /\ step[cmd]["discard"] = "pending")
      BY <1>15, <3>2, FinishType DEF Decide, TypeOK, Outcomes, Intents
    <3> QED  BY <3>1, <3>2
  <2>2. at' \in Places  BY <1>15 DEF Decide, Places, Phases
  <2> QED  BY <1>15, <2>1, <2>2 DEF Decide, TypeOK, Ops, Outcomes, Intents, Places
<1>16. ASSUME DecideError PROVE TypeOK'  BY <1>16, RetryType, FaultType DEF DecideError, Leave, TypeOK
<1>17. ASSUME Deliver PROVE TypeOK'  BY <1>17, PlaceTypes DEF Deliver, Drain, TypeOK
<1>18. ASSUME DeliverError PROVE TypeOK'  BY <1>18, RetryType, FaultType DEF DeliverError, Drain, DrainError, TypeOK
<1>19. ASSUME NEW p \in Phases, StepBarred(p) PROVE TypeOK'  BY <1>19, RetryType DEF StepBarred, Leave, TypeOK
<1>20. ASSUME NEW p \in Phases, StepRecorded(p) PROVE TypeOK'
  BY <1>20, BegunType, PlaceTypes DEF StepRecorded, Ops, TypeOK
<1>21. ASSUME NEW p \in Phases, StepRevoked(p) PROVE TypeOK'
  BY <1>21, BegunType, StepToType DEF StepRevoked, Ops, Pending, AtStep, TypeOK
<1>22. ASSUME NEW p \in Phases, StepConflict(p) PROVE TypeOK'
  BY <1>22, BegunType, StepToType DEF StepConflict, Ops, Pending, AtStep, TypeOK
<1>23. ASSUME NEW p \in Phases, StepError(p) PROVE TypeOK'
  BY <1>23, RetryType, FaultType, BegunType DEF StepError, Leave, Ops, TypeOK
<1>24. ASSUME NEW p \in Phases, StepEffect(p) PROVE TypeOK'
  <2>1. CASE Receipt(cmd, p)  BY <1>24, <2>1 DEF StepEffect, TypeOK
  <2>2. CASE ~Receipt(cmd, p)
    <3>1. done' \subseteq Commands \X Phases /\ outbox' \subseteq Commands  BY <1>24, <2>2 DEF StepEffect, TypeOK
    <3>2. TaskAfter[p] \in {"draft", "running", "deleted"}  BY PlaceTypes DEF TaskAfter
    <3>3. task' \in [Commands -> {"none", "draft", "running", "cancelled", "deleted"}]
      BY <1>24, <2>2, <3>2 DEF StepEffect, TypeOK
    <3>4. created' \in [Commands -> Nat]
      <4>1. created \in [Commands -> Nat]  BY DEF TypeOK
      <4> QED  BY <1>24, <2>2, <4>1 DEF StepEffect
    <3> QED  BY <1>24, <2>2, <3>1, <3>3, <3>4 DEF StepEffect, TypeOK
  <2> QED  BY <2>1, <2>2
<1>25. ASSUME Close PROVE TypeOK'  BY <1>25 DEF Close, OpEnded, TypeOK
<1>26. ASSUME Opening PROVE TypeOK'
  <2>1. ASSUME Closed PROVE TypeOK'  BY <2>1 DEF Closed, TypeOK
  <2>2. ASSUME Register PROVE TypeOK'  BY <2>2 DEF Register, Reconciled, TypeOK
  <2>3. ASSUME RegisterLifecycle PROVE TypeOK'  BY <2>3 DEF RegisterLifecycle, Drain, TypeOK
  <2>4. ASSUME RegisterStart PROVE TypeOK'
    <3>1. SetToSeq(Resumed) \in Seq(Commands)  BY ResumedType DEF Resumed, Unfinished
    <3> QED  BY <3>1, <2>4 DEF RegisterStart, TypeOK
  <2> QED  BY <1>26, <2>1, <2>2, <2>3, <2>4 DEF Opening
<1>27. ASSUME Takeover PROVE TypeOK'  BY <1>27 DEF Takeover, NoLease, TypeOK
<1>28. ASSUME Crash PROVE TypeOK'
  <2>1. pc' \in [Requests -> {"idle", "over"}] /\ sent' \in [Requests -> Nat]  BY <1>28 DEF Crash, NoLease
  <2>2. crashes' \in 0..MaxCrashes /\ lease' \in Nat \ {NoLease}  BY <1>28 DEF Crash, TypeOK, NoLease
  <2>3. queue' \in Seq(Commands) /\ tries' \in 0..MaxTries - 1  BY <1>28, PlaceTypes DEF Crash
  <2> QED  BY <1>28, <2>1, <2>2, <2>3 DEF Crash, TypeOK
<1>29. ASSUME ChangeWorkflow PROVE TypeOK'  BY <1>29 DEF ChangeWorkflow, TypeOK
<1>30. ASSUME NEW c \in Commands, CancelRun(c) PROVE TypeOK'
  BY <1>30, FaultType DEF CancelRun, Drain, DrainError, TypeOK
<1> QED  BY <1>1, <1>2, <1>3, <1>4, <1>5, <1>6, <1>7, <1>8, <1>9, <1>10, <1>11, <1>12, <1>13, <1>14, <1>15,
     <1>16, <1>17, <1>18, <1>19, <1>20, <1>21, <1>22, <1>23, <1>24, <1>25, <1>26, <1>27, <1>28,
     <1>29, <1>30
     DEF Next, Request, Worker

\* The critical section is held by the worker at work and by a request that is being accepted.
LEMMA HoldersStep ==
    ASSUME TypeOK, Holders, Next
    PROVE  Holders'
<1>1. ASSUME NEW r \in Requests, Send(r) PROVE Holders'  BY <1>1 DEF Send, Holders
<1>2. ASSUME NEW r \in Requests, TurnAway(r) PROVE Holders'  BY <1>2 DEF TurnAway, Refuse, Over, Holders
<1>3. ASSUME NEW r \in Requests, Reserve(r) PROVE Holders'  BY <1>3 DEF Reserve, Enter, Holders
<1>4. ASSUME NEW r \in Requests, Accept(r) PROVE Holders'  BY <1>4 DEF Accept, Holders
<1>5. ASSUME NEW r \in Requests, AcceptExpired(r) PROVE Holders'
  BY <1>5 DEF AcceptExpired, Refuse, Over, Holders, TypeOK
<1>6. ASSUME NEW r \in Requests, AcceptConflict(r) PROVE Holders'
  BY <1>6 DEF AcceptConflict, Refuse, Over, Holders, TypeOK
<1>7. ASSUME NEW r \in Requests, AcceptFailed(r) PROVE Holders'  BY <1>7 DEF AcceptFailed, Refuse, Over, Holders, TypeOK
<1>8. ASSUME NEW r \in Requests, AcceptError(r) PROVE Holders'  BY <1>8 DEF AcceptError, Refuse, Over, Holders, TypeOK
<1>9. ASSUME NEW r \in Requests, Answer(r) PROVE Holders'  BY <1>9 DEF Answer, Over, Holders, TypeOK
<1>10. ASSUME Take PROVE Holders'  BY <1>10, PlaceTypes DEF Take, Holders
<1>11. ASSUME Look PROVE Holders'  BY <1>11, PlaceTypes DEF Look, Retry, Holders
<1>12. ASSUME Begin PROVE Holders'  BY <1>12 DEF Begin, Holders
<1>13. ASSUME StepSaved PROVE Holders'  BY <1>13 DEF StepSaved, Holders
<1>14. ASSUME StepUnsaved PROVE Holders'  BY <1>14, PlaceTypes DEF StepUnsaved, Leave, Retry, Holders
<1>15. ASSUME Decide PROVE Holders'  BY <1>15, PlaceTypes DEF Decide, Holders
<1>16. ASSUME DecideError PROVE Holders'  BY <1>16, PlaceTypes DEF DecideError, Leave, Retry, Holders
<1>17. ASSUME Deliver PROVE Holders'  BY <1>17, PlaceTypes DEF Deliver, Holders
<1>18. ASSUME DeliverError PROVE Holders'  BY <1>18, PlaceTypes DEF DeliverError, Retry, Holders
<1>19. ASSUME NEW p \in Phases, StepBarred(p) PROVE Holders'
  BY <1>19, PlaceTypes DEF StepBarred, AtStep, Leave, Retry, Holders
<1>20. ASSUME NEW p \in Phases, StepRecorded(p) PROVE Holders'  BY <1>20 DEF StepRecorded, AtStep, Holders
<1>21. ASSUME NEW p \in Phases, StepRevoked(p) PROVE Holders'  BY <1>21 DEF StepRevoked, Pending, AtStep, Holders
<1>22. ASSUME NEW p \in Phases, StepConflict(p) PROVE Holders'  BY <1>22 DEF StepConflict, Pending, AtStep, Holders
<1>23. ASSUME NEW p \in Phases, StepError(p) PROVE Holders'
  BY <1>23, PlaceTypes DEF StepError, Pending, AtStep, Leave, Retry, Holders
<1>24. ASSUME NEW p \in Phases, StepEffect(p) PROVE Holders'  BY <1>24 DEF StepEffect, Pending, AtStep, Holders
<1>25. ASSUME Close PROVE Holders'  BY <1>25 DEF Close, Holders
<1>26. ASSUME Takeover PROVE Holders'  BY <1>26 DEF Takeover, Holders
<1>27. ASSUME Crash PROVE Holders'  BY <1>27, PlaceTypes DEF Crash, Holders
<1>28. ASSUME ChangeWorkflow PROVE Holders'  BY <1>28 DEF ChangeWorkflow, Holders
<1>29. ASSUME NEW c \in Commands, CancelRun(c) PROVE Holders'  BY <1>29 DEF CancelRun, Holders
<1>30. ASSUME Closed PROVE Holders'  BY <1>30 DEF Closed, Holders
<1>31. ASSUME Register PROVE Holders'  BY <1>31 DEF Register, Holders
<1>32. ASSUME RegisterLifecycle PROVE Holders'  BY <1>32 DEF RegisterLifecycle, Holders
<1>33. ASSUME RegisterStart PROVE Holders'  BY <1>33 DEF RegisterStart, Holders
<1> QED  BY <1>1, <1>2, <1>3, <1>4, <1>5, <1>6, <1>7, <1>8, <1>9, <1>10, <1>11, <1>12, <1>13, <1>14, <1>15,
     <1>16, <1>17, <1>18, <1>19, <1>20, <1>21, <1>22, <1>23, <1>24, <1>25, <1>26, <1>27, <1>28,
     <1>29, <1>30, <1>31, <1>32, <1>33
     DEF Next, Request, Worker, Opening

----
(* The rows of the two stores.                                             *)

\* What the place of the worker says of the operation, and of the commit that was made.
AtWork ==
    /\ at = "activate" => op[cmd] = "running"
    /\ at = "discard" => op[cmd] = "compensating"
    /\ at = "decide" => op[cmd] \in {"running", "compensating"}
    /\ saved => Runnable(cmd, at) /\ <<cmd, at>> \in done

\* Nobody else ends the operation that the worker has in hand.
LEMMA AtWorkStep ==
    ASSUME TypeOK, Holders, AtWork, Next
    PROVE  AtWork'
<1>1. ASSUME NEW r \in Requests, Send(r) PROVE AtWork'  BY <1>1 DEF Send, AtWork, Runnable
<1>2. ASSUME NEW r \in Requests, TurnAway(r) PROVE AtWork'  BY <1>2 DEF TurnAway, Refuse, AtWork, Runnable
<1>3. ASSUME NEW r \in Requests, Reserve(r) PROVE AtWork'  BY <1>3 DEF Reserve, AtWork, Runnable
<1>4. ASSUME NEW r \in Requests, Accept(r) PROVE AtWork'  BY <1>4 DEF Accept, AtWork, Runnable
<1>5. ASSUME NEW r \in Requests, AcceptExpired(r) PROVE AtWork'
  BY <1>5 DEF AcceptExpired, Refuse, Holders, AtWork, TypeOK
<1>6. ASSUME NEW r \in Requests, AcceptConflict(r) PROVE AtWork'
  BY <1>6 DEF AcceptConflict, Refuse, Holders, AtWork, TypeOK
<1>7. ASSUME NEW r \in Requests, AcceptFailed(r) PROVE AtWork'  BY <1>7 DEF AcceptFailed, Refuse, AtWork, Runnable
<1>8. ASSUME NEW r \in Requests, AcceptError(r) PROVE AtWork'  BY <1>8 DEF AcceptError, Refuse, AtWork, Runnable
<1>9. ASSUME NEW r \in Requests, Answer(r) PROVE AtWork'  BY <1>9 DEF Answer, AtWork, Runnable
<1>10. ASSUME Take PROVE AtWork'  BY <1>10, PlaceTypes DEF Take, AtWork, TypeOK
<1>11. ASSUME Look PROVE AtWork'  BY <1>11, PlaceTypes DEF Look, Retry, AtWork, TypeOK
<1>12. ASSUME Begin PROVE AtWork'  BY <1>12 DEF Begin, Holders, AtWork
<1>13. ASSUME StepSaved PROVE AtWork'  BY <1>13 DEF StepSaved, AtWork, TypeOK, Runnable, Begun, After
<1>14. ASSUME StepUnsaved PROVE AtWork'  BY <1>14 DEF StepUnsaved, Leave, Retry, AtWork
<1>15. ASSUME Decide PROVE AtWork'  BY <1>15, PlaceTypes DEF Decide, AtWork, TypeOK
<1>16. ASSUME DecideError PROVE AtWork'  BY <1>16 DEF DecideError, Leave, Retry, AtWork
<1>17. ASSUME Deliver PROVE AtWork'  BY <1>17, PlaceTypes DEF Deliver, AtWork, TypeOK
<1>18. ASSUME DeliverError PROVE AtWork'  BY <1>18 DEF DeliverError, Retry, AtWork
<1>19. ASSUME NEW p \in Phases, StepBarred(p) PROVE AtWork'  BY <1>19 DEF StepBarred, Leave, Retry, AtWork
<1>20. ASSUME NEW p \in Phases, StepRecorded(p) PROVE AtWork'
  BY <1>20 DEF StepRecorded, AtStep, AtWork, TypeOK, Runnable, Begun, After
<1>21. ASSUME NEW p \in Phases, StepRevoked(p) PROVE AtWork'
  BY <1>21 DEF StepRevoked, Pending, AtStep, AtWork, TypeOK, Runnable, Begun
<1>22. ASSUME NEW p \in Phases, StepConflict(p) PROVE AtWork'
  BY <1>22 DEF StepConflict, Pending, AtStep, AtWork, TypeOK, Runnable, Begun
<1>23. ASSUME NEW p \in Phases, StepError(p) PROVE AtWork'  BY <1>23 DEF StepError, Leave, Retry, AtWork
<1>24. ASSUME NEW p \in Phases, StepEffect(p) PROVE AtWork'
  <2>1. at = p /\ Runnable(cmd, at)  BY <1>24 DEF StepEffect, Pending, AtStep
  <2>2. <<cmd, at>> \in done'  BY <1>24, <2>1 DEF StepEffect, Receipt
  <2>3. at' = at /\ cmd' = cmd /\ op' = op  BY <1>24 DEF StepEffect
  <2> QED  BY <2>1, <2>2, <2>3 DEF AtWork, Runnable
<1>25. ASSUME Close PROVE AtWork'  BY <1>25 DEF Close, Enter, Holders, AtWork, TypeOK
<1>26. ASSUME Takeover PROVE AtWork'  BY <1>26 DEF Takeover, AtWork
<1>27. ASSUME Crash PROVE AtWork'  BY <1>27 DEF Crash, AtWork
<1>28. ASSUME ChangeWorkflow PROVE AtWork'  BY <1>28 DEF ChangeWorkflow, AtWork, Runnable
<1>29. ASSUME NEW c \in Commands, CancelRun(c) PROVE AtWork'  BY <1>29 DEF CancelRun, AtWork, Runnable
<1>30. ASSUME Closed PROVE AtWork'  BY <1>30 DEF Closed, AtWork, Runnable
<1>31. ASSUME Register PROVE AtWork'  BY <1>31 DEF Register, AtWork, Runnable
<1>32. ASSUME RegisterLifecycle PROVE AtWork'  BY <1>32 DEF RegisterLifecycle, AtWork, Runnable
<1>33. ASSUME RegisterStart PROVE AtWork'  BY <1>33 DEF RegisterStart, AtWork, Runnable
<1> QED  BY <1>1, <1>2, <1>3, <1>4, <1>5, <1>6, <1>7, <1>8, <1>9, <1>10, <1>11, <1>12, <1>13, <1>14, <1>15,
     <1>16, <1>17, <1>18, <1>19, <1>20, <1>21, <1>22, <1>23, <1>24, <1>25, <1>26, <1>27, <1>28,
     <1>29, <1>30, <1>31, <1>32, <1>33
     DEF Next, Request, Worker, Opening

\* The result of a step is written in its row only.
LEMMA StepToRows ==
    ASSUME TypeOK, at \in Phases, NEW s, StepTo(s)
    PROVE  \A c \in Commands, p \in Phases : step'[c][p] = IF c = cmd /\ p = at THEN s ELSE step[c][p]
BY DEF TypeOK, StepTo

\* A step that is recorded as done has its receipt; a task is created with the receipt of its
\* step; the dispatch of an activated run waits or was executed.
Recorded ==
    \A c \in Commands :
        /\ \A p \in Phases : step[c][p] = "succeeded" => <<c, p>> \in done
        /\ created[c] = IF <<c, "materialize">> \in done THEN 1 ELSE 0
        /\ <<c, "activate">> \in done => c \in outbox \cup delivered

\* What is recorded of a step in either store is true of the other.
LEMMA RecordedStep ==
    ASSUME TypeOK, Holders, AtWork, Recorded, Next
    PROVE  Recorded'
<1>1. ASSUME NEW r \in Requests, Send(r) PROVE Recorded'  BY <1>1 DEF Send, Recorded
<1>2. ASSUME NEW r \in Requests, TurnAway(r) PROVE Recorded'  BY <1>2 DEF TurnAway, Refuse, Recorded
<1>3. ASSUME NEW r \in Requests, Reserve(r) PROVE Recorded'  BY <1>3 DEF Reserve, Recorded
<1>4. ASSUME NEW r \in Requests, Accept(r) PROVE Recorded'  BY <1>4 DEF Accept, Recorded
<1>5. ASSUME NEW r \in Requests, AcceptExpired(r) PROVE Recorded'
  BY <1>5 DEF AcceptExpired, Refuse, Recorded, TypeOK, Reject
<1>6. ASSUME NEW r \in Requests, AcceptConflict(r) PROVE Recorded'
  BY <1>6 DEF AcceptConflict, Refuse, Recorded, TypeOK, Reject
<1>7. ASSUME NEW r \in Requests, AcceptFailed(r) PROVE Recorded'  BY <1>7 DEF AcceptFailed, Refuse, Recorded
<1>8. ASSUME NEW r \in Requests, AcceptError(r) PROVE Recorded'  BY <1>8 DEF AcceptError, Refuse, Recorded
<1>9. ASSUME NEW r \in Requests, Answer(r) PROVE Recorded'  BY <1>9 DEF Answer, Recorded
<1>10. ASSUME Take PROVE Recorded'  BY <1>10 DEF Take, Recorded
<1>11. ASSUME Look PROVE Recorded'  BY <1>11 DEF Look, Recorded
<1>12. ASSUME Begin PROVE Recorded'  BY <1>12 DEF Begin, Recorded
<1>13. ASSUME StepSaved PROVE Recorded'
  <2>1. at \in Phases /\ StepTo("succeeded") /\ <<cmd, at>> \in done  BY <1>13 DEF StepSaved, Holders, AtWork
  <2>2. UNCHANGED <<done, created, outbox, delivered>>  BY <1>13 DEF StepSaved
  <2>3. \A c \in Commands, p \in Phases : step'[c][p] = "succeeded" => <<c, p>> \in done
    <3> SUFFICES ASSUME NEW c \in Commands, NEW p \in Phases, step'[c][p] = "succeeded"
                 PROVE  <<c, p>> \in done
      OBVIOUS
    <3>1. CASE c = cmd /\ p = at  BY <2>1, <3>1
    <3>2. CASE ~(c = cmd /\ p = at)
      <4>1. step'[c][p] = step[c][p]  BY <2>1, <3>2, StepToRows
      <4> QED  BY <4>1 DEF Recorded
    <3> QED  BY <3>1, <3>2
  <2> QED  BY <2>2, <2>3 DEF Recorded
<1>14. ASSUME StepUnsaved PROVE Recorded'  BY <1>14 DEF StepUnsaved, Recorded
<1>15. ASSUME Decide PROVE Recorded'  BY <1>15 DEF Decide, Recorded
<1>16. ASSUME DecideError PROVE Recorded'  BY <1>16 DEF DecideError, Recorded
<1>17. ASSUME Deliver PROVE Recorded'  BY <1>17 DEF Deliver, Drain, Recorded
<1>18. ASSUME DeliverError PROVE Recorded'  BY <1>18 DEF DeliverError, Drain, DrainError, Recorded
<1>19. ASSUME NEW p \in Phases, StepBarred(p) PROVE Recorded'  BY <1>19 DEF StepBarred, Recorded
<1>20. ASSUME NEW p \in Phases, StepRecorded(p) PROVE Recorded'  BY <1>20 DEF StepRecorded, Recorded
<1>21. ASSUME NEW p \in Phases, StepRevoked(p) PROVE Recorded'
  <2>1. at \in Phases /\ StepTo("revoked")  BY <1>21 DEF StepRevoked, Pending, AtStep
  <2>2. UNCHANGED <<done, created, outbox, delivered>>  BY <1>21 DEF StepRevoked
  <2>3. \A c \in Commands, q \in Phases : step'[c][q] = "succeeded" => step[c][q] = "succeeded"  BY <2>1, StepToRows
  <2> QED  BY <2>2, <2>3 DEF Recorded
<1>22. ASSUME NEW p \in Phases, StepConflict(p) PROVE Recorded'
  <2>1. at \in Phases /\ StepTo("failed")  BY <1>22 DEF StepConflict, Pending, AtStep
  <2>2. UNCHANGED <<done, created, outbox, delivered>>  BY <1>22 DEF StepConflict
  <2>3. \A c \in Commands, q \in Phases : step'[c][q] = "succeeded" => step[c][q] = "succeeded"  BY <2>1, StepToRows
  <2> QED  BY <2>2, <2>3 DEF Recorded
<1>23. ASSUME NEW p \in Phases, StepError(p) PROVE Recorded'  BY <1>23 DEF StepError, Recorded
<1>24. ASSUME NEW p \in Phases, StepEffect(p) PROVE Recorded'
  <2>1. CASE Receipt(cmd, p)  BY <1>24, <2>1 DEF StepEffect, Recorded
  <2>2. CASE ~Receipt(cmd, p)
    <3>1. /\ done' = done \cup {<<cmd, p>>} /\ step' = step /\ delivered' = delivered
          /\ outbox' = IF p = "activate" THEN outbox \cup {cmd} ELSE outbox
          /\ created' = IF p = "materialize" THEN [created EXCEPT ![cmd] = @ + 1] ELSE created
      BY <1>24, <2>2 DEF StepEffect
    <3>2. created[cmd] = 0 \/ p # "materialize"  BY <2>2 DEF Recorded, Receipt, TypeOK
    <3>3. \A c \in Commands : created'[c] = IF <<c, "materialize">> \in done' THEN 1 ELSE 0
      <4>1. cmd \in Commands /\ created \in [Commands -> Nat]  BY DEF TypeOK
      <4>2. CASE p = "materialize"
        <5>1. created' = [created EXCEPT ![cmd] = 1] /\ done' = done \cup {<<cmd, "materialize">>}
          BY <3>1, <3>2, <4>1, <4>2
        <5> QED  BY <4>1, <5>1 DEF Recorded
      <4>3. CASE p # "materialize"
        <5>1. created' = created /\ \A c \in Commands : <<c, "materialize">> \in done' <=> <<c, "materialize">> \in done
          BY <3>1, <4>3
        <5> QED  BY <5>1 DEF Recorded
      <4> QED  BY <4>2, <4>3
    <3>4. \A c \in Commands : <<c, "activate">> \in done' => c \in outbox' \cup delivered'  BY <3>1 DEF Recorded
    <3> QED  BY <3>1, <3>3, <3>4 DEF Recorded
  <2> QED  BY <2>1, <2>2
<1>25. ASSUME Close PROVE Recorded'  BY <1>25 DEF Close, Recorded
<1>26. ASSUME Takeover PROVE Recorded'  BY <1>26 DEF Takeover, Recorded
<1>27. ASSUME Crash PROVE Recorded'  BY <1>27 DEF Crash, Recorded
<1>28. ASSUME ChangeWorkflow PROVE Recorded'  BY <1>28 DEF ChangeWorkflow, Recorded
<1>29. ASSUME NEW c \in Commands, CancelRun(c) PROVE Recorded'  BY <1>29 DEF CancelRun, Drain, DrainError, Recorded
<1>30. ASSUME Closed PROVE Recorded'  BY <1>30 DEF Closed, Recorded
<1>31. ASSUME Register PROVE Recorded'  BY <1>31 DEF Register, Reconciled, Recorded
<1>32. ASSUME RegisterLifecycle PROVE Recorded'  BY <1>32 DEF RegisterLifecycle, Drain, Recorded
<1>33. ASSUME RegisterStart PROVE Recorded'  BY <1>33 DEF RegisterStart, Recorded
<1> QED  BY <1>1, <1>2, <1>3, <1>4, <1>5, <1>6, <1>7, <1>8, <1>9, <1>10, <1>11, <1>12, <1>13, <1>14, <1>15,
     <1>16, <1>17, <1>18, <1>19, <1>20, <1>21, <1>22, <1>23, <1>24, <1>25, <1>26, <1>27, <1>28,
     <1>29, <1>30, <1>31, <1>32, <1>33
     DEF Next, Request, Worker, Opening

\* The end of an operation, its outcome and the end of its intent are written together.
Rows ==
    \A c \in Commands :
        /\ op[c] = "none" => intent[c] = "none" /\ outcome[c] = "none"
        /\ op[c] \in OpOpen => intent[c] = "reserved" /\ outcome[c] = "none"
        /\ op[c] \in OpEnded => intent[c] \in {"applied", "failed", "revoked"} /\ outcome[c] # "none"
        /\ intent[c] = "applied" <=> outcome[c] = "applied"
        /\ outcome[c] = "applied" => <<c, "activate">> \in done

\* An open operation is ended together with its intent.
LEMMA FinishRows ==
    ASSUME TypeOK, Rows, NEW c \in Commands, NEW how \in Outcomes \ {"none"},
           NEW state \in {"applied", "failed", "revoked"}, Finish(c, how, state), op[c] \in OpOpen,
           how = "applied" <=> state = "applied",
           how = "applied" => <<c, "activate">> \in done, done' = done
    PROVE  Rows'
<1>1. /\ op'[c] = IF how = "needs_you" THEN "needs_you" ELSE "completed"
      /\ outcome'[c] = how /\ intent'[c] = state
  BY DEF Finish, TypeOK
<1>2. \A e \in Commands \ {c} : op'[e] = op[e] /\ outcome'[e] = outcome[e] /\ intent'[e] = intent[e]
  BY DEF Finish, TypeOK
<1>3. op'[c] \in OpEnded /\ op'[c] \notin OpOpen /\ op'[c] # "none"  BY <1>1 DEF OpEnded, OpOpen
<1> QED  BY <1>1, <1>2, <1>3 DEF Rows

\* An operation that was not accepted is ended like any other.
LEMMA RejectRows ==
    ASSUME TypeOK, Rows, NEW c \in Commands, NEW state \in {"failed", "revoked"}, Reject(c, state), done' = done
    PROVE  Rows'
<1>1. CASE op[c] \in OpOpen  BY <1>1, FinishRows DEF Reject, Outcomes
<1>2. CASE op[c] \notin OpOpen  BY <1>2 DEF Reject, Rows
<1> QED  BY <1>1, <1>2

\* An operation that is begun stays open.
LEMMA BegunRows ==
    ASSUME TypeOK, Rows, op' \in {op, Begun(cmd)}, UNCHANGED <<intent, outcome>>, done \subseteq done'
    PROVE  Rows'
<1>1. \A c \in Commands : op'[c] = op[c] \/ (op[c] = "accepted" /\ op'[c] = "running")  BY DEF Begun, TypeOK
<1> QED  BY <1>1 DEF Rows, OpOpen, OpEnded

\* Every end of an operation is written in its three rows, and only an activated run is reported as applied.
LEMMA RowsStep ==
    ASSUME TypeOK, Holders, AtWork, Recorded, Rows, Next
    PROVE  Rows'
<1>1. ASSUME NEW r \in Requests, Send(r) PROVE Rows'  BY <1>1 DEF Send, Rows
<1>2. ASSUME NEW r \in Requests, TurnAway(r) PROVE Rows'  BY <1>2 DEF TurnAway, Refuse, Rows
<1>3. ASSUME NEW r \in Requests, Reserve(r) PROVE Rows'
  <2>1. CASE op[CmdOf[r]] = "none"
    <3>1. /\ op' = [op EXCEPT ![CmdOf[r]] = "accepted"] /\ intent' = [intent EXCEPT ![CmdOf[r]] = "reserved"]
          /\ outcome' = outcome /\ done' = done
      BY <1>3, <2>1 DEF Reserve
    <3>2. CmdOf[r] \in Commands /\ op \in [Commands -> Ops] /\ intent \in [Commands -> Intents]
      BY DEF TypeOK, Ops, Intents
    <3> QED  BY <2>1, <3>1, <3>2 DEF Rows, OpOpen, OpEnded
  <2>2. CASE op[CmdOf[r]] # "none"  BY <1>3, <2>2 DEF Reserve, Rows
  <2> QED  BY <2>1, <2>2
<1>4. ASSUME NEW r \in Requests, Accept(r) PROVE Rows'  BY <1>4 DEF Accept, Rows
<1>5. ASSUME NEW r \in Requests, AcceptExpired(r) PROVE Rows'  BY <1>5, RejectRows DEF AcceptExpired, Refuse
<1>6. ASSUME NEW r \in Requests, AcceptConflict(r) PROVE Rows'  BY <1>6, RejectRows DEF AcceptConflict, Refuse
<1>7. ASSUME NEW r \in Requests, AcceptFailed(r) PROVE Rows'  BY <1>7 DEF AcceptFailed, Refuse, Rows
<1>8. ASSUME NEW r \in Requests, AcceptError(r) PROVE Rows'  BY <1>8 DEF AcceptError, Refuse, Rows
<1>9. ASSUME NEW r \in Requests, Answer(r) PROVE Rows'  BY <1>9 DEF Answer, Over, Rows
<1>10. ASSUME Take PROVE Rows'  BY <1>10 DEF Take, Rows
<1>11. ASSUME Look PROVE Rows'  BY <1>11 DEF Look, Retry, Rows
<1>12. ASSUME Begin PROVE Rows'  BY <1>12 DEF Begin, Rows
<1>13. ASSUME StepSaved PROVE Rows'  BY <1>13, BegunRows DEF StepSaved
<1>14. ASSUME StepUnsaved PROVE Rows'  BY <1>14 DEF StepUnsaved, Rows
<1>15. ASSUME Decide PROVE Rows'
  <2>1. /\ cmd \in Commands /\ op[cmd] \in OpOpen /\ done' = done
        /\ {"applied", "compensated", "needs_you"} \subseteq Outcomes \ {"none"}
    BY <1>15 DEF Decide, AtWork, OpOpen, TypeOK, Outcomes
  <2>2. CASE ~ForwardDone(cmd) /\ Owed(cmd) /\ step[cmd]["discard"] = "pending"
    <3>1. /\ op' = [op EXCEPT ![cmd] = IF @ \in {"accepted", "running"} THEN "compensating" ELSE @]
          /\ UNCHANGED <<intent, outcome>>
      BY <1>15, <2>2 DEF Decide
    <3>2. \A c \in Commands : op'[c] = op[c] \/ (op[c] \in OpOpen /\ op'[c] \in OpOpen)  BY <3>1 DEF TypeOK, OpOpen
    <3> QED  BY <2>1, <3>1, <3>2 DEF Rows, OpOpen, OpEnded
  <2>3. CASE ~(~ForwardDone(cmd) /\ Owed(cmd) /\ step[cmd]["discard"] = "pending")
    BY <1>15, <2>1, <2>3, FinishRows DEF Decide, ForwardDone, Forward, Phases, Recorded
  <2> QED  BY <2>2, <2>3
<1>16. ASSUME DecideError PROVE Rows'  BY <1>16 DEF DecideError, Rows
<1>17. ASSUME Deliver PROVE Rows'  BY <1>17 DEF Deliver, Drain, Rows
<1>18. ASSUME DeliverError PROVE Rows'  BY <1>18 DEF DeliverError, Rows
<1>19. ASSUME NEW p \in Phases, StepBarred(p) PROVE Rows'  BY <1>19 DEF StepBarred, Rows
<1>20. ASSUME NEW p \in Phases, StepRecorded(p) PROVE Rows'  BY <1>20, BegunRows DEF StepRecorded
<1>21. ASSUME NEW p \in Phases, StepRevoked(p) PROVE Rows'  BY <1>21, BegunRows DEF StepRevoked
<1>22. ASSUME NEW p \in Phases, StepConflict(p) PROVE Rows'  BY <1>22, BegunRows DEF StepConflict
<1>23. ASSUME NEW p \in Phases, StepError(p) PROVE Rows'  BY <1>23, BegunRows DEF StepError
<1>24. ASSUME NEW p \in Phases, StepEffect(p) PROVE Rows'  BY <1>24 DEF StepEffect, Rows
<1>25. ASSUME Close PROVE Rows'  BY <1>25 DEF Close, Rows, OpOpen
<1>26. ASSUME Takeover PROVE Rows'  BY <1>26 DEF Takeover, Rows
<1>27. ASSUME Crash PROVE Rows'  BY <1>27 DEF Crash, Rows
<1>28. ASSUME ChangeWorkflow PROVE Rows'  BY <1>28 DEF ChangeWorkflow, Rows
<1>29. ASSUME NEW c \in Commands, CancelRun(c) PROVE Rows'  BY <1>29 DEF CancelRun, Rows
<1>30. ASSUME Closed PROVE Rows'  BY <1>30 DEF Closed, Rows
<1>31. ASSUME Register PROVE Rows'  BY <1>31 DEF Register, Rows
<1>32. ASSUME RegisterLifecycle PROVE Rows'  BY <1>32 DEF RegisterLifecycle, Drain, Rows
<1>33. ASSUME RegisterStart PROVE Rows'  BY <1>33 DEF RegisterStart, Rows
<1> QED  BY <1>1, <1>2, <1>3, <1>4, <1>5, <1>6, <1>7, <1>8, <1>9, <1>10, <1>11, <1>12, <1>13, <1>14, <1>15,
     <1>16, <1>17, <1>18, <1>19, <1>20, <1>21, <1>22, <1>23, <1>24, <1>25, <1>26, <1>27, <1>28,
     <1>29, <1>30, <1>31, <1>32, <1>33
     DEF Next, Request, Worker, Opening

----
(* Acceptance, queue and controllers.                                      *)

\* Nobody has been controller before the first controller, or is a later one.
Leases == (\A r \in Requests : sent[r] <= lease) /\ (\A c \in Commands : owner[c] <= lease)

\* A Start that may be worked on: it was accepted, or it slipped past the freeze, or no step of
\* it can be authorised any more.
Safe(c) == c \in accepted \/ c \in late \/ Ended(c) \/ owner[c] < lease
Workable == {c \in Commands : op[c] # "none" /\ Safe(c)}

\* Whatever the worker can get hold of may be worked on.
Queued ==
    /\ \A c \in accepted : op[c] # "none"
    /\ \A r \in Requests : pc[r] = "reserved" => op[CmdOf[r]] # "none"
    /\ \A r \in Requests : pc[r] = "accepted" => CmdOf[r] \in accepted
    /\ \A i \in 1..Len(queue) : queue[i] \in Workable
    /\ at # "idle" => cmd \in Workable
    /\ project # "serving" => Unfinished \subseteq Workable

\* A controller that was recorded is not later than the present one.
LEMMA LeasesStep ==
    ASSUME TypeOK, Leases, Next
    PROVE  Leases'
<1>1. ASSUME NEW r \in Requests, Send(r) PROVE Leases'  BY <1>1 DEF Send, Leases, TypeOK
<1>2. ASSUME NEW r \in Requests, TurnAway(r) PROVE Leases'  BY <1>2 DEF TurnAway, Refuse, Over, Leases, TypeOK, NoLease
<1>3. ASSUME NEW r \in Requests, Reserve(r) PROVE Leases'  BY <1>3 DEF Reserve, Leases
<1>4. ASSUME NEW r \in Requests, Accept(r) PROVE Leases'  BY <1>4 DEF Accept, Leases
<1>5. ASSUME NEW r \in Requests, AcceptExpired(r) PROVE Leases'
  BY <1>5 DEF AcceptExpired, Refuse, Over, Leases, TypeOK, NoLease
<1>6. ASSUME NEW r \in Requests, AcceptConflict(r) PROVE Leases'
  BY <1>6 DEF AcceptConflict, Refuse, Over, Leases, TypeOK, NoLease
<1>7. ASSUME NEW r \in Requests, AcceptFailed(r) PROVE Leases'
  BY <1>7 DEF AcceptFailed, Refuse, Over, Leases, TypeOK, NoLease
<1>8. ASSUME NEW r \in Requests, AcceptError(r) PROVE Leases'
  BY <1>8 DEF AcceptError, Refuse, Over, Leases, TypeOK, NoLease
<1>9. ASSUME NEW r \in Requests, Answer(r) PROVE Leases'  BY <1>9 DEF Answer, Over, Leases, TypeOK, NoLease
<1>10. ASSUME Take PROVE Leases'  BY <1>10 DEF Take, Leases
<1>11. ASSUME Look PROVE Leases'  BY <1>11 DEF Look, Leases
<1>12. ASSUME Begin PROVE Leases'  BY <1>12 DEF Begin, Leases
<1>13. ASSUME StepSaved PROVE Leases'  BY <1>13 DEF StepSaved, Leases
<1>14. ASSUME StepUnsaved PROVE Leases'  BY <1>14 DEF StepUnsaved, Leases
<1>15. ASSUME Decide PROVE Leases'  BY <1>15 DEF Decide, Leases
<1>16. ASSUME DecideError PROVE Leases'  BY <1>16 DEF DecideError, Leases
<1>17. ASSUME Deliver PROVE Leases'  BY <1>17 DEF Deliver, Leases
<1>18. ASSUME DeliverError PROVE Leases'  BY <1>18 DEF DeliverError, Leases
<1>19. ASSUME NEW p \in Phases, StepBarred(p) PROVE Leases'  BY <1>19 DEF StepBarred, Leases
<1>20. ASSUME NEW p \in Phases, StepRecorded(p) PROVE Leases'  BY <1>20 DEF StepRecorded, Leases
<1>21. ASSUME NEW p \in Phases, StepRevoked(p) PROVE Leases'  BY <1>21 DEF StepRevoked, Leases
<1>22. ASSUME NEW p \in Phases, StepConflict(p) PROVE Leases'  BY <1>22 DEF StepConflict, Leases
<1>23. ASSUME NEW p \in Phases, StepError(p) PROVE Leases'  BY <1>23 DEF StepError, Leases
<1>24. ASSUME NEW p \in Phases, StepEffect(p) PROVE Leases'  BY <1>24 DEF StepEffect, Leases
<1>25. ASSUME Close PROVE Leases'  BY <1>25 DEF Close, Leases
<1>26. ASSUME Takeover PROVE Leases'  BY <1>26 DEF Takeover, Leases, TypeOK
<1>27. ASSUME Crash PROVE Leases'  BY <1>27 DEF Crash, Leases, TypeOK, NoLease
<1>28. ASSUME ChangeWorkflow PROVE Leases'  BY <1>28 DEF ChangeWorkflow, Leases
<1>29. ASSUME NEW c \in Commands, CancelRun(c) PROVE Leases'  BY <1>29 DEF CancelRun, Leases
<1>30. ASSUME Closed PROVE Leases'  BY <1>30 DEF Closed, Leases
<1>31. ASSUME Register PROVE Leases'  BY <1>31 DEF Register, Leases
<1>32. ASSUME RegisterLifecycle PROVE Leases'  BY <1>32 DEF RegisterLifecycle, Leases
<1>33. ASSUME RegisterStart PROVE Leases'  BY <1>33 DEF RegisterStart, Leases
<1> QED  BY <1>1, <1>2, <1>3, <1>4, <1>5, <1>6, <1>7, <1>8, <1>9, <1>10, <1>11, <1>12, <1>13, <1>14, <1>15,
     <1>16, <1>17, <1>18, <1>19, <1>20, <1>21, <1>22, <1>23, <1>24, <1>25, <1>26, <1>27, <1>28,
     <1>29, <1>30, <1>31, <1>32, <1>33
     DEF Next, Request, Worker, Opening

\* What no step takes back: acceptances, late reservations, the end of an operation, an owner.
Keeps ==
    /\ accepted \subseteq accepted' /\ late \subseteq late' /\ lease <= lease'
    /\ \A c \in Commands : op[c] # "none" => op'[c] # "none" /\ owner'[c] = owner[c]
    /\ \A c \in Commands : Ended(c) => op'[c] = op[c] /\ outcome'[c] = outcome[c] /\ intent'[c] = intent[c]

\* No step takes any of it back.
LEMMA Kept ==
    ASSUME TypeOK, Holders, AtWork, Next
    PROVE  Keeps
<1>1. ASSUME NEW r \in Requests, Send(r) PROVE Keeps  BY <1>1 DEF Send, Keeps, TypeOK
<1>2. ASSUME NEW r \in Requests, TurnAway(r) PROVE Keeps  BY <1>2 DEF TurnAway, Refuse, Keeps, TypeOK
<1>3. ASSUME NEW r \in Requests, Reserve(r) PROVE Keeps  BY <1>3 DEF Reserve, Keeps, TypeOK, Ended, OpEnded
<1>4. ASSUME NEW r \in Requests, Accept(r) PROVE Keeps  BY <1>4 DEF Accept, Keeps, TypeOK
<1>5. ASSUME NEW r \in Requests, AcceptExpired(r) PROVE Keeps
  BY <1>5 DEF AcceptExpired, Refuse, Over, Keeps, TypeOK, Ended, OpEnded, OpOpen, Finish, Reject
<1>6. ASSUME NEW r \in Requests, AcceptConflict(r) PROVE Keeps
  BY <1>6 DEF AcceptConflict, Refuse, Over, Keeps, TypeOK, Holders, Ended, OpEnded, OpOpen, Finish, Reject
<1>7. ASSUME NEW r \in Requests, AcceptFailed(r) PROVE Keeps  BY <1>7 DEF AcceptFailed, Refuse, Keeps, TypeOK
<1>8. ASSUME NEW r \in Requests, AcceptError(r) PROVE Keeps  BY <1>8 DEF AcceptError, Refuse, Keeps, TypeOK
<1>9. ASSUME NEW r \in Requests, Answer(r) PROVE Keeps  BY <1>9 DEF Answer, Keeps, TypeOK
<1>10. ASSUME Take PROVE Keeps  BY <1>10 DEF Take, Keeps, TypeOK
<1>11. ASSUME Look PROVE Keeps  BY <1>11 DEF Look, Keeps, TypeOK
<1>12. ASSUME Begin PROVE Keeps  BY <1>12 DEF Begin, Keeps, TypeOK
<1>13. ASSUME StepSaved PROVE Keeps  BY <1>13 DEF StepSaved, Keeps, TypeOK, Ended, OpEnded, Begun
<1>14. ASSUME StepUnsaved PROVE Keeps  BY <1>14 DEF StepUnsaved, Keeps, TypeOK
<1>15. ASSUME Decide PROVE Keeps  BY <1>15 DEF Decide, Keeps, TypeOK, AtWork, Ended, OpEnded, Finish, Runnable
<1>16. ASSUME DecideError PROVE Keeps  BY <1>16 DEF DecideError, Keeps, TypeOK
<1>17. ASSUME Deliver PROVE Keeps  BY <1>17 DEF Deliver, Keeps, TypeOK
<1>18. ASSUME DeliverError PROVE Keeps  BY <1>18 DEF DeliverError, Keeps, TypeOK
<1>19. ASSUME NEW p \in Phases, StepBarred(p) PROVE Keeps  BY <1>19 DEF StepBarred, Keeps, TypeOK
<1>20. ASSUME NEW p \in Phases, StepRecorded(p) PROVE Keeps
  BY <1>20 DEF StepRecorded, Keeps, TypeOK, Ended, OpEnded, Begun
<1>21. ASSUME NEW p \in Phases, StepRevoked(p) PROVE Keeps
  BY <1>21 DEF StepRevoked, Keeps, TypeOK, Ended, OpEnded, Begun
<1>22. ASSUME NEW p \in Phases, StepConflict(p) PROVE Keeps
  BY <1>22 DEF StepConflict, Keeps, TypeOK, Ended, OpEnded, Begun
<1>23. ASSUME NEW p \in Phases, StepError(p) PROVE Keeps  BY <1>23 DEF StepError, Keeps, TypeOK, Ended, OpEnded, Begun
<1>24. ASSUME NEW p \in Phases, StepEffect(p) PROVE Keeps  BY <1>24 DEF StepEffect, Keeps, TypeOK
<1>25. ASSUME Close PROVE Keeps  BY <1>25 DEF Close, Keeps, TypeOK, Ended, OpEnded, OpOpen, Unfinished
<1>26. ASSUME Takeover PROVE Keeps  BY <1>26 DEF Takeover, Keeps, TypeOK
<1>27. ASSUME Crash PROVE Keeps  BY <1>27 DEF Crash, Keeps, TypeOK
<1>28. ASSUME ChangeWorkflow PROVE Keeps  BY <1>28 DEF ChangeWorkflow, Keeps, TypeOK
<1>29. ASSUME NEW c \in Commands, CancelRun(c) PROVE Keeps  BY <1>29 DEF CancelRun, Keeps, TypeOK
<1>30. ASSUME Closed PROVE Keeps  BY <1>30 DEF Closed, Keeps, TypeOK
<1>31. ASSUME Register PROVE Keeps  BY <1>31 DEF Register, Keeps, TypeOK
<1>32. ASSUME RegisterLifecycle PROVE Keeps  BY <1>32 DEF RegisterLifecycle, Keeps, TypeOK
<1>33. ASSUME RegisterStart PROVE Keeps  BY <1>33 DEF RegisterStart, Keeps, TypeOK
<1> QED  BY <1>1, <1>2, <1>3, <1>4, <1>5, <1>6, <1>7, <1>8, <1>9, <1>10, <1>11, <1>12, <1>13, <1>14, <1>15,
     <1>16, <1>17, <1>18, <1>19, <1>20, <1>21, <1>22, <1>23, <1>24, <1>25, <1>26, <1>27, <1>28,
     <1>29, <1>30, <1>31, <1>32, <1>33
     DEF Next, Request, Worker, Opening

\* A Start that may be worked on stays so.
LEMMA SafeKept ==
    ASSUME TypeOK, TypeOK', Keeps, NEW c \in Commands, op[c] # "none", Safe(c)
    PROVE  op'[c] # "none" /\ Safe(c)'
<1>1. owner[c] \in Nat /\ lease \in Nat /\ lease' \in Nat /\ owner'[c] = owner[c] /\ lease <= lease' /\ op'[c] # "none"
  BY DEF TypeOK, Keeps
<1>2. CASE owner[c] < lease
  <2>1. owner'[c] < lease'  BY <1>1, <1>2
  <2> QED  BY <1>1, <2>1 DEF Safe
<1>3. CASE Ended(c)  BY <1>1, <1>3 DEF Safe, Ended, Keeps
<1>4. CASE c \in accepted \cup late  BY <1>1, <1>4 DEF Safe, Keeps
<1> QED  BY <1>2, <1>3, <1>4 DEF Safe

\* Which steps write the queue, the receipts and what else Queued is about.
Sources ==
    /\ queue' = queue \/ (\E r \in Requests : Answer(r)) \/ Take \/ RegisterStart \/ Crash
    /\ accepted' = accepted \/ (\E r \in Requests : Accept(r))
    /\ \A r \in Requests : pc'[r] \in {pc[r], "over", "idle", "prepared"} \/ Reserve(r) \/ Accept(r)
    /\ at' # "idle" => at # "idle" \/ Take
    /\ cmd' = cmd \/ Take
    /\ project' # "serving" => project # "serving" \/ Close \/ Crash
    /\ (\A c \in Commands : op[c] = "none" => op'[c] = "none") \/ (\E r \in Requests : Reserve(r))
    /\ done' = done \/ (\E p \in Phases : StepEffect(p))

\* No other step writes them.
LEMMA Sourced ==
    ASSUME TypeOK, Holders, AtWork, Next
    PROVE  Sources
<1>1. ASSUME NEW r \in Requests, Send(r) PROVE Sources  BY <1>1 DEF Send, Sources
<1>2. ASSUME NEW r \in Requests, TurnAway(r) PROVE Sources  BY <1>2 DEF TurnAway, Refuse, Over, Sources
<1>3. ASSUME NEW r \in Requests, Reserve(r) PROVE Sources  BY <1>3 DEF Reserve, Sources, TypeOK, AtWork
<1>4. ASSUME NEW r \in Requests, Accept(r) PROVE Sources  BY <1>4 DEF Accept, Sources, TypeOK, AtWork
<1>5. ASSUME NEW r \in Requests, AcceptExpired(r) PROVE Sources
  BY <1>5 DEF AcceptExpired, Refuse, Over, Sources, TypeOK, Holders, Finish, Reject, OpOpen
<1>6. ASSUME NEW r \in Requests, AcceptConflict(r) PROVE Sources
  BY <1>6 DEF AcceptConflict, Refuse, Over, Sources, TypeOK, Finish, Reject, OpOpen
<1>7. ASSUME NEW r \in Requests, AcceptFailed(r) PROVE Sources  BY <1>7 DEF AcceptFailed, Refuse, Over, Sources
<1>8. ASSUME NEW r \in Requests, AcceptError(r) PROVE Sources  BY <1>8 DEF AcceptError, Refuse, Over, Sources
<1>9. ASSUME NEW r \in Requests, Answer(r) PROVE Sources  BY <1>9 DEF Answer, Over, Sources, TypeOK
<1>10. ASSUME Take PROVE Sources  BY <1>10 DEF Take, Sources
<1>11. ASSUME Look PROVE Sources  BY <1>11 DEF Look, Retry, Sources
<1>12. ASSUME Begin PROVE Sources  BY <1>12 DEF Begin, Sources
<1>13. ASSUME StepSaved PROVE Sources  BY <1>13, PlaceTypes DEF StepSaved, Sources, Holders, Begun
<1>14. ASSUME StepUnsaved PROVE Sources  BY <1>14, PlaceTypes DEF StepUnsaved, Leave, Retry, Sources, Holders
<1>15. ASSUME Decide PROVE Sources  BY <1>15 DEF Decide, Sources, TypeOK, AtWork, Finish
<1>16. ASSUME DecideError PROVE Sources  BY <1>16 DEF DecideError, Leave, Retry, Sources
<1>17. ASSUME Deliver PROVE Sources  BY <1>17 DEF Deliver, Sources
<1>18. ASSUME DeliverError PROVE Sources  BY <1>18 DEF DeliverError, Retry, Sources
<1>19. ASSUME NEW p \in Phases, StepBarred(p) PROVE Sources
  BY <1>19, PlaceTypes DEF StepBarred, AtStep, Leave, Retry, Sources
<1>20. ASSUME NEW p \in Phases, StepRecorded(p) PROVE Sources
  BY <1>20, PlaceTypes DEF StepRecorded, AtStep, Sources, Begun
<1>21. ASSUME NEW p \in Phases, StepRevoked(p) PROVE Sources
  BY <1>21, PlaceTypes DEF StepRevoked, Pending, AtStep, Sources, Begun
<1>22. ASSUME NEW p \in Phases, StepConflict(p) PROVE Sources
  BY <1>22, PlaceTypes DEF StepConflict, Pending, AtStep, Sources, Begun
<1>23. ASSUME NEW p \in Phases, StepError(p) PROVE Sources
  BY <1>23, PlaceTypes DEF StepError, Pending, AtStep, Leave, Retry, Sources, TypeOK, Begun
<1>24. ASSUME NEW p \in Phases, StepEffect(p) PROVE Sources  BY <1>24 DEF StepEffect, Sources
<1>25. ASSUME Close PROVE Sources  BY <1>25 DEF Close, Sources, Unfinished, OpOpen
<1>26. ASSUME Takeover PROVE Sources  BY <1>26 DEF Takeover, Sources
<1>27. ASSUME Crash PROVE Sources  BY <1>27 DEF Crash, Sources
<1>28. ASSUME ChangeWorkflow PROVE Sources  BY <1>28 DEF ChangeWorkflow, Sources
<1>29. ASSUME NEW c \in Commands, CancelRun(c) PROVE Sources  BY <1>29 DEF CancelRun, Sources
<1>30. ASSUME Closed PROVE Sources  BY <1>30 DEF Closed, Sources
<1>31. ASSUME Register PROVE Sources  BY <1>31 DEF Register, Sources
<1>32. ASSUME RegisterLifecycle PROVE Sources  BY <1>32 DEF RegisterLifecycle, Sources
<1>33. ASSUME RegisterStart PROVE Sources  BY <1>33 DEF RegisterStart, Sources
<1> QED  BY <1>1, <1>2, <1>3, <1>4, <1>5, <1>6, <1>7, <1>8, <1>9, <1>10, <1>11, <1>12, <1>13, <1>14, <1>15,
     <1>16, <1>17, <1>18, <1>19, <1>20, <1>21, <1>22, <1>23, <1>24, <1>25, <1>26, <1>27, <1>28,
     <1>29, <1>30, <1>31, <1>32, <1>33
     DEF Next, Request, Worker, Opening

\* Only a Start that may be worked on gets into the queue, from an answer or when the project is opened.
LEMMA QueuedStep ==
    ASSUME TypeOK, TypeOK', Holders, Leases, Keeps, Sources, Queued, Next
    PROVE  Queued'
<1>1. Workable \subseteq Workable'  BY SafeKept DEF Workable
<1>2. \A c \in accepted' : op'[c] # "none"
  <2>1. CASE accepted' = accepted  BY <2>1 DEF Queued, Keeps, TypeOK
  <2>2. ASSUME NEW r \in Requests, Accept(r) PROVE \A c \in accepted' : op'[c] # "none"  BY <2>2 DEF Accept, Queued
  <2> QED  BY <2>1, <2>2 DEF Sources
<1>3. ASSUME NEW r \in Requests
      PROVE  /\ pc'[r] = "reserved" => op'[CmdOf[r]] # "none"
             /\ pc'[r] = "accepted" => CmdOf[r] \in accepted'
  <2>1. CASE pc'[r] \in {pc[r], "over", "idle", "prepared"}  BY <2>1 DEF Queued, Keeps
  <2>2. CASE Reserve(r)
    <3>1. pc'[r] = "reserved"  BY <2>2 DEF Reserve, TypeOK
    <3>2. op'[CmdOf[r]] # "none"  BY <2>2 DEF Reserve, TypeOK
    <3> QED  BY <3>1, <3>2
  <2>3. CASE Accept(r)  BY <2>3 DEF Accept, TypeOK
  <2> QED  BY <2>1, <2>2, <2>3 DEF Sources
<1>4. \A i \in 1..Len(queue') : queue'[i] \in Workable'
  <2>0. queue \in Seq(Commands) /\ \A i \in 1..Len(queue) : queue[i] \in Workable'  BY <1>1 DEF Queued, TypeOK
  <2>1. ASSUME NEW r \in Requests, Answer(r) PROVE \A i \in 1..Len(queue') : queue'[i] \in Workable'
    <3>1. CmdOf[r] \in accepted /\ CmdOf[r] \in Commands /\ op[CmdOf[r]] # "none"  BY <2>1 DEF Answer, Queued
    <3>2. CmdOf[r] \in Workable'  BY <1>1, <3>1 DEF Workable, Safe
    <3>3. queue' \in {queue, Append(queue, CmdOf[r])}  BY <2>1 DEF Answer
    <3> QED  BY <2>0, <3>1, <3>2, <3>3
  <2>2. CASE Take  BY <2>0, <2>2 DEF Take
  <2>3. CASE RegisterStart
    <3>1. Unfinished \subseteq Workable'  BY <1>1, <2>3 DEF RegisterStart, Queued
    <3>2. /\ SetToSeq(Unfinished) \in Seq(Commands)
          /\ \A i \in 1..Len(SetToSeq(Unfinished)) : SetToSeq(Unfinished)[i] \in Workable'
      <4>1. Unfinished \in SUBSET Commands  BY DEF Unfinished
      <4> QED  BY <3>1, <4>1, ResumedType
    <3>3. queue' = queue \o SetToSeq(Unfinished)  BY <2>3 DEF RegisterStart, Resumed
    <3> QED  BY <2>0, <3>2, <3>3
  <2>4. CASE Crash  BY <2>4 DEF Crash
  <2>5. CASE queue' = queue  BY <2>0, <2>5
  <2> QED  BY <2>1, <2>2, <2>3, <2>4, <2>5 DEF Sources
<1>5. at' # "idle" => cmd' \in Workable'
  <2>1. CASE Take
    <3>1. cmd' = queue[1] /\ 1 \in 1..Len(queue)  BY <2>1 DEF Take, TypeOK
    <3> QED  BY <1>1, <3>1 DEF Queued
  <2>2. CASE ~Take  BY <1>1, <2>2 DEF Sources, Queued
  <2> QED  BY <2>1, <2>2
<1>6. ASSUME project' # "serving" PROVE Unfinished' \subseteq Workable'
  <2>1. CASE Close  BY <2>1 DEF Close, Unfinished, OpOpen
  <2>2. CASE Crash
    <3>1. \A c \in Commands : owner'[c] < lease'  BY <2>2 DEF Leases, Crash, TypeOK
    <3> QED  BY <3>1 DEF Unfinished, Workable, Safe, OpOpen
  <2>3. CASE project # "serving"
    <3>1. ASSUME NEW c \in Unfinished' PROVE c \in Workable'
      <4>1. CASE c \in Unfinished  BY <1>1, <2>3, <4>1 DEF Queued
      <4>2. CASE op[c] = "none"
        <5>1. PICK r \in Requests : Reserve(r)  BY <4>2 DEF Sources, Unfinished, OpOpen
        <5> QED  BY <2>3, <4>2, <5>1 DEF Unfinished, Workable, Safe, OpOpen, Reserve
      <4>3. CASE Ended(c)  BY <4>3 DEF Keeps, Unfinished, Ended, OpOpen, OpEnded
      <4> QED  BY <4>1, <4>2, <4>3 DEF Unfinished, Ended, OpOpen, TypeOK
    <3> QED  BY <3>1
  <2> QED  BY <1>6, <2>1, <2>2, <2>3 DEF Sources
<1> QED  BY <1>2, <1>3, <1>4, <1>5, <1>6 DEF Queued

\* The work done for a Start was accepted, unless it slipped past the freeze.
LEMMA AcceptedStep ==
    ASSUME TypeOK, Holders, AtWork, Queued, Keeps, Sources, EffectAfterAcceptance, Next
    PROVE  EffectAfterAcceptance'
<1>1. CASE done' = done  BY <1>1 DEF EffectAfterAcceptance, Keeps
<1>2. ASSUME NEW p \in Phases, StepEffect(p) PROVE EffectAfterAcceptance'
  <2>1. at # "idle" /\ ~Ended(cmd) /\ ~(owner[cmd] < lease) /\ lease \in Nat /\ owner[cmd] \in Nat
    BY <1>2 DEF StepEffect, Pending, AtStep, Runnable, Authorized, Current, Ended, OpEnded, TypeOK, Phases, Forward
  <2>2. cmd \in accepted \/ cmd \in late  BY <2>1 DEF Queued, Workable, Safe
  <2>3. done' \subseteq done \cup {<<cmd, p>>}  BY <1>2 DEF StepEffect
  <2> QED  BY <2>2, <2>3 DEF EffectAfterAcceptance, Keeps
<1> QED  BY <1>1, <1>2 DEF Sources

----
(* The outbox.                                                             *)

\* While a dispatch waits and the worker is not in the critical section, publication is blocked.
Blocking == outbox # {} /\ mutex # "worker" /\ project # "closed" => blocked

\* Nobody leaves a waiting dispatch behind unblocked.
LEMMA BlockingStep ==
    ASSUME TypeOK, Holders, Blocking, Next
    PROVE  Blocking'
<1>1. ASSUME NEW r \in Requests, Send(r) PROVE Blocking'  BY <1>1 DEF Send, Blocking
<1>2. ASSUME NEW r \in Requests, TurnAway(r) PROVE Blocking'  BY <1>2 DEF TurnAway, Refuse, Blocking
<1>3. ASSUME NEW r \in Requests, Reserve(r) PROVE Blocking'  BY <1>3 DEF Reserve, Enter, Blocking
<1>4. ASSUME NEW r \in Requests, Accept(r) PROVE Blocking'  BY <1>4 DEF Accept, Blocking
<1>5. ASSUME NEW r \in Requests, AcceptExpired(r) PROVE Blocking'  BY <1>5 DEF AcceptExpired, Refuse, Blocking, Holders
<1>6. ASSUME NEW r \in Requests, AcceptConflict(r) PROVE Blocking'
  BY <1>6 DEF AcceptConflict, Refuse, Blocking, Holders
<1>7. ASSUME NEW r \in Requests, AcceptFailed(r) PROVE Blocking'  BY <1>7 DEF AcceptFailed, Refuse, Blocking, Holders
<1>8. ASSUME NEW r \in Requests, AcceptError(r) PROVE Blocking'  BY <1>8 DEF AcceptError, Refuse, Blocking, Holders
<1>9. ASSUME NEW r \in Requests, Answer(r) PROVE Blocking'  BY <1>9 DEF Answer, Blocking, Holders
<1>10. ASSUME Take PROVE Blocking'  BY <1>10 DEF Take, Blocking
<1>11. ASSUME Look PROVE Blocking'  BY <1>11 DEF Look, Blocking
<1>12. ASSUME Begin PROVE Blocking'  BY <1>12 DEF Begin, Blocking
<1>13. ASSUME StepSaved PROVE Blocking'  BY <1>13 DEF StepSaved, Blocking
<1>14. ASSUME StepUnsaved PROVE Blocking'  BY <1>14 DEF StepUnsaved, Leave, Blocking, Withheld
<1>15. ASSUME Decide PROVE Blocking'  BY <1>15 DEF Decide, Blocking
<1>16. ASSUME DecideError PROVE Blocking'  BY <1>16 DEF DecideError, Leave, Blocking, Withheld
<1>17. ASSUME Deliver PROVE Blocking'  BY <1>17 DEF Deliver, Drain, Blocking
<1>18. ASSUME DeliverError PROVE Blocking'  BY <1>18 DEF DeliverError, Drain, DrainError, Blocking
<1>19. ASSUME NEW p \in Phases, StepBarred(p) PROVE Blocking'  BY <1>19 DEF StepBarred, Leave, Blocking, Withheld
<1>20. ASSUME NEW p \in Phases, StepRecorded(p) PROVE Blocking'  BY <1>20 DEF StepRecorded, Blocking
<1>21. ASSUME NEW p \in Phases, StepRevoked(p) PROVE Blocking'  BY <1>21 DEF StepRevoked, Blocking
<1>22. ASSUME NEW p \in Phases, StepConflict(p) PROVE Blocking'  BY <1>22 DEF StepConflict, Blocking
<1>23. ASSUME NEW p \in Phases, StepError(p) PROVE Blocking'  BY <1>23 DEF StepError, Leave, Blocking, Withheld
<1>24. ASSUME NEW p \in Phases, StepEffect(p) PROVE Blocking'
  BY <1>24 DEF StepEffect, Pending, AtStep, Blocking, Holders
<1>25. ASSUME Close PROVE Blocking'  BY <1>25 DEF Close, Blocking
<1>26. ASSUME Takeover PROVE Blocking'  BY <1>26 DEF Takeover, Blocking
<1>27. ASSUME Crash PROVE Blocking'  BY <1>27 DEF Crash, Blocking
<1>28. ASSUME ChangeWorkflow PROVE Blocking'  BY <1>28 DEF ChangeWorkflow, Blocking
<1>29. ASSUME NEW c \in Commands, CancelRun(c) PROVE Blocking'  BY <1>29 DEF CancelRun, Drain, DrainError, Blocking
<1>30. ASSUME Closed PROVE Blocking'  BY <1>30 DEF Closed, Blocking
<1>31. ASSUME Register PROVE Blocking'  BY <1>31 DEF Register, Blocking
<1>32. ASSUME RegisterLifecycle PROVE Blocking'  BY <1>32 DEF RegisterLifecycle, Drain, Blocking
<1>33. ASSUME RegisterStart PROVE Blocking'  BY <1>33 DEF RegisterStart, Blocking
<1> QED  BY <1>1, <1>2, <1>3, <1>4, <1>5, <1>6, <1>7, <1>8, <1>9, <1>10, <1>11, <1>12, <1>13, <1>14, <1>15,
     <1>16, <1>17, <1>18, <1>19, <1>20, <1>21, <1>22, <1>23, <1>24, <1>25, <1>26, <1>27, <1>28,
     <1>29, <1>30, <1>31, <1>32, <1>33
     DEF Next, Request, Worker, Opening

----
(* The invariant and the theorems.                                         *)

\* What is true at every moment.
SagaInv ==
    /\ TypeOK /\ Holders /\ AtWork /\ Recorded /\ Rows /\ Leases /\ Queued
    /\ EffectAfterAcceptance /\ Blocking

\* The invariant holds at the beginning.
LEMMA SagaInitial ==
    ASSUME Init
    PROVE  SagaInv
<1>1. TypeOK
  <2>1. /\ done \subseteq Commands \X Phases /\ queue \in Seq(Commands) /\ lease \in Nat \ {NoLease}
        /\ tries \in 0..MaxTries - 1 /\ crashes \in 0..MaxCrashes /\ faults \in 0..MaxFaults
    BY PlaceTypes DEF Init, NoLease
  <2>2. /\ step \in [Commands -> [Phases -> {"pending", "succeeded", "failed", "revoked"}]]
        /\ owner \in [Commands -> Nat] /\ created \in [Commands -> Nat] /\ sent \in [Requests -> Nat]
    BY DEF Init, NoLease
  <2> QED  BY <2>1, <2>2 DEF Init, TypeOK
<1>2. Holders /\ AtWork /\ Recorded /\ Rows  BY PlaceTypes DEF Init, Holders, AtWork, Recorded, Rows, OpOpen, OpEnded
<1> QED  BY <1>1, <1>2 DEF SagaInv, Init, Leases, Queued, EffectAfterAcceptance, Blocking, NoLease

\* Every step preserves the invariant and takes back nothing of what is kept.
LEMMA SagaStep ==
    ASSUME SagaInv, Next
    PROVE  SagaInv' /\ Keeps /\ Sources
<1> USE DEF SagaInv
<1>1. TypeOK' /\ Holders' /\ AtWork' /\ Recorded' /\ Rows' /\ Leases' /\ Blocking'
  BY TypeStep, HoldersStep, AtWorkStep, RecordedStep, RowsStep, LeasesStep, BlockingStep
<1>2. Keeps /\ Sources  BY Kept, Sourced
<1>3. Queued' /\ EffectAfterAcceptance'  BY <1>1, <1>2, QueuedStep, AcceptedStep
<1> QED  BY <1>1, <1>2, <1>3

\* The invariant is inductive.
THEOREM SagaInductive == Spec => []SagaInv
<1>1. SagaInv /\ [Next]_vars => SagaInv'
  <2>1. ASSUME SagaInv, UNCHANGED vars PROVE SagaInv'
    BY <2>1 DEF vars, SagaInv, TypeOK, Holders, AtWork, Recorded, Rows, Leases, Queued, EffectAfterAcceptance, Blocking,
      Runnable, Workable, Safe, Ended, Unfinished
  <2> QED  BY <2>1, SagaStep
<1> QED  BY <1>1, SagaInitial, PTL DEF Spec

\* Every variable keeps its type, for any number of Starts and of requests.
THEOREM TypeCorrect == Spec => []TypeOK
BY SagaInductive, PTL DEF SagaInv

\* However often a Start is sent, resumed and retried, it creates at most one task.
THEOREM CreatedOnceAlways == Spec => []CreatedOnce
<1>1. SagaInv => CreatedOnce
  <2>1. SagaInv => \A c \in Commands : created[c] \in {0, 1}  BY DEF SagaInv, Recorded
  <2> QED  BY <2>1 DEF CreatedOnce
<1> QED  BY <1>1, SagaInductive, PTL

\* Nothing is done for a Start that was not accepted, unless it slipped past the freeze.
THEOREM EffectAfterAcceptanceAlways == Spec => []EffectAfterAcceptance
BY SagaInductive, PTL DEF SagaInv

\* Operation, intent and outcome end together, and only an activated run is reported as applied.
THEOREM EndsAgreeAlways == Spec => []EndsAgree
<1>1. SagaInv => EndsAgree
  <2> SUFFICES ASSUME SagaInv, NEW c \in Commands
               PROVE  /\ Ended(c) <=> outcome[c] # "none"
                      /\ Ended(c) <=> intent[c] \in {"applied", "failed", "revoked"}
                      /\ intent[c] = "applied" <=> outcome[c] = "applied"
                      /\ outcome[c] = "applied" => <<c, "activate">> \in done
    BY DEF EndsAgree
  <2> QED  BY DEF SagaInv, Rows, Ended, TypeOK
<1> QED  BY <1>1, SagaInductive, PTL

\* The dispatch of an activated run is never lost.
THEOREM DispatchNotLostAlways == Spec => []DispatchNotLost
<1>1. SagaInv => DispatchNotLost  BY DEF SagaInv, Recorded, DispatchNotLost
<1> QED  BY <1>1, SagaInductive, PTL

\* While a dispatch waits, nothing is published past it.
THEOREM DispatchBlocksAlways == Spec => []DispatchBlocks
<1>1. SagaInv => DispatchBlocks  BY DEF SagaInv, Blocking, DispatchBlocks
<1> QED  BY <1>1, SagaInductive, PTL

\* An ended operation stays as it ended.
THEOREM EndIsFinalAlways == Spec => EndIsFinal
<1>1. SagaInv /\ [Next]_vars =>
        [\A c \in Commands : Ended(c) => op'[c] = op[c] /\ outcome'[c] = outcome[c] /\ intent'[c] = intent[c]]_vars
  BY SagaStep DEF Keeps
<1> QED  BY <1>1, SagaInductive, PTL DEF EndIsFinal, Spec

\* Nothing is done for a Start that has ended.
THEOREM NoWorkAfterEndAlways == Spec => NoWorkAfterEnd
<1>1. SagaInv /\ [Next]_vars => [\A c \in Commands, p \in Phases : <<c, p>> \in done' \ done => ~Ended(c)]_vars
  <2> SUFFICES ASSUME SagaInv, Next, NEW c \in Commands, NEW p \in Phases, <<c, p>> \in done' \ done
               PROVE  ~Ended(c)
    OBVIOUS
  <2>1. PICK q \in Phases : StepEffect(q)  BY SagaStep DEF Sources
  <2>2. c = cmd /\ Runnable(cmd, q)  BY <2>1 DEF StepEffect, Pending
  <2> QED  BY <2>2 DEF Runnable, Ended, OpEnded
<1> QED  BY <1>1, SagaInductive, PTL DEF NoWorkAfterEnd, Spec
=============================================================================
