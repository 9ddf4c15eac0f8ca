------------------------------ MODULE RunGate ------------------------------
(***************************************************************************)
(* The gate a command on a run has to pass (web/api/kernel_bridge.rs and   *)
(* mf-kernel/kernel.rs): the client reads a snapshot of the run, builds a  *)
(* command that quotes the revisions of the rows it saw, and the command   *)
(* lands in one transaction that compares every quoted revision, compares  *)
(* the quoted sets with the sets the command would touch, and only then    *)
(* changes the rows.  Meanwhile the orchestrator dispatches, reports and   *)
(* asks in writes of its own, agents settle and propose, and others pause  *)
(* and patch.                                                              *)
(*                                                                         *)
(* The snapshot is of two readings: the rows in one transaction, then the  *)
(* proposals.  What an agent sends by its token quotes what the kernel     *)
(* read just before, so it is one step here.                               *)
(***************************************************************************)
EXTENDS Integers, Sequences, FiniteSets

CONSTANTS
    RunSteps,       \* keys of the steps
    MaxTries,       \* bound: attempts
    MaxGraphs,      \* bound: revisions of the graph
    MaxQuestions,   \* bound: questions
    MaxMoves        \* bound: writes between a reading and the end of the behaviour

ASSUME GateBounds == {MaxTries, MaxGraphs, MaxQuestions, MaxMoves} \subseteq Nat

VARIABLES
    gateTask,       \* the run: revision, status, paused
    gateGraphs,     \* its pipeline revisions: status and where each came from
    gateRows,       \* the steps of each
    gateTries,      \* attempts
    gateSessions,   \* the session of each attempt
    gateAsks,       \* questions
    pump,           \* the runtime event the orchestrator is in the middle of
    seen,           \* the client's snapshot
    unseen,         \* observer: what landed on rows its sender had not seen like that
    moves

gateRun == <<gateTask, gateGraphs, gateRows, gateTries, gateSessions, gateAsks>>
gateVars == <<gateRun, pump, seen, unseen, moves>>

StepOver == {"succeeded", "failed", "skipped", "cancelled"}
RunOver == {"succeeded", "failed", "cancelled"}
RowStatuses == StepOver \cup {"pending", "ready", "running", "needs-input", "awaiting"}
TryStatuses == {"running", "awaiting", "succeeded", "failed", "cancelled"}
RowsOf(status) == [s \in RunSteps |-> [rev |-> 1, status |-> status]]
NoneSeen == [stage |-> "none"]

Actives == {v \in DOMAIN gateGraphs : gateGraphs[v].status = "active"}
Active == CHOOSE v \in Actives : TRUE
Drafts0 == {v \in DOMAIN gateGraphs : gateGraphs[v].status = "draft"}
Newest0(S) == CHOOSE x \in S : \A y \in S : y <= x
RowOf(p) == gateRows[p[1]][p[2]]
LiveAt(P) == {i \in DOMAIN gateTries :
                  gateTries[i].at \in P /\ gateTries[i].status \in {"running", "awaiting"}}
AllRows == (DOMAIN gateGraphs) \X RunSteps
OpenAt(p) == {q \in DOMAIN gateAsks :
                  gateAsks[q].status # "answered" /\ gateTries[gateAsks[q].run].at = p}

GateTypeOK ==
    /\ gateTask \in [rev : 1..(MaxMoves + 1), paused : BOOLEAN,
                     status : RunOver \cup {"draft", "ready", "running", "needs-you"}]
    /\ \A v \in DOMAIN gateGraphs : gateGraphs[v] \in
           [status : {"active", "superseded", "draft", "cancelled"},
            by : {"start", "proposal", "patch"}]
    /\ Cardinality(Actives) <= 1
    /\ \A p \in AllRows : RowOf(p).status \in RowStatuses /\ RowOf(p).rev \in Nat
    /\ \A i \in DOMAIN gateTries : gateTries[i].at \in AllRows /\ gateTries[i].status \in TryStatuses
    /\ DOMAIN gateSessions = DOMAIN gateTries
    /\ \A q \in DOMAIN gateAsks : gateAsks[q].status \in {"open", "accepted", "answered"}
    /\ pump.run \in 0..MaxTries

GateInit ==
    /\ gateTask = [rev |-> 1, status |-> "running", paused |-> FALSE]
    /\ gateGraphs = <<[status |-> "active", by |-> "start"]>>
    /\ gateRows = <<RowsOf("ready")>>
    /\ gateTries = <<>> /\ gateSessions = <<>> /\ gateAsks = <<>>
    /\ pump = [pc |-> "idle", run |-> 0]
    /\ seen = NoneSeen /\ unseen = {} /\ moves = 0

Counts == moves < MaxMoves /\ moves' = moves + 1
ByOthers == Counts /\ UNCHANGED <<seen, unseen>>

-----------------------------------------------------------------------------
(* How rows are written: every write moves the revision of its row, but    *)
(* pausing and replacing the graph leave that of the run alone.            *)

SetStepQuietly(p, st) == [gateRows EXCEPT ![p[1]][p[2]].status = st]
SetStep(p, st) == [gateRows EXCEPT ![p[1]][p[2]] = [rev |-> @.rev + 1, status |-> st]]
SetTries(I, st) ==
    [i \in DOMAIN gateTries |-> IF i \in I THEN [gateTries[i] EXCEPT !.rev = @ + 1, !.status = st]
                                ELSE gateTries[i]]
SetTask(st) == [gateTask EXCEPT !.rev = @ + 1, !.status = st]

-----------------------------------------------------------------------------
(* The orchestrator.  A runtime event is several writes: the attempt or    *)
(* the question, the step, the run.                                        *)

Launch(s) ==
    LET p == <<Active, s>> IN
    /\ ByOthers /\ Len(gateTries) < MaxTries /\ Actives # {} /\ pump.pc = "idle"
    /\ gateTask.status \in {"running", "needs-you"} /\ ~gateTask.paused
    /\ RowOf(p).status = "ready"
    /\ gateRows' = SetStep(p, "running")
    /\ gateTries' = Append(gateTries, [at |-> p, rev |-> 1, status |-> "running"])
    /\ gateSessions' = Append(gateSessions, [rev |-> 1, status |-> "working"])
    /\ UNCHANGED <<gateTask, gateGraphs, gateAsks, pump>>

Ask(i) ==
    /\ ByOthers /\ Len(gateAsks) < MaxQuestions /\ pump.pc = "idle"
    /\ i \in LiveAt(AllRows)
    /\ gateAsks' = Append(gateAsks, [run |-> i, status |-> "open"])
    /\ pump' = [pc |-> "askStep", run |-> i]
    /\ UNCHANGED <<gateTask, gateGraphs, gateRows, gateTries, gateSessions>>

Exit(i) ==
    /\ ByOthers /\ pump.pc = "idle"
    /\ i \in LiveAt(AllRows)
    /\ gateTries' = SetTries({i}, "awaiting")
    /\ pump' = [pc |-> "exitStep", run |-> i]
    /\ UNCHANGED <<gateTask, gateGraphs, gateRows, gateSessions, gateAsks>>

\* The step of the attempt is marked: a question spares a step that has ended, an exit does not.
MarkStep ==
    LET p == gateTries[pump.run].at IN
    /\ ByOthers /\ pump.pc \in {"askStep", "exitStep"}
    /\ gateRows' = CASE pump.pc = "exitStep" -> SetStep(p, "awaiting")
                     [] pump.pc = "askStep" /\ RowOf(p).status \in StepOver -> gateRows
                     [] OTHER -> SetStep(p, "needs-input")
    /\ pump' = [pump EXCEPT !.pc = IF @ = "askStep" THEN "askTask" ELSE "exitTask"]
    /\ UNCHANGED <<gateTask, gateGraphs, gateTries, gateSessions, gateAsks>>

MarkTask ==
    /\ ByOthers /\ pump.pc \in {"askTask", "exitTask"}
    /\ gateTask' = IF gateTask.status = "running"
                      \/ (pump.pc = "exitTask" /\ gateTask.status \notin RunOver)
                   THEN SetTask("needs-you") ELSE gateTask
    /\ pump' = [pc |-> "idle", run |-> 0]
    /\ UNCHANGED <<gateGraphs, gateRows, gateTries, gateSessions, gateAsks>>

SessionMoves(i) ==
    /\ ByOthers /\ gateSessions[i].status = "working"
    /\ gateSessions' = [gateSessions EXCEPT ![i] = [rev |-> @.rev + 1, status |-> "waiting"]]
    /\ UNCHANGED <<gateTask, gateGraphs, gateRows, gateTries, gateAsks, pump>>

\* The host has taken the answer: question, step and, if nothing else needs the user, the run.
AnswerArrives(q) ==
    LET p == gateTries[gateAsks[q].run].at
        rs == IF RowOf(p).status = "needs-input" THEN SetStep(p, "running") ELSE gateRows
    IN
    /\ ByOthers /\ gateAsks[q].status = "accepted"
    /\ gateAsks' = [gateAsks EXCEPT ![q].status = "answered"]
    /\ gateRows' = rs
    /\ gateTask' =
           IF /\ gateTask.status = "needs-you"
              /\ \A r \in DOMAIN gateAsks : r # q => gateAsks[r].status = "answered"
              /\ \A x \in AllRows : rs[x[1]][x[2]].status \notin {"failed", "awaiting", "needs-input"}
              /\ \A i \in DOMAIN gateTries : gateTries[i].status # "awaiting"
           THEN SetTask("running") ELSE gateTask
    /\ UNCHANGED <<gateGraphs, gateTries, gateSessions, pump>>

-----------------------------------------------------------------------------
(* What a landed command does.                                             *)

\* A settlement goes to the step of that key in the active graph, or to the attempt's own row.
SettledRow(i) ==
    LET p == gateTries[i].at IN IF Actives # {} THEN <<Active, p[2]>> ELSE p

Settles(i, o) ==
    LET p == SettledRow(i) IN
    /\ gateTries[i].status \in {"running", "awaiting"}
    /\ gateTries' = SetTries({i}, o)
    /\ gateRows' = IF RowOf(p).status \in StepOver THEN gateRows ELSE SetStep(p, o)
    /\ gateTask' = IF o = "failed" /\ gateTask.status \notin RunOver
                   THEN SetTask("needs-you") ELSE gateTask
    /\ UNCHANGED <<gateGraphs, gateSessions, gateAsks>>

Cancels ==
    /\ gateTries' = SetTries(LiveAt(AllRows), "cancelled")
    /\ gateRows' = [v \in DOMAIN gateRows |-> [s \in RunSteps |->
           IF v \in Actives /\ gateRows[v][s].status \notin StepOver
           THEN [rev |-> gateRows[v][s].rev + 1, status |-> "cancelled"] ELSE gateRows[v][s]]]
    /\ gateGraphs' = [v \in DOMAIN gateGraphs |->
           IF v \in Actives THEN [gateGraphs[v] EXCEPT !.status = "cancelled"] ELSE gateGraphs[v]]
    /\ gateTask' = [SetTask("cancelled") EXCEPT !.paused = FALSE]
    /\ UNCHANGED <<gateSessions, gateAsks>>

Retries(p) ==
    /\ RowOf(p).status \in {"failed", "cancelled", "awaiting"}
    /\ gateTries' = SetTries(LiveAt({p}), "cancelled")
    /\ gateRows' = SetStep(p, "ready")
    /\ gateTask' = IF gateTask.status \in {"draft", "ready", "failed", "needs-you"}
                   THEN SetTask("running")
                   ELSE IF gateTask.paused THEN SetTask(gateTask.status) ELSE gateTask
    /\ UNCHANGED <<gateGraphs, gateSessions, gateAsks>>

\* The run fails or succeeds with the last step; what is still to be merged is not modelled.
Skips(p) ==
    LET rs == SetStep(p, "skipped") IN
    /\ RowOf(p).status = "failed" /\ LiveAt({p}) = {} /\ p[1] \in Actives
    /\ gateRows' = rs
    /\ gateTask' = SetTask(
           IF \E s \in RunSteps : rs[p[1]][s].status \notin StepOver THEN "running"
           ELSE IF \A s \in RunSteps : rs[p[1]][s].status \in {"succeeded", "skipped"}
           THEN "succeeded" ELSE "failed")
    /\ UNCHANGED <<gateGraphs, gateTries, gateSessions, gateAsks>>

\* An accepted answer moves the revision of the attempt that asked, so that what was seen
\* before it cannot be quoted again.
AcceptMoves(i) == SetTries({i}, gateTries[i].status)
Answers0(q) ==
    /\ gateAsks[q].status = "open"
    /\ gateAsks' = [gateAsks EXCEPT ![q].status = "accepted"]
    /\ gateTries' = AcceptMoves(gateAsks[q].run)
    /\ UNCHANGED <<gateTask, gateGraphs, gateRows, gateSessions>>

\* The newest proposal becomes the graph of the run; without one nothing happens.
Confirms ==
    IF Drafts0 = {} THEN UNCHANGED gateRun
    ELSE LET d == Newest0(Drafts0) IN
         /\ gateGraphs' = [v \in DOMAIN gateGraphs |->
                IF v = d THEN [gateGraphs[v] EXCEPT !.status = "active"]
                ELSE IF v \in Actives THEN [gateGraphs[v] EXCEPT !.status = "superseded"]
                ELSE gateGraphs[v]]
         /\ gateRows' = [gateRows EXCEPT ![d] = RowsOf("ready")]
         /\ gateTask' = SetTask("ready")
         /\ UNCHANGED <<gateTries, gateSessions, gateAsks>>

-----------------------------------------------------------------------------
(* Others who write: an agent by its token, a person who pauses and        *)
(* patches.                                                                *)

AgentSettles(i, o) == ByOthers /\ Settles(i, o) /\ UNCHANGED pump

\* A proposal moves the revision of the run: it goes back to draft.
ProposeQuietly == [gateTask EXCEPT !.status = "draft"]
ProposeMoves == SetTask("draft")
AgentProposes(i) ==
    /\ ByOthers /\ Len(gateGraphs) < MaxGraphs
    /\ i \in LiveAt(AllRows) /\ gateTask.status \in {"draft", "needs-you", "failed"}
    /\ gateGraphs' = Append(gateGraphs, [status |-> "draft", by |-> "proposal"])
    /\ gateRows' = Append(gateRows, RowsOf("pending"))
    /\ gateTask' = ProposeMoves
    /\ UNCHANGED <<gateTries, gateSessions, gateAsks, pump>>

PauseRun ==
    /\ ByOthers /\ ~gateTask.paused
    /\ gateTask' = [gateTask EXCEPT !.paused = TRUE]
    /\ UNCHANGED <<gateGraphs, gateRows, gateTries, gateSessions, gateAsks, pump>>

PatchGraph ==
    /\ ByOthers /\ gateTask.paused /\ Actives # {} /\ Len(gateGraphs) < MaxGraphs
    /\ gateGraphs' = Append([gateGraphs EXCEPT ![Active].status = "superseded"],
                            [status |-> "active", by |-> "patch"])
    /\ gateRows' = Append(gateRows, [s \in RunSteps |->
                                        [rev |-> 1, status |-> gateRows[Active][s].status]])
    /\ UNCHANGED <<gateTask, gateTries, gateSessions, gateAsks, pump>>

-----------------------------------------------------------------------------
(* The client.                                                             *)

\* One transaction for the rows: the steps of the active graph, or of the newest one.
ReadRun ==
    LET v == IF Actives # {} THEN Active ELSE Len(gateGraphs) IN
    /\ seen = NoneSeen
    /\ seen' = [stage |-> "rows", task |-> gateTask, graph |-> v, rows |-> gateRows[v],
                tries |-> gateTries, sessions |-> gateSessions,
                asks |-> {q \in DOMAIN gateAsks : gateAsks[q].status # "answered"}, drafts |-> {}]
    /\ UNCHANGED <<gateRun, pump, unseen, moves>>

\* The proposals are read on their own afterwards.
ReadProposals ==
    /\ seen.stage = "rows"
    /\ seen' = [seen EXCEPT !.stage = "read", !.drafts = Drafts0]
    /\ UNCHANGED <<gateRun, pump, unseen, moves>>

\* What the snapshot shows of the steps P and the attempts I that a command names.
SeenLive(S) == {i \in DOMAIN seen.tries : seen.tries[i].at \in {<<seen.graph, s>> : s \in S}
                                          /\ seen.tries[i].status \in {"running", "awaiting"}}
SeenLiveAny == {i \in DOMAIN seen.tries : seen.tries[i].status \in {"running", "awaiting"}}

CurrentRows(S, I) ==
    /\ \A s \in S : seen.rows[s].rev = RowOf(<<seen.graph, s>>).rev
    /\ \A i \in I : seen.tries[i].rev = gateTries[i].rev
\* Every quoted revision is the one the row has now.
Current(S, I) ==
    /\ seen.task.rev = gateTask.rev
    /\ \A s \in S : seen.rows[s].rev = RowOf(<<seen.graph, s>>).rev
    /\ \A i \in I : seen.tries[i].rev = gateTries[i].rev
    /\ \A i \in I : seen.sessions[i].rev = gateSessions[i].rev

\* What lands on steps P and attempts I whose status the sender saw otherwise, or not at all.
Unlike(P, I) ==
    {"step" : p \in {x \in P : x[1] # seen.graph \/ seen.rows[x[2]].status # RowOf(x).status}}
    \cup {"attempt" : i \in {x \in I : x \notin DOMAIN seen.tries
                                       \/ seen.tries[x].status # gateTries[x].status}}
    \cup {"run" : x \in {gateTask.status} \ {seen.task.status}}
Records(marks) == unseen' = unseen \cup marks
Sends == seen.stage = "read" /\ Counts /\ UNCHANGED <<seen, pump>>

\* The sets a cancellation has to quote: every step not over and every attempt alive.
CancelScope(S, I) ==
    /\ {<<seen.graph, s>> : s \in S} = {p \in Actives \X RunSteps : RowOf(p).status \notin StepOver}
    /\ I = LiveAt(AllRows)
SendCancel ==
    LET S == {s \in RunSteps : seen.rows[s].status \notin StepOver} IN
    /\ Sends
    /\ Current(S, SeenLiveAny) /\ CancelScope(S, SeenLiveAny)
    /\ Records(Unlike({p \in Actives \X RunSteps : RowOf(p).status \notin StepOver},
                      LiveAt(AllRows)))
    /\ Cancels

RetryScope(s, I) == I = LiveAt({<<seen.graph, s>>})
SendRetry(s) ==
    LET p == <<seen.graph, s>> IN
    /\ Sends
    /\ Current({s}, SeenLive({s})) /\ RetryScope(s, SeenLive({s}))
    /\ Records(Unlike({p}, LiveAt({p})))
    /\ Retries(p)

SkipScope(s, I) == RowOf(<<seen.graph, s>>).status = "failed" /\ RetryScope(s, I)
SendSkip(s) ==
    LET p == <<seen.graph, s>> IN
    /\ Sends
    /\ Current({s}, SeenLive({s})) /\ SkipScope(s, SeenLive({s}))
    /\ Records(Unlike({p}, {}))
    /\ Skips(p)

\* The question has no name on the wire: whichever is the only open one of the step is meant.
RespondScope(s, I) ==
    /\ Cardinality(OpenAt(<<seen.graph, s>>)) = 1
    /\ RowOf(<<seen.graph, s>>).status = "needs-input"
    /\ I = {gateAsks[q].run : q \in OpenAt(<<seen.graph, s>>)}
SendRespond(s, q) ==
    LET p == <<seen.graph, s>> IN
    /\ Sends
    /\ q \in seen.asks /\ seen.tries[gateAsks[q].run].at = p
    /\ Current({s}, {gateAsks[q].run}) /\ RespondScope(s, {gateAsks[q].run})
    /\ LET meant == CHOOSE x \in OpenAt(p) : TRUE IN
       /\ Records(Unlike({p}, {gateAsks[meant].run}) \cup {"question" : x \in {meant} \ {q}})
       /\ Answers0(meant)

SettleAnyGraph == TRUE
\* The step quoted with a settlement has to be of the graph that is active.
SettleScope == seen.graph \in Actives
SendSettle(i, o) ==
    /\ Sends
    /\ i \in DOMAIN seen.tries
    /\ Current({seen.tries[i].at[2]}, {i}) /\ SettleScope
    /\ Records(Unlike({SettledRow(i)}, {i}))
    /\ Settles(i, o)

SendConfirm ==
    /\ Sends
    /\ Current({}, {})
    /\ Records({"proposal" : d \in {x \in Drafts0 : x = Newest0(Drafts0)} \ seen.drafts}
               \cup {"graph" : v \in {x \in Actives : gateGraphs[x].by # "patch"} \ {seen.graph}})
    /\ Confirms

Forget == seen.stage = "read" /\ seen' = NoneSeen /\ UNCHANGED <<gateRun, pump, unseen, moves>>

GateNext ==
    \/ \E s \in RunSteps : Launch(s) \/ SendRetry(s) \/ SendSkip(s)
    \/ \E i \in DOMAIN gateTries :
           \/ Ask(i) \/ Exit(i) \/ SessionMoves(i) \/ AgentProposes(i)
           \/ \E o \in {"succeeded", "failed"} : AgentSettles(i, o) \/ SendSettle(i, o)
    \/ MarkStep \/ MarkTask
    \/ \E q \in DOMAIN gateAsks : AnswerArrives(q) \/ \E s \in RunSteps : SendRespond(s, q)
    \/ PauseRun \/ PatchGraph
    \/ ReadRun \/ ReadProposals \/ Forget \/ SendCancel \/ SendConfirm

GateSpec == GateInit /\ [][GateNext]_gateVars

-----------------------------------------------------------------------------
(* What the gate is for.                                                   *)

\* What a command changes is what its sender saw: the steps and attempts it ends or restarts
\* have the status shown, the answer goes to the question shown, and the proposal that becomes
\* the graph was on the screen -- although only revisions are compared, although the question
\* and the proposal are not named, and although the proposals were read later than the rows.
ActsOnWhatWasSeen == unseen = {}

GateSafety == GateTypeOK /\ ActsOnWhatWasSeen
=============================================================================
