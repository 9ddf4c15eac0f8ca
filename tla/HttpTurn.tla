------------------------------ MODULE HttpTurn ------------------------------
(* An agent behind a provider's HTTP interface: a thread asks the model,   *)
(* carries out the tools it calls and asks again, until the step is        *)
(* settled, the model only talks, or the run is stopped (launch_http and   *)
(* run_http_turn in session_runtime.rs, provider.rs).  Two runs use one    *)
(* session handle, the second continuing the first one's session when that *)
(* is still alive.  How an answer finds its question is QuestionDelivery;  *)
(* here a wait ends when it ends.                                          *)
EXTENDS Naturals, Sequences, SequencesExt

CONSTANTS
    Turns,          \* agent runs 1..n on one session handle
    Scripted,       \* those whose provider is the scripted one
    Replies,        \* what the model may call in one reply: sequences of calls
    MaxRounds       \* bound: requests of one thread (engine.max_iterations, at least four)

VARIABLES
    turn,           \* each thread: where it is, the conversation, calls to carry out
    session,        \* the HttpSession made by each run
    hosted,         \* SessionRegistry.sessions: whose session the handle names, 0 for none
    bound,          \* SessionRegistry.run_sessions: runs bound to the handle
    reports,        \* the final events of each run
    stop,           \* stop_run of each run
    written,        \* observer: paths written
    afterStop,      \* observer: runs that did something after a confirmed stop
    doubtful        \* observer: runs whose session was killed, or used by two at once

httpVars == <<turn, session, hosted, bound, reports, stop, written, afterStop, doubtful>>

Message(role, calls) == [role |-> role, calls |-> calls]
NoTurn == [at |-> "idle", left |-> 0, talk |-> <<>>, todo |-> <<>>, of |-> 0, outcome |-> "none"]
NoSession == [alive |-> FALSE, cancel |-> FALSE, term |-> FALSE, join |-> 0]

HttpInit ==
    /\ turn = [t \in Turns |-> NoTurn]
    /\ session = [t \in Turns |-> NoSession]
    /\ hosted = 0 /\ bound = {}
    /\ reports = [t \in Turns |-> <<>>]
    /\ stop = [t \in Turns |-> "no"]
    /\ written = {} /\ afterStop = {} /\ doubtful = {}

Threads(s) == {t \in Turns : turn[t].of = s /\ turn[t].at \notin {"idle", "done"}}
Does(t) == afterStop' = IF stop[t] = "confirmed" THEN afterStop \cup {t} ELSE afterStop

(***************************************************************************)
(* Launch.                                                                 *)
(***************************************************************************)
\* launch_http: continue the session of the handle, or make one.  A session of
\* another thread is continued as long as that thread has not said its end.
SessionFor(t) == IF hosted # 0 /\ session[hosted].alive THEN hosted ELSE t
Conversation == <<Message("system", <<>>), Message("user", <<>>)>>
MayStart(t) == turn[t].at = "idle" /\ \A u \in Turns : u < t => turn[u].at # "idle"
Crowded(t) == LET others == Threads(SessionFor(t)) IN IF others = {} THEN {} ELSE others \cup {t}

StartTurn(t) ==
    LET s == SessionFor(t) IN
    /\ MayStart(t)
    /\ session' = IF s # t THEN [session EXCEPT ![s].join = t]
                  ELSE [session EXCEPT ![t] = [NoSession EXCEPT !.alive = TRUE, !.join = t]]
    /\ hosted' = s /\ bound' = bound \cup {t}
    /\ turn' = [turn EXCEPT ![t] = [NoTurn EXCEPT !.at = "loop", !.left = MaxRounds,
                                                  !.talk = Conversation, !.of = s]]
    /\ doubtful' = doubtful \cup Crowded(t)
    /\ UNCHANGED <<reports, stop, written, afterStop>>

\* remove_session_and_bindings.
Unhosted == hosted' = 0 /\ bound' = {}

\* The thread cannot be started: nothing is left that nobody drives.
ThreadFails(t) ==
    LET s == SessionFor(t) IN
    /\ MayStart(t)
    /\ session' = [session EXCEPT ![s] = [@ EXCEPT !.alive = FALSE, !.cancel = TRUE, !.term = TRUE]]
    /\ Unhosted
    /\ turn' = [turn EXCEPT ![t] = [NoTurn EXCEPT !.at = "done", !.of = s]]
    /\ reports' = [reports EXCEPT ![t] = Append(@, "error")]
    /\ doubtful' = doubtful \cup Crowded(t)
    /\ UNCHANGED <<stop, written, afterStop>>

(***************************************************************************)
(* One round: the request, the reply, the tools.                           *)
(***************************************************************************)
GoesTo(t, at) == turn' = [turn EXCEPT ![t].at = at]
EndsTurn(t, outcome) ==
    turn' = [turn EXCEPT ![t].at = "report", ![t].outcome = outcome,
                         ![t].talk = <<>>, ![t].todo = <<>>, ![t].left = 0]
Only == UNCHANGED <<session, hosted, bound, reports, stop, doubtful>>

Iterate(t) ==
    /\ turn[t].at = "loop" /\ t \notin Scripted
    /\ IF turn[t].left = 0 \/ session[turn[t].of].cancel
       THEN EndsTurn(t, "pending") ELSE GoesTo(t, "call")
    /\ Only /\ UNCHANGED <<written, afterStop>>

\* The scripted provider: a file and an end, whatever has been asked meanwhile.
MockTurn(t) ==
    /\ turn[t].at = "loop" /\ t \in Scripted
    /\ written' = written \cup {<<"root", "mf-agent">>}
    /\ \E outcome \in {"complete", "fail"} : EndsTurn(t, outcome)
    /\ Does(t)
    /\ Only

\* What is read of a reply: one of the two interfaces drops calls without a
\* name, and a reply with nothing in it counts as text.
OpenAiCalls(calls) == SelectSeq(calls, LAMBDA c : c.name # "")
AnthropicCalls(calls) == calls
Read(reply) == {OpenAiCalls(reply), AnthropicCalls(reply)}

\* The provider answers: text alone ends the turn, calls go into the
\* conversation without the text that came with them.
Reply(t) ==
    /\ turn[t].at = "call"
    /\ \E calls \in UNION {Read(r) : r \in Replies} :
        IF calls = <<>> THEN EndsTurn(t, "pending")
        ELSE turn' = [turn EXCEPT ![t].at = "tools", ![t].todo = calls, ![t].left = @ - 1,
                                  ![t].talk = Append(@, Message("assistant", calls))]
    /\ Only /\ UNCHANGED <<written, afterStop>>

ProviderFails(t) ==
    /\ turn[t].at = "call"
    /\ EndsTurn(t, "pending")
    /\ Only /\ UNCHANGED <<written, afterStop>>

\* sandbox_path: a path is taken as it is written, without "..", and must
\* begin with the root; an absolute path stands for itself.
SandboxedByRoot(path) == Head(path) = "/" => Len(path) > 1 /\ path[2] = "root"
Sandboxed(path) ==
    /\ ".." \notin Range(path)
    /\ Head(path) = "/" => Len(path) > 1 /\ path[2] = "root"
Inside(path) == IF Head(path) = "/" THEN Tail(path) ELSE <<"root">> \o path

Answered(t, call) == Append(turn[t].talk, Message("tool", <<call>>))
Carried(t, call) ==
    turn' = [turn EXCEPT ![t].talk = Answered(t, call), ![t].todo = Tail(@), ![t].at = "tools"]

\* http_tool_defs: what the model is offered, with the names shortened.
Tools == {"read", "list", "write", "complete", "fail", "ask"}
\* fs_read, fs_list, a tool that was not offered: a result in any case.
ReadTool(t, call) ==
    /\ call.name \in Tools => call.name \in {"read", "list"}
    /\ Carried(t, call)
    /\ UNCHANGED <<written, afterStop>>
WriteTool(t, call) ==
    /\ call.name = "write"
    /\ Carried(t, call)
    /\ written' = IF Sandboxed(call.path) THEN written \cup {Inside(call.path)} ELSE written
    /\ Does(t)
\* complete_step, fail_step: the calls after it are dropped.
SettleTool(t, call) ==
    /\ call.name \in {"complete", "fail"}
    /\ EndsTurn(t, call.name)
    /\ UNCHANGED <<written, afterStop>>
AskTool(t, call) == call.name = "ask" /\ GoesTo(t, "wait") /\ UNCHANGED <<written, afterStop>>

CarryOut(t) ==
    /\ turn[t].at = "tools" /\ turn[t].todo # <<>>
    /\ LET call == Head(turn[t].todo) IN
       ReadTool(t, call) \/ WriteTool(t, call) \/ SettleTool(t, call) \/ AskTool(t, call)
    /\ Only

\* An answer, six hours, or the stop: the loop goes on in each case.
WaitOverSilently(t) ==
    /\ turn[t].at = "wait"
    /\ turn' = [turn EXCEPT ![t].todo = Tail(@), ![t].at = "tools"]
    /\ Only /\ UNCHANGED <<written, afterStop>>
WaitOver(t) ==
    /\ turn[t].at = "wait"
    /\ Carried(t, Head(turn[t].todo))
    /\ Only /\ UNCHANGED <<written, afterStop>>

NextRound(t) ==
    /\ turn[t].at = "tools" /\ turn[t].todo = <<>>
    /\ GoesTo(t, "loop")
    /\ Only /\ UNCHANGED <<written, afterStop>>

\* The outcome is reported first, then the end of the thread.
Report(t) ==
    /\ turn[t].at = "report"
    /\ reports' = [reports EXCEPT ![t] = Append(@, turn[t].outcome)]
    /\ GoesTo(t, "mark")
    /\ Does(t)
    /\ UNCHANGED <<session, hosted, bound, stop, written, doubtful>>

MarkTerminated(t) ==
    /\ turn[t].at = "mark"
    /\ session' = [session EXCEPT ![turn[t].of].alive = FALSE, ![turn[t].of].term = TRUE]
    /\ GoesTo(t, "done")
    /\ UNCHANGED <<hosted, bound, reports, stop, written, afterStop, doubtful>>

(***************************************************************************)
(* Stop and kill.                                                          *)
(***************************************************************************)
\* stop_run: a run that is not bound, or whose session is gone, counts as
\* stopped; otherwise the thread is told, and waited for.
StopTurn(t) ==
    /\ turn[t].at # "idle" /\ stop[t] \in {"no", "late"}
    /\ IF t \notin bound \/ hosted = 0
       THEN /\ stop' = [stop EXCEPT ![t] = "confirmed"] /\ bound' = bound \ {t}
            /\ UNCHANGED session
       ELSE /\ stop' = [stop EXCEPT ![t] = "waiting"] /\ UNCHANGED bound
            /\ session' = [session EXCEPT ![hosted].cancel = TRUE]
    /\ UNCHANGED <<turn, hosted, reports, written, afterStop, doubtful>>

\* Mutant of Confirmable: the stop is confirmed by having been asked for.
ConfirmableAtOnce(s) == session[s].cancel
Confirmable(s) ==
    session[s].term /\ (session[s].join = 0 \/ turn[session[s].join].at = "done")
StopSees(t) ==
    /\ stop[t] = "waiting" /\ hosted # 0
    /\ Confirmable(hosted)
    /\ stop' = [stop EXCEPT ![t] = "confirmed"]
    /\ Unhosted
    /\ session' = [session EXCEPT ![hosted].join = 0]
    /\ UNCHANGED <<turn, reports, written, afterStop, doubtful>>

\* Not confirmed in time: session and binding stay, and the stop may be tried again.
StopLate(t) ==
    /\ stop[t] = "waiting"
    /\ stop' = [stop EXCEPT ![t] = "late"]
    /\ UNCHANGED <<turn, session, hosted, bound, reports, written, afterStop, doubtful>>

\* kill_session, of the terminal: the entry goes first, and nobody waits.
KillHttp ==
    /\ hosted # 0
    /\ session' = [session EXCEPT ![hosted].cancel = TRUE, ![hosted].alive = FALSE]
    /\ doubtful' = doubtful \cup Threads(hosted)
    /\ Unhosted
    /\ UNCHANGED <<turn, reports, stop, written, afterStop>>

HttpNext ==
    \/ KillHttp
    \/ \E t \in Turns :
        \/ StartTurn(t) \/ ThreadFails(t) \/ Iterate(t) \/ MockTurn(t)
        \/ Reply(t) \/ ProviderFails(t)
        \/ CarryOut(t) \/ WaitOver(t) \/ NextRound(t)
        \/ Report(t) \/ MarkTerminated(t)
        \/ StopTurn(t) \/ StopSees(t) \/ StopLate(t)

(***************************************************************************)
(* The conversation as the providers get it.                               *)
(***************************************************************************)
\* openai_complete: every message as it is.
Listed(talk) == SelectSeq(talk, LAMBDA m : m.role \in {"system", "user", "assistant", "tool"})

\* anthropic_complete: results are said by the user, and what one side says in
\* a row is one message; the system text is left out of the messages.
\* Mutant of Side: a result is a side of its own.
OwnSide(m) == m.role
Side(m) == IF m.role = "tool" THEN "user" ELSE m.role
Said(m) == IF m.role = "tool" THEN <<[result |-> m.calls[1]]>> ELSE <<[role |-> m.role]>>
Merged(talk) ==
    FoldLeft(LAMBDA out, m :
                IF m.role = "system" THEN out
                ELSE IF out # <<>> /\ Last(out).role = Side(m)
                THEN [out EXCEPT ![Len(out)].said = @ \o Said(m)]
                ELSE Append(out, [role |-> Side(m), said |-> Said(m)]),
             <<>>, talk)

(***************************************************************************)
(* Properties.                                                             *)
(***************************************************************************)
Results(talk, i) ==
    [k \in 1..Len(talk[i].calls) |-> IF i + k <= Len(talk) THEN talk[i + k] ELSE talk[i]]

\* A request is only made with every call of the model answered, once and in
\* its order, whatever the calls did.
CallsAnswered ==
    \A t \in Turns : turn[t].at = "call" =>
        LET talk == Listed(turn[t].talk) IN
        \A i \in {k \in 1..Len(talk) : talk[k].role = "assistant"} :
            LET calls == talk[i].calls  next == i + Len(calls) + 1 IN
            /\ Results(talk, i) = [k \in 1..Len(calls) |-> Message("tool", <<calls[k]>>)]
            /\ next <= Len(talk) => talk[next].role = "assistant"

\* User and model take turns in what is sent, and the user has the last word.
SidesAlternate ==
    \A t \in Turns : turn[t].at = "call" =>
        LET m == Merged(turn[t].talk) IN
        /\ \A i \in 1..Len(m) : m[i].role = IF i % 2 = 1 THEN "user" ELSE "assistant"
        /\ Last(m).role = "user"

\* A thread reports how it ended once, before anybody may take it for ended.
OneReport ==
    \A t \in Turns :
        /\ Len(reports[t]) <= 1
        /\ turn[t].at = "done" => Len(reports[t]) = 1
        /\ stop[t] = "confirmed" /\ t \notin doubtful => turn[t].at = "done"

\* After a confirmed stop the run writes nothing and reports nothing.
StoppedIsQuiet == afterStop \subseteq doubtful

\* Files are written below the root of the workspace.
WritesInside == \A p \in written : p[1] = "root" /\ ".." \notin Range(p)

HttpSafety == CallsAnswered /\ SidesAlternate /\ OneReport /\ StoppedIsQuiet /\ WritesInside
=============================================================================
