--------------------------- MODULE TerminalSession ---------------------------
(***************************************************************************)
(* Agent processes in pseudo-terminals, and the registry that finds them   *)
(* (mf-terminal session_runtime.rs).                                       *)
(*                                                                         *)
(* Five kinds of threads meet in SessionRegistry: the dispatch thread,     *)
(* which attaches a run to a live session or launches a process for it;    *)
(* per process a reader and a waiter, which wind it down; the runtime pump *)
(* of the orchestrator, which applies what the reader reports; and the     *)
(* callers of stop_run and kill_session.  The registry is keyed by the     *)
(* handle of an agent_sessions row and not by process, and a row can be    *)
(* launched into again, so a thread may meet the successor of the process  *)
(* it is about.                                                            *)
(*                                                                         *)
(* All rows of the model carry one session key.  A run launches at most    *)
(* one process, which therefore bears the name of the run.  A lock of the  *)
(* registry is an action; kill_session, which removes under the lock and   *)
(* kills right after it, is one action too.                                *)
(***************************************************************************)
EXTENDS Integers, Sequences, FiniteSets

CONSTANTS
    SessionRuns,   \* agent runs, in the order of their creation
    SessionRows    \* agent_sessions rows that may be created, in order

ASSUME SessionRunsAssumption == SessionRuns \subseteq Nat \ {0}
ASSUME SessionRowsAssumption == SessionRows \subseteq Nat \ {0}

None == 0   \* no run, no row, no process

VARIABLES
    sessionRow,   \* agent_sessions.status: not created, usable or dead
    runState,     \* agent_runs.status; "ended" is every status the pump ignores
    rowOf,        \* agent_runs.session_id
    launcher,     \* the dispatch thread
    registry,     \* SessionRegistry.sessions: the process behind a handle
    binding,      \* SessionRegistry.run_sessions
    process,      \* the operating system's view of each process tree
    alive,        \* PtySession.alive
    terminated,   \* PtySession.term
    killed,       \* processes that somebody has asked the system to kill
    reader,       \* where the reader thread of a process is
    reports,      \* the runtime events on their way to the pump
    stopper,      \* where a stop_run is
    prompted,     \* observer: the process that was given the prompt of a run
    displaced     \* observer: processes a stop of an earlier one took from the registry

orchestratorVars == <<sessionRow, runState, rowOf>>
registryVars == <<registry, binding>>
flags == <<alive, terminated>>
sessionObservers == <<prompted, displaced>>
sessionVars == <<orchestratorVars, launcher, registryVars, process, flags, killed,
                 reader, reports, stopper, sessionObservers>>

Handle == SessionRows \cup {None}
Process == SessionRuns \cup {None}
Active == {"running", "awaiting"}
Report == [run : SessionRuns, kind : {"up", "exited", "dead"}]

\* The session rows, the registry, the threads and the processes keep their types.
SessionTypeOK ==
    /\ sessionRow \in [SessionRows -> {"none", "usable", "dead"}]
    /\ runState \in [SessionRuns -> {"unborn", "ended"} \cup Active]
    /\ rowOf \in [SessionRuns -> Handle]
    /\ launcher \in [pc : {"idle", "launch", "attach", "prompt", "spawn",
                           "bind", "stdin", "launched"}, run : Process, attach : BOOLEAN]
    /\ registry \in [SessionRows -> Process]
    /\ binding \in [SessionRuns -> Handle]
    /\ process \in [SessionRuns -> {"none", "live", "orphans", "gone"}]
    /\ {alive, terminated, killed} \subseteq SUBSET SessionRuns
    /\ reader \in [SessionRuns -> {"none", "read", "unregister", "done"}]
    /\ reports \in Seq(Report)
    /\ stopper \in [pc : {"idle", "wait", "drop"}, run : Process,
                     of : Process, handle : Handle]
    /\ prompted \in [SessionRuns -> Process]
    /\ displaced \subseteq SessionRuns

Idle == [pc |-> "idle", run |-> None, attach |-> FALSE]
NoStop == [pc |-> "idle", run |-> None, of |-> None, handle |-> None]

SessionInit ==
    /\ sessionRow = [h \in SessionRows |-> "none"]
    /\ runState = [r \in SessionRuns |-> "unborn"]
    /\ rowOf = [r \in SessionRuns |-> None]
    /\ launcher = Idle
    /\ registry = [h \in SessionRows |-> None]
    /\ binding = [r \in SessionRuns |-> None]
    /\ process = [r \in SessionRuns |-> "none"]
    /\ alive = {} /\ terminated = {} /\ killed = {}
    /\ reader = [r \in SessionRuns |-> "none"]
    /\ reports = <<>>
    /\ stopper = NoStop
    /\ prompted = [r \in SessionRuns |-> None]
    /\ displaced = {}

-----------------------------------------------------------------------------
(* The registry.                                                           *)

SessionAlive(h) == registry[h] \in alive

\* Mutant of KillSession: taken out of the registry, but not killed.
ForgetSession(h) ==
    /\ registry' = [registry EXCEPT ![h] = None]
    /\ binding' = [r \in SessionRuns |-> IF binding[r] = h THEN None ELSE binding[r]]
    /\ UNCHANGED killed

\* Mutant of KillSession: the handle is killed whether it stands for a process or not.
KillHandle(h) ==
    /\ registry' = [registry EXCEPT ![h] = None]
    /\ binding' = [r \in SessionRuns |-> IF binding[r] = h THEN None ELSE binding[r]]
    /\ killed' = killed \cup {registry[h]}

\* remove_session_and_bindings: the handle, and every run bound to it.
Unregister(h) ==
    /\ registry' = [registry EXCEPT ![h] = None]
    /\ binding' = [r \in SessionRuns |-> IF binding[r] = h THEN None ELSE binding[r]]

\* kill_session: whichever process the handle stands for now.
KillSession(h) ==
    /\ Unregister(h)
    /\ killed' = killed \cup ({registry[h]} \ {None})

-----------------------------------------------------------------------------
(* The dispatch thread.                                                    *)

KeyFree == \A r \in SessionRuns : runState[r] \notin Active
Usable == {h \in SessionRows : sessionRow[h] = "usable"}
NewestUsable(h) == h \in Usable /\ \A g \in Usable : g <= h
NextRow(h) == sessionRow[h] = "none" /\ \A g \in SessionRows : g < h => sessionRow[g] # "none"
NextRun(r) == runState[r] = "unborn" /\ \A q \in SessionRuns : q < r => runState[q] # "unborn"

\* dispatch, up to its transaction: the newest usable row of the key, or a new one.
DispatchRun(r, h) ==
    /\ launcher.pc = "idle" /\ NextRun(r) /\ KeyFree
    /\ IF Usable # {} THEN NewestUsable(h) ELSE NextRow(h)
    /\ sessionRow' = [sessionRow EXCEPT ![h] = "usable"]
    /\ runState' = [runState EXCEPT ![r] = "running"]
    /\ rowOf' = [rowOf EXCEPT ![r] = h]
    /\ launcher' = [pc |-> "launch", run |-> r, attach |-> Usable # {}]
    /\ UNCHANGED <<registryVars, process, flags, killed, reader, reports, stopper,
                   sessionObservers>>

LaunchAt(p) == launcher.pc = p
Launching == launcher.run
Target == rowOf[launcher.run]
Go(p) == launcher' = [launcher EXCEPT !.pc = p]

\* settle_dispatch_failure: the row is closed and the run settled as failed.
DispatchFailed ==
    /\ sessionRow' = [sessionRow EXCEPT ![Target] = "dead"]
    /\ runState' = [runState EXCEPT ![Launching] = "ended"]
    /\ launcher' = Idle
    /\ UNCHANGED rowOf

\* Mutant of AttachRun: the prompt is sent without a binding.
AttachUnbound ==
    /\ LaunchAt("launch") /\ launcher.attach /\ SessionAlive(Target)
    /\ Go("prompt")
    /\ UNCHANGED <<orchestratorVars, registryVars, process, flags, killed, reader, reports,
                   stopper, sessionObservers>>

\* A live session: the run is bound to it ...
AttachRun ==
    /\ LaunchAt("launch") /\ launcher.attach /\ SessionAlive(Target)
    /\ Go("prompt")
    /\ binding' = [binding EXCEPT ![Launching] = Target]
    /\ UNCHANGED <<orchestratorVars, registry, process, flags, killed, reader, reports,
                   stopper, sessionObservers>>

\* ... and send_prompt looks the handle up again.  Writing to the terminal of a process
\* that has ended may succeed or fail.
PromptSession ==
    /\ LaunchAt("prompt") /\ registry[Target] # None
    /\ prompted' = [prompted EXCEPT ![Launching] = registry[Target]]
    /\ reports' = Append(reports, [run |-> Launching, kind |-> "up"])
    /\ launcher' = Idle
    /\ UNCHANGED <<orchestratorVars, registryVars, process, flags, killed, reader, stopper,
                   displaced>>

PromptFails ==
    /\ LaunchAt("prompt")
    /\ registry[Target] # None => process[registry[Target]] = "gone"
    /\ binding' = [binding EXCEPT ![Launching] = None]
    /\ DispatchFailed
    /\ UNCHANGED <<registry, process, flags, killed, reader, reports, stopper,
                   sessionObservers>>

\* No live session to attach to: what the handle still stands for is killed first.
LaunchFresh ==
    /\ LaunchAt("launch") /\ ~(launcher.attach /\ SessionAlive(Target))
    /\ KillSession(Target)
    /\ Go("spawn")
    /\ UNCHANGED <<orchestratorVars, process, flags, reader, reports, stopper,
                   sessionObservers>>

\* The process is spawned and registered; until then nobody else can reach it.
SpawnProcess ==
    /\ LaunchAt("spawn") /\ Go("bind")
    /\ process' = [process EXCEPT ![Launching] = "live"]
    /\ alive' = alive \cup {Launching}
    /\ prompted' = [prompted EXCEPT ![Launching] = Launching]
    /\ registry' = [registry EXCEPT ![Target] = Launching]
    /\ UNCHANGED <<orchestratorVars, binding, terminated, killed, reader, reports, stopper,
                   displaced>>

SpawnFails ==
    /\ LaunchAt("spawn")
    /\ DispatchFailed
    /\ UNCHANGED <<registryVars, process, flags, killed, reader, reports, stopper,
                   sessionObservers>>

BindRun ==
    /\ LaunchAt("bind") /\ Go("stdin")
    /\ binding' = [binding EXCEPT ![Launching] = Target]
    /\ UNCHANGED <<orchestratorVars, registry, process, flags, killed, reader, reports,
                   stopper, sessionObservers>>

\* The prompt cannot be written: AdHocReapGuard ends what was launched, with no thread to
\* wait for it.
StdinFails ==
    /\ LaunchAt("stdin")
    /\ Unregister(Target)
    /\ killed' = killed \cup ({registry[Target], Launching} \ {None})
    /\ alive' = alive \ {Launching}
    /\ DispatchFailed
    /\ UNCHANGED <<process, terminated, reader, reports, stopper, sessionObservers>>

StartThreads ==
    /\ LaunchAt("stdin") /\ Go("launched")
    /\ reader' = [reader EXCEPT ![Launching] = "read"]
    /\ UNCHANGED <<orchestratorVars, registryVars, process, flags, killed, reports, stopper,
                   sessionObservers>>

\* Launched and Working, after the threads have been running for a while.
ReportLaunched ==
    /\ LaunchAt("launched")
    /\ reports' = Append(reports, [run |-> Launching, kind |-> "up"])
    /\ launcher' = Idle
    /\ UNCHANGED <<orchestratorVars, registryVars, process, flags, killed, reader, stopper,
                   sessionObservers>>

Launch ==
    \/ AttachRun \/ PromptSession \/ PromptFails
    \/ LaunchFresh \/ SpawnProcess \/ SpawnFails \/ BindRun
    \/ StdinFails \/ StartThreads \/ ReportLaunched

-----------------------------------------------------------------------------
(* A process and the two threads that wind it down.                        *)

\* The child ends, and may leave descendants that go on.
ProcessEnds(i) ==
    /\ process[i] \in {"live", "orphans"}
    /\ \E p \in {"orphans", "gone"} :
          /\ p # process[i]
          /\ i \in killed => p = "gone"
          /\ process' = [process EXCEPT ![i] = p]
    /\ UNCHANGED <<orchestratorVars, launcher, registryVars, flags, killed, reader, reports,
                   stopper, sessionObservers>>

\* Mutant of ReadEof: a session that is no longer registered has nothing to report.
ReadEofIfRegistered(i) ==
    /\ reader[i] = "read" /\ process[i] # "live"
    /\ alive' = alive \ {i}
    /\ reports' = IF registry[rowOf[i]] = i
                  THEN reports \o <<[run |-> i, kind |-> "exited"], [run |-> i, kind |-> "dead"]>>
                  ELSE reports
    /\ reader' = [reader EXCEPT ![i] = "unregister"]
    /\ UNCHANGED <<orchestratorVars, launcher, registryVars, process, terminated, killed, stopper,
                   sessionObservers>>

\* End of file: the last flush and the exit events, which carry the run that launched the
\* process.  Descendants may hold the terminal open after the child has ended.
ReadEof(i) ==
    /\ reader[i] = "read" /\ process[i] # "live"
    /\ alive' = alive \ {i}
    /\ reports' = reports \o <<[run |-> i, kind |-> "exited"], [run |-> i, kind |-> "dead"]>>
    /\ reader' = [reader EXCEPT ![i] = "unregister"]
    /\ UNCHANGED <<orchestratorVars, launcher, registryVars, process, terminated, killed, stopper,
                   sessionObservers>>

\* Taking the entry out of the registry, by handle: it may be a successor's entry.
ReaderUnregisters(i) ==
    /\ reader[i] = "unregister"
    /\ KillSession(rowOf[i])
    /\ reader' = [reader EXCEPT ![i] = "done"]
    /\ UNCHANGED <<orchestratorVars, launcher, process, flags, reports, stopper,
                   sessionObservers>>

\* The waiter reaps the child, gives the reader five seconds (which may or may not be
\* enough for it) and confirms the end.
WaiterConfirms(i) ==
    /\ reader[i] # "none" /\ process[i] # "live"
    /\ i \notin terminated
    /\ terminated' = terminated \cup {i}
    /\ alive' = alive \ {i}
    /\ UNCHANGED <<orchestratorVars, launcher, registryVars, process, killed, reader, reports,
                   stopper, sessionObservers>>

Reader(i) == ReadEof(i) \/ ReaderUnregisters(i)

-----------------------------------------------------------------------------
(* The orchestrator's pump, and the ways a run ends elsewhere.             *)

\* Events of a run that has ended are dropped.
Concerns(e) == runState[e.run] \in Active

PumpReport ==
    /\ reports # <<>>
    /\ LET e == Head(reports) IN
          /\ sessionRow' = IF Concerns(e) /\ e.kind # "exited"
                           THEN [sessionRow EXCEPT ![rowOf[e.run]] =
                                    IF e.kind = "up" THEN "usable" ELSE "dead"]
                           ELSE sessionRow
          /\ runState' = IF Concerns(e) /\ e.kind # "up"
                         THEN [runState EXCEPT ![e.run] = "awaiting"] ELSE runState
    /\ reports' = Tail(reports)
    /\ UNCHANGED <<rowOf, launcher, registryVars, process, flags, killed, reader, stopper,
                   sessionObservers>>

\* mfctl, the user or a Cancel settles the run; the process is not touched.
SettleRun(r) ==
    /\ runState[r] \in Active
    /\ runState' = [runState EXCEPT ![r] = "ended"]
    /\ UNCHANGED <<sessionRow, rowOf, launcher, registryVars, process, flags, killed, reader,
                   reports, stopper, sessionObservers>>

\* The user closes the terminal.
CloseTerminal(h) ==
    /\ registry[h] # None
    /\ KillSession(h)
    /\ UNCHANGED <<orchestratorVars, launcher, process, flags, reader, reports, stopper,
                   sessionObservers>>

-----------------------------------------------------------------------------
(* stop_run: Ok says that the process is gone.  One call at a time; a call *)
(* that finds no binding answers Ok and changes nothing.                   *)

StopAt(p) == stopper.pc = p

\* The process of the handle is looked up, and its tree asked to end.
StopRun(r) ==
    /\ StopAt("idle") /\ runState[r] \in Active
    /\ binding[r] # None
    /\ LET i == registry[binding[r]] IN
          /\ stopper' = [pc |-> IF i = None THEN "drop" ELSE "wait", run |-> r,
                         of |-> i, handle |-> binding[r]]
          /\ killed' = killed \cup ({i} \ {None})
    /\ UNCHANGED <<orchestratorVars, launcher, registryVars, process, flags, reader,
                   reports, sessionObservers>>

\* Mutant of StopDone: the end of the child is enough.
ChildEnded(i) == i \in terminated

\* The tree is seen empty and the waiter has confirmed the end of the child.
StopDone(i) == process[i] = "gone" /\ i \in terminated

StopConfirms ==
    /\ StopAt("wait") /\ StopDone(stopper.of)
    /\ stopper' = [stopper EXCEPT !.pc = "drop"]
    /\ UNCHANGED <<orchestratorVars, launcher, registryVars, process, flags, killed, reader,
                   reports, sessionObservers>>

\* Ten seconds pass before that: an error, everything kept for another try.
StopTimesOut ==
    /\ StopAt("wait") /\ ~StopDone(stopper.of)
    /\ stopper' = NoStop
    /\ UNCHANGED <<orchestratorVars, launcher, registryVars, process, flags, killed, reader,
                   reports, sessionObservers>>

\* confirm_removed, again by handle, and Ok.
StopDrops ==
    /\ StopAt("drop")
    /\ Unregister(stopper.handle)
    /\ displaced' = displaced \cup ({registry[stopper.handle]} \ {None, stopper.of})
    /\ stopper' = NoStop
    /\ UNCHANGED <<orchestratorVars, launcher, process, flags, killed, reader, reports,
                   prompted>>

Stop ==
    \/ \E r \in SessionRuns : StopRun(r)
    \/ StopConfirms \/ StopTimesOut \/ StopDrops

SessionNext ==
    \/ \E r \in SessionRuns, h \in SessionRows : DispatchRun(r, h)
    \/ Launch
    \/ \E i \in SessionRuns : ProcessEnds(i) \/ Reader(i) \/ WaiterConfirms(i)
    \/ PumpReport
    \/ \E r \in SessionRuns : SettleRun(r)
    \/ Stop
    \/ \E h \in SessionRows : CloseTerminal(h)

SessionSpec == SessionInit /\ [][SessionNext]_sessionVars

-----------------------------------------------------------------------------
(* Properties.                                                             *)

Doomed(i) == i = None \/ process[i] \in {"none", "gone"} \/ i \in killed

\* A process that nobody has asked to die can be found through the handle of its session,
\* unless the stop of its predecessor has displaced it.
NoStrayProcess ==
    \A i \in SessionRuns :
        \/ Doomed(i)
        \/ registry[rowOf[i]] = i
        \/ i \in displaced

\* A run that stop_run calls stopped because nothing is bound to it works in no process
\* that goes on, unless it is just being launched or its process was displaced.
UnboundIsStopped ==
    \A r \in SessionRuns :
        runState[r] \in Active /\ binding[r] = None
            => Doomed(prompted[r]) \/ launcher.run = r \/ prompted[r] \in displaced

\* stop_run answers Ok on a confirmation only when the process it looked up has ended.
ConfirmedIsGone ==
    stopper.pc = "drop" /\ stopper.of # None => process[stopper.of] = "gone"

\* The end of a process reaches the run that launched it, whoever has taken the session out
\* of the registry in the meantime: once the reader has left, a running run has the report
\* of it ahead.
ExitIsReported ==
    \A r \in SessionRuns :
        reader[r] \in {"unregister", "done"} /\ runState[r] = "running"
            => \E n \in 1..Len(reports) : reports[n].run = r /\ reports[n].kind # "up"

\* Whatever threads meet in the registry: no agent works where nobody can find it, stop_run
\* tells the truth, and no run waits for an agent that has ended.
SessionSafety ==
    SessionTypeOK /\ NoStrayProcess /\ UnboundIsStopped /\ ConfirmedIsGone /\ ExitIsReported
=============================================================================
