---------------------------- MODULE AdHocSession ----------------------------
(***************************************************************************)
(* Ad-hoc sessions (create_ad_hoc_session and apply_ad_hoc_exit of the     *)
(* orchestrator, launch_ad_hoc_pty of the terminal host): a person starts  *)
(* an agent beside a run.  There is no attempt and no step; the session    *)
(* has a row of its own and a row of the terminal list that shows it.      *)
(*                                                                         *)
(* The creation, the process with its waiter and its reader, the pump of   *)
(* runtime events and a person who stops the terminal all write these two  *)
(* rows or the registry, each in steps of its own.                         *)
(***************************************************************************)
EXTENDS Integers, Sequences, FiniteSets

CONSTANTS
    AdHocs,      \* sessions
    Contracts    \* when a session counts as done: by exit code, by what it showed, or never

ASSUME ContractsAssumption == Contracts \subseteq {"exit", "shown", "never"}

VARIABLES
    adRow,       \* ad_hoc_sessions: its status
    adShown,     \* agent_sessions: the status of the row that shows it
    adContract,  \* completion contract and mode of the frozen instance
    creation,    \* where the creation is
    adProcess,   \* the process: status, whether it did what its contract asks
    adKilled,    \* sessions that somebody has killed
    adRegistry,  \* sessions found by their display handle
    waiter,      \* per session: not started, waiting, exit code known
    adReader,    \* per session: none, reading, what it has to report, reported, over
    exits,       \* runtime events on their way to the pump
    adPump,      \* the event the pump is in the middle of
    excused      \* observer: sessions one of whose writes failed, or that a restart cut off

adRows == <<adRow, adShown>>
adThreads == <<creation, adContract>>
adHost == <<adProcess, adKilled, adRegistry, waiter, adReader>>
adHocVars == <<adRows, adThreads, adHost, exits, adPump, excused>>

Ended == {"done", "dead"}
NoExit == [id |-> 0, status |-> "none", pc |-> "idle"]

AdHocTypeOK ==
    /\ adRow \in [AdHocs -> {"none", "starting", "working"} \cup Ended]
    /\ adShown \in [AdHocs -> {"none", "starting", "working"} \cup Ended]
    /\ adContract \in [AdHocs -> Contracts \cup {"none"}]
    /\ creation \in [AdHocs -> {"none", "display", "launch", "stdin", "waiter", "reader", "mark",
                                "show", "undo", "undoShown", "compensate", "started", "failed", "lost"}]
    /\ adProcess \in [AdHocs -> [status : {"none", "live", "ended"}, good : BOOLEAN]]
    /\ {adKilled, adRegistry, excused} \subseteq SUBSET AdHocs
    /\ waiter \in [AdHocs -> {"none", "waits", "knows"}]
    /\ adReader \in [AdHocs -> {"none", "reads", "yes", "no", "reported", "over"}]
    /\ exits \in Seq([id : AdHocs, good : BOOLEAN])
    /\ adPump.pc \in {"idle", "row", "shown"}

AdHocInit ==
    /\ adRow = [a \in AdHocs |-> "none"] /\ adShown = adRow
    /\ adContract = [a \in AdHocs |-> "none"]
    /\ creation = [a \in AdHocs |-> "none"]
    /\ adProcess = [a \in AdHocs |-> [status |-> "none", good |-> FALSE]]
    /\ adKilled = {} /\ adRegistry = {} /\ excused = {}
    /\ waiter = [a \in AdHocs |-> "none"]
    /\ adReader = [a \in AdHocs |-> "none"]
    /\ exits = <<>> /\ adPump = NoExit

CreationGoes(a, from, to) == creation[a] = from /\ creation' = [creation EXCEPT ![a] = to]

-----------------------------------------------------------------------------
(* The creation.                                                           *)

\* A request that names a run and whose launch plan compiles; any other leaves nothing.
InsertAdHoc(a, c) ==
    /\ \A b \in AdHocs : b < a => creation[b] # "none"
    /\ CreationGoes(a, "none", "display")
    /\ adContract' = [adContract EXCEPT ![a] = c]
    /\ adRow' = [adRow EXCEPT ![a] = "starting"]
    /\ UNCHANGED <<adShown, adHost, exits, adPump, excused>>

CreateDisplay(a) ==
    /\ CreationGoes(a, "display", "launch")
    /\ adShown' = [adShown EXCEPT ![a] = "starting"]
    /\ UNCHANGED <<adRow, adContract, adHost, exits, adPump, excused>>

\* The process is in the registry before anything is written to it.
SpawnAdHoc(a) ==
    /\ CreationGoes(a, "launch", "stdin")
    /\ adProcess' = [adProcess EXCEPT ![a].status = "live"]
    /\ adRegistry' = adRegistry \cup {a}
    /\ UNCHANGED <<adRows, adContract, adKilled, waiter, adReader, exits, adPump, excused>>

SpawnAdHocFails(a) ==
    /\ CreationGoes(a, "launch", "undo")
    /\ UNCHANGED <<adRows, adContract, adHost, exits, adPump, excused>>

WriteFirstInput(a) ==
    /\ CreationGoes(a, "stdin", "waiter")
    /\ UNCHANGED <<adRows, adContract, adHost, exits, adPump, excused>>

StartWaiter(a) ==
    /\ CreationGoes(a, "waiter", "reader")
    /\ waiter' = [waiter EXCEPT ![a] = "waits"]
    /\ UNCHANGED <<adRows, adContract, adProcess, adKilled, adRegistry, adReader, exits, adPump,
                   excused>>

StartReader(a) ==
    /\ CreationGoes(a, "reader", "mark")
    /\ adReader' = [adReader EXCEPT ![a] = "reads"]
    /\ UNCHANGED <<adRows, adContract, adProcess, adKilled, adRegistry, waiter, exits, adPump,
                   excused>>

\* kill_session: out of the registry, and killed if it was in it.
KillNothing(a) == UNCHANGED <<adRegistry, adKilled>>
KillAdHoc(a) ==
    /\ adRegistry' = adRegistry \ {a}
    /\ adKilled' = adKilled \cup (adRegistry \cap {a})

\* The guard of the launch: whatever fails before the reader runs takes the process with it.
ReapNothing(a) == UNCHANGED <<adRegistry, adKilled>>
Reap(a) ==
    /\ adRegistry' = adRegistry \ {a}
    /\ adKilled' = adKilled \cup {a}
LaunchFails(a) ==
    /\ creation[a] \in {"stdin", "waiter", "reader"}
    /\ CreationGoes(a, creation[a], "undo")
    /\ Reap(a)
    /\ UNCHANGED <<adRows, adContract, adProcess, waiter, adReader, exits, adPump, excused>>

UndoAdHoc(a) ==
    /\ CreationGoes(a, "undo", "undoShown")
    /\ adRow' = [adRow EXCEPT ![a] = "dead"]
    /\ UNCHANGED <<adShown, adContract, adHost, exits, adPump, excused>>

UndoShown(a) ==
    /\ CreationGoes(a, "undoShown", "failed")
    /\ adShown' = [adShown EXCEPT ![a] = "dead"]
    /\ UNCHANGED <<adRow, adContract, adHost, exits, adPump, excused>>

\* Only a row that is still starting becomes working: a short process may have ended already.
WorkingAnyway(a) == [adRow EXCEPT ![a] = "working"]
Working(a) == [adRow EXCEPT ![a] = IF @ = "starting" THEN "working" ELSE @]
MarkLaunched(a) ==
    /\ CreationGoes(a, "mark", "show")
    /\ adRow' = Working(a)
    /\ UNCHANGED <<adShown, adContract, adHost, exits, adPump, excused>>

\* The write fails: the process is killed.  The row that shows it is not written.
MarkFails(a) ==
    /\ CreationGoes(a, "mark", "compensate")
    /\ KillAdHoc(a)
    /\ excused' = excused \cup {a}
    /\ UNCHANGED <<adRows, adContract, adProcess, waiter, adReader, exits, adPump>>

Compensate(a) ==
    /\ CreationGoes(a, "compensate", "failed")
    /\ \/ adRow' = [adRow EXCEPT ![a] = "dead"]
       \/ UNCHANGED adRow   \* the second write fails as well
    /\ UNCHANGED <<adShown, adContract, adHost, exits, adPump, excused>>

\* Unlike the row of the session, the row that shows it is written whatever it says by now.
ShowWorking(a) ==
    /\ CreationGoes(a, "show", "started")
    /\ adShown' = [adShown EXCEPT ![a] = "working"]
    /\ excused' = IF adRow[a] \in Ended THEN excused \cup {a} ELSE excused
    /\ UNCHANGED <<adRow, adContract, adHost, exits, adPump>>

-----------------------------------------------------------------------------
(* The process, its waiter and its reader.                                 *)

ProcessOver(a, good) ==
    /\ adProcess[a].status = "live"
    /\ adProcess' = [adProcess EXCEPT ![a] = [status |-> "ended", good |-> good]]
    /\ UNCHANGED <<adRows, adThreads, adKilled, adRegistry, waiter, adReader, exits, adPump, excused>>

WaiterReaps(a) ==
    /\ waiter[a] = "waits" /\ adProcess[a].status = "ended"
    /\ waiter' = [waiter EXCEPT ![a] = "knows"]
    /\ UNCHANGED <<adRows, adThreads, adProcess, adKilled, adRegistry, adReader, exits, adPump, excused>>

\* The reader sees the end of the output, on Unix before the waiter may know the exit code.
\* What it finds decides whether the contract is met.
Met(a) == /\ adProcess[a].good
          /\ adContract[a] = "exit" => waiter[a] = "knows"
ReaderEof(a) ==
    /\ adReader[a] = "reads" /\ adProcess[a].status = "ended"
    /\ adReader' = [adReader EXCEPT ![a] = IF Met(a) THEN "yes" ELSE "no"]
    /\ UNCHANGED <<adRows, adThreads, adProcess, adKilled, adRegistry, waiter, exits, adPump, excused>>

ReaderReports(a) ==
    /\ adReader[a] \in {"yes", "no"}
    /\ exits' = Append(exits, [id |-> a, good |-> adReader[a] = "yes"])
    /\ adReader' = [adReader EXCEPT ![a] = "reported"]
    /\ UNCHANGED <<adRows, adThreads, adProcess, adKilled, adRegistry, waiter, adPump, excused>>

ReaderLeaves(a) ==
    /\ adReader[a] = "reported"
    /\ adReader' = [adReader EXCEPT ![a] = "over"]
    /\ KillAdHoc(a)
    /\ UNCHANGED <<adRows, adThreads, adProcess, waiter, exits, adPump, excused>>

-----------------------------------------------------------------------------
(* The pump, and the others.                                               *)

OutcomeOf(e) == IF e.good /\ adContract[e.id] # "never" THEN "done" ELSE "dead"

\* A row that has ended is left alone.
StillOpen(a) == adRow[a] \notin Ended
PumpTakesExit ==
    /\ adPump.pc = "idle" /\ exits # <<>>
    /\ exits' = Tail(exits)
    /\ adPump' = LET e == Head(exits) IN
                 IF StillOpen(e.id) THEN [id |-> e.id, status |-> OutcomeOf(e), pc |-> "row"]
                 ELSE NoExit
    /\ UNCHANGED <<adRows, adThreads, adHost, excused>>

PumpEndsRow ==
    /\ adPump.pc = "row"
    /\ adRow' = [adRow EXCEPT ![adPump.id] = adPump.status]
    /\ adPump' = [adPump EXCEPT !.pc = "shown"]
    /\ UNCHANGED <<adShown, adThreads, adHost, exits, excused>>

PumpEndsShown ==
    /\ adPump.pc = "shown"
    /\ adShown' = [adShown EXCEPT ![adPump.id] = adPump.status]
    /\ adPump' = NoExit
    /\ excused' = IF creation[adPump.id] = "show" THEN excused \cup {adPump.id} ELSE excused
    /\ UNCHANGED <<adRow, adThreads, adHost, exits>>

StopAdHoc(a) ==
    /\ adShown[a] # "none" /\ a \in adRegistry
    /\ KillAdHoc(a)
    /\ UNCHANGED <<adRows, adThreads, adProcess, waiter, adReader, exits, adPump, excused>>

\* The core stops and comes back: the processes go with their terminals, the rows stay.
RestartCore ==
    /\ \E a \in AdHocs : creation[a] \notin {"none", "lost"}
    /\ excused' = excused \cup {a \in AdHocs : creation[a] # "none"}
    /\ creation' = [a \in AdHocs |-> IF creation[a] = "none" THEN "none" ELSE "lost"]
    /\ adProcess' = [a \in AdHocs |-> IF adProcess[a].status = "live"
                                      THEN [status |-> "ended", good |-> FALSE] ELSE adProcess[a]]
    /\ adRegistry' = {} /\ exits' = <<>> /\ adPump' = NoExit
    /\ waiter' = [a \in AdHocs |-> "none"]
    /\ adReader' = [a \in AdHocs |-> "none"]
    /\ UNCHANGED <<adRows, adContract, adKilled>>

AdHocNext ==
    \/ \E a \in AdHocs :
           \/ \E c \in Contracts : InsertAdHoc(a, c)
           \/ CreateDisplay(a) \/ SpawnAdHoc(a) \/ SpawnAdHocFails(a) \/ WriteFirstInput(a)
           \/ StartWaiter(a) \/ StartReader(a) \/ LaunchFails(a) \/ UndoAdHoc(a) \/ UndoShown(a)
           \/ MarkLaunched(a) \/ MarkFails(a) \/ Compensate(a) \/ ShowWorking(a)
           \/ \E good \in BOOLEAN : ProcessOver(a, good)
           \/ WaiterReaps(a) \/ ReaderEof(a) \/ ReaderReports(a) \/ ReaderLeaves(a)
           \/ StopAdHoc(a)
    \/ PumpTakesExit \/ PumpEndsRow \/ PumpEndsShown \/ RestartCore

AdHocSpec == AdHocInit /\ [][AdHocNext]_adHocVars

-----------------------------------------------------------------------------
(* What a person may rely on.                                              *)

\* A creation that was answered with an error leaves no process behind: it has been killed, it
\* is over, or there was none.
NoOrphan ==
    \A a \in AdHocs : creation[a] \in {"undo", "undoShown", "compensate", "failed"} =>
        /\ a \notin adRegistry
        /\ adProcess[a].status = "live" => a \in adKilled

\* A session that is not over in its row can still be ended: its process is in the registry,
\* where a stop finds it, or has been killed or is over and will be reported; and both rows end
\* alike, unless a write failed, a restart came between, or the row that shows it was written
\* last by the creation.
EndIsReported ==
    \A a \in AdHocs \ excused :
        /\ adRow[a] = "working" =>
               \/ a \in adRegistry \cup adKilled
               \/ adReader[a] \in {"reported", "over"}
        /\ adRow[a] \in {"starting", "working"} /\ adReader[a] \in {"reported", "over"} =>
               \/ \E i \in DOMAIN exits : exits[i].id = a
               \/ adPump.id = a
        /\ adRow[a] \in Ended /\ creation[a] \in {"started", "failed"} /\ adPump.id # a =>
               adShown[a] = adRow[a]

\* A session is done only if its process did what the frozen contract asks, and an interactive
\* one never is; the exit code counts only once the waiter has it.
DoneMeansMet ==
    \A a \in AdHocs : adRow[a] = "done" => adProcess[a].good /\ adContract[a] # "never"

AdHocSafety == AdHocTypeOK /\ NoOrphan /\ EndIsReported /\ DoneMeansMet

\* No step brings a session back that has ended, whichever of the creation and the report of
\* the exit comes first.
EndedStays ==
    [][\A a \in AdHocs : adRow[a] \in Ended => adRow'[a] \in Ended]_adRow
=============================================================================
