---------------------------- MODULE AtomicCancel ----------------------------
(***************************************************************************)
(* What a Cancel command of a workflow run promises, without fences,       *)
(* drivers or crashes: at one instant it decides about exactly the agent   *)
(* runs that are active, it calls cancelled only those whose process has   *)
(* ended, and it does so at most once per command id.  CancelFence is      *)
(* shown to implement this module.                                         *)
(***************************************************************************)
CONSTANTS Runs, Commands

VARIABLES
    task,   \* agent_tasks.status
    run,    \* agent_runs.status
    proc,   \* the process of a run
    done    \* commands that have taken effect

vars == <<task, run, proc, done>>

RunStatus == {"unborn", "running", "awaiting-outcome", "interrupted", "settled", "cancelled"}
RunActive == {"running", "awaiting-outcome"}
ActiveRuns == {r \in Runs : run[r] \in RunActive}
Attend(t) == IF t = "cancelled" THEN t ELSE "needs-you"

Init ==
    /\ task = "running"
    /\ run = [r \in Runs |-> "unborn"]
    /\ proc = [r \in Runs |-> "none"]
    /\ done = {}

\* A run is created for a task that is not cancelled.
Dispatch(r) ==
    /\ task # "cancelled" /\ run[r] = "unborn"
    /\ run' = [run EXCEPT ![r] = "running"]
    /\ proc' = [proc EXCEPT ![r] = "launching"]
    /\ UNCHANGED <<task, done>>

\* Processes: started once, ended by themselves, by a stop or with the Core.
Starts(r) == proc[r] = "launching" /\ proc' = [proc EXCEPT ![r] = "alive"]
Ends(S) ==
    /\ \A r \in S : proc[r] \in {"launching", "alive"}
    /\ proc' = [r \in Runs |-> IF r \in S THEN "dead" ELSE proc[r]]
Process ==
    /\ \/ \E r \in Runs : Starts(r)
       \/ \E S \in SUBSET Runs : Ends(S)
    /\ UNCHANGED <<task, run, done>>

\* Active runs end, or the agent reports that it is done, which reopens any run; runs are
\* no longer known to be running; the user is asked.
Settle(r) ==
    /\ run[r] \in RunActive \cup {"interrupted"}
    /\ run' = [run EXCEPT ![r] = "settled"]
    /\ UNCHANGED <<task, proc, done>>
Report(r) ==
    /\ run[r] # "unborn"
    /\ run' = [run EXCEPT ![r] = "awaiting-outcome"]
    /\ UNCHANGED <<task, proc, done>>
Lose(S) ==
    /\ \A r \in S : run[r] = "running"
    /\ run' = [r \in Runs |-> IF r \in S THEN "interrupted" ELSE run[r]]
    /\ task' = Attend(task)
    /\ UNCHANGED <<proc, done>>
Attention == task' = "needs-you" /\ UNCHANGED <<run, proc, done>>

Cancel(c, confirmed) ==
    /\ c \notin done /\ done' = done \cup {c}
    /\ confirmed \subseteq ActiveRuns
    /\ \A r \in confirmed : proc[r] = "dead"
    /\ run' = [r \in Runs |-> IF r \in confirmed THEN "cancelled"
                              ELSE IF r \in ActiveRuns THEN "interrupted" ELSE run[r]]
    /\ task' = IF confirmed = ActiveRuns THEN "cancelled" ELSE Attend(task)
    /\ UNCHANGED proc

Next ==
    \/ \E r \in Runs : Dispatch(r) \/ Settle(r) \/ Report(r)
    \/ \E S \in SUBSET Runs : Lose(S)
    \/ Process \/ Attention
    \/ \E c \in Commands, confirmed \in SUBSET Runs : Cancel(c, confirmed)

Spec == Init /\ [][Next]_vars
=============================================================================
