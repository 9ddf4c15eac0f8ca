----------------------------- MODULE AgentPipe -----------------------------
(* How an agent tells the core what became of its run: mfctl, the named    *)
(* pipe (pipe_server.rs) and the kernel's handling of a command that       *)
(* carries a run's token (execute_run_control_linearized).  An agent that  *)
(* gets no answer calls again, with or without the command id of the first *)
(* call; the core may stop anywhere; the run is also moved by others.      *)
(* Which run a token stands for is RunCapability.                          *)
EXTENDS Naturals, Sequences

CONSTANTS
    PipeCalls,      \* calls of mfctl
    Verbs,          \* what they may ask: a subset of AllVerbs
    Taints,         \* where their text contains the token: some of "no", "text", "dep"
    MaxAddedNodes,  \* MAX_NODES_PER_WORKFLOW less the nodes there are
    MaxOutside,     \* bound: moves of the run by others
    MaxPipeFaults   \* bound: cores that stop, calls killed, failures in the core

AllVerbs == {"complete", "fail", "report", "propose", "evolve"}
SettleVerbs == {"complete", "fail"}
CommandIds == {"none", "k"}

ASSUME PipeAssumption ==
    /\ PipeCalls \subseteq Nat /\ Verbs \subseteq AllVerbs /\ Taints \subseteq {"no", "text", "dep"}
    /\ {MaxAddedNodes, MaxOutside, MaxPipeFaults} \subseteq Nat

VARIABLES
    coreUp, listening,  \* the core; an instance of the pipe waits for a client
    call,               \* each call: where it stands, what it asks, what it was told
    agentRun,           \* the run: outcome, whether it is active, the revisions that are quoted
    added,              \* nodes added to the template
    intent, receipt,    \* of the command id k: state; and the verb and result stored
    sealed,             \* the capability is settled
    unsent,               \* actions of a settlement in the outbox
    inside,             \* the call in the kernel's critical section
    effects,            \* observer: what was committed, in order
    outside, pipeFaults

pipeVars == <<coreUp, listening, call, agentRun, added, intent, receipt, sealed, unsent, inside,
              effects, outside, pipeFaults>>

Unasked == [at |-> "idle", verb |-> "none", id |-> "none", taint |-> "no", told |-> "nothing"]
NoIntent == [state |-> "none", verb |-> "none"]
Untouched == [outcome |-> "none", active |-> TRUE, rev |-> 0]
NoCall == [call |-> "none", at |-> "none", seen |-> Untouched, said |-> "none"]

PipeTypeOK ==
    /\ coreUp \in BOOLEAN /\ listening \in BOOLEAN /\ sealed \in BOOLEAN /\ unsent \in BOOLEAN
    /\ \A c \in PipeCalls :
         /\ call[c].at \in {"idle", "connecting", "asked", "inside", "answered", "over"}
         /\ call[c].verb \in AllVerbs \cup {"none"} /\ call[c].id \in CommandIds
    /\ agentRun.outcome \in {"none"} \cup SettleVerbs
    /\ intent.state \in {"none", "reserved", "applied", "failed", "revoked"}
    /\ added \in 0..MaxAddedNodes

PipeInit ==
    /\ coreUp = TRUE /\ listening = FALSE /\ sealed = FALSE /\ unsent = FALSE
    /\ call = [c \in PipeCalls |-> Unasked]
    /\ agentRun = Untouched
    /\ added = 0 /\ intent = NoIntent /\ receipt = [verb |-> "none", said |-> "none"]
    /\ inside = NoCall
    /\ effects = <<>> /\ outside = 0 /\ pipeFaults = 0

PipeFault == pipeFaults < MaxPipeFaults /\ pipeFaults' = pipeFaults + 1
CallGoes(c, where) == call' = [call EXCEPT ![c].at = where]
Tells(c, what) == call' = [call EXCEPT ![c].at = "answered", ![c].told = what]
KernelRest == UNCHANGED <<agentRun, added, intent, receipt, sealed, unsent, effects, outside>>

(***************************************************************************)
(* mfctl and the pipe.                                                     *)
(***************************************************************************)
\* Calls are named in the order in which they are made.
Invoke(c, verb, id, taint) ==
    /\ call[c].at = "idle" /\ \A d \in PipeCalls : d < c => call[d].at # "idle"
    /\ taint # "dep" \/ verb = "evolve"
    /\ call' = [call EXCEPT ![c] =
                  [Unasked EXCEPT !.at = "connecting", !.verb = verb, !.id = id, !.taint = taint]]
    /\ UNCHANGED <<coreUp, listening, inside, pipeFaults>> /\ KernelRest

\* run_server: one instance waits; when a client has come a thread serves it, and the next is made.
Listen ==
    /\ coreUp /\ ~listening
    /\ listening' = TRUE
    /\ UNCHANGED <<coreUp, call, inside, pipeFaults>> /\ KernelRest
ClientConnects(c) ==
    /\ call[c].at = "connecting" /\ listening
    /\ listening' = FALSE /\ CallGoes(c, "asked")
    /\ UNCHANGED <<coreUp, inside, pipeFaults>> /\ KernelRest
\* request_over_pipe: no instance for as long as it tries.
GivesUp(c) ==
    /\ call[c].at = "connecting" /\ ~listening
    /\ call' = [call EXCEPT ![c].at = "over", ![c].told = "lost"]
    /\ UNCHANGED <<coreUp, listening, inside, pipeFaults>> /\ KernelRest

\* The agent is killed: before it has sent its line, or when nobody reads the answer any more.
CallIsKilled(c) ==
    /\ call[c].at = "asked" /\ PipeFault
    /\ call' = [call EXCEPT ![c].told = "lost", ![c].at = "over"]
    /\ UNCHANGED <<coreUp, listening, inside>> /\ KernelRest
AnswerIsLost(c) ==
    /\ call[c].at = "answered" /\ PipeFault
    /\ call' = [call EXCEPT ![c].told = "lost", ![c].at = "over"]
    /\ UNCHANGED <<coreUp, listening, inside>> /\ KernelRest

\* value_contains_sensitive looks at everything sent, command_contains_token not at the
\* dependencies of a new node.  Slip: the second look alone.
KernelLook(c) == call[c].taint = "text"
TaintedForKernel(c) == KernelLook(c)
Tainted(c) == call[c].taint # "no" \/ KernelLook(c)
Clean(c) == ~Tainted(c)

\* handle_request and dispatch of the pipe.
ReadRequest(c) == call[c].at = "asked" /\ Clean(c)
RequestRefused(c) ==
    /\ call[c].at = "asked" /\ ~Clean(c)
    /\ Tells(c, "refused")
    /\ UNCHANGED <<coreUp, listening, inside, pipeFaults>> /\ KernelRest

(***************************************************************************)
(* The kernel: one call at a time.                                         *)
(***************************************************************************)
\* The run is read when the token has been resolved; a sealed capability only settles again.
Enter(c) ==
    /\ ReadRequest(c) /\ inside.at = "none"
    /\ IF sealed /\ call[c].verb \notin SettleVerbs
       THEN Tells(c, "refused") /\ UNCHANGED inside
       ELSE /\ CallGoes(c, "inside")
            /\ inside' = [NoCall EXCEPT !.call = c, !.at = "resolved", !.seen = agentRun]
    /\ UNCHANGED <<coreUp, listening, pipeFaults>> /\ KernelRest

Handled == call[inside.call]
Leaves(what) == inside' = NoCall /\ Tells(inside.call, what)
StepsTo(where, said) == inside' = [inside EXCEPT !.at = where, !.said = said] /\ UNCHANGED call
InsideRest == UNCHANGED <<coreUp, listening, outside>>
ChangesNothing ==
    UNCHANGED <<agentRun, added, intent, receipt, sealed, unsent, effects, pipeFaults>>

HasId == Handled.id # "none"
\* receipt_outcome: a receipt of the same request is its answer.  Slip: of the same id.
ReplaySameId == HasId /\ receipt.verb # "none"
Replays == HasId /\ receipt.verb = Handled.verb
Reused == HasId /\ {receipt.verb, intent.verb} \ {"none", Handled.verb} # {}
\* What the run was when it was read.
NotActive ==
    IF inside.seen.outcome # "none" THEN inside.seen.outcome # Handled.verb ELSE ~inside.seen.active

Replay ==
    /\ inside.at = "resolved" /\ Replays
    /\ StepsTo("committed", receipt.said)
    /\ InsideRest /\ ChangesNothing

Refuse ==
    /\ inside.at = "resolved" /\ ~Replays
    /\ Reused \/ NotActive \/ (HasId /\ intent.state \in {"failed", "revoked"})
    /\ Leaves("refused")
    /\ InsideRest /\ ChangesNothing

\* reserve_intent: a transaction of the service store.
ReserveIntent ==
    /\ inside.at = "resolved" /\ ~Replays /\ ~Reused /\ ~NotActive
    /\ HasId => intent.state \notin {"failed", "revoked"}
    /\ intent' = IF HasId THEN [state |-> "reserved", verb |-> Handled.verb] ELSE intent
    /\ StepsTo("reserved", "none")
    /\ InsideRest /\ UNCHANGED <<agentRun, added, receipt, sealed, unsent, effects, pipeFaults>>

\* validate_expected of the permit.  Slip: what was read is believed.
UnmovedAsRead == TRUE
Unmoved == agentRun.rev = inside.seen.rev
\* evolve_workflow_effect_tx: the key is new and there is room.
RoomForNode == added < MaxAddedNodes
Takes == Unmoved /\ (Handled.verb = "evolve" => RoomForNode)
Already == inside.seen.outcome # "none"

\* run_control_mutation_effect: the change, its receipt and its actions in one transaction.
RunAfter ==
    CASE Handled.verb \in SettleVerbs ->
           [outcome |-> Handled.verb, active |-> FALSE, rev |-> agentRun.rev + 1]
      [] Handled.verb = "evolve" -> agentRun
      [] OTHER -> [agentRun EXCEPT !.rev = @ + 1]
AnswerOf == CASE Handled.verb \in SettleVerbs -> IF Already THEN "already" ELSE "applied"
          [] Handled.verb = "evolve" -> "evolved"
          [] OTHER -> Handled.verb
CommitCommand ==
    /\ inside.at = "reserved" /\ Takes
    /\ receipt' = IF HasId THEN [verb |-> Handled.verb, said |-> AnswerOf] ELSE receipt
    /\ IF Already THEN UNCHANGED <<agentRun, added, unsent, effects>>
       ELSE /\ agentRun' = RunAfter
            /\ added' = IF Handled.verb = "evolve" THEN added + 1 ELSE added
            /\ unsent' = (unsent \/ Handled.verb \in SettleVerbs)
            /\ effects' = Append(effects, [call |-> inside.call, verb |-> Handled.verb,
                                           id |-> Handled.id, taint |-> Handled.taint,
                                           after |-> agentRun.outcome])
    /\ intent' = IF HasId THEN [intent EXCEPT !.state = "applied"] ELSE intent
    /\ StepsTo("committed", AnswerOf)
    /\ InsideRest /\ UNCHANGED <<sealed, pipeFaults>>

\* A conflict of revisions fails the intent for good.
CommandFails ==
    /\ inside.at = "reserved" /\ ~Takes
    /\ intent' = IF HasId THEN [intent EXCEPT !.state = "failed"] ELSE intent
    /\ Leaves("refused")
    /\ InsideRest /\ UNCHANGED <<agentRun, added, receipt, sealed, unsent, effects, pipeFaults>>

\* drain_run_action_outbox, of everything that is unsent.  When it fails the answer is a failure,
\* although the command is committed.  Slip: the answer does not wait for it.
OwesNoMatter(still) == TRUE
OwesNothing(still) == ~still
DrainOwed ==
    /\ inside.at = "committed"
    /\ \/ unsent' = FALSE /\ UNCHANGED pipeFaults
       \/ unsent /\ PipeFault /\ UNCHANGED unsent
    /\ IF OwesNothing(unsent') THEN StepsTo("drained", inside.said) ELSE Leaves("failed")
    /\ InsideRest /\ UNCHANGED <<agentRun, added, intent, receipt, sealed, effects>>

\* settle_run_capability, then the answer.  A template that was extended has no answer of its own.
Seal ==
    /\ inside.at = "drained"
    /\ \/ sealed' = (sealed \/ Handled.verb \in SettleVerbs) /\ UNCHANGED pipeFaults
          /\ Leaves(IF inside.said = "evolved" THEN "failed" ELSE inside.said)
       \/ Handled.verb \in SettleVerbs /\ PipeFault /\ Leaves("failed") /\ UNCHANGED sealed
    /\ InsideRest /\ UNCHANGED <<agentRun, added, intent, receipt, unsent, effects>>

(***************************************************************************)
(* Others that move the run, and a core that stops.                        *)
(***************************************************************************)
\* The orchestrator's own transactions do not wait for the kernel's critical section.
RunMoves(outcome) ==
    /\ coreUp /\ outside < MaxOutside /\ outside' = outside + 1
    /\ agentRun.active
    /\ agentRun' = IF outcome = "none" THEN [agentRun EXCEPT !.rev = @ + 1]
                   ELSE [outcome |-> IF outcome = "cancelled" THEN "none" ELSE outcome,
                         active |-> FALSE, rev |-> agentRun.rev + 1]
    /\ UNCHANGED <<coreUp, listening, call, added, intent, receipt, sealed, unsent, inside, effects,
                   pipeFaults>>

PipeCoreStops ==
    /\ coreUp /\ PipeFault
    /\ coreUp' = FALSE /\ listening' = FALSE /\ inside' = NoCall
    /\ call' = [c \in PipeCalls |->
                  IF call[c].at \in {"asked", "inside"}
                  THEN [call[c] EXCEPT !.at = "over", !.told = "lost"] ELSE call[c]]
    /\ KernelRest
\* The pipe has its old name; an intent without a receipt is revoked.
PipeCoreStarts ==
    /\ ~coreUp /\ coreUp' = TRUE
    /\ intent' = IF intent.state = "reserved" THEN [intent EXCEPT !.state = "revoked"] ELSE intent
    /\ UNCHANGED <<listening, call, agentRun, added, receipt, sealed, unsent, inside, effects,
                   outside, pipeFaults>>

PipeNext ==
    \/ \E c \in PipeCalls :
         \/ \E v \in Verbs, i \in CommandIds, t \in Taints : Invoke(c, v, i, t)
         \/ ClientConnects(c) \/ GivesUp(c) \/ CallIsKilled(c) \/ AnswerIsLost(c)
         \/ RequestRefused(c) \/ Enter(c)
    \/ Listen \/ Replay \/ Refuse \/ ReserveIntent \/ CommitCommand
    \/ CommandFails \/ DrainOwed \/ Seal
    \/ \E o \in {"none", "cancelled"} \cup SettleVerbs : RunMoves(o)
    \/ PipeCoreStops \/ PipeCoreStarts

PipeSpec == PipeInit /\ [][PipeNext]_pipeVars
-----------------------------------------------------------------------------
Told(c, what) == call[c].told = what
Fine == {"applied", "already", "report", "propose"}
EffectsOf(c) == {i \in DOMAIN effects : effects[i].call = c}

\* An agent that is told that its run is settled finds it settled so: two agents are never told
\* opposite things, and what follows from the settlement has been carried out.
SettledAsTold ==
    \A c \in PipeCalls, s \in SettleVerbs :
        call[c].verb = s /\ (Told(c, "applied") \/ Told(c, "already"))
            => agentRun.outcome = s /\ ~unsent

\* However often it is called: one settlement, and one effect of a command id.
OnceEach ==
    \A i, j \in DOMAIN effects :
        \/ i = j
        \/ /\ ~({effects[i].verb, effects[j].verb} \subseteq SettleVerbs)
           /\ effects[i].id = "none" \/ effects[i].id # effects[j].id

\* Calls with one id that are answered get the same answer, so it was for the same request.
SameAnswer ==
    \A c, d \in PipeCalls :
        /\ call[c].id # "none" /\ call[c].id = call[d].id
        /\ call[c].told \in Fine /\ call[d].told \in Fine
        => call[c].verb = call[d].verb /\ call[c].told = call[d].told

\* Who is refused has changed nothing; who is told that it is applied has done it.
AnswersAreTrue ==
    \A c \in PipeCalls :
        /\ Told(c, "refused") => EffectsOf(c) = {}
        /\ Told(c, "applied") /\ call[c].id = "none" => EffectsOf(c) # {}

\* Nothing that contains the token is stored, and nothing is reported, proposed or added to the
\* template for a run that is settled.
NothingOutOfPlace ==
    \A i \in DOMAIN effects : effects[i].taint = "no" /\ effects[i].after = "none"

PipeSafety ==
    PipeTypeOK /\ SettledAsTold /\ OnceEach /\ SameAnswer /\ AnswersAreTrue /\ NothingOutOfPlace
=============================================================================
