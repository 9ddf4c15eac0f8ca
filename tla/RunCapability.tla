---------------------------- MODULE RunCapability ----------------------------
(***************************************************************************)
(* The token of an agent run (kernel.rs, project_registry.rs).  An agent   *)
(* reports and settles with nothing but its token; the kernel finds the    *)
(* project and the run.  The service store indexes tokens, but runs are    *)
(* created without an entry, and a directory the user has copied brings    *)
(* the same runs and tokens a second time: a token then belongs to nobody. *)
(*                                                                         *)
(* A run and its token have one name here, since nothing but a copy gives  *)
(* either of them twice.  The service store and the project stores are     *)
(* durable; which projects are attached is the memory of the core.         *)
(***************************************************************************)
EXTENDS Integers, FiniteSets

CONSTANTS
    Projects,
    Tokens

ASSUME CapabilityAssumption == IsFiniteSet(Projects) /\ "none" \notin Projects

VARIABLES
    attached,    \* detached, open, closing, or prepared to be closed
    agentRuns,   \* the run of a token in each project store
    capability,  \* the row of a token in the service store
    fencedRuns,  \* observer: <<project, token>> a close has revoked
    actedOn      \* observer: <<project, token>> a token has been used on

capabilityVars == <<attached, agentRuns, capability, fencedRuns, actedOn>>

Unindexed == [project |-> "none", state |-> "none"]
CapabilityStates == {"active", "settled", "revoked", "quarantined"}
Settlements == {"succeeded", "failed"}
RunStates == {"none", "running", "waiting", "cancelled"} \cup Settlements

CapabilityTypeOK ==
    /\ attached \in [Projects -> {"detached", "open", "closing", "prepared"}]
    /\ agentRuns \in [Projects -> [Tokens -> RunStates]]
    /\ \A t \in Tokens :
          capability[t] \in {Unindexed} \cup [project : Projects, state : CapabilityStates]
    /\ fencedRuns \subseteq Projects \X Tokens /\ actedOn \subseteq Projects \X Tokens

CapabilityInit ==
    /\ attached = [p \in Projects |-> "detached"]
    /\ agentRuns = [p \in Projects |-> [t \in Tokens |-> "none"]]
    /\ capability = [t \in Tokens |-> Unindexed]
    /\ fencedRuns = {} /\ actedOn = {}

-----------------------------------------------------------------------------
(* The rows of the service store.                                          *)

Row(p, state) == [project |-> p, state |-> state]

\* Mutant of Register: the row follows the project that registers last.
RegisterLatest(row, p) == IF row.project = p THEN row ELSE Row(p, "active")

\* register_run_capability: the row of the same run is kept with its state, whatever it is;
\* any other row of the token or of the run is quarantined.
Register(row, p) ==
    IF row = Unindexed THEN Row(p, "active")
    ELSE IF row.project = p THEN row
    ELSE [row EXCEPT !.state = "quarantined"]

\* backfill_quarantined_run_capability.
Quarantine(row, p) == IF row = Unindexed THEN Row(p, "quarantined")
                      ELSE [row EXCEPT !.state = "quarantined"]

Transition(row, state) == IF row.state = "active" THEN [row EXCEPT !.state = state] ELSE row

-----------------------------------------------------------------------------
(* The use of a token.                                                     *)

\* scan_legacy_hits: the attached projects whose store has a run with this token.
Hits(t) == {p \in Projects : attached[p] # "detached" /\ agentRuns[p][t] # "none"}
AnyHit(t) == CHOOSE p \in Hits(t) : TRUE

\* Mutants of Resolved: an indexed token goes wherever the scan finds it; or must be found.
ResolvedByScan(t) ==
    LET row == capability[t]
    IN  IF row.state = "quarantined" \/ Hits(t) = {} THEN row
        ELSE IF Cardinality(Hits(t)) > 1 THEN Quarantine(row, AnyHit(t))
        ELSE IF row = Unindexed THEN Row(AnyHit(t), "active")
        ELSE [row EXCEPT !.project = AnyHit(t)]
ResolvedIfAttached(t) ==
    LET row == capability[t]
    IN  IF row.state = "quarantined" \/ Hits(t) = {row.project} THEN row
        ELSE IF row # Unindexed THEN Quarantine(row, row.project)
        ELSE IF Hits(t) = {} THEN row
        ELSE Register(row, AnyHit(t))

\* The row of the token once the index has been compared with the stores: a single new hit is
\* registered, a hit besides the one that is indexed, or a second one, quarantines the token.
Resolved(t) ==
    LET row == capability[t]
    IN  IF row.state = "quarantined" \/ Hits(t) \subseteq {row.project} THEN row
        ELSE IF row = Unindexed /\ Hits(t) = {AnyHit(t)} THEN Register(row, AnyHit(t))
        ELSE Quarantine(row, AnyHit(t))

\* What the kernel asks of the row before it touches the project store; the transaction
\* there looks the token up again.
Admitted(row, t) ==
    /\ row # Unindexed /\ row.state \in {"active", "settled"}
    /\ attached[row.project] = "open" /\ agentRuns[row.project][t] # "none"

Act(p, t, state) ==
    /\ agentRuns' = [agentRuns EXCEPT ![p][t] = state]
    /\ actedOn' = actedOn \cup {<<p, t>>}
    /\ UNCHANGED <<attached, fencedRuns>>

\* The row is written before the run is looked at: a refusal, or a crash, leaves it.
TokenRefused(t) ==
    /\ capability' = [capability EXCEPT ![t] = Resolved(t)]
    /\ UNCHANGED <<attached, agentRuns, fencedRuns, actedOn>>

ReportState(t) ==
    LET row == Resolved(t)
    IN  /\ Admitted(row, t) /\ row.state # "settled"
        /\ agentRuns[row.project][t] \in {"running", "waiting"}
        /\ \E state \in {"running", "waiting"} : Act(row.project, t, state)
        /\ capability' = [capability EXCEPT ![t] = row]

\* The capability is sealed after the actions of the settlement have been executed: when
\* one fails, or the core stops, it stays active and the next attempt seals it.
SealAfter(row, sealed) == IF sealed THEN Transition(row, "settled") ELSE row

SettleByToken(t, settlement) ==
    LET row == Resolved(t)
        was == agentRuns[row.project][t]
    IN  /\ Admitted(row, t)
        /\ was \in {"running", "waiting", settlement}
        /\ Act(row.project, t, settlement)
        /\ \E drained \in BOOLEAN :
              capability' = [capability EXCEPT ![t] = SealAfter(row, drained)]

-----------------------------------------------------------------------------
(* Projects and their runs.                                                *)

CreateRun(p, t) ==
    /\ attached[p] # "detached"
    /\ \A q \in Projects : agentRuns[q][t] = "none"
    /\ agentRuns' = [agentRuns EXCEPT ![p][t] = "running"]
    /\ UNCHANGED <<attached, capability, fencedRuns, actedOn>>

\* The controller cancels a run; the capability is not touched.
CancelAgentRun(p, t) ==
    /\ attached[p] = "open" /\ agentRuns[p][t] \in {"running", "waiting"}
    /\ agentRuns' = [agentRuns EXCEPT ![p][t] = "cancelled"]
    /\ UNCHANGED <<attached, capability, fencedRuns, actedOn>>

\* The user copies the directory of one project to the place of another.
CopyDirectory(p, q) ==
    /\ attached[q] = "detached" /\ agentRuns[p] # agentRuns[q]
    /\ \A t \in Tokens : agentRuns[q][t] = "none"
    /\ agentRuns' = [agentRuns EXCEPT ![q] = agentRuns[p]]
    /\ UNCHANGED <<attached, capability, fencedRuns, actedOn>>

RegisterProject(p) ==
    /\ attached[p] = "detached"
    /\ attached' = [attached EXCEPT ![p] = "open"]
    /\ UNCHANGED <<agentRuns, capability, fencedRuns, actedOn>>

RunsOf(p) == {t \in Tokens : agentRuns[p][t] # "none"}

\* Mutant of Backfilled: only the runs that are indexed are revoked.
IndexedOnly(p, some) == capability
\* The rows after the runs of the project have been registered, those of some only.
Backfilled(p, some) ==
    [t \in Tokens |-> IF t \in some THEN Register(capability[t], p) ELSE capability[t]]

\* New work is refused from here on, also after a failure.
PrepareClose(p) ==
    /\ attached[p] # "detached"
    /\ attached' = [attached EXCEPT ![p] = "prepared"]
    /\ LET rows == Backfilled(p, RunsOf(p))
       IN  capability' = [t \in Tokens |-> IF rows[t].project = p THEN Transition(rows[t], "revoked")
                                           ELSE rows[t]]
    /\ fencedRuns' = fencedRuns \cup ({p} \X RunsOf(p))
    /\ UNCHANGED <<agentRuns, actedOn>>

PrepareCloseFails(p) ==
    /\ attached[p] # "detached"
    /\ attached' = [attached EXCEPT ![p] = IF @ = "open" THEN "closing" ELSE @]
    /\ \E some \in SUBSET RunsOf(p) : capability' = Backfilled(p, some)
    /\ UNCHANGED <<agentRuns, fencedRuns, actedOn>>

FinalizeClose(p) ==
    /\ attached[p] = "prepared"
    /\ attached' = [attached EXCEPT ![p] = "detached"]
    /\ UNCHANGED <<agentRuns, capability, fencedRuns, actedOn>>

CoreStops ==
    /\ attached' = [p \in Projects |-> "detached"]
    /\ UNCHANGED <<agentRuns, capability, fencedRuns, actedOn>>

CapabilityNext ==
    \/ \E t \in Tokens : TokenRefused(t) \/ ReportState(t)
    \/ \E t \in Tokens, s \in Settlements : SettleByToken(t, s)
    \/ \E p \in Projects, t \in Tokens : CreateRun(p, t) \/ CancelAgentRun(p, t)
    \/ \E p, q \in Projects : CopyDirectory(p, q)
    \/ \E p \in Projects : RegisterProject(p) \/ PrepareClose(p) \/ PrepareCloseFails(p)
    \/ \E p \in Projects : FinalizeClose(p)
    \/ CoreStops

CapabilitySpec == CapabilityInit /\ [][CapabilityNext]_capabilityVars

-----------------------------------------------------------------------------
\* A token is used on the run of one project, however often its directory was copied and
\* whichever of the copies is attached.
OneRunPerToken ==
    \A t \in Tokens : Cardinality({p \in Projects : <<p, t>> \in actedOn}) <= 1

\* Only a token that was copied loses its run: nothing else quarantines it, whatever was
\* attached while it was tried.
UncopiedIsNotQuarantined ==
    \A t \in Tokens :
        Cardinality({p \in Projects : agentRuns[p][t] # "none"}) <= 1 =>
            capability[t].state # "quarantined"

CapabilitySafety == CapabilityTypeOK /\ OneRunPerToken /\ UncopiedIsNotQuarantined

\* What a close has revoked is not settled or reported again, also when the project is
\* attached again and the token was never indexed; no row leaves an end state.
RevokedForGood ==
    [][/\ \A p \in Projects, t \in Tokens :
             <<p, t>> \in fencedRuns => agentRuns'[p][t] \in {agentRuns[p][t], "cancelled"}
       /\ \A t \in Tokens :
             capability[t].state \in {"settled", "revoked", "quarantined"} =>
                 capability'[t].state \in {capability[t].state, "quarantined"}]_capabilityVars
=============================================================================
