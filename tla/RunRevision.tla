----------------------------- MODULE RunRevision -----------------------------
(***************************************************************************)
(* The graph and the inputs of a run (mf-agent store.rs, orchestrator.rs,  *)
(* node_input.rs; mf-kernel kernel.rs): before an attempt of a node, its   *)
(* input is compiled from what the nodes before it handed over, and kept   *)
(* as a row; a node may ask for the user's agreement, which binds one      *)
(* version of the row.  While the run is paused the user may replace the   *)
(* graph: a new revision with a row per node of its own, which inherits    *)
(* the state of the old ones.  The dispatcher reads, prepares and commits  *)
(* in three steps, between which all this goes on.                         *)
(*                                                                         *)
(* A node of the model needs a value from every node it depends on.  Left  *)
(* out: leases, slots and the task status (WorkflowRun), interrupted runs, *)
(* the session behind a choice, and the mark of a row after the launch.    *)
(***************************************************************************)
EXTENDS Integers, Sequences, FiniteSets

CONSTANTS
    Graphs,      \* graphs a user may draw: node -> [deps, review]
    FirstGraph,  \* the graph the run starts with
    MaxRevision, \* bound: revisions of the run
    MaxTries,    \* bound: agent runs
    MaxSaves     \* bound: edits of one input

ASSUME RevisionAssumption ==
    /\ FirstGraph \in Graphs /\ {MaxRevision, MaxTries} \subseteq Nat \ {0} /\ MaxSaves \in Nat
    /\ \A g \in Graphs : \A n \in DOMAIN g : g[n].deps \subseteq DOMAIN g

VARIABLES
    graphs,    \* pipeline_revisions, in order; the last one is active
    rows,      \* steps: per revision, node -> [status, attempts, next]
    tries,     \* agent_runs: [at, status, input, saved, mode]
    inputs,    \* node_inputs: [at, sees, saved, filled, review, run, agreed]
    handoffs,  \* handoffs, in order: [at, run]
    suspended, \* agent_tasks.paused
    dispatcher     \* the dispatcher, with what it has read

revisionVars == <<graphs, rows, tries, inputs, handoffs, suspended, dispatcher>>

Newest == Len(graphs)
Graph == graphs[Newest]
Places == UNION {{<<v, n>> : n \in DOMAIN graphs[v]} : v \in 1..Newest}
RowAt(p) == rows[p[1]][p[2]]
Working == {i \in DOMAIN tries : tries[i].status \in {"running", "awaiting"}}
Resting == [pc |-> "off", at |-> <<0, 0>>, input |-> 0, saved |-> 0, next |-> "policy"]

RevisionTypeOK ==
    /\ graphs \in Seq(Graphs) /\ Len(rows) = Newest
    /\ \A v \in 1..Newest : \A n \in DOMAIN graphs[v] :
          rows[v][n] \in [status : {"pending", "ready", "running", "awaiting", "succeeded",
                                    "failed", "blocked", "skipped"},
                          attempts : 0..MaxTries, next : {"policy", "fresh", "continue"}]
    /\ \A i \in DOMAIN tries : tries[i].at \in Places /\ tries[i].input \in DOMAIN inputs
    /\ \A i \in DOMAIN inputs :
          /\ inputs[i].at \in Places /\ inputs[i].sees \subseteq DOMAIN tries
          /\ inputs[i].review \in {"none", "awaiting", "confirmed"}
          /\ inputs[i].saved \in 0..MaxSaves /\ inputs[i].run \in 0..Len(tries)
    /\ \A h \in DOMAIN handoffs : handoffs[h].at \in Places /\ handoffs[h].run \in DOMAIN tries
    /\ suspended \in BOOLEAN /\ dispatcher.pc \in {"off", "prepare", "commit"}

Done == {"succeeded", "skipped"}
Over == Done \cup {"failed"}

\* A node whose dependencies are done is ready, otherwise it waits; what has started, or has
\* ended, is left alone.
Regate(g, rs) ==
    [n \in DOMAIN g |->
        IF rs[n].status \in Over \/ rs[n].attempts > 0 THEN rs[n]
        ELSE [rs[n] EXCEPT !.status =
                 IF \A d \in g[n].deps : rs[d].status \in Done THEN "ready" ELSE "pending"]]

NewRow == [status |-> "pending", attempts |-> 0, next |-> "policy"]

RevisionInit ==
    /\ graphs = <<FirstGraph>>
    /\ rows = <<Regate(FirstGraph, [n \in DOMAIN FirstGraph |-> NewRow])>>
    /\ tries = <<>> /\ inputs = <<>> /\ handoffs = <<>>
    /\ suspended = FALSE /\ dispatcher = Resting

-----------------------------------------------------------------------------
(* The commands on the run.                                                *)

Pause == suspended' = TRUE /\ UNCHANGED <<graphs, rows, tries, inputs, handoffs, dispatcher>>
Resume == suspended' = FALSE /\ UNCHANGED <<graphs, rows, tries, inputs, handoffs, dispatcher>>

\* Mutant of KeepsStarted: it is enough that the node is still there.
KeepsPresent(g) == \A n \in DOMAIN Graph : RowAt(<<Newest, n>>).attempts > 0 => n \in DOMAIN g

\* A node that has started stays, with the definition it was started with; this is looked at
\* in the transaction, the graph having been prepared before it.
KeepsStarted(g) ==
    \A n \in DOMAIN Graph :
        RowAt(<<Newest, n>>).attempts > 0 => n \in DOMAIN g /\ g[n] = Graph[n]

\* The new row of a node takes over the state of the old one, but not the choice of a
\* session for the next attempt, which is kept under the old row.
Inherited(g) ==
    [n \in DOMAIN g |-> IF n \in DOMAIN Graph
                        THEN [RowAt(<<Newest, n>>) EXCEPT !.next = "policy"] ELSE NewRow]

\* Mutant of Remapped: what was handed over stays with the old row.
NotRemapped(h, g) == h

\* What a node of the replaced revision handed over belongs to its new row.
Remapped(h, g) ==
    IF h.at[1] = Newest /\ h.at[2] \in DOMAIN g THEN [h EXCEPT !.at[1] = Newest + 1] ELSE h

ApplyPatch(base, g) ==
    /\ suspended /\ base = Newest /\ Newest < MaxRevision
    /\ KeepsStarted(g)
    /\ graphs' = Append(graphs, g)
    /\ rows' = Append(rows, Regate(g, Inherited(g)))
    /\ handoffs' = [h \in DOMAIN handoffs |-> Remapped(handoffs[h], g)]
    /\ inputs' = [i \in DOMAIN inputs |->
                     IF inputs[i].review = "awaiting" /\ inputs[i].run = 0
                     THEN [inputs[i] EXCEPT !.review = "none"] ELSE inputs[i]]
    /\ UNCHANGED <<tries, suspended, dispatcher>>

SetStatus(p, st) == [rows EXCEPT ![p[1]][p[2]].status = st]

\* Pending and blocked nodes of the active revision whose dependencies are done.
Promoted(rs) ==
    [rs EXCEPT ![Newest] = [n \in DOMAIN Graph |->
        IF rs[Newest][n].status \in {"pending", "blocked"}
           /\ \A d \in Graph[n].deps : rs[Newest][d].status \in Done
        THEN [rs[Newest][n] EXCEPT !.status = "ready"] ELSE rs[Newest][n]]]

Before(n) ==
    {m \in DOMAIN Graph : \A S \in SUBSET DOMAIN Graph :
        Graph[n].deps \subseteq S /\ (\A k \in S : Graph[k].deps \subseteq S) => m \in S}

BlockedBehind(n, rs) ==
    [rs EXCEPT ![Newest] = [m \in DOMAIN Graph |->
        IF n \in Before(m) /\ rs[Newest][m].status \in {"pending", "ready"}
        THEN [rs[Newest][m] EXCEPT !.status = "blocked"] ELSE rs[Newest][m]]]

\* Mutant of Landing: the result goes to the row the attempt was started from.
LandsAtOrigin(p) == p

\* The row of the active revision that takes the result of an attempt.
Landing(p) == IF p[2] \in DOMAIN Graph THEN <<Newest, p[2]>> ELSE p

\* A settlement, with its promotions: the row takes the result unless it is over already.
SettleTry(r, o) ==
    /\ tries[r].status \in {"running", "awaiting"}
    /\ tries' = [tries EXCEPT ![r].status = o]
    /\ LET to == Landing(tries[r].at)
           settled == IF RowAt(to).status \in Over THEN rows ELSE SetStatus(to, o)
       IN  /\ rows' = IF o = "succeeded" THEN Promoted(settled) ELSE BlockedBehind(to[2], settled)
           /\ handoffs' = IF o = "succeeded" THEN Append(handoffs, [at |-> to, run |-> r])
                          ELSE handoffs
    /\ UNCHANGED <<graphs, inputs, suspended, dispatcher>>

\* An agent ends without a settlement: the row it was started from is what is written.
EndTry(r) ==
    /\ tries[r].status \in {"running", "awaiting"}
    /\ tries' = [tries EXCEPT ![r].status = "awaiting"]
    /\ rows' = IF RowAt(tries[r].at).status \in Over THEN rows
               ELSE SetStatus(tries[r].at, "awaiting")
    /\ UNCHANGED <<graphs, inputs, handoffs, suspended, dispatcher>>

\* A retry of a row, of whichever revision: its attempts are cancelled, and the session of
\* the next one is chosen.
RetryRow(p, mode) ==
    /\ RowAt(p).status \in {"failed", "blocked", "awaiting"}
    /\ \A d \in graphs[p[1]][p[2]].deps : RowAt(<<p[1], d>>).status \in Done
    /\ mode = "continue" => \E r \in DOMAIN tries : tries[r].at = p
    /\ tries' = [r \in DOMAIN tries |-> IF r \in Working /\ tries[r].at = p
                                        THEN [tries[r] EXCEPT !.status = "cancelled"] ELSE tries[r]]
    /\ rows' = [rows EXCEPT ![p[1]][p[2]].status = "ready", ![p[1]][p[2]].next = mode]
    /\ UNCHANGED <<graphs, inputs, handoffs, suspended, dispatcher>>

SkipRow(p) ==
    /\ p[1] = Newest /\ RowAt(p).status \in {"failed", "blocked"}
    /\ \A r \in Working : tries[r].at # p
    /\ rows' = Promoted(SetStatus(p, "skipped"))
    /\ UNCHANGED <<graphs, tries, inputs, handoffs, suspended, dispatcher>>

-----------------------------------------------------------------------------
(* The input of a node.                                                    *)

InputsAt(p) == {i \in DOMAIN inputs : inputs[i].at = p}
Latest(S) == CHOOSE x \in S : \A y \in S : y <= x

\* The last thing a node of p's revision handed over.
HandedBy(p) == {h \in DOMAIN handoffs : handoffs[h].at = p}
Provided(v, n) ==
    {handoffs[Latest(HandedBy(<<v, m>>))].run :
        m \in {k \in DOMAIN graphs[v] : HandedBy(<<v, k>>) # {} /\ k \in Before(n)}}

Compile(p) ==
    [at |-> p, sees |-> IF p[2] \in DOMAIN Graph THEN Provided(p[1], p[2]) ELSE {},
     saved |-> 0, filled |-> FALSE, review |-> "none", run |-> 0, agreed |-> -1]

\* A node it depends on has handed nothing over, and the user has not filled the gap.
Lacks(i) ==
    /\ ~i.filled
    /\ \E d \in graphs[i.at[1]][i.at[2]].deps :
          \A r \in i.sees : tries[r].at[2] # d

\* The user is asked when the node says so or something is missing.
AsksReview(i) == graphs[i.at[1]][i.at[2]].review \/ Lacks(i)

\* Mutant of Agreeable: whatever version the user has seen.
AgreeableUnseen(i, e) == i.at[1] = Newest /\ i.review = "awaiting" /\ i.run = 0 /\ ~Lacks(i)

\* The user agrees to the version e of an input of the active revision, complete and unused.
Agreeable(i, e) ==
    e = i.saved /\ i.at[1] = Newest /\ i.review = "awaiting" /\ i.run = 0 /\ ~Lacks(i)

ConfirmInput(p, e) ==
    /\ InputsAt(p) # {} /\ Agreeable(inputs[Latest(InputsAt(p))], e)
    /\ inputs' = [inputs EXCEPT ![Latest(InputsAt(p))].review = "confirmed",
                                ![Latest(InputsAt(p))].agreed = e]
    /\ UNCHANGED <<graphs, rows, tries, handoffs, suspended, dispatcher>>

\* Mutant of Editable: an input can be edited until it is used.
EditableAnyTime(i) == i.run = 0

Editable(i) == i.review = "awaiting"

\* What was filled in is replaced as a whole.
SaveInput(p, fills) ==
    /\ InputsAt(p) # {} /\ Editable(inputs[Latest(InputsAt(p))])
    /\ inputs[Latest(InputsAt(p))].saved < MaxSaves
    /\ inputs' = [inputs EXCEPT ![Latest(InputsAt(p))].saved = @ + 1,
                                ![Latest(InputsAt(p))].filled = fills]
    /\ UNCHANGED <<graphs, rows, tries, handoffs, suspended, dispatcher>>

-----------------------------------------------------------------------------
(* The dispatcher.                                                         *)

\* tick lists the nodes that are ready, ...
TickLists(n) ==
    /\ dispatcher = Resting /\ ~suspended /\ n \in DOMAIN Graph /\ rows[Newest][n].status = "ready"
    /\ dispatcher' = [Resting EXCEPT !.pc = "prepare", !.at = <<Newest, n>>]
    /\ UNCHANGED <<graphs, rows, tries, inputs, handoffs, suspended>>

\* ... an input that waits is taken up again, or a new one compiled; one that is to be
\* reviewed ends the attempt, and so does one that lacks something. ...
Waiting(p) == {i \in InputsAt(p) : inputs[i].run = 0 /\ i = Latest(InputsAt(p))}

PrepareInput ==
    /\ dispatcher.pc = "prepare"
    /\ LET new == Compile(dispatcher.at)
           all == IF Waiting(dispatcher.at) # {} THEN inputs
                  ELSE Append(inputs, [new EXCEPT !.review =
                                          IF AsksReview(new) THEN "awaiting" ELSE "none"])
           i == IF Waiting(dispatcher.at) # {} THEN Latest(InputsAt(dispatcher.at)) ELSE Len(all)
       IN  /\ inputs' = all
           /\ dispatcher' = IF all[i].review = "awaiting" \/ Lacks(all[i]) THEN Resting
                        ELSE [dispatcher EXCEPT !.pc = "commit", !.input = i, !.saved = all[i].saved,
                                            !.next = RowAt(dispatcher.at).next]
    /\ UNCHANGED <<graphs, rows, tries, handoffs, suspended>>

\* Mutants of StillDue: the pause is the one that was read; the revision is.
StillDueSuspended ==
    /\ dispatcher.at[1] = Newest /\ RowAt(dispatcher.at).status = "ready"
    /\ RowAt(dispatcher.at).next = dispatcher.next
StillDueReplaced ==
    ~suspended /\ RowAt(dispatcher.at).status = "ready" /\ RowAt(dispatcher.at).next = dispatcher.next

\* ... and the transaction that creates the run looks at everything again: the pause, the
\* revision, the status and the choice of the session, ...
StillDue ==
    /\ ~suspended /\ dispatcher.at[1] = Newest
    /\ RowAt(dispatcher.at).status = "ready" /\ RowAt(dispatcher.at).next = dispatcher.next

\* ... and the input: unused, not waiting for a review, and the version that was read.
StillGiven ==
    LET i == inputs[dispatcher.input]
    IN  i.run = 0 /\ i.review \in {"none", "confirmed"} /\ i.saved = dispatcher.saved

CommitTry ==
    /\ dispatcher.pc = "commit" /\ Len(tries) < MaxTries
    /\ IF StillDue /\ StillGiven
       THEN /\ tries' = Append(tries, [at |-> dispatcher.at, status |-> "running",
                                       input |-> dispatcher.input, saved |-> dispatcher.saved,
                                       mode |-> dispatcher.next])
            /\ rows' = [rows EXCEPT ![dispatcher.at[1]][dispatcher.at[2]] =
                           [status |-> "running", attempts |-> @.attempts + 1, next |-> "policy"]]
            /\ inputs' = [inputs EXCEPT ![dispatcher.input].run = Len(tries) + 1]
       ELSE UNCHANGED <<tries, rows, inputs>>
    /\ dispatcher' = Resting
    /\ UNCHANGED <<graphs, handoffs, suspended>>

RevisionNext ==
    \/ Pause \/ Resume
    \/ \E b \in 1..Newest, g \in Graphs : ApplyPatch(b, g)
    \/ \E r \in DOMAIN tries : EndTry(r) \/ \E o \in {"succeeded", "failed"} : SettleTry(r, o)
    \/ \E p \in Places : \/ SkipRow(p) \/ \E m \in {"fresh", "continue"} : RetryRow(p, m)
                         \/ \E e \in 0..MaxSaves : ConfirmInput(p, e)
                         \/ \E f \in BOOLEAN : SaveInput(p, f)
    \/ \E n \in DOMAIN Graph : TickLists(n)
    \/ PrepareInput \/ CommitTry

RevisionSpec == RevisionInit /\ [][RevisionNext]_revisionVars

-----------------------------------------------------------------------------
(* Properties.                                                             *)

\* Whatever patches, pauses, edits and retries come between, an attempt is started with an
\* input of its own row, used once and complete; where the node asks for a review, or
\* something was missing, the user has agreed to this version of it.
GivenAsAgreed ==
    \A r \in DOMAIN tries :
        LET i == inputs[tries[r].input]
        IN  /\ i.run = r /\ i.at = tries[r].at /\ ~Lacks(i)
            /\ tries[r].saved = i.saved
            /\ graphs[i.at[1]][i.at[2]].review \/ i.saved > 0 => i.agreed = tries[r].saved

\* What a node was started with is what the graph still says of it, after every patch.
StartedIsFrozen ==
    \A r \in DOMAIN tries : \A v \in tries[r].at[1]..Newest :
        /\ tries[r].at[2] \in DOMAIN graphs[v]
        /\ graphs[v][tries[r].at[2]] = graphs[tries[r].at[1]][tries[r].at[2]]

\* A node of the active graph that succeeded has handed something over, under the row it has
\* now, so that the nodes behind it find it; one that runs has an attempt that has not been
\* settled, unless a retry of one of its replaced rows cancelled it; one attempt of a row runs
\* at a time.
ResultsFollow ==
    /\ \A n \in DOMAIN Graph : rows[Newest][n].status = "succeeded" => HandedBy(<<Newest, n>>) # {}
    /\ \A n \in DOMAIN Graph : rows[Newest][n].status = "running" =>
          \E r \in DOMAIN tries :
              /\ tries[r].at[2] = n
              /\ r \in Working \/ (tries[r].status = "cancelled" /\ tries[r].at[1] < Newest)
    /\ \A q, r \in Working : tries[q].at = tries[r].at => q = r

\* An attempt has the results of the nodes it depends on, as they were when it was started.
SeesResults ==
    \A r \in DOMAIN tries : \A d \in graphs[tries[r].at[1]][tries[r].at[2]].deps :
        \/ inputs[tries[r].input].filled
        \/ \E q \in inputs[tries[r].input].sees : tries[q].at[2] = d /\ tries[q].status = "succeeded"

\* An attempt runs in the graph that is current, with the input that was agreed.
RevisionSafety ==
    RevisionTypeOK /\ GivenAsAgreed /\ StartedIsFrozen /\ ResultsFollow /\ SeesResults

\* A paused run starts nothing, whenever the dispatcher has read it.
PausedStartsNothing == [][suspended => Len(tries') = Len(tries)]_revisionVars
=============================================================================
