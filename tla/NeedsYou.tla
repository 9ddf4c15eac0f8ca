------------------------------ MODULE NeedsYou ------------------------------
(***************************************************************************)
(* What a run asks of its user, as two readers see it: the list of all     *)
(* runs (mf-kernel workspace_projection.rs) reads everything in one        *)
(* transaction, the details of one run (run_projection.rs) in several.     *)
(* Each computes by itself whether the run needs the user, and which node  *)
(* to look at; the graph of a run can be replaced meanwhile, so that what  *)
(* is asked may hang on a row of the revision before.                      *)
(*                                                                         *)
(* The run is that of RunRevision, with the questions, the conflicts of    *)
(* merging and the restarts it leaves out, and without the versions of an  *)
(* input.  Left out: titles, sessions, hand-overs, leases and drafts that  *)
(* the details carry, which are copied, and the automatic retry.           *)
(***************************************************************************)
EXTENDS Integers, Sequences, FiniteSets

CONSTANTS
    Plans,       \* graphs a user may draw: node -> the nodes it depends on
    FirstPlan,   \* the graph the run starts with
    Guarded,     \* nodes whose input the user reviews
    MaxPlans,    \* bound: revisions of the run
    MaxLaunches, \* bound: agent runs
    MaxAsked     \* bound: questions

\* validate_workflow refuses a graph without nodes, one that depends on what it does not have,
\* and one with a cycle: of any nodes there is one that depends on none of them.
ValidPlan(g) ==
    /\ DOMAIN g # {} /\ g \in [DOMAIN g -> SUBSET DOMAIN g]
    /\ \A S \in SUBSET DOMAIN g : S # {} => \E n \in S : g[n] \cap S = {}

ASSUME NeedsAssumption ==
    /\ FirstPlan \in Plans /\ \A g \in Plans : ValidPlan(g)
    /\ {MaxPlans, MaxLaunches, MaxAsked} \subseteq Nat

VARIABLES
    plans,    \* pipeline_revisions; the last one is active
    board,    \* steps: per revision, node -> [status, attempts]
    launches, \* agent_runs: [at, status]
    asked,    \* step_questions: [at, open]
    sheets,   \* node_inputs: [at, review, used]
    clashes,  \* pending_merges: the nodes whose results could not be merged
    life,     \* agent_tasks.status: open stands for draft, ready, running and needs-you
    halted,   \* agent_tasks.paused
    pane      \* the details of the run, as far as they have been read

needsVars == <<plans, board, launches, asked, sheets, clashes, life, halted, pane>>

Now == Len(plans)
Plan == plans[Now]
Spots == UNION {{<<v, n>> : n \in DOMAIN plans[v]} : v \in 1..Now}
RowHas(p) == board[p[1]][p[2]]
Closed == [pc |-> "closed", v |-> 0, quiet |-> {}, waits |-> {}, true |-> {}]

Settled == {"succeeded", "skipped"}
Terminal == Settled \cup {"failed", "cancelled"}

NeedsTypeOK ==
    /\ plans \in Seq(Plans) /\ Len(board) = Now
    /\ \A p \in Spots : RowHas(p).status \in
          Terminal \cup {"pending", "ready", "running", "needs-input", "awaiting-outcome", "blocked"}
    /\ \A i \in DOMAIN launches :
          /\ launches[i].at \in Spots
          /\ launches[i].status \in {"running", "awaiting-outcome", "interrupted", "succeeded",
                                     "failed", "cancelled"}
    /\ \A i \in DOMAIN asked : asked[i].at \in Spots /\ asked[i].open \in BOOLEAN
    /\ \A i \in DOMAIN sheets : sheets[i].at \in Spots /\ sheets[i].review \in
                                    {"none", "awaiting", "confirmed"}
    /\ life \in {"open", "succeeded", "failed", "cancelled"} /\ halted \in BOOLEAN
    /\ pane.pc \in {"closed", "reviews", "latest", "shown"}

\* A node that has not started is ready once what it depends on is done.
Gate(g, rs) ==
    [n \in DOMAIN g |->
        IF rs[n].status \in Terminal \/ rs[n].attempts > 0 THEN rs[n]
        ELSE [rs[n] EXCEPT !.status =
                 IF \A d \in g[n] : rs[d].status \in Settled THEN "ready" ELSE "pending"]]

EmptyRow == [status |-> "pending", attempts |-> 0]

NeedsInit ==
    /\ plans = <<FirstPlan>> /\ board = <<Gate(FirstPlan, [n \in DOMAIN FirstPlan |-> EmptyRow])>>
    /\ launches = <<>> /\ asked = <<>> /\ sheets = <<>> /\ clashes = {}
    /\ life = "open" /\ halted = FALSE /\ pane = Closed

-----------------------------------------------------------------------------
(* The run.                                                                *)

SetRow(p, st) == [board EXCEPT ![p[1]][p[2]].status = st]
Unsettled(p, st) == IF RowHas(p).status \in Terminal THEN board ELSE SetRow(p, st)

Freed(b) ==
    [b EXCEPT ![Now] = [n \in DOMAIN Plan |->
        IF b[Now][n].status \in {"pending", "blocked"}
           /\ \A d \in Plan[n] : b[Now][d].status \in Settled
        THEN [b[Now][n] EXCEPT !.status = "ready"] ELSE b[Now][n]]]

Behind(n) ==
    {m \in DOMAIN Plan : \A S \in SUBSET DOMAIN Plan :
        Plan[m] \subseteq S /\ (\A k \in S : Plan[k] \subseteq S) => n \in S}

Stopped(n, b) ==
    [b EXCEPT ![Now] = [m \in DOMAIN Plan |->
        IF m \in Behind(n) /\ b[Now][m].status \in {"pending", "ready"}
        THEN [b[Now][m] EXCEPT !.status = "blocked"] ELSE b[Now][m]]]

\* The run is over when every node is, and nothing is left to be merged.
Converged(b, cs) ==
    IF cs # {} \/ life = "cancelled" \/ \E n \in DOMAIN Plan : b[Now][n].status \notin Terminal
    THEN life
    ELSE IF \A n \in DOMAIN Plan : b[Now][n].status \in Settled THEN "succeeded" ELSE "failed"

Live(r) == launches[r].status \in {"running", "awaiting-outcome"}

SetHalted(h) ==
    /\ life = "open" /\ halted' = h
    /\ UNCHANGED <<plans, board, launches, asked, sheets, clashes, life, pane>>

Newer(i) == \A j \in DOMAIN sheets : sheets[j].at[2] = sheets[i].at[2] => j <= i
Pending(p) == {i \in DOMAIN sheets : sheets[i].at = p /\ Newer(i) /\ ~sheets[i].used}

Due(n) == life = "open" /\ ~halted /\ n \in DOMAIN Plan /\ board[Now][n].status = "ready"

\* The dispatcher compiles the input of a node, which the user has to agree to ...
OfferInput(n) ==
    /\ Due(n) /\ n \in Guarded /\ Pending(<<Now, n>>) = {}
    /\ sheets' = Append(sheets, [at |-> <<Now, n>>, review |-> "awaiting", used |-> FALSE])
    /\ UNCHANGED <<plans, board, launches, asked, clashes, life, halted, pane>>

\* The input a user can agree to: the latest of its node, of the active revision, unused.
Agreed(i) ==
    /\ sheets[i].review = "awaiting" /\ ~sheets[i].used /\ Newer(i) /\ sheets[i].at[1] = Now

AgreeInput(i) ==
    /\ Agreed(i) /\ sheets' = [sheets EXCEPT ![i].review = "confirmed"]
    /\ UNCHANGED <<plans, board, launches, asked, clashes, life, halted, pane>>

\* ... before an agent is started with it.
LaunchNode(n) ==
    /\ Due(n) /\ Len(launches) < MaxLaunches
    /\ n \in Guarded => \E i \in Pending(<<Now, n>>) : sheets[i].review = "confirmed"
    /\ sheets' = [i \in DOMAIN sheets |-> IF i \in Pending(<<Now, n>>)
                                          THEN [sheets[i] EXCEPT !.used = TRUE] ELSE sheets[i]]
    /\ launches' = Append(launches, [at |-> <<Now, n>>, status |-> "running"])
    /\ board' = [board EXCEPT ![Now][n] = [status |-> "running", attempts |-> @.attempts + 1]]
    /\ UNCHANGED <<plans, asked, clashes, life, halted, pane>>

\* An agent asks, and is answered: the row it was started from is what is written.
AskUser(r) ==
    /\ launches[r].status = "running" /\ Len(asked) < MaxAsked
    /\ asked' = Append(asked, [at |-> launches[r].at, open |-> TRUE])
    /\ board' = Unsettled(launches[r].at, "needs-input")
    /\ UNCHANGED <<plans, launches, sheets, clashes, life, halted, pane>>

Answer(q) ==
    /\ asked[q].open /\ asked' = [asked EXCEPT ![q].open = FALSE]
    /\ board' = IF RowHas(asked[q].at).status = "needs-input"
                THEN SetRow(asked[q].at, "running") ELSE board
    /\ UNCHANGED <<plans, launches, sheets, clashes, life, halted, pane>>

\* An agent ends without a settlement.
ReportEnd(r) ==
    /\ launches[r].status \in {"running", "interrupted"}
    /\ launches' = [launches EXCEPT ![r].status = "awaiting-outcome"]
    /\ board' = Unsettled(launches[r].at, "awaiting-outcome")
    /\ UNCHANGED <<plans, asked, sheets, clashes, life, halted, pane>>

RowNow(p) == IF p[2] \in DOMAIN Plan THEN <<Now, p[2]>> ELSE p

\* A settlement lands on the row that the node has now; its result is merged, or it clashes.
Settle(r, o, clash) ==
    /\ launches[r].status \in {"running", "awaiting-outcome", "interrupted"}
    /\ launches' = [launches EXCEPT ![r].status = o]
    /\ LET to == RowNow(launches[r].at)
           after == Unsettled(to, o)
       IN  IF o = "succeeded"
           THEN /\ board' = Freed(after)
                /\ clashes' = IF clash THEN clashes \cup {to[2]} ELSE clashes
                /\ life' = Converged(board', clashes')
           ELSE /\ ~clash /\ board' = Stopped(to[2], after)
                /\ UNCHANGED <<clashes, life>>
    /\ UNCHANGED <<plans, asked, sheets, halted, pane>>

Resolve(n) ==
    /\ n \in clashes /\ clashes' = clashes \ {n}
    /\ board' = IF clashes' = {} THEN Freed(board) ELSE board
    /\ life' = IF clashes' = {} THEN Converged(board', {}) ELSE life
    /\ UNCHANGED <<plans, launches, asked, sheets, halted, pane>>

Retry(p) ==
    /\ life # "cancelled" /\ life # "succeeded"
    /\ RowHas(p).status \in {"failed", "blocked", "cancelled", "awaiting-outcome"}
    /\ \A d \in plans[p[1]][p[2]] : RowHas(<<p[1], d>>).status \in Settled
    /\ launches' = [r \in DOMAIN launches |->
                       IF launches[r].at = p /\ Live(r)
                       THEN [launches[r] EXCEPT !.status = "cancelled"] ELSE launches[r]]
    /\ board' = SetRow(p, "ready") /\ life' = "open"
    /\ UNCHANGED <<plans, asked, sheets, clashes, halted, pane>>

Skip(n) ==
    /\ life # "cancelled" /\ n \in DOMAIN Plan /\ board[Now][n].status \in {"failed", "blocked"}
    /\ \A r \in DOMAIN launches : launches[r].at = <<Now, n>> => ~Live(r)
    /\ board' = Freed(SetRow(<<Now, n>>, "skipped"))
    /\ life' = IF clashes # {} \/ \E m \in DOMAIN Plan : board'[Now][m].status \notin Terminal
               THEN "open" ELSE Converged(board', {})
    /\ UNCHANGED <<plans, launches, asked, sheets, clashes, halted, pane>>

\* A cancellation all of whose stops are confirmed.
CancelAll ==
    /\ life = "open" /\ life' = "cancelled" /\ halted' = FALSE
    /\ launches' = [r \in DOMAIN launches |->
                       IF Live(r)
                       THEN [launches[r] EXCEPT !.status = "cancelled"] ELSE launches[r]]
    /\ board' = [board EXCEPT ![Now] = [n \in DOMAIN Plan |->
                    IF @[n].status \in Terminal THEN @[n]
                    ELSE [@[n] EXCEPT !.status = "cancelled"]]]
    /\ UNCHANGED <<plans, asked, sheets, clashes, pane>>

\* The user replaces the graph of a paused run: rows inherit, and the inputs that were not
\* agreed to are no longer up for review.
Replace(g) ==
    /\ life = "open" /\ halted /\ Now < MaxPlans
    /\ \A n \in DOMAIN Plan : board[Now][n].attempts > 0 => n \in DOMAIN g /\ g[n] = Plan[n]
    /\ plans' = Append(plans, g)
    /\ board' = Append(board, Gate(g, [n \in DOMAIN g |->
                                          IF n \in DOMAIN Plan THEN board[Now][n] ELSE EmptyRow]))
    /\ sheets' = [i \in DOMAIN sheets |-> IF sheets[i].review = "awaiting" /\ ~sheets[i].used
                                          THEN [sheets[i] EXCEPT !.review = "none"] ELSE sheets[i]]
    /\ UNCHANGED <<launches, asked, clashes, life, halted, pane>>

\* A restart: no agent is known to live; the row an attempt was started from awaits its
\* outcome, and any other row that says running or needs-input is an orphan.
Restart ==
    /\ launches' = [r \in DOMAIN launches |-> IF launches[r].status = "running"
                                              THEN [launches[r] EXCEPT !.status = "interrupted"]
                                              ELSE launches[r]]
    /\ board' =
        [v \in DOMAIN board |-> [n \in DOMAIN board[v] |->
            LET lost == \E r \in DOMAIN launches :
                            launches[r].at = <<v, n>> /\ launches[r].status = "running"
                kept == \E r \in DOMAIN launches :
                            launches[r].at = <<v, n>> /\ launches[r].status = "awaiting-outcome"
            IN  IF lost /\ board[v][n].status \notin Terminal
                THEN [board[v][n] EXCEPT !.status = "awaiting-outcome"]
                ELSE IF board[v][n].status \in {"running", "needs-input"} /\ ~kept
                THEN [board[v][n] EXCEPT !.status = "failed"] ELSE board[v][n]]]
    /\ pane' = Closed /\ UNCHANGED <<plans, asked, sheets, clashes, life, halted>>

-----------------------------------------------------------------------------
(* The two views.  A reason has a kind, with its rank, and the row to look *)
(* at; row 0 stands for none.                                              *)

Reason(rank, kind, p) == [rank |-> rank, kind |-> kind, at |-> p]
Nowhere == <<0, "none">>
OfGraph(p) == IF p[2] \in DOMAIN Plan THEN <<Now, p[2]>> ELSE Nowhere

\* Mutant of StepReasons: a failed node is no reason.
StepReasonsUnfailed(p) ==
    CASE RowHas(p).status = "needs-input" -> {Reason(0, "needs-input", p)}
      [] RowHas(p).status = "awaiting-outcome" -> {Reason(1, "awaiting-outcome", p)}
      [] OTHER -> {}

StepReasons(p) ==
    CASE RowHas(p).status = "needs-input" -> {Reason(0, "needs-input", p)}
      [] RowHas(p).status = "awaiting-outcome" -> {Reason(1, "awaiting-outcome", p)}
      [] RowHas(p).status = "failed" -> {Reason(3, "failed", p)}
      [] OTHER -> {}

RunReasons(r, p) ==
    CASE launches[r].status = "awaiting-outcome" -> {Reason(1, "awaiting-outcome", p)}
      [] launches[r].status = "interrupted" -> {Reason(3, "interrupted", p)}
      [] OTHER -> {}

GraphReasons == UNION {StepReasons(<<Now, n>>) : n \in DOMAIN Plan}
ClashReasons == {Reason(2, "merge-conflict", OfGraph(<<Now, n>>)) : n \in clashes}
QuietNodes == {n \in DOMAIN Plan : board[Now][n].status \in Terminal}

\* Mutant of ListRunReasons: an attempt has the place it was started from.
ListRunsAtOrigin ==
    UNION {RunReasons(r, IF launches[r].at[1] = Now THEN launches[r].at ELSE Nowhere) :
               r \in DOMAIN launches}

\* The list: a question on a replaced row has no place, an attempt has that of its node.
ListRunReasons == UNION {RunReasons(r, OfGraph(launches[r].at)) : r \in DOMAIN launches}
ListQuestions ==
    {Reason(0, "open-question", IF asked[q].at[1] = Now THEN asked[q].at ELSE Nowhere) :
        q \in {i \in DOMAIN asked : asked[i].open}}

\* Mutant of ListReviews: an input of a replaced row asks for a review, too.
ListReviewsEver ==
    {Reason(0, "input-review", <<Now, sheets[i].at[2]>>) :
        i \in {j \in DOMAIN sheets : /\ life = "open" /\ sheets[j].review # "confirmed"
                                     /\ sheets[j].at[2] \in DOMAIN Plan \ QuietNodes}}

ListReviews ==
    {Reason(0, "input-review", sheets[i].at) :
        i \in {j \in DOMAIN sheets : /\ life = "open" /\ sheets[j].review = "awaiting"
                                     /\ sheets[j].at[1] = Now
                                     /\ sheets[j].at[2] \in DOMAIN Plan \ QuietNodes}}

\* The details: whatever ever had an attempt has a place.
DetailRunReasons == UNION {RunReasons(r, RowNow(launches[r].at)) : r \in DOMAIN launches}
DetailQuestions ==
    {Reason(0, "open-question", asked[q].at) : q \in {i \in DOMAIN asked : asked[i].open}}

\* Mutant of StillLatest: whatever revision the latest input is of.
LatestOfAny(n, v) == \E i \in DOMAIN sheets : sheets[i].at[2] = n /\ Newer(i)

\* The latest input of the node is of the revision that is shown.
StillLatest(n, v) == \E i \in DOMAIN sheets : sheets[i].at[2] = n /\ Newer(i) /\ sheets[i].at[1] = v

Awaited == {sheets[i].at[2] : i \in {j \in DOMAIN sheets : sheets[j].review = "awaiting"}}

DetailReviews ==
    {Reason(0, "input-review", <<Now, n>>) :
        n \in {m \in (Awaited \cap DOMAIN Plan) \ QuietNodes :
                  life = "open" /\ StillLatest(m, Now)}}

ListReasons ==
    GraphReasons \cup ListRunReasons \cup ListQuestions \cup ClashReasons \cup ListReviews
DetailReasons ==
    GraphReasons \cup DetailRunReasons \cup DetailQuestions \cup ClashReasons \cup DetailReviews

\* A run that failed still asks for its user; one that succeeded or was cancelled does not.
Needs(reasons) == reasons # {} /\ life \notin {"succeeded", "cancelled"}

Tallied(reasons) == [active |-> IF life = "open" THEN 1 ELSE 0,
                     needing |-> IF Needs(reasons) THEN 1 ELSE 0]

\* The list counts the runs of every project that is not being closed.
Overview == Tallied(ListReasons)

\* The details are read in three parts: all but the inputs, ...  Bound: a pane is opened
\* when a review may come up, and nothing else is asked, which the other parts do not read.
OpenPane ==
    /\ pane.pc = "closed" /\ asked = <<>> /\ clashes = {} /\ life = "open"
    /\ \E n \in Guarded \cap DOMAIN Plan : board[Now][n].status = "ready"
    /\ pane' = [Closed EXCEPT !.pc = "reviews", !.v = Now,
                              !.quiet = IF life = "open" THEN QuietNodes ELSE DOMAIN Plan]
    /\ UNCHANGED <<plans, board, launches, asked, sheets, clashes, life, halted>>

\* ... the inputs that await a review, ...
ReadReviews ==
    /\ pane.pc = "reviews"
    /\ pane' = [pane EXCEPT !.pc = "latest",
                            !.waits = (Awaited \cap DOMAIN plans[pane.v]) \ pane.quiet,
                            !.true = {sheets[i].at : i \in {j \in DOMAIN sheets : Agreed(j)}}]
    /\ UNCHANGED <<plans, board, launches, asked, sheets, clashes, life, halted>>

\* ... and the latest input of each of their nodes.
ReadLatest ==
    /\ pane.pc = "latest"
    /\ pane' = [pane EXCEPT !.pc = "shown", !.waits = {n \in @ : StillLatest(n, pane.v)}]
    /\ UNCHANGED <<plans, board, launches, asked, sheets, clashes, life, halted>>

ClosePane ==
    /\ pane.pc = "shown" /\ pane' = Closed
    /\ UNCHANGED <<plans, board, launches, asked, sheets, clashes, life, halted>>

NeedsMoves ==
    \/ \E h \in BOOLEAN : SetHalted(h)
    \/ \E n \in DOMAIN Plan : OfferInput(n) \/ LaunchNode(n) \/ Skip(n)
    \/ \E i \in DOMAIN sheets : AgreeInput(i)
    \/ \E r \in DOMAIN launches : \/ AskUser(r) \/ ReportEnd(r)
                                  \/ \E c \in BOOLEAN : \/ Settle(r, "succeeded", c)
                                                       \/ Settle(r, "failed", c)
    \/ \E q \in DOMAIN asked : Answer(q)
    \/ \E n \in clashes : Resolve(n)
    \/ \E p \in Spots : Retry(p)
    \/ \E g \in Plans : Replace(g)
    \/ CancelAll \/ Restart
    \/ OpenPane \/ ReadReviews \/ ReadLatest

\* What a pane shows is looked at before anything else happens.
NeedsNext == IF pane.pc = "shown" THEN ClosePane ELSE NeedsMoves

NeedsSpec == NeedsInit /\ [][NeedsNext]_needsVars

-----------------------------------------------------------------------------
(* Properties.                                                             *)

\* The list and the details agree: on whether the run needs its user, and on every reason
\* that has a place in the active graph.
SameView ==
    /\ Needs(ListReasons) <=> Needs(DetailReasons)
    /\ {r \in ListReasons : r.at[1] = Now} = {r \in DetailReasons : r.at[1] = Now}

\* The nodes that were left to be done were taken out of the graph: nothing looks whether
\* the run is over now, which says that it runs for ever.
DoneByRemoval == Now > 1 /\ \A n \in DOMAIN Plan : board[Now][n].status \in Terminal

\* A retry of a replaced row took its agent from the row that the node has now.
Misdirected ==
    \E r \in DOMAIN launches : launches[r].status = "cancelled" /\ launches[r].at[1] < Now

\* An attempt that a restart interrupted was settled as failed after its node had been done
\* by another, or skipped: the nodes behind it are blocked, which is no reason of its own.
Belated ==
    \E r \in DOMAIN launches :
        launches[r].status = "failed" /\ RowHas(RowNow(launches[r].at)).status \in Settled

\* A run that stands still says so: if it is neither over nor paused, no agent works for it
\* and no node can be started, then the list counts it among those that need their user.
NoSilentStop ==
    \/ life # "open" \/ halted \/ DoneByRemoval \/ Misdirected \/ Belated
    \/ \E r \in DOMAIN launches : launches[r].status = "running"
    \/ \E n \in DOMAIN Plan : /\ board[Now][n].status = "ready"
                              /\ \A i \in Pending(<<Now, n>>) : sheets[i].review # "awaiting"
    \/ Overview.needing = 1

\* A review that is asked for can be given, by the node and the revision it is shown with:
\* in the list at once; in the details, at the moment their inputs were read, even if the
\* graph was replaced between two of their reads.
ReviewsAreOpen ==
    /\ \A r \in ListReviews : \E i \in DOMAIN sheets : Agreed(i) /\ sheets[i].at = r.at
    /\ pane.pc = "shown" => \A n \in pane.waits : <<pane.v, n>> \in pane.true

NeedsSafety == NeedsTypeOK /\ SameView /\ NoSilentStop /\ ReviewsAreOpen
=============================================================================
