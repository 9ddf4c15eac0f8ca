---------------------------- MODULE WorkflowEdit ----------------------------
(***************************************************************************)
(* Editing the workflows of a project, and freezing one into a run         *)
(* (mf-kernel kernel.rs, mf-agent store.rs, workflow_validation.rs and     *)
(* workflow_compiler.rs, mf-web execution_ports.rs).                       *)
(*                                                                         *)
(* A workflow has a graph (its semantic axis) and a look (its presentation *)
(* axis), each with a revision; the set of workflows has one too.  A       *)
(* client reads a snapshot, and later sends a command that names things by *)
(* the handles and quotes the revisions of what it read.  The command      *)
(* builds the new graph from the row as it is, checks it and compares the  *)
(* revision of the axis it writes, in one transaction.  A node and an edge *)
(* keep their handle for as long as they are in the graph.  A Start checks *)
(* the revision, compiles the graph and checks the revision again, in      *)
(* three steps that landed may come between.                                *)
(*                                                                         *)
(* A command depends on one old snapshot, so one variable `read' that is   *)
(* refreshed at any time stands for every client there may be.             *)
(***************************************************************************)
EXTENDS Integers, Sequences, SequencesExt, FiniteSets, Functions

CONSTANTS
    WorkflowKeys,   \* keys of workflows
    NodeKeys,       \* keys of nodes
    Drafts,         \* whole graphs that a client may send
    Isolates,       \* does the directory provider isolate parallel steps?
    MaxEdits        \* bound: commands that land

ASSUME EditBounds == MaxEdits \in Nat /\ Isolates \in BOOLEAN

VARIABLES
    wf,            \* the tables: rows, collection revision, identities, positions
    read,          \* the tables as some client read them
    start,         \* the Start on its way
    runs,          \* frozen plans that were accepted
    landed,         \* commands that landed
    overwritten    \* observer: did a command land on what its sender never saw?

editVars == <<wf, read, start, runs, landed, overwritten>>

Batch == "batch"
Interactive == "interactive"      \* the instance whose one session cannot be shared

-----------------------------------------------------------------------------
(* The graph *)

Ups(g, n) == {d[1] : d \in {e \in g.deps : e[2] = n}}

Ancestors(g, n) ==
    LET Further(set, i) == set \cup UNION {Ups(g, m) : m \in set}
    IN  FoldLeft(Further, Ups(g, n), [i \in 1 .. Cardinality(g.nodes) |-> i])

\* validate_workflow: dependencies among the nodes, no cycle, and an input is
\* taken from a transitive upstream node.
ValidWorkflow(g) ==
    /\ g.nodes # {}
    /\ g.deps \subseteq g.nodes \X g.nodes
    /\ \A n \in g.nodes : n \notin Ancestors(g, n)
    /\ \A b \in g.binds : b[1] \in Ancestors(g, b[2])

ParallelPairs(g) ==
    {p \in g.nodes \X g.nodes :
        /\ p[1] # p[2]
        /\ p[1] \notin Ancestors(g, p[2])
        /\ p[2] \notin Ancestors(g, p[1])}

\* WorkflowCompiler::compile, as far as it refuses more than the validation.
Compiles(g) ==
    /\ ValidWorkflow(g)
    /\ ParallelPairs(g) # {} => Isolates \/ g.unsafe
    /\ \A p \in ParallelPairs(g) : g.agent[p[1]] = g.agent[p[2]] => g.agent[p[1]] # Interactive

-----------------------------------------------------------------------------
(* The tables *)

Workflows == DOMAIN wf.rows
Handles(ids) == {i.handle : i \in ids}
Fresh(w, things, from) ==
    LET order == SetToSeq(things)
    IN  {[workflow |-> w, of |-> order[i], handle |-> from + i] : i \in DOMAIN order}

Of(ids, w) == {i.of : i \in {j \in ids : j.workflow = w}}

\* Mutant: what left the graph keeps its identity and its position.
SyncNewOnly(t, w, g) ==
    LET newNodes == Fresh(w, g.nodes \ Of(t.nodes, w), t.issued)
        newEdges == Fresh(w, g.deps \ Of(t.edges, w), t.issued + Cardinality(newNodes))
    IN  [t EXCEPT !.nodes = @ \cup newNodes,
                  !.edges = @ \cup newEdges,
                  !.issued = @ + Cardinality(newNodes) + Cardinality(newEdges)]

\* sync_workflow_identity_tx: what the graph still has keeps its handle, what
\* it lost loses handle and position, what is new gets a handle never used.
SyncIdentity(t, w, g) ==
    LET KeptOf(ids, live) == {i \in ids : i.workflow = w => i.of \in live}
        newNodes == Fresh(w, g.nodes \ Of(t.nodes, w), t.issued)
        newEdges == Fresh(w, g.deps \ Of(t.edges, w), t.issued + Cardinality(newNodes))
        nodes == KeptOf(t.nodes, g.nodes) \cup newNodes
    IN  [t EXCEPT !.nodes = nodes,
                  !.edges = KeptOf(@, g.deps) \cup newEdges,
                  !.spots = Restrict(@, DOMAIN @ \cap Handles(nodes)),
                  !.issued = @ + Cardinality(newNodes) + Cardinality(newEdges)]

Shown(t, w) == [name |-> t.rows[w].name, port |-> t.rows[w].port]

SpotsAgree(s, t) == \A h \in DOMAIN s.spots \cap DOMAIN t.spots : s.spots[h] = t.spots[h]

SeesGraph(v, w) == w \in DOMAIN v.rows /\ v.rows[w].graph = wf.rows[w].graph
SeesLook(v, w) == w \in DOMAIN v.rows /\ Shown(v, w) = Shown(wf, w) /\ SpotsAgree(v, wf)

EditInit ==
    /\ wf = [rows |-> <<>>, collection |-> 1, nodes |-> {}, edges |-> {},
             spots |-> <<>>, issued |-> 0]
    /\ read = wf
    /\ start = [at |-> "none"]
    /\ runs = {}
    /\ landed = 0
    /\ overwritten = FALSE

-----------------------------------------------------------------------------
(* Commands; `v' is the snapshot the sender had: an old one or the last *)

Snapshots == {read, wf}

Lands(unseen) ==
    /\ landed < MaxEdits
    /\ landed' = landed + 1
    /\ overwritten' = (overwritten \/ unseen)
    /\ UNCHANGED <<read, start, runs>>

CreateWorkflow(v, k, g) ==
    /\ ValidWorkflow(g)
    /\ v.collection = wf.collection
    /\ \A w \in Workflows : wf.rows[w].key # k
    /\ Lands(DOMAIN v.rows # Workflows)
    /\ LET w == wf.issued + 1
           row == [key |-> k, name |-> 0, port |-> 0, graph |-> g, semantic |-> 1, presentation |-> 1]
       IN  wf' = SyncIdentity([wf EXCEPT !.rows = (w :> row) @@ @, !.issued = w,
                                         !.collection = @ + 1], w, g)

DeleteWorkflow(v, w) ==
    /\ w \in Workflows \cap DOMAIN v.rows
    /\ v.collection = wf.collection
    /\ v.rows[w].semantic = wf.rows[w].semantic
    /\ v.rows[w].presentation = wf.rows[w].presentation
    /\ Lands(~SeesGraph(v, w) \/ ~SeesLook(v, w) \/ DOMAIN v.rows # Workflows)
    /\ LET nodes == {i \in wf.nodes : i.workflow # w}
       IN  wf' = [wf EXCEPT !.rows = Restrict(@, Workflows \ {w}), !.nodes = nodes,
                            !.edges = {i \in @ : i.workflow # w},
                            !.spots = Restrict(@, DOMAIN @ \cap Handles(nodes)),
                            !.collection = @ + 1]

\* save_project_workflow_semantic_tx; a draft with the digest of the row is no edit.
ReplaceSemantic(v, w, g) ==
    /\ v.rows[w].semantic = wf.rows[w].semantic
    /\ g # wf.rows[w].graph
    /\ Lands(~SeesGraph(v, w))
    /\ ValidWorkflow(g)
    /\ wf' = SyncIdentity([wf EXCEPT !.rows[w].graph = g, !.rows[w].semantic = @ + 1], w, g)

\* What the command names in workflow w, among the identities as they are.
Named(v, ids, seen, w) ==
    IF w \notin DOMAIN v.rows THEN {}
    ELSE {i \in ids : i.workflow = w /\ \E j \in seen : j.workflow = w /\ j.handle = i.handle}

AddNode(v, w, k, ups, a) ==
    /\ w \in Workflows \cap DOMAIN v.rows
    /\ k \notin wf.rows[w].graph.nodes
    /\ LET g == wf.rows[w].graph
       IN  ReplaceSemantic(v, w, [g EXCEPT !.nodes = @ \cup {k}, !.deps = @ \cup (ups \X {k}),
                                           !.agent[k] = a])

UpdateNode(v, w, a, sources) ==
    /\ w \in Workflows
    /\ \E i \in Named(v, wf.nodes, v.nodes, w) :
        ReplaceSemantic(v, w,
            [wf.rows[w].graph EXCEPT !.agent[i.of] = a,
                                     !.binds = {b \in @ : b[2] # i.of} \cup (sources \X {i.of})])

ReplaceGraph(v, w, g) ==
    /\ w \in Workflows \cap DOMAIN v.rows
    /\ ReplaceSemantic(v, w, g)

\* The node leaves with its edges and its own inputs; an input taken from it stays.
RemoveNode(v, w) ==
    /\ w \in Workflows
    /\ Cardinality(wf.rows[w].graph.nodes) > 1
    /\ \E i \in Named(v, wf.nodes, v.nodes, w) :
        ReplaceSemantic(v, w,
            [wf.rows[w].graph EXCEPT !.nodes = @ \ {i.of},
                                     !.deps = {d \in @ : i.of \notin {d[1], d[2]}},
                                     !.agent[i.of] = Batch,
                                     !.binds = {b \in @ : b[2] # i.of}])

Connect(v, w) ==
    /\ w \in Workflows
    /\ \E up, down \in Named(v, wf.nodes, v.nodes, w) :
        ReplaceSemantic(v, w, [wf.rows[w].graph EXCEPT !.deps = @ \cup {<<up.of, down.of>>}])

Disconnect(v, w) ==
    /\ w \in Workflows
    /\ \E e \in Named(v, wf.edges, v.edges, w) :
        ReplaceSemantic(v, w, [wf.rows[w].graph EXCEPT !.deps = @ \ {e.of}])

SetUnsafeParallel(v, w) ==
    /\ w \in Workflows \cap DOMAIN v.rows
    /\ ReplaceSemantic(v, w, [wf.rows[w].graph EXCEPT !.unsafe = ~@])

Presents(v, w) ==
    /\ v.rows[w].presentation = wf.rows[w].presentation
    /\ Lands(~SeesLook(v, w))

Rename(v, w) ==
    /\ w \in Workflows \cap DOMAIN v.rows
    /\ Presents(v, w)
    /\ wf' = [wf EXCEPT !.rows[w].name = 1 - @, !.rows[w].presentation = @ + 1]

SetViewport(v, w) ==
    /\ w \in Workflows \cap DOMAIN v.rows
    /\ Presents(v, w)
    /\ wf' = [wf EXCEPT !.rows[w].port = 1 - @, !.rows[w].presentation = @ + 1]

MoveNode(v, w, place) ==
    /\ w \in Workflows
    /\ \E i \in Named(v, wf.nodes, v.nodes, w) :
        /\ i.handle \in DOMAIN wf.spots => wf.spots[i.handle] # place
        /\ Presents(v, w)
        /\ wf' = [wf EXCEPT !.spots = (i.handle :> place) @@ @, !.rows[w].presentation = @ + 1]

-----------------------------------------------------------------------------
(* A Start *)

StartStands(s) == s.workflow \in Workflows /\ wf.rows[s.workflow].semantic = s.semantic

\* The revision is checked once before anything is prepared.
SendStart(v, w) ==
    /\ start.at = "none"
    /\ start' = [at |-> "sent", workflow |-> w, semantic |-> v.rows[w].semantic,
                 wanted |-> v.rows[w].graph]
    /\ StartStands(start')
    /\ UNCHANGED <<wf, read, runs, landed, overwritten>>

\* prepare_plan reads the row as it is, whatever its revision.
PrepareStart ==
    /\ start.at = "sent"
    /\ start.workflow \in Workflows
    /\ Compiles(wf.rows[start.workflow].graph)
    /\ start' = [at |-> "prepared", workflow |-> start.workflow, semantic |-> start.semantic,
                 wanted |-> start.wanted, plan |-> wf.rows[start.workflow].graph]
    /\ UNCHANGED <<wf, read, runs, landed, overwritten>>

\* Mutant: the plan is accepted without comparing the revision again.
AcceptPrepared ==
    /\ start.at = "prepared"
    /\ start.workflow \in Workflows
    /\ runs' = runs \cup {[wanted |-> start.wanted, plan |-> start.plan]}
    /\ start' = [at |-> "none"]
    /\ UNCHANGED <<wf, read, landed, overwritten>>

AcceptStart ==
    /\ start.at = "prepared"
    /\ StartStands(start)
    /\ runs' = runs \cup {[wanted |-> start.wanted, plan |-> start.plan]}
    /\ start' = [at |-> "none"]
    /\ UNCHANGED <<wf, read, landed, overwritten>>

RefuseStart ==
    /\ \/ /\ start.at = "sent"
          /\ start.workflow \in Workflows => ~Compiles(wf.rows[start.workflow].graph)
       \/ start.at = "prepared" /\ ~StartStands(start)
    /\ start' = [at |-> "none"]
    /\ UNCHANGED <<wf, read, runs, landed, overwritten>>

ReadSnapshot ==
    /\ read # wf
    /\ read' = wf
    /\ UNCHANGED <<wf, start, runs, landed, overwritten>>

EditNext ==
    \/ ReadSnapshot \/ PrepareStart \/ AcceptStart \/ RefuseStart
    \/ \E v \in Snapshots :
        \/ \E k \in WorkflowKeys, g \in Drafts : CreateWorkflow(v, k, g)
        \/ \E w \in DOMAIN v.rows :
            \/ DeleteWorkflow(v, w)
            \/ \E k \in NodeKeys, ups \in {{}} \cup {{n} : n \in NodeKeys} : AddNode(v, w, k, ups, Batch)
            \/ \E a \in {Batch, Interactive}, from \in {{}} \cup {{n} : n \in NodeKeys} :
                UpdateNode(v, w, a, from)
            \/ \E g \in Drafts : ReplaceGraph(v, w, g)
            \/ RemoveNode(v, w)
            \/ Connect(v, w)
            \/ Disconnect(v, w)
            \/ SetUnsafeParallel(v, w)
            \/ Rename(v, w)
            \/ SetViewport(v, w)
            \/ \E place \in {0, 1} : MoveNode(v, w, place)
            \/ SendStart(v, w)

-----------------------------------------------------------------------------
(* Properties *)

\* The orders in which the nodes may run one after the other.
Orders(g) == {rank \in [g.nodes -> 1 .. Cardinality(g.nodes)] :
                /\ IsInjective(rank)
                /\ \A d \in g.deps : rank[d[1]] < rank[d[2]]}

\* Every stored graph can be run to its end, and an input is settled before
\* the node that takes it, in whatever order the nodes run
\* (workflow_validation.rs).
GraphsRunnable ==
    \A w \in Workflows :
        LET g == wf.rows[w].graph
        IN  /\ Orders(g) # {}
            /\ \A rank \in Orders(g), b \in g.binds : rank[b[1]] < rank[b[2]]

\* The identities are those of the graph, one handle for each node and edge,
\* and only a node of a graph has a position (store.rs, identity sync).
IdentitiesFollowGraph ==
    /\ \A w \in Workflows :
        /\ Of(wf.nodes, w) = wf.rows[w].graph.nodes
        /\ Of(wf.edges, w) = wf.rows[w].graph.deps
    /\ \A i, j \in wf.nodes \cup wf.edges : i # j => i.handle # j.handle
    /\ {i.workflow : i \in wf.nodes \cup wf.edges} \subseteq Workflows
    /\ DOMAIN wf.spots \subseteq Handles(wf.nodes)

\* A handle a client has read never comes to mean another node, edge or
\* workflow, however often things are deleted and made again.
HandlesKeepMeaning ==
    /\ \A i \in read.nodes \cup read.edges, j \in wf.nodes \cup wf.edges : i.handle = j.handle => i = j
    /\ \A w \in DOMAIN read.rows \cap Workflows : read.rows[w].key = wf.rows[w].key

\* A revision names one content: what a client read at the revision the row
\* has now is what the row says now.
RevisionNamesContent ==
    /\ read.collection = wf.collection => DOMAIN read.rows = Workflows
    /\ \A w \in DOMAIN read.rows \cap Workflows :
        /\ read.rows[w].semantic = wf.rows[w].semantic =>
            /\ SeesGraph(read, w)
            /\ {i \in read.nodes \cup read.edges : i.workflow = w}
                 = {i \in wf.nodes \cup wf.edges : i.workflow = w}
        /\ read.rows[w].presentation = wf.rows[w].presentation =>
            /\ Shown(read, w) = Shown(wf, w)
            /\ \A i \in {j \in wf.nodes \cap read.nodes : j.workflow = w} :
                i.handle \in DOMAIN wf.spots \cap DOMAIN read.spots =>
                    wf.spots[i.handle] = read.spots[i.handle]

\* A run does the graph its user saw when starting it; two of its nodes that
\* may run together were allowed to, and never share an interactive instance.
RunsAsSeen ==
    \A r \in runs :
        /\ r.plan = r.wanted
        /\ Cardinality(Orders(r.plan)) > 1 => Isolates \/ r.plan.unsafe
        /\ \A m, n \in r.plan.nodes :
            m # n /\ r.plan.agent[m] = Interactive /\ r.plan.agent[n] = Interactive =>
                \/ \A rank \in Orders(r.plan) : rank[m] < rank[n]
                \/ \A rank \in Orders(r.plan) : rank[n] < rank[m]

EditSafety ==
    /\ GraphsRunnable
    /\ IdentitiesFollowGraph
    /\ HandlesKeepMeaning
    /\ RevisionNamesContent
    /\ RunsAsSeen
    /\ ~overwritten
=============================================================================
