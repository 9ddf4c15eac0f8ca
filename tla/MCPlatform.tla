----------------------------- MODULE MCPlatform -----------------------------
(* What the core stands on and what reaches it from outside, on small      *)
(* instances.  As in MCServices, the first state chooses the component     *)
(* that moves.                                                             *)
EXTENDS OwnerLock, RunCapability, ProjectMount, WorktreeMerge, WorkflowEdit, SchemaMigration,
        RunGate, AdHocSession, TermScreen, HttpTurn, EntryLink, WebAccess, AgentPipe, NeedsYou

VARIABLE world

Graph(nodes, deps, binds) ==
    [nodes |-> nodes, deps |-> deps, binds |-> binds,
     agent |-> [k \in NodeKeys |-> Batch], unsafe |-> FALSE]

SampleDrafts == {Graph({1}, {}, {}), Graph({1, 2, 3}, {<<1, 2>>, <<2, 3>>}, {<<1, 3>>})}

ScreenSizes == {<<3, 4>>, <<2, 5>>}

Call(n) == [name |-> n, path |-> <<"a">>]
Away == [name |-> "write", path |-> <<"a", "..", "..", "b">>]
SampleReplies ==
    {<<>>, <<Call("write"), Call("ask")>>, <<Call(""), Away, Call("fail")>>}

TabBrowser == [t \in {1, 2, 3} |-> IF t = 3 THEN "b" ELSE "a"]

NeedsChain == [n \in {"a", "b"} |-> IF n = "b" THEN {"a"} ELSE {}]
NeedsPlans == {NeedsChain, [n \in {"a"} |-> {}]}

Worlds == {"owner", "capability", "mount", "merge", "edit", "schema", "gate", "adhoc", "screen",
           "http", "entry", "access", "pipe", "needs"}

Init ==
    /\ world \in Worlds
    /\ OwnerInit
    /\ CapabilityInit
    /\ MountInit
    /\ MergeInit
    /\ EditInit
    /\ MigrationInit
    /\ GateInit
    /\ AdHocInit
    /\ ScreenInit /\ (world # "screen" => screen.rows = 2)
    /\ HttpInit
    /\ EntryInit
    /\ AccessInit
    /\ PipeInit
    /\ NeedsInit

Next ==
    /\ UNCHANGED world
    /\ IF world = "owner" THEN OwnerNext ELSE UNCHANGED ownerVars
    /\ IF world = "capability" THEN CapabilityNext ELSE UNCHANGED capabilityVars
    /\ IF world = "mount" THEN MountNext ELSE UNCHANGED mountVars
    /\ IF world = "merge" THEN MergeNext ELSE UNCHANGED mergeVars
    /\ IF world = "edit" THEN EditNext ELSE UNCHANGED editVars
    /\ IF world = "schema" THEN MigrationNext ELSE UNCHANGED migrationVars
    /\ IF world = "gate" THEN GateNext ELSE UNCHANGED gateVars
    /\ IF world = "adhoc" THEN AdHocNext ELSE UNCHANGED adHocVars
    /\ IF world = "screen" THEN ScreenNext ELSE UNCHANGED screenVars
    /\ IF world = "http" THEN HttpNext ELSE UNCHANGED httpVars
    /\ IF world = "entry" THEN EntryNext ELSE UNCHANGED entryVars
    /\ IF world = "access" THEN AccessNext ELSE UNCHANGED accessVars
    /\ IF world = "pipe" THEN PipeNext ELSE UNCHANGED pipeVars
    /\ IF world = "needs" THEN NeedsNext ELSE UNCHANGED needsVars

vars == <<world, ownerVars, capabilityVars, mountVars, mergeVars, editVars, migrationVars,
          gateVars, adHocVars, screenVars, httpVars, entryVars, accessVars, pipeVars, needsVars>>

Spec == Init /\ [][Next]_vars

\* At most one core is the owner (owner).  A token stands for one run (capability).  A folder
\* of one project is no root of another, and a store has one scheduler (mount).  What the user
\* saved is kept, and a merge is whole or undone (merge).  Every upgrade can be had back
\* (schema).  A command on a run acts on what its sender saw (gate).  A session that nobody
\* watches is stopped and ends alike in both its rows (adhoc).  A nonce opens one session, and
\* the link on disk lets its user in (entry).  Who writes from a browser is the controller, and
\* a click is one write (access).  An agent is told what was done, and it is done once (pipe).
\* A run that stands still asks for its user, in both views alike (needs).
PlatformSafety ==
    /\ world = "owner" => OwnerSafety
    /\ world = "capability" => CapabilitySafety
    /\ world = "mount" => MountSafety
    /\ world = "merge" => MergeSafety
    /\ world = "schema" => MigrationSafety
    /\ world = "gate" => GateSafety
    /\ world = "adhoc" => AdHocSafety
    /\ world = "entry" => EntrySafety
    /\ world = "access" => AccessSafety
    /\ world = "pipe" => PipeSafety
    /\ world = "needs" => NeedsSafety

\* What no step may do: displace a core that is alive; settle or report a run that a close has
\* revoked; take a schema back, or a backup away; bring an ended session back.
PlatformSteps ==
    /\ FreshOwnerStays
    /\ RevokedForGood
    /\ SchemaNeverGoesBack
    /\ EndedStays

\* Stored graphs can be run, a revision names one content, and a run does what its user saw
\* (edit).  The screen keeps its shape under any bytes (screen).  Every call of a model is
\* answered, and a run that was stopped is quiet (http).
SurfaceSafety ==
    /\ world = "edit" => EditSafety
    /\ world = "screen" => ScreenSafety
    /\ world = "http" => HttpSafety
=============================================================================
