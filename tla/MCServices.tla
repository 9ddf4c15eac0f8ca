----------------------------- MODULE MCServices -----------------------------
(* The components around the core, on small instances.  They share no      *)
(* variables, so one run checks them all: the first state chooses one of   *)
(* them, which moves while the others stay in their initial states.        *)
EXTENDS TerminalSession, TerminalOutput, TerminalWriter, QuestionDelivery, MCJoinMerge,
        RunRevision, EventJournal, CommandReceipts

VARIABLE world

MCEpochOf == (1 :> 1) @@ (2 :> 2)
MCStoreOf == ("flow" :> 1) @@ ("run" :> 1) @@ ("other" :> 2)

\* A chain of two nodes, with a node put between them, and a graph of one node.
Chain == (1 :> [deps |-> {}, review |-> FALSE]) @@ (2 :> [deps |-> {1}, review |-> TRUE])
Inserted ==
    (1 :> [deps |-> {}, review |-> FALSE]) @@ (2 :> [deps |-> {3}, review |-> TRUE])
        @@ (3 :> [deps |-> {1}, review |-> FALSE])
Alone == 1 :> [deps |-> {}, review |-> TRUE]
MCGraphs == {Chain, Inserted, Alone}

Worlds == {"session", "output", "writer", "question", "join", "revision", "events", "commands"}

Init ==
    /\ world \in Worlds
    /\ SessionInit /\ OutputInit /\ WriterInit /\ QuestionInit /\ JoinInit
    /\ RevisionInit /\ StreamInit /\ CommandInit

Next ==
    /\ UNCHANGED world
    /\ IF world = "session" THEN SessionNext ELSE UNCHANGED sessionVars
    /\ IF world = "output" THEN OutputNext ELSE UNCHANGED outputVars
    /\ IF world = "writer" THEN WriterNext ELSE UNCHANGED writerVars
    /\ IF world = "question" THEN QuestionNext ELSE UNCHANGED questionVars
    /\ IF world = "join" THEN JoinNext ELSE UNCHANGED joinVars
    /\ IF world = "revision" THEN RevisionNext ELSE UNCHANGED revisionVars
    /\ IF world = "events" THEN StreamNext ELSE UNCHANGED streamVars
    /\ IF world = "commands" THEN CommandNext ELSE UNCHANGED commandVars

vars == <<world, sessionVars, outputVars, writerVars, questionVars, joinVars, revisionVars,
          streamVars, commandVars>>

Spec == Init /\ [][Next]_vars

\* What no step may do: attaching to a terminal leaves a gap in what the client is shown, a
\* lease that has ended types, a paused run starts an attempt, actions that a committed
\* command owes are given up, or a command of a lost lease takes effect.
ServiceSteps ==
    /\ AttachLeavesNoGap /\ EndedTypesNothing /\ PausedStartsNothing /\ OwedIsExecuted
    /\ OnlyTheHolderActs
=============================================================================
