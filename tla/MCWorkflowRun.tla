--------------------------- MODULE MCWorkflowRun ---------------------------
(* The graphs of the small instances of WorkflowRun that TLC checks. *)
EXTENDS WorkflowRun, TLC

CONSTANTS a, b

Single == {a}
SingleDeps == a :> {}

Pair == {a, b}
ChainDeps == (a :> {}) @@ (b :> {a})

NoRetry == [s \in Steps |-> 0]
FirstRetriesOnce == [s \in Steps |-> IF s = a THEN 1 ELSE 0]
=============================================================================
