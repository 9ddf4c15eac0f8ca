---------------------------- MODULE MCJoinMerge ----------------------------
(* The joins of the small instances of JoinMerge that TLC checks. *)
EXTENDS JoinMerge, TLC

OneJoin == 11 :> {1, 2}

\* Step 2 is a parent of both.
SharedJoins == (11 :> {1, 2}) @@ (12 :> {2, 3})
=============================================================================
