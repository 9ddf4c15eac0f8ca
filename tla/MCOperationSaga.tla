--------------------------- MODULE MCOperationSaga ---------------------------
(* The instance of OperationSaga that TLC checks: one Start, sent and resent. *)
EXTENDS OperationSaga, TLC

CONSTANTS c1, r1, r2

Resend == (r1 :> c1) @@ (r2 :> c1)
=============================================================================
