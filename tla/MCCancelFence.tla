---------------------------- MODULE MCCancelFence ----------------------------
(* Instances of CancelFence: the requests of command "c1" and of a rival.   *)
EXTENDS CancelFence, TLC

CONSTANTS q1, q2, q3, c1, c2

TwoRuns == {1, 2}
OneRun == {1}
Resent == q1 :> c1 @@ q2 :> c1
Rivals == q1 :> c1 @@ q2 :> c1 @@ q3 :> c2
Single == q1 :> c1
=============================================================================
