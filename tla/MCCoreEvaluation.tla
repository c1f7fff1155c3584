-------------------------- MODULE MCCoreEvaluation --------------------------
(* An instance of CoreEvaluation for TLC: two workers on one task, and a    *)
(* request that settles the facts of another Run.                           *)
EXTENDS CoreEvaluation, TLC

CONSTANTS r1, r2, w1, w2, q1, f1, f2, c1, c2

TwoPolicies == f1 :> c1 @@ f2 :> c2
WhoseRun == w1 :> r1 @@ w2 :> r1 @@ q1 :> r2
=============================================================================
