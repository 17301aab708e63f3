---------------------------- MODULE MCReconcile ----------------------------
(* A buy of two shares and a sell of one, over two days.                    *)
EXTENDS Reconcile, TLC

CONSTANTS b1, s1

MCSide == b1 :> "buy" @@ s1 :> "sell"
MCQty == b1 :> 2 @@ s1 :> 1
=============================================================================
