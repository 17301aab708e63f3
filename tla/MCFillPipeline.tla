--------------------------- MODULE MCFillPipeline ---------------------------
(* A small instance of the fill pipeline: a buy that fills in two executions *)
(* or in one.                                                                *)
EXTENDS FillPipeline

CONSTANT b

TwoShares == [o \in Orders |-> 2]
=============================================================================
