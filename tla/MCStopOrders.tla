---------------------------- MODULE MCStopOrders ----------------------------
(* A buy and a sell stop on one symbol of one account; some prices trigger   *)
(* both.  Nothing is registered for symbol q, whose ticks mark the session.  *)
EXTENDS StopOrders

CONSTANTS x, y, acc, p, q

Account == [s \in Stops |-> acc]
OneSymbol == [s \in Stops |-> p]
Sides == [s \in Stops |-> IF s = x THEN "buy" ELSE "sell"]
StopAt == [s \in Stops |-> IF s = x THEN 1 ELSE 2]
=============================================================================
