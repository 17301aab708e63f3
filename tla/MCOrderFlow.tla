---------------------------- MODULE MCOrderFlow ----------------------------
(* Two orders of one bot. *)
EXTENDS OrderFlow
CONSTANTS x, y, b

OneBot == [o \in {x, y} |-> b]

\* Orders that take every branch of the path.
SomeKinds == {[side |-> "buy", type |-> "market", origin |-> "loop"],
              [side |-> "buy", type |-> "limit", origin |-> "other"],
              [side |-> "sell", type |-> "stop", origin |-> "loop"]}
=============================================================================
