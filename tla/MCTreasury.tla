----------------------------- MODULE MCTreasury -----------------------------
(* A bot of a live account with a buy order of two shares, or with a buy and a *)
(* sell order of one, or of a virtual account with a buy order; or two bots,   *)
(* and a buy order of one of them that the other may cancel as well.           *)
EXTENDS Amend

CONSTANTS bot, rival, x, u, y, v

Owner == [o \in Orders |-> bot]
Together == {u}
Crews == [m \in Mixes |-> IF m = Together THEN Bots ELSE {bot}]
\* The balance changes under the partial fills.
Cash == [m \in Mixes |-> IF x \in m THEN {5, 6} ELSE {6}]
Qtys == [o \in Orders |-> IF o = x THEN 2 ELSE 1]
Reserves == [o \in Orders |-> IF o = x THEN 4 ELSE 2]
Limits == [o \in Orders |-> 2]

\* Cheaper, too dear, invalid.
SomeChanges == {[price |-> 1, qty |-> "same"], [price |-> 3, qty |-> "same"],
                [price |-> 0, qty |-> "other"]}
=============================================================================
