----------------------------- MODULE FillLedger -----------------------------
(***************************************************************************)
(* What fill recovery promises (docs/specs/broker-adapter/18-fill-recovery *)
(* .md, section 4.4), without saying how: the recorded quantity of an      *)
(* order only grows, every growth is one trade and one OrderFilledEvent    *)
(* for exactly the same shares, an order that is completely filled stays   *)
(* filled, and no event is announced twice under two keys.                 *)
(***************************************************************************)
EXTENDS Naturals

CONSTANTS Orders

VARIABLES
    recorded,   \* shares of each order that were accounted for
    traded,     \* shares of each order in the trades table
    announced,  \* shares of each order some OrderFilledEvent stands for
    finished    \* the orders that are completely filled

ledger == <<recorded, traded, announced, finished>>

LedgerInit ==
    /\ recorded = [o \in Orders |-> 0]
    /\ traded = [o \in Orders |-> 0]
    /\ announced = [o \in Orders |-> {}]
    /\ finished = {}

\* The shares numbered from + 1 .. upTo of an order.
Shares(from, upTo) == (from + 1)..upTo

\* One fill: the order's counters and the announced shares advance together.
Advance(o) ==
    /\ o \notin finished
    /\ recorded'[o] > recorded[o]
    /\ recorded' = [recorded EXCEPT ![o] = recorded'[o]]
    /\ traded' = [traded EXCEPT ![o] = @ + (recorded'[o] - recorded[o])]
    /\ announced' = [announced EXCEPT ![o] = @ \cup Shares(recorded[o], recorded'[o])]
    /\ finished' \in {finished, finished \cup {o}}

LedgerNext == \E o \in Orders : Advance(o)

LedgerSpec == LedgerInit /\ [][LedgerNext]_ledger
=============================================================================
