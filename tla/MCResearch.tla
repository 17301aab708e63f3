------------------------------ MODULE MCResearch ----------------------------
EXTENDS Research

MCQuarterEnd == <<1, 3>>
MCPriceRow == <<1, 2, 3, 4>>
MCFundRow == <<11, 12, 13, 14>>
MCQuarterRow == <<21, 22>>
MCItems == 1..4 \cup 11..14 \cup {21, 22}
MCPartOf == [i \in MCItems |-> CASE i = 1 -> "p1" [] i \in 2..4 -> "p2" [] OTHER -> "f"]
MCPartNo == [p \in {"p1", "p2", "f"} |-> CASE p = "p1" -> 1 [] p = "p2" -> 2 [] OTHER -> 3]
MCBars == [s \in {"a", "b"} |-> IF s = "a" THEN {2, 3} ELSE {1, 2, 3}]
MCPrice == <<1, 2, 3>>
=============================================================================
