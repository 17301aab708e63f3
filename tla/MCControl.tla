------------------------------ MODULE MCControl -----------------------------
\* Two accounts, two commands at a time, the rules of hours and position size.
EXTENDS Control

MCAccounts == <<"a1", "a2">>
MCSeed == [r \in RuleTypes |-> IF r = "position_size" THEN 2 ELSE Absent]
MCDefaults == [r \in RuleTypes |-> IF r = "trading_hours" THEN 0 ELSE Absent]

\* Commands that meet in a row or a decision; those of other components share only the
\* write lock with them.
MCMixes == {{"halt", "clear", "suspend", "activate", "config"},
            {"register", "m_suspend", "m_reactivate", "m_revoke", "m_rotate", "m_scopes",
             "reset", "regenerate"},
            {"request", "approve", "reject", "reopen", "cancel", "cancel_invalid", "config"},
            {"rule", "config_rules"}}

=============================================================================
