----------------------------- MODULE KillSwitch -----------------------------
(***************************************************************************)
(* The kill switch and the status of single accounts (account/service.py   *)
(* suspend, activate, suspend_all, activate_all), given by command or from *)
(* Telegram.  The memory changes before the row is written, and the events *)
(* of one account are published before the next account is looked at.      *)
(***************************************************************************)
EXTENDS Commands

CONSTANT AccountSeq    \* the accounts in the order of the service's dictionary

VARIABLES
    status,    \* _accounts, the memory of the daemon
    rows,      \* the table accounts
    calm,      \* the halts in flight that no activation has overlapped
    halted,    \* a halt has returned, and no activation has begun since it began
    unsaved    \* the accounts whose last row could not be written, or was not when the
               \* daemon died

killVars == <<status, rows, calm, halted, unsaved>>

AccountIds == {AccountSeq[i] : i \in DOMAIN AccountSeq}

ASSUME AccountSeqAssumption == AccountSeq \in Seq(AccountIds)

InitKillSwitch ==
    /\ status = [a \in AccountIds |-> "active"]
    /\ rows = status
    /\ calm = {} /\ halted = FALSE /\ unsaved = {}

HaltOps == {"halt", "suspend"}
ClearOps == {"clear", "activate"}
KillOps == HaltOps \cup ClearOps

\* What the command of t makes of an account.
Target(t) == IF task[t].op \in HaltOps THEN "suspended" ELSE "active"

\* The accounts the command has still to look at.
Todo(t) == IF task[t].pc = "go" THEN (IF task[t].op \in {"halt", "clear"} THEN AccountSeq ELSE <<task[t].arg>>)
           ELSE task[t].seen

-----------------------------------------------------------------------------

\* An activation, or a halt that no activation overlaps, begins.
KillBegins(t, op) ==
    /\ calm' = IF op \in ClearOps THEN {}
               ELSE calm \cup {u \in {t} : op = "halt" /\ \A v \in Tasks : task[v].op \notin ClearOps}
    /\ halted' = (halted /\ op \notin ClearOps)
    /\ UNCHANGED <<status, rows, unsaved>>

\* Mutant: the memory is changed and the row is not.
KillNextUnsaved(t) ==
    /\ task[t].op \in KillOps /\ task[t].pc \in {"go", "next"}
    /\ LET todo == Todo(t) IN
       IF todo = <<>>
       THEN /\ Ends(t)
            /\ halted' = (halted \/ t \in calm) /\ calm' = calm \ {t}
            /\ UNCHANGED status
       ELSE /\ status' = [status EXCEPT ![Head(todo)] = Target(t)]
            /\ Goes(t, "next", Tail(todo))
            /\ UNCHANGED <<halted, calm>>
    /\ UNCHANGED <<rows, unsaved, up, ops, faults>>

\* The next account is looked at.  One that has the status already is passed over, by the
\* commands on all accounts and by activate; suspend raises.
KillNext(t) ==
    /\ task[t].op \in KillOps /\ task[t].pc \in {"go", "next"}
    /\ LET todo == Todo(t) IN
       \/ /\ todo = <<>>
          /\ Ends(t)
          /\ halted' = (halted \/ t \in calm) /\ calm' = calm \ {t}
          /\ UNCHANGED status
       \/ /\ todo # <<>> /\ status[Head(todo)] = Target(t)
          /\ Goes(t, "next", Tail(todo))
          /\ UNCHANGED <<status, halted, calm>>
       \/ /\ todo # <<>> /\ status[Head(todo)] # Target(t)
          /\ status' = [status EXCEPT ![Head(todo)] = Target(t)]
          /\ Requests(t, "write", todo)
          /\ UNCHANGED <<halted, calm>>
    /\ UNCHANGED <<rows, unsaved, up, ops, faults>>

\* The row is written; the events are published.
KillWrite(t) ==
    /\ task[t].op \in KillOps /\ task[t].pc = "write" /\ HasLock(t)
    /\ LET a == Head(task[t].seen) IN
       /\ rows' = [rows EXCEPT ![a] = Target(t)]
       /\ unsaved' = unsaved \ {a}
       /\ Goes(t, "next", Tail(task[t].seen))
    /\ UNCHANGED <<status, calm, halted, up, ops, faults>>

\* The write raises: the memory keeps the status, the other accounts are not looked at.
KillFails(t) ==
    /\ task[t].op \in KillOps /\ task[t].pc = "write" /\ HasLock(t) /\ Fault
    /\ unsaved' = unsaved \cup {Head(task[t].seen)}
    /\ Ends(t) /\ calm' = calm \ {t}
    /\ UNCHANGED <<status, rows, halted, up, ops>>

KillStep(t) == KillNext(t) \/ KillWrite(t) \/ KillFails(t)

\* The accounts whose row is asked for and not written yet.
Pending == {Head(task[t].seen) : t \in {u \in Tasks : task[u].op \in KillOps /\ task[u].pc = "write"}}

KillSwitchDies == unsaved' = unsaved \cup Pending /\ calm' = {} /\ UNCHANGED <<status, rows, halted>>

\* initialize: the accounts are loaded from their rows.
KillSwitchStarts == status' = rows /\ UNCHANGED <<rows, calm, halted, unsaved>>

-----------------------------------------------------------------------------

(* Once a halt has returned, and until an activation begins, no account trades: every
   account is suspended in the memory the gates read, and in its row or on the way there, so
   that a daemon that dies and starts again keeps it so.  Two halts may overlap, and halts
   may overlap suspensions.  The accounts whose row could not be written are left out
   (suspend, suspend_all). *)
HaltHolds ==
    halted => \A a \in AccountIds \ unsaved :
        /\ up => status[a] = "suspended"
        /\ rows[a] = "suspended" \/ a \in Pending

=============================================================================
