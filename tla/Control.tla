------------------------------- MODULE Control ------------------------------
(***************************************************************************)
(* The control plane: the commands that change accounts, members, rules    *)
(* and approvals, composed.  They share the write lock of the database,    *)
(* the daemon's life and its crashes; what a command may do is decided by  *)
(* the members, and Telegram gives some of the same commands through a     *)
(* poll loop that handles one update after another                         *)
(* (notification/telegram_receiver.py).                                    *)
(***************************************************************************)
EXTENDS KillSwitch, Members, Approvals, RuleConfig

CONSTANT Mixes    \* bound: the sets of commands a behaviour mixes

ASSUME MixesAssumption == \A mix \in Mixes : mix \subseteq HotOps \cup ColdOps

VARIABLES
    confirm,    \* _pending_confirm of the one allowed user: none, halt or clear
    mix         \* the commands of this behaviour

vars == <<commandVars, killVars, memberVars, approvalVars, ruleVars, confirm, mix>>

Init ==
    /\ InitCommands /\ InitKillSwitch /\ InitMembers /\ InitApprovals /\ InitRules
    /\ confirm = "none" /\ mix \in Mixes
    /\ mix \cap MemberOps = {} => row["agent"].status = "active"
    /\ mix \cap ApprovalOps = {} => req.status = "none"
    /\ "rule" \notin mix => stored = NoList

-----------------------------------------------------------------------------
(* Commands *)

\* What a command is about.
Args(op) ==
    CASE op \in {"suspend", "activate"} -> AccountIds
      [] op = "rule" -> [type : RuleTypes, limit : Limits]
      [] OTHER -> {"-"}

\* The command line authenticates the actor, checks what it may do and hands it on.
GiveKill(t) ==
    /\ \E op \in mix \cap KillOps :
         /\ Authorised(op) /\ KillBegins(t, op)
         /\ \E arg \in Args(op) : Given(t, op, arg, FALSE)
    /\ UNCHANGED <<up, wq, faults, memberVars, approvalVars, ruleVars, confirm, mix>>

GiveCommand(t) ==
    /\ \E op \in mix \ KillOps :
         /\ Authorised(op)
         /\ \E arg \in Args(op) : Given(t, op, arg, FALSE)
    /\ UNCHANGED <<up, wq, faults, killVars, memberVars, approvalVars, ruleVars, confirm, mix>>

\* The task handles the command up to its next await.
KillSwitchRuns(t) == KillStep(t) /\ UNCHANGED <<memberVars, approvalVars, ruleVars, confirm, mix>>
MembersRun(t) == MemberStep(t) /\ UNCHANGED <<killVars, approvalVars, ruleVars, confirm, mix>>
ApprovalsRun(t) == ApprovalStep(t) /\ UNCHANGED <<killVars, memberVars, ruleVars, confirm, mix>>
RulesRun(t) == RuleStep(t) /\ UNCHANGED <<killVars, memberVars, approvalVars, confirm, mix>>

TaskStep(t) == KillSwitchRuns(t) \/ MembersRun(t) \/ ApprovalsRun(t) \/ RulesRun(t)

-----------------------------------------------------------------------------
(* Telegram *)

\* The poll loop has handled the update before.
TelegramFree == up /\ \A t \in Tasks : ~task[t].tg

\* /halt and /clear_halt: refused when nothing is to be done.
AllAre(s) == \A a \in AccountIds : status[a] = s
NothingToDo(op) == AllAre(IF op = "halt" THEN "suspended" ELSE "active")

TelegramAsks ==
    /\ TelegramFree /\ ops < MaxOps
    /\ \E op \in {"halt", "clear"} \cap mix : ~NothingToDo(op) /\ confirm # op /\ confirm' = op
    /\ UNCHANGED <<commandVars, killVars, memberVars, approvalVars, ruleVars, mix>>

\* /confirm in time: the command is looked at again and given.
TelegramConfirms(t) ==
    /\ TelegramFree /\ confirm # "none"
    /\ confirm' = "none"
    /\ IF NothingToDo(confirm) THEN UNCHANGED <<task, ops, killVars>>
       ELSE Given(t, confirm, "-", TRUE) /\ KillBegins(t, confirm)
    /\ UNCHANGED <<up, wq, faults, memberVars, approvalVars, ruleVars, mix>>

\* /confirm comes too late.
ConfirmTooLate ==
    /\ TelegramFree /\ confirm # "none"
    /\ confirm' = "none"
    /\ UNCHANGED <<commandVars, killVars, memberVars, approvalVars, ruleVars, mix>>

\* The button under the notification of a request, which can be pressed again.
TelegramButton(t) ==
    /\ TelegramFree /\ req.status # "none"
    /\ \E op \in {"approve", "reject"} \cap mix : Given(t, op, "-", TRUE)
    /\ UNCHANGED <<up, wq, faults, killVars, memberVars, approvalVars, ruleVars, confirm, mix>>

-----------------------------------------------------------------------------
(* The loop of the approvals, time, and the life of the daemon *)

Expires == ExpireStep /\ UNCHANGED <<killVars, memberVars, ruleVars, confirm, mix>>

Deadline == DeadlinePasses /\ UNCHANGED <<killVars, memberVars, ruleVars, confirm, mix>>

TokenOver == TokenExpires /\ UNCHANGED <<killVars, approvalVars, ruleVars, confirm, mix>>

Crash ==
    /\ DaemonDies /\ KillSwitchDies /\ ApprovalsDie
    /\ confirm' = "none"
    /\ UNCHANGED <<memberVars, ruleVars, mix>>

Restart ==
    /\ DaemonStarts /\ KillSwitchStarts /\ InitializeAll
    /\ UNCHANGED <<memberVars, approvalVars, confirm, mix>>

Next ==
    \/ \E t \in Tasks : GiveKill(t) \/ GiveCommand(t) \/ TaskStep(t) \/ TelegramConfirms(t) \/ TelegramButton(t)
    \/ TelegramAsks \/ ConfirmTooLate
    \/ Expires \/ Deadline \/ TokenOver \/ Crash \/ Restart

Spec == Init /\ [][Next]_vars

(***************************************************************************)
(* The event loop goes on with every task whose await is over, the write   *)
(* lock is handed on in order, and the loop of the approvals sleeps for a   *)
(* minute at a time.                                                       *)
(***************************************************************************)
FairSpec ==
    /\ Spec
    /\ \A t \in Tasks : WF_vars(TaskStep(t))
    /\ WF_vars(Expires)

=============================================================================
