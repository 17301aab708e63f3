------------------------------ MODULE Commands ------------------------------
(***************************************************************************)
(* What the commands of the control plane have in common (cli/middleware.py,*)
(* cli/commands/ipc_helpers.py, ipc/server.py _dispatch, core/database.py). *)
(*                                                                         *)
(* A command is a task.  While the daemon runs it is a handler of the IPC  *)
(* server or of the Telegram poll loop, in the daemon's event loop; while  *)
(* it is stopped, those commands that have a cold path run as processes of  *)
(* their own on the same database.  A step ends at an await.  Reads may    *)
(* happen at any time; the writes of the daemon take its write lock in the *)
(* order in which they were asked for, those of two processes in any order.*)
(***************************************************************************)
EXTENDS Naturals, Sequences, FiniteSets, Queues

CONSTANTS
    Tasks,
    MaxOps,      \* bound: commands
    MaxFaults    \* bound: writes and executors that fail, crashes

ASSUME CommandsAssumption == MaxOps \in Nat /\ MaxFaults \in Nat

VARIABLES
    up,      \* the daemon runs
    task,    \* the command each task executes
    wq,      \* those who hold (the head) or await the write lock
    ops, faults

commandVars == <<up, task, wq, ops, faults>>

-----------------------------------------------------------------------------

\* op: the command; pc: what it does next; arg: its argument; seen: what it has read;
\* tg: it came from Telegram.
NoTask == [op |-> "none", pc |-> "-", arg |-> "-", seen |-> "-", tg |-> FALSE]

\* The commands that go to the IPC server and to nothing else.
SystemOps == {"halt", "clear"}
AccountOps == {"suspend", "activate"}
RequestOps == {"request", "reopen", "cancel"}
ReviewOps == {"approve", "reject", "cancel_invalid"}
\* config set, of the rules of the account or of another key.
ConfigOps == {"config", "config_rules"}
HotOps == SystemOps \cup AccountOps \cup RequestOps \cup ReviewOps \cup ConfigOps

\* The commands that run on their own while the daemon is stopped: those of MasterOps are
\* for the master only, the secret of ExemptOps is its credential.
RuleOps == {"rule"}
RegisterOps == {"register"}
LifecycleOps == {"m_suspend", "m_reactivate", "m_revoke"}
TokenOps == {"m_rotate"}
ScopeOps == {"m_scopes"}
ExemptOps == {"reset", "regenerate"}
MasterOps == RegisterOps \cup LifecycleOps \cup TokenOps \cup ScopeOps
ColdOps == RuleOps \cup MasterOps \cup ExemptOps

At(t, op, pc) == task[t].op = op /\ task[t].pc = pc

\* The task the next command becomes: they do not differ.
FreeTask == CHOOSE t \in Tasks : (\E u \in Tasks : task[u] = NoTask) => task[t] = NoTask

InitCommands ==
    /\ up = TRUE
    /\ task = [t \in Tasks |-> NoTask]
    /\ wq = <<>>
    /\ ops = 0 /\ faults = 0

-----------------------------------------------------------------------------

\* The command op is given: it is sent to the daemon, or runs on its own where it can.
Given(t, op, arg, tg) ==
    /\ t = FreeTask /\ task[t] = NoTask /\ ops < MaxOps
    /\ up \/ (op \in ColdOps /\ ~tg)
    /\ task' = [task EXCEPT ![t] = [NoTask EXCEPT !.op = op, !.pc = "go", !.arg = arg, !.tg = tg]]
    /\ ops' = ops + 1

\* The command of t goes on at pc, with what it has seen.
Goes(t, pc, seen) ==
    /\ task' = [task EXCEPT ![t].pc = pc, ![t].seen = seen]
    /\ wq' = Without(wq, t)

\* The command of t asks for the write lock to do the write pc.
Requests(t, pc, seen) ==
    /\ task' = [task EXCEPT ![t].pc = pc, ![t].seen = seen]
    /\ wq' = Append(Without(wq, t), t)

\* The command of t returns or raises.
Ends(t) ==
    /\ task' = [task EXCEPT ![t] = NoTask]
    /\ wq' = Without(wq, t)

\* t has the write lock.
HasLock(t) == Queued(wq, t) /\ (up => Head(wq) = t)

Fault == faults < MaxFaults /\ faults' = faults + 1
NoFault == UNCHANGED faults

\* The commands in flight die with the process that runs them.
DaemonDies ==
    /\ up /\ Fault
    /\ up' = FALSE
    /\ task' = [t \in Tasks |-> NoTask] /\ wq' = <<>>
    /\ UNCHANGED ops

\* The daemon starts.  The guard of the cold path and the start-up exclude each other
\* here; what happens when they do not is a matter of Daemon.
DaemonStarts ==
    /\ ~up /\ \A t \in Tasks : task[t] = NoTask
    /\ up' = TRUE
    /\ UNCHANGED <<task, wq, ops, faults>>

=============================================================================
