-------------------------------- MODULE Bots --------------------------------
(***************************************************************************)
(* BotManager and Bot (bot/manager.py, bot/bot.py) with the bot's budget   *)
(* in the treasury (release_budget, update_budget) and its row in the      *)
(* database.                                                               *)
(*                                                                         *)
(* Commands come from the IPC server, from approvals and from events; each *)
(* one runs as a coroutine of its own and is split here at its awaits: the *)
(* record ops[k] holds what command k has in its local variables.  A       *)
(* command keeps the Bot object it fetched first, so objects have an       *)
(* identity apart from the bot_id: deleting a bot and creating it again    *)
(* gives a second object.                                                  *)
(*                                                                         *)
(* Bot.stop() cancels the task in Bot._task only.  A start that finds an   *)
(* earlier task still alive leaves it behind as an orphan, a second loop   *)
(* of the same object that no one can cancel.                              *)
(*                                                                         *)
(* The strategy is a model value; every other field of BotConfig is left   *)
(* out, auto_restart being on.  Database writes succeed.  Those of the     *)
(* bots table are atomic with the step that issues them; those of          *)
(* bot_budgets wait in line for the write lock of the one writing          *)
(* connection, and a read by the other connection sees what is committed.  *)
(* Left out: notifications, snapshots of strategy files, the exchange      *)
(* check, cutting a budget.                                                *)
(***************************************************************************)
EXTENDS Naturals, FiniteSets, FiniteSetsExt, Sequences

CONSTANTS
    NBots,        \* number of bot_ids
    Strategies,
    First,        \* the strategy every bot starts with
    MaxObjs,      \* bound: Bot objects
    MaxOps,       \* bound: commands
    MaxFails,     \* _max_consecutive_failures
    MaxRestart,   \* max_restart_attempts
    Funds         \* bound: there are this many units of money more than bots

Bots == 1..NBots
Objs == 1..MaxObjs
Cmds == 1..MaxOps

ASSUME BotsAssumption ==
    /\ NBots \in Nat \ {0} /\ MaxObjs \in Nat /\ NBots <= MaxObjs
    /\ MaxOps \in Nat /\ MaxFails \in Nat \ {0} /\ MaxRestart \in Nat /\ Funds \in Nat
    /\ First \in Strategies

VARIABLES
    obj,        \* the Bot objects: status, strategy, the two loops, failures
    made,       \* objects created so far
    bots,       \* BotManager._bots; 0 is absent
    row,        \* the bots table
    rules,      \* strategies whose rules RuleEngine has loaded
    count,      \* _restart_counts
    waiting,    \* the _restart_after_cooldown tasks asleep
    tracked,    \* _restart_tasks; 0 is none
    resetting,  \* _restart_reset_tasks
    suspended,  \* the account of the bots is suspended
    budget,     \* Treasury._budgets, in units
    budgetRow,  \* bot_budgets
    free,       \* Treasury._unallocated
    line,       \* the statements on bot_budgets that wait for the write lock
    lock,       \* _bot_update_locks: the command that holds it, or 0
    ops,        \* the commands
    issued,     \* commands so far
    down,       \* stop_all has been called
    twice,      \* history: bots with two deletions in flight at once
    added       \* history: bots given money between the pop and the read of a deletion

restart == <<count, waiting, tracked, resetting>>
money == <<budget, budgetRow, free, line>>
past == <<twice, added>>
botsVars == <<obj, made, bots, row, rules, restart, suspended, money, lock, ops, issued, down, past>>

-----------------------------------------------------------------------------

Statuses == {"created", "running", "stopping", "stopped", "error", "deleted"}
Loops == {"none", "sleep", "wait", "step"}   \* wait: for the signal lock of the bot_id
Slots == {"task", "orphan"}   \* Bot._task, and a loop it no longer names

NewBot(b, s) ==
    [bot |-> b, status |-> "created", strategy |-> s, task |-> "none", orphan |-> "none", fails |-> 0]

NoOp == [kind |-> "none", bot |-> 0, obj |-> 0, pc |-> "done", arg |-> First, old |-> First,
         todo |-> {}, got |-> 0]

\* The bots exist, are stopped and hold at most one unit of budget each.
BotInit ==
    /\ obj = [o \in Objs |-> NewBot(IF o \in Bots THEN o ELSE 0, First)]
    /\ made = NBots
    /\ bots = [b \in Bots |-> b]
    /\ row = [b \in Bots |-> [status |-> "created", strategy |-> First]]
    /\ rules = {}
    /\ count = [b \in Bots |-> 0]
    /\ waiting = {}
    /\ tracked = [b \in Bots |-> 0]
    /\ resetting = {}
    /\ suspended = FALSE
    /\ budget \in [Bots -> {0, 1}]
    /\ budgetRow = budget
    /\ free \in 0..(Funds + NBots)
    /\ free + SumFunctionOnSet(budget, Bots) = Funds + NBots
    /\ line = <<>>
    /\ lock = [b \in Bots |-> 0]
    /\ ops = [k \in Cmds |-> NoOp]
    /\ issued = 0
    /\ down = FALSE
    /\ twice = {}
    /\ added = {}

\* Bot.start: a task still alive is forgotten, not cancelled.
Started(o) ==
    [obj EXCEPT ![o].status = "running", ![o].task = "sleep",
                ![o].orphan = IF obj[o].task # "none" THEN obj[o].task ELSE @]

\* Bot.stop up to its await: the task is cancelled.
Stopping(os) ==
    [o \in Objs |-> IF o \in os THEN [obj[o] EXCEPT !.status = "stopping", !.task = "none"] ELSE obj[o]]

\* A command enters, in the state its coroutine has at its first await.
Issue(op) ==
    /\ issued < MaxOps /\ ~down
    /\ issued' = issued + 1
    /\ ops' = [ops EXCEPT ![issued + 1] = op]

\* A command that has no await before its end.
IssueAtomic == Issue(NoOp)

Goto(k, pc) == ops' = [ops EXCEPT ![k] = IF pc = "done" THEN NoOp ELSE [@ EXCEPT !.pc = pc]]

Known(b) == bots[b] # 0
Bot(b) == obj[bots[b]]

-----------------------------------------------------------------------------
(* create_bot *)

\* The checks before the await of AccountService.get.
Create(b, s) ==
    /\ ~Known(b)
    /\ \A c \in Bots : Known(c) => ~(Bot(c).strategy = s /\ Bot(c).status \in {"running", "stopping"})
    /\ Issue([NoOp EXCEPT !.kind = "create", !.bot = b, !.pc = "account", !.arg = s])
    /\ UNCHANGED <<obj, made, bots, row, rules, restart, suspended, money, lock, down, past>>

\* The account is read; the bot is registered, and _save_bot_config keeps the status
\* of a row that is already there.
CreateInsert(k) ==
    LET op == ops[k] IN
    /\ op.kind = "create" /\ op.pc = "account"
    /\ Goto(k, "done")
    /\ IF suspended \/ made = MaxObjs
       THEN UNCHANGED <<obj, made, bots, row>>
       ELSE /\ made' = made + 1
            /\ obj' = [obj EXCEPT ![made + 1] = NewBot(op.bot, op.arg)]
            /\ bots' = [bots EXCEPT ![op.bot] = made + 1]
            /\ row' = [row EXCEPT ![op.bot].strategy = op.arg]
    /\ UNCHANGED <<rules, restart, suspended, money, lock, issued, down, past>>

-----------------------------------------------------------------------------
(* start_bot, resume_bot, stop_bot *)

\* start_bot refuses only a bot that is running.
Start(b) ==
    /\ Known(b) /\ Bot(b).status # "running"
    /\ IssueAtomic
    /\ rules' = rules \cup {Bot(b).strategy}
    /\ obj' = Started(bots[b])
    /\ UNCHANGED <<made, bots, row, restart, suspended, money, lock, down, past>>

Resume(b) ==
    /\ Known(b) /\ Bot(b).status \in {"stopped", "error"}
    /\ IssueAtomic
    /\ count' = [count EXCEPT ![b] = 0]
    /\ rules' = rules \cup {Bot(b).strategy}
    /\ obj' = Started(bots[b])
    /\ UNCHANGED <<made, bots, row, waiting, tracked, resetting, suspended, money, lock, down, past>>

\* stop_bot, from a command or from BotStopEvent.
Stop(b) ==
    /\ Known(b) /\ Bot(b).status \in {"running", "error"}
    /\ Issue([NoOp EXCEPT !.kind = "stop", !.bot = b, !.obj = bots[b], !.pc = "stopping"])
    /\ obj' = Stopping({bots[b]})
    /\ UNCHANGED <<made, bots, row, rules, restart, suspended, money, lock, down, past>>

\* Where the caller of Bot.stop goes on.
AfterStop(op) ==
    CASE op.kind = "stop" -> "rules"
      [] op.kind = "assign" -> "swap"
      [] op.kind = "delete" -> "release"
      [] op.kind = "suspend" -> "scan"

\* Bot.stop after its await: STOPPED, whatever the status has become meanwhile.
StopFinish(k) ==
    /\ ops[k].pc = "stopping"
    /\ obj' = [obj EXCEPT ![ops[k].obj].status = "stopped"]
    /\ Goto(k, AfterStop(ops[k]))
    /\ UNCHANGED <<made, bots, row, rules, restart, suspended, money, lock, issued, down, past>>

\* stop_bot removes the rules of the strategy the bot has now.
StopRules(k) ==
    /\ ops[k].pc = "rules"
    /\ rules' = rules \ {obj[ops[k].obj].strategy}
    /\ Goto(k, "done")
    /\ UNCHANGED <<obj, made, bots, row, restart, suspended, money, lock, issued, down, past>>

-----------------------------------------------------------------------------
(* change_strategy, assign_strategy, update_bot *)

\* _save_bot_config of an object, which is not always the registered one; the UPSERT leaves
\* the status alone.
Saved(o, s) ==
    [row EXCEPT ![obj[o].bot].strategy = s]

ChangeStrategy(b, s) ==
    /\ Known(b) /\ Bot(b).status # "running"
    /\ IssueAtomic
    /\ obj' = [obj EXCEPT ![bots[b]].strategy = s]
    /\ row' = Saved(bots[b], s)
    /\ UNCHANGED <<made, bots, rules, restart, suspended, money, lock, down, past>>

\* assign_strategy: a running bot is stopped first.
Assign(b, s) ==
    /\ Known(b)
    /\ IF Bot(b).status = "running"
       THEN /\ Issue([NoOp EXCEPT !.kind = "assign", !.bot = b, !.obj = bots[b], !.pc = "stopping", !.arg = s])
            /\ obj' = Stopping({bots[b]})
            /\ UNCHANGED row
       ELSE /\ IssueAtomic
            /\ obj' = [obj EXCEPT ![bots[b]].strategy = s]
            /\ row' = Saved(bots[b], s)
    /\ UNCHANGED <<made, bots, rules, restart, suspended, money, lock, down, past>>

AssignSwap(k) ==
    LET op == ops[k] IN
    /\ op.pc = "swap"
    /\ rules' = rules \ {obj[op.obj].strategy}
    /\ obj' = [obj EXCEPT ![op.obj].strategy = op.arg]
    /\ row' = Saved(op.obj, op.arg)
    /\ Goto(k, "restart")
    /\ UNCHANGED <<made, bots, restart, suspended, money, lock, issued, down, past>>

\* The restart checks nothing: the bot may run again by now, or be deleted.
AssignRestart(k) ==
    LET op == ops[k] IN
    /\ op.pc = "restart"
    /\ rules' = rules \cup {op.arg}
    /\ obj' = Started(op.obj)
    /\ Goto(k, "done")
    /\ UNCHANGED <<made, bots, row, restart, suspended, money, lock, issued, down, past>>

\* update_bot(strategy_id, budget): it takes the lock of the bot_id, checks the status and
\* awaits _validate_strategy_change.
Update(b, s) ==
    /\ Known(b) /\ Bot(b).status \in {"created", "stopped", "error"}
    /\ lock[b] = 0
    /\ Issue([NoOp EXCEPT !.kind = "update", !.bot = b, !.obj = bots[b], !.pc = "validate",
                          !.arg = s])
    /\ lock' = [lock EXCEPT ![b] = issued + 1]
    /\ UNCHANGED <<obj, made, bots, row, rules, restart, suspended, money, down, past>>

\* The new configuration is installed and saved.  old_config is the object that change_strategy
\* writes to until then, so old is what it holds now.
UpdateCommit(k) ==
    LET op == ops[k] IN
    /\ op.pc = "validate"
    /\ ops' = [ops EXCEPT ![k] = [op EXCEPT !.pc = "budget", !.old = obj[op.obj].strategy]]
    /\ obj' = [obj EXCEPT ![op.obj].strategy = op.arg]
    /\ row' = Saved(op.obj, op.arg)
    /\ UNCHANGED <<made, bots, rules, restart, suspended, money, lock, issued, down, past>>

\* The strategy is unknown or does not fit the account: nothing has changed.
UpdateInvalid(k) ==
    /\ ops[k].pc = "validate"
    /\ lock' = [lock EXCEPT ![ops[k].bot] = 0]
    /\ Goto(k, "done")
    /\ UNCHANGED <<obj, made, bots, row, rules, restart, suspended, money, issued, down, past>>

\* A statement of command k on the row of its bot in bot_budgets joins the line; 0 is DELETE.
Write(k, val) == line' = Append(line, [cmd |-> k, bot |-> ops[k].bot, val |-> val])

\* Its turn has come: it is executed and committed.
Written(k) ==
    /\ line # <<>> /\ Head(line).cmd = k
    /\ budgetRow' = [budgetRow EXCEPT ![Head(line).bot] = Head(line).val]
    /\ line' = Tail(line)

\* A deletion of b has found no budget in memory and has not read the row yet.
Fetching(b) == \E k \in Cmds : ops[k].bot = b /\ ops[k].pc \in {"fetch", "again"}

\* treasury.update_budget up to its first await: one unit more, for a bot that is stopped or
\* is no longer there.
UpdateBudget(k) ==
    LET b == ops[k].bot IN
    /\ ops[k].pc = "budget"
    /\ Known(b) => Bot(b).status \in {"created", "stopped", "error"}
    /\ free > 0
    /\ free' = free - 1
    /\ budget' = [budget EXCEPT ![b] = @ + 1]
    /\ Write(k, budget[b] + 1)
    /\ added' = IF Fetching(b) THEN added \cup {b} ELSE added
    /\ Goto(k, "save")
    /\ UNCHANGED <<obj, made, bots, row, rules, restart, suspended, budgetRow, lock, issued, down, twice>>

\* The row is saved; update_bot lets go of the lock.
UpdateSave(k) ==
    /\ ops[k].pc = "save"
    /\ Written(k)
    /\ lock' = [lock EXCEPT ![ops[k].bot] = 0]
    /\ Goto(k, "done")
    /\ UNCHANGED <<obj, made, bots, row, rules, restart, suspended, budget, free, issued, down, past>>

\* Mutant: the row is not taken back with the memory.
UpdateRollbackMemory(k) ==
    LET op == ops[k] IN
    /\ op.pc = "budget"
    /\ obj' = IF obj[op.obj].strategy = op.arg
              THEN [obj EXCEPT ![op.obj].strategy = op.old] ELSE obj
    /\ lock' = [lock EXCEPT ![op.bot] = 0]
    /\ Goto(k, "done")
    /\ UNCHANGED <<made, bots, row, rules, restart, suspended, money, issued, down, past>>

\* The budget is refused: the configuration goes back, unless another command has changed
\* it since; the row too, unless the object is no longer the registered one.
UpdateRollback(k) ==
    LET op == ops[k]
        mine == obj[op.obj].strategy = op.arg
    IN
    /\ op.pc = "budget"
    /\ obj' = IF mine THEN [obj EXCEPT ![op.obj].strategy = op.old] ELSE obj
    /\ row' = IF mine /\ bots[op.bot] = op.obj THEN Saved(op.obj, op.old) ELSE row
    /\ lock' = [lock EXCEPT ![op.bot] = 0]
    /\ Goto(k, "done")
    /\ UNCHANGED <<made, bots, rules, restart, suspended, money, issued, down, past>>

-----------------------------------------------------------------------------
(* delete_bot, always soft: no caller asks for the hard form *)

Deleting(b) == \E k \in Cmds : ops[k].kind = "delete" /\ ops[k].bot = b

\* A running bot is stopped first.
Delete(b) ==
    LET running == Bot(b).status = "running" IN
    /\ Known(b)
    /\ Issue([NoOp EXCEPT !.kind = "delete", !.bot = b, !.obj = bots[b],
                          !.pc = IF running THEN "stopping" ELSE "release"])
    /\ obj' = IF running THEN Stopping({bots[b]}) ELSE obj
    /\ twice' = IF Deleting(b) THEN twice \cup {b} ELSE twice
    /\ UNCHANGED <<made, bots, row, rules, restart, suspended, money, lock, down, added>>

\* release_budget gives a back and issues its DELETE.
Credit(k, a) ==
    /\ free' = free + a
    /\ Write(k, 0)
    /\ Goto(k, "clear")

\* Mutant: the row of a budget that memory holds is released with it.
TakeBudgetBoth(k, otherwise) ==
    LET b == ops[k].bot IN
    IF budget[b] > 0
    THEN /\ budget' = [budget EXCEPT ![b] = 0]
         /\ Credit(k, budget[b] + budgetRow[b])
    ELSE /\ Goto(k, otherwise)
         /\ UNCHANGED <<budget, free, line>>

\* release_budget up to its first await: the budget in memory is given back at once; without
\* one it waits for the row.
TakeBudget(k, otherwise) ==
    LET b == ops[k].bot IN
    IF budget[b] > 0
    THEN /\ budget' = [budget EXCEPT ![b] = 0]
         /\ Credit(k, budget[b])
    ELSE /\ Goto(k, otherwise)
         /\ UNCHANGED <<budget, free, line>>

DeleteRelease(k) ==
    /\ ops[k].pc = "release"
    /\ TakeBudget(k, "fetch")
    /\ UNCHANGED <<obj, made, bots, row, rules, restart, suspended, budgetRow, lock, issued, down, past>>

\* fetch_one reads what is committed.
DeleteRead(k) ==
    LET op == ops[k] IN
    /\ op.pc \in {"fetch", "again"}
    /\ ops' = [ops EXCEPT ![k] = [op EXCEPT !.pc = IF op.pc = "fetch" THEN "found" ELSE "last",
                                            !.got = budgetRow[op.bot]]]
    /\ UNCHANGED <<obj, made, bots, row, rules, restart, suspended, money, lock, issued, down, past>>

\* Back from the read.  delete_bot calls release_budget a second time when the first has
\* released nothing.
DeleteCredit(k) ==
    LET op == ops[k] IN
    /\ op.pc \in {"found", "last"}
    /\ \/ /\ op.got > 0
          /\ Credit(k, op.got)
          /\ UNCHANGED budget
       \/ /\ op.got = 0 /\ op.pc = "found"
          /\ TakeBudget(k, "again")
       \/ /\ op.got = 0 /\ op.pc = "last"
          /\ Goto(k, "unregister")
          /\ UNCHANGED <<budget, free, line>>
    /\ UNCHANGED <<obj, made, bots, row, rules, restart, suspended, budgetRow, lock, issued, down, past>>

DeleteClear(k) ==
    /\ ops[k].pc = "clear"
    /\ Written(k)
    /\ Goto(k, "unregister")
    /\ UNCHANGED <<obj, made, bots, row, rules, restart, suspended, budget, free, lock, issued, down, past>>

\* The entry of the bot_id goes, whichever object it holds; without one, KeyError.
DeleteFinish(k) ==
    LET op == ops[k] IN
    /\ op.pc = "unregister"
    /\ obj' = [obj EXCEPT ![op.obj].status = "deleted"]
    /\ bots' = [bots EXCEPT ![op.bot] = 0]
    /\ row' = IF Known(op.bot) THEN [row EXCEPT ![op.bot].status = "deleted"] ELSE row
    /\ Goto(k, "done")
    /\ UNCHANGED <<made, rules, restart, suspended, money, lock, issued, down, past>>

-----------------------------------------------------------------------------
(* The account, and the end of the process *)

\* AccountSuspendedEvent: _on_account_suspended walks over the bots it finds now.
Suspend ==
    /\ ~suspended
    /\ suspended' = TRUE
    /\ Issue([NoOp EXCEPT !.kind = "suspend", !.pc = "scan",
                          !.todo = {bots[b] : b \in {c \in Bots : Known(c)}}])
    /\ UNCHANGED <<obj, made, bots, row, rules, restart, money, lock, down, past>>

SuspendNext(k) ==
    LET op == ops[k] IN
    /\ op.pc = "scan"
    /\ \/ \E o \in op.todo :
            IF obj[o].status = "running"
            THEN /\ obj' = Stopping({o})
                 /\ ops' = [ops EXCEPT ![k] = [op EXCEPT !.pc = "stopping", !.obj = o, !.todo = @ \ {o}]]
            ELSE /\ ops' = [ops EXCEPT ![k].todo = @ \ {o}]
                 /\ UNCHANGED obj
       \/ /\ op.todo = {}
          /\ Goto(k, "done")
          /\ UNCHANGED obj
    /\ UNCHANGED <<made, bots, row, rules, restart, suspended, money, lock, issued, down, past>>

\* AccountActivatedEvent is only logged.
Activate ==
    /\ suspended
    /\ suspended' = FALSE
    /\ IssueAtomic
    /\ UNCHANGED <<obj, made, bots, row, rules, restart, money, lock, down, past>>

\* stop_all: the tracked tasks are cancelled, the running bots are stopped together (its
\* gather is one step here: by then no command is accepted any more).
StopAll ==
    /\ ~down
    /\ down' = TRUE
    /\ waiting' = {t \in waiting : t.n # tracked[t.bot]}
    /\ tracked' = [b \in Bots |-> 0]
    /\ resetting' = {}
    /\ obj' = [o \in Objs |-> IF \E b \in Bots : bots[b] = o /\ obj[o].status = "running"
                              THEN [obj[o] EXCEPT !.status = "stopped", !.task = "none"] ELSE obj[o]]
    /\ UNCHANGED <<made, bots, row, rules, count, suspended, money, lock, ops, issued, past>>

-----------------------------------------------------------------------------
(* Bot._run_loop, and the restart after an error *)

\* The numbers of restart tasks of a bot that no task uses.
Unused(b) == {n \in 1..(MaxRestart + 2) : \A t \in waiting : t.bot = b => t.n # n}

\* _on_bot_error: a restart is scheduled, up to max_restart_attempts of them.
OnBotError(b) ==
    IF Known(b) /\ count[b] < MaxRestart /\ Unused(b) # {}
    THEN LET n == Min(Unused(b)) IN
         /\ count' = [count EXCEPT ![b] = @ + 1]
         /\ waiting' = waiting \cup {[bot |-> b, obj |-> bots[b], n |-> n]}
         /\ tracked' = [tracked EXCEPT ![b] = n]
         /\ UNCHANGED resetting
    ELSE UNCHANGED restart

\* Mutant: the loop looks at the status only when it starts.
LoopTurnAlways(o, slot) ==
    /\ obj[o][slot] = "sleep"
    /\ obj' = [obj EXCEPT ![o][slot] = "wait"]
    /\ UNCHANGED <<made, bots, row, rules, restart, suspended, money, lock, ops, issued, down, past>>

\* while status == RUNNING
LoopTurn(o, slot) ==
    /\ obj[o][slot] = "sleep"
    /\ obj' = [obj EXCEPT ![o][slot] = IF obj[o].status = "running" THEN "wait" ELSE "none"]
    /\ UNCHANGED <<made, bots, row, rules, restart, suspended, money, lock, ops, issued, down, past>>

\* on_step runs under the signal lock of the bot_id, which outlives the objects.
StepStarts(o, slot) ==
    /\ obj[o][slot] = "wait"
    /\ \A p \in Objs, other \in Slots : obj[p].bot = obj[o].bot => obj[p][other] # "step"
    /\ obj' = [obj EXCEPT ![o][slot] = "step"]
    /\ UNCHANGED <<made, bots, row, rules, restart, suspended, money, lock, ops, issued, down, past>>

\* on_step returns, and not too many signals: they are published.
StepOk(o, slot) ==
    /\ obj[o][slot] = "step"
    /\ obj' = [obj EXCEPT ![o][slot] = "sleep", ![o].fails = 0]
    /\ UNCHANGED <<made, bots, row, rules, restart, suspended, money, lock, ops, issued, down, past>>

\* on_step times out; one time too many is an error.
StepTimeout(o, slot) ==
    /\ obj[o][slot] = "step"
    /\ IF obj[o].fails + 1 >= MaxFails
       THEN /\ obj' = [obj EXCEPT ![o][slot] = "none", ![o].fails = MaxFails, ![o].status = "error"]
            /\ OnBotError(obj[o].bot)
       ELSE /\ obj' = [obj EXCEPT ![o][slot] = "sleep", ![o].fails = @ + 1]
            /\ UNCHANGED restart
    /\ UNCHANGED <<made, bots, row, rules, suspended, money, lock, ops, issued, down, past>>

\* Too many signals: an error event without the error status, and one time too many the
\* loop stops the bot itself.
StepOverflow(o, slot) ==
    LET last == obj[o].fails + 1 >= MaxFails
        stops == last /\ obj[o].status \in {"running", "error"}
    IN
    /\ obj[o][slot] = "step"
    /\ obj' = [obj EXCEPT ![o].fails = IF last THEN MaxFails ELSE @ + 1,
                          ![o].status = IF stops THEN "stopped" ELSE @,
                          ![o].task = IF stops \/ (slot = "task" /\ last) THEN "none"
                                      ELSE IF slot = "task" THEN "sleep" ELSE @,
                          ![o].orphan = IF slot = "task" THEN @
                                        ELSE IF last THEN "none" ELSE "sleep"]
    /\ OnBotError(obj[o].bot)
    /\ UNCHANGED <<made, bots, row, rules, suspended, money, lock, ops, issued, down, past>>

\* on_step raises.
StepRaises(o, slot) ==
    /\ obj[o][slot] = "step"
    /\ obj' = [obj EXCEPT ![o][slot] = "none", ![o].status = "error"]
    /\ OnBotError(obj[o].bot)
    /\ UNCHANGED <<made, bots, row, rules, suspended, money, lock, ops, issued, down, past>>

\* _restart_after_cooldown wakes up: only a bot still in error is started.  The entry it
\* removes from _restart_tasks may be that of a later task.
RestartFires(t) ==
    /\ t \in waiting
    /\ waiting' = waiting \ {t}
    /\ IF obj[t.obj].status = "error"
       THEN /\ rules' = rules \cup {obj[t.obj].strategy}
            /\ obj' = Started(t.obj)
            /\ resetting' = IF Known(t.bot) THEN resetting \cup {t.bot} ELSE resetting \ {t.bot}
            /\ tracked' = [tracked EXCEPT ![t.bot] = 0]
       ELSE UNCHANGED <<rules, obj, resetting, tracked>>
    /\ UNCHANGED <<made, bots, row, count, suspended, money, lock, ops, issued, down, past>>

\* _reset_restart_count_after: the bot has run long enough.
ResetFires(b) ==
    /\ b \in resetting
    /\ resetting' = resetting \ {b}
    /\ count' = IF Known(b) /\ Bot(b).status = "running" THEN [count EXCEPT ![b] = 0] ELSE count
    /\ UNCHANGED <<obj, made, bots, row, rules, waiting, tracked, suspended, money, lock, ops,
                   issued, down, past>>

-----------------------------------------------------------------------------

BotCommand(b) ==
    \/ Start(b) \/ Resume(b) \/ Stop(b) \/ Delete(b)
    \/ \E s \in Strategies : Create(b, s) \/ ChangeStrategy(b, s) \/ Assign(b, s) \/ Update(b, s)

Continue(k) ==
    \/ CreateInsert(k) \/ StopFinish(k) \/ StopRules(k)
    \/ AssignSwap(k) \/ AssignRestart(k)
    \/ UpdateCommit(k) \/ UpdateInvalid(k)
    \/ UpdateBudget(k) \/ UpdateSave(k) \/ UpdateRollback(k)
    \/ DeleteRelease(k) \/ DeleteRead(k) \/ DeleteCredit(k) \/ DeleteClear(k) \/ DeleteFinish(k)
    \/ SuspendNext(k)

Step(o, slot) ==
    StepOk(o, slot) \/ StepTimeout(o, slot) \/ StepOverflow(o, slot) \/ StepRaises(o, slot)

BotNext ==
    \/ \E b \in Bots : BotCommand(b)
    \/ Suspend \/ Activate \/ StopAll
    \/ \E k \in Cmds : Continue(k)
    \/ \E o \in Objs, slot \in Slots : 
        LoopTurn(o, slot) \/ StepStarts(o, slot) \/ Step(o, slot)
    \/ \E t \in waiting : RestartFires(t)
    \/ \E b \in Bots : ResetFires(b)

BotSpec == BotInit /\ [][BotNext]_botsVars

\* The event loop runs every loop that is due, asyncio.Lock serves its waiters in turn, and
\* step_timeout_seconds ends every on_step.
BotFairSpec ==
    /\ BotSpec
    /\ \A o \in Objs, slot \in Slots :
        WF_botsVars(LoopTurn(o, slot)) /\ SF_botsVars(StepStarts(o, slot)) /\ WF_botsVars(Step(o, slot))

-----------------------------------------------------------------------------

BotTypeOK ==
    /\ obj \in [Objs -> [bot : Bots \cup {0}, status : Statuses, strategy : Strategies,
                         task : Loops, orphan : Loops, fails : 0..MaxFails]]
    /\ made \in 0..MaxObjs
    /\ bots \in [Bots -> 0..MaxObjs]
    /\ row \in [Bots -> [status : {"created", "deleted"}, strategy : Strategies]]
    /\ rules \subseteq Strategies
    /\ count \in [Bots -> 0..MaxRestart]
    /\ waiting \subseteq [bot : Bots, obj : Objs, n : Nat]
    /\ tracked \in [Bots -> Nat]
    /\ resetting \subseteq Bots
    /\ suspended \in BOOLEAN /\ down \in BOOLEAN
    /\ budget \in [Bots -> Nat] /\ budgetRow \in [Bots -> Nat] /\ free \in Nat
    /\ line \in Seq([cmd : Cmds, bot : Bots, val : Nat])
    /\ lock \in [Bots -> 0..MaxOps]
    /\ issued \in 0..MaxOps
    /\ twice \subseteq Bots /\ added \subseteq Bots

Idle == \A k \in Cmds : ops[k] = NoOp

\* The row shows the strategy of the bot whenever no command is in flight, whatever
\* change_strategy, assign_strategy and a failing update_bot have done to it, for a bot that
\* has not been deleted and created again (manager.py:640-722).
SavedConfig ==
    Idle => \A b \in Bots : bots[b] = b => row[b].strategy = obj[b].strategy

\* Money neither appears nor disappears when bots are deleted while their budget changes
\* (treasury.py:546-608), with two exceptions, both after release_budget has found no budget in
\* memory and waits for the row (treasury.py:553-563).  Another deletion of the bot may have
\* released the budget and not deleted the row yet, and update_budget may put a new budget in
\* memory and commit its row: what the read then finds is given back although a bot holds it,
\* or has been given back already.
BudgetConserved ==
    twice \cup added = {} => free + SumFunctionOnSet(budget, Bots) = Funds + NBots

\* A bot that stays out of RUNNING goes quiet: every loop of it ends, the ones stop() cannot
\* cancel too (bot.py:143-145).
StoppedGoesQuiet ==
    \A o \in Objs :
        <>[](obj[o].status # "running") => <>[](obj[o].task = "none" /\ obj[o].orphan = "none")

=============================================================================
