----------------------------- MODULE RuleConfig -----------------------------
(***************************************************************************)
(* The rules of one account: what the store holds (config/dynamic.py), how *)
(* a command changes it (rule/config_update.py), how the engine follows it *)
(* (rule/engine.py, rule/manager.py, rule/defaults.py) and what the rules  *)
(* let pass (rule/global_rules.py, rule/strategy_rules.py).                *)
(*                                                                         *)
(* A configuration gives each type of rule a limit, Off (disabled) or      *)
(* Absent.  The list is read, changed in one place and written back whole, *)
(* with awaits in between; the history is written and the event published  *)
(* after it.  config set writes whatever it is given to the same key, and  *)
(* its event is not one the engine listens to.                             *)
(***************************************************************************)
EXTENDS Commands, Integers

CONSTANTS
    RuleTypes,   \* the types of rule that are configured
    Limits,      \* the limits a command may set
    Seed,        \* accounts.<id>.rules of the static TOML
    Defaults     \* the rules of the broker type

ASSUME RulesAssumption ==
    /\ "position_size" \in RuleTypes /\ Limits \subseteq Int
    /\ Seed \in [RuleTypes -> Int] /\ Defaults \in [RuleTypes -> Int]

VARIABLES
    stored,   \* accounts.<id>.rules of dynamic_config, or NoList
    engine,   \* _account_rules
    missed    \* why the engine may lack what the store has: "unsent", the event of an update
              \* was not published; "bypassed", config set wrote what the store holds;
              \* "unread", the store could not be read at the start

ruleVars == <<stored, engine, missed>>

Absent == -2
Off == -1
Empty == [r \in RuleTypes |-> Absent]
\* The key is absent, or its value is no list.
NoList == <<>>

\* The list the store holds, or the seed where it holds none.
StoredOr(default) == IF stored = NoList THEN default ELSE stored

\* resolve_effective_rules: a default counts where the list does not name its type.
EffectiveRules(list) == [r \in RuleTypes |-> IF list[r] = Absent THEN Defaults[r] ELSE list[r]]

\* Mutant: the seed comes before the store.
InitializeAllSeedFirst ==
    /\ engine' = EffectiveRules(Seed) /\ missed' = {}
    /\ UNCHANGED stored

\* initialize_all: the store before the seed, and the seed too where the read of the store
\* raises.
InitializeAll ==
    /\ \/ engine' = EffectiveRules(StoredOr(Seed)) /\ missed' = {}
       \/ stored # NoList /\ engine' = EffectiveRules(Seed) /\ missed' = {"unread"}
    /\ UNCHANGED stored

\* What config set may find in its argument: no list, as the command line sends only text,
\* or a list of rules, which the handler takes as well.
ConfigLists == {NoList} \cup [RuleTypes -> Limits \cup {Absent, Off}]

InitRules ==
    /\ stored \in {NoList, [Empty EXCEPT !["position_size"] = 1]}
    /\ engine = EffectiveRules(StoredOr(Seed))
    /\ missed = {}

-----------------------------------------------------------------------------
(* What the rules let pass.  The context of an order, in units of one percent of its base. *)

Contexts == [side : {"buy", "sell"}, size : 0..3, inHours : BOOLEAN, loss : {0, 3}, trades : {0, 3}]

RejectsDailyLoss(limit, o) == o.side = "buy" /\ o.loss > limit
RejectsExposure(limit, o) == o.side = "buy" /\ o.size > limit
RejectsHours(o) == ~o.inHours
\* A limit of zero is no limit.
RejectsPosition(limit, o) == limit > 0 /\ o.size > limit
RejectsUnrealized(limit, o) == o.side = "buy" /\ o.loss > limit
RejectsFrequency(limit, o) == o.trades >= limit

Rejects(r, limit, o) ==
    /\ limit >= 0
    /\ CASE r = "daily_loss_limit" -> RejectsDailyLoss(limit, o)
         [] r = "total_exposure_limit" -> RejectsExposure(limit, o)
         [] r = "trading_hours" -> RejectsHours(o)
         [] r = "position_size" -> RejectsPosition(limit, o)
         [] r = "unrealized_loss_limit" -> RejectsUnrealized(limit, o)
         [] r = "trade_frequency" -> RejectsFrequency(limit, o)

\* evaluate: the first rule that rejects an order ends the evaluation.
Passes(rules, o) == \A r \in RuleTypes : ~Rejects(r, rules[r], o)

-----------------------------------------------------------------------------
(* rule update, config set *)

\* The list is read, or not: a read that raises, a value that is no list and an empty list
\* all give the seed, which only a process of its own has.
RuleRead(t) ==
    LET default == IF up THEN Empty ELSE Seed
    IN  /\ At(t, "rule", "go")
        /\ \/ Goes(t, "set", IF stored = Empty THEN default ELSE StoredOr(default)) /\ NoFault
           \/ Goes(t, "set", default) /\ Fault
        /\ UNCHANGED <<ruleVars, up, ops>>

\* The old value has been read for the history; the new list is to be written.
RuleSet(t) ==
    /\ At(t, "rule", "set")
    /\ Requests(t, "write", [task[t].seen EXCEPT ![task[t].arg.type] = task[t].arg.limit])
    /\ UNCHANGED <<ruleVars, up, ops, faults>>

RuleWrite(t) ==
    /\ At(t, "rule", "write") /\ HasLock(t)
    /\ stored' = task[t].seen
    /\ missed' = missed \ {"bypassed"}
    /\ Requests(t, "history", task[t].seen)
    /\ UNCHANGED <<engine, up, ops, faults>>

\* The history is written and the event published; the engine of the account reloads.
RulePublish(t) ==
    /\ At(t, "rule", "history") /\ HasLock(t)
    /\ engine' = IF up THEN EffectiveRules(task[t].seen) ELSE engine
    /\ missed' = IF up THEN missed \ {"unsent", "unread"} ELSE missed
    /\ Ends(t)
    /\ UNCHANGED <<stored, up, ops, faults>>

\* The write or the history fails.
SetFails(t) ==
    /\ task[t].op \in RuleOps \cup ConfigOps /\ task[t].pc \in {"write", "history"}
    /\ HasLock(t) /\ Fault
    /\ missed' = missed \cup {flaw \in {"unsent"} : At(t, "rule", "history")}
    /\ Ends(t)
    /\ UNCHANGED <<stored, engine, up, ops>>

\* config set: the value is refused, or written, and its history after it.  The event has
\* the category "user", which the engine passes over.
ConfigStep(t) ==
    /\ task[t].op \in ConfigOps
    /\ \/ task[t].pc = "go" /\ (Requests(t, "write", "-") \/ Ends(t))
       \/ task[t].pc = "write" /\ HasLock(t) /\ Requests(t, "history", "-")
       \/ task[t].pc = "history" /\ HasLock(t) /\ Ends(t)
    /\ IF At(t, "config_rules", "write")
       THEN stored' \in ConfigLists /\ missed' = missed \cup {"bypassed"} /\ UNCHANGED engine
       ELSE UNCHANGED ruleVars
    /\ UNCHANGED <<up, ops, faults>>

RuleStep(t) == RuleRead(t) \/ RuleSet(t) \/ RuleWrite(t) \/ RulePublish(t) \/ SetFails(t) \/ ConfigStep(t)

-----------------------------------------------------------------------------

(* The limits in the store bind every order: while the daemon runs and no update is between
   its write and its event, an order that the engine lets pass violates no limit of the
   store, nor a default the store does not override, after any overlap of updates and after
   a crash and a restart (DynamicConfigService.set, _on_config_changed, initialize_all,
   evaluate).  Left out, until the next update or start brings the engine back to the store,
   are the three cases of missed: an event that was never published because the history
   failed, a value that config set wrote past the engine (what the store holds is the value
   of a config set given since the start), and a start that could not read the store. *)
LimitsBind ==
    (up /\ missed = {} /\ ~\E t \in Tasks : At(t, "rule", "history")) =>
        \A o \in Contexts : Passes(engine, o) => Passes(EffectiveRules(StoredOr(Seed)), o)

=============================================================================
