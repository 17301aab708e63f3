------------------------------ MODULE Research ------------------------------
(***************************************************************************)
(* The offline half of the system: the data feed and the backtests that    *)
(* read its store.  In mode "store" a backtest reads the OHLCV partitions  *)
(* while the feed, the commands and the maintenance go on; in mode "run"   *)
(* the store is left alone and the simulation is followed.                 *)
(***************************************************************************)
EXTENDS Feed, Backtest

VARIABLE mode
vars == <<storeVars, feedVars, btVars, mode>>

Init ==
    /\ InitStore /\ InitFeed /\ InitBt /\ InitSim
    /\ mode = "store" \/ (mode = "run" /\ \A p \in Parts : file[p] = Absent)

OhlcvParts == {PartOf[PriceRow[d]] : d \in Days \ BlockedDays}

\* ante backtest run, another of the commands.
BacktestBegin ==
    /\ runs < MaxRuns
    /\ runs' = runs + 1
    /\ ReadOpen(OhlcvParts)
    /\ UNCHANGED <<storeVars, pub, lock, run, ckpt, qckpt, sched, raced, passed, unmerged>>

BacktestRead == ReadNext /\ UNCHANGED <<storeVars, feedVars>>

Next ==
    \/ /\ mode = "store"
       /\ \/ FeedNext /\ UNCHANGED btVars
          \/ BacktestBegin
          \/ BacktestRead
       /\ UNCHANGED mode
    \/ /\ mode = "run"
       /\ SimNext
       /\ UNCHANGED <<storeVars, feedVars, mode>>

\* The event loop of a process that is alive goes on, days pass, and `feed start` is run
\* again after it has ended.
Fairness ==
    /\ WF_vars(mode = "store" /\ Alone(ProcStep("sched")) /\ UNCHANGED <<btVars, mode>>)
    /\ WF_vars(mode = "store" /\ Alone(ProcStep("cli") \/ InjectDone) /\ UNCHANGED <<btVars, mode>>)
    /\ WF_vars(mode = "store" /\ Alone(SchedBackfill \/ SchedDaily) /\ UNCHANGED <<btVars, mode>>)
    /\ WF_vars(mode = "store" /\ Alone(NewDay) /\ UNCHANGED <<btVars, mode>>)
    /\ WF_vars(mode = "store" /\ Alone(SchedExit \/ SchedStart) /\ UNCHANGED <<btVars, mode>>)

Spec == Init /\ [][Next]_vars /\ Fairness

-----------------------------------------------------------------------------
\* A backtest that loaded its data has every row the partitions held when it listed them:
\* one that is damaged, moved away or replaced while it reads fails it or still gives
\* those rows, unless it was quarantined and written anew (store.py, data_provider.py).
BacktestSeesAll ==
    bt.pc = "loaded" /\ ~raced => \A i \in bt.due : PartOf[i] \in away \/ i \in bt.got

\* Every published day is collected in the end, whatever crashes, stale locks and failed
\* fetches come before: the checkpoint never passes a day that failed, the scheduler runs
\* each day and resumes from the checkpoint (cli_scheduler.py, orchestrator.py,
\* backfill_runner.py).  Excepted are days the code passes over: a blocked day, an empty
\* answer, a merge the store refused, rows damaged later; and two jobs at once (raced).
FeedCatchesUp ==
    []<>(\/ mode = "run" \/ raced
         \/ \A d \in Days \ BlockedDays : pub >= d => Accounted(DayRows(d)))

=============================================================================
