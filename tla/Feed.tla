-------------------------------- MODULE Feed --------------------------------
(***************************************************************************)
(* The data feed: the lock file that keeps runs apart                      *)
(* (feed/pipeline/orchestrator.py), a backfill and a daily run             *)
(* (backfill_runner.py, daily_runner.py, the collectors), the checkpoints  *)
(* they resume from (checkpoint.py), the scheduler of `feed start`         *)
(* (cli_scheduler.py), one-shot runs and `feed inject` (feed/cli.py).      *)
(*                                                                         *)
(* "sched" is the process of `feed start`, "cli" that of a command.  Each  *)
(* runs one job at a time.  The price of a day goes to two data sets, so a *)
(* day is two rows in two partitions; a quarter is one.                    *)
(***************************************************************************)
EXTENDS DataStore, Sources

CONSTANTS
    Days,          \* 1..n, the days from backfill_since on
    Quarters,      \* 1..m
    FirstPub,      \* days published at the start
    BlockedDays,   \* blocked_days
    QuarterEnd,    \* quarter -> the day after which it can be collected
    PriceRow,      \* day -> its OHLCV row
    FundRow,       \* day -> its fundamental row
    QuarterRow,    \* quarter -> its row
    MaxRuns        \* bound: commands given

VARIABLES
    pub,       \* days published so far
    lock,      \* the lock file: NoLock, Empty, Dead or the process it names
    run,       \* process -> the job it runs
    ckpt,      \* checkpoint of data.go.kr
    qckpt,     \* checkpoint of DART
    sched,     \* [up, stopping, backfilled, daily]: the scheduler's process
    runs,      \* commands given so far
    raced,     \* history: two jobs have been under way at once
    passed,    \* history: rows a source had not, or a daily run left to a backfill
    unmerged   \* history: rows of a backfill that the store did not take

feedVars == <<pub, lock, run, ckpt, qckpt, sched, runs, raced, passed, unmerged>>

Procs == {"sched", "cli"}
NoLock == "none"
Empty == "empty"
Dead == "dead"

ASSUME ProcsWrite == Procs \subseteq Writers
ASSUME PriceRowType == \A d \in Days : PriceRow[d] \in Items

Idle == [pc |-> "idle", job |-> "none", tries |-> 0, at |-> 0, to |-> 0, halt |-> FALSE,
         todo |-> <<>>, fund |-> FALSE]

Pc(p) == run[p].pc
Goto(p, pc) == run' = [run EXCEPT ![p].pc = pc]

LockPcs == {"idle", "open", "read", "unlink", "own"}
Running(r) == {p \in Procs : r[p].pc \notin LockPcs}

InitFeed ==
    /\ pub = FirstPub
    /\ lock = NoLock
    /\ run = [p \in Procs |-> Idle]
    /\ ckpt = 0 /\ qckpt = 0
    /\ sched = [up |-> FALSE, stopping |-> FALSE, backfilled |-> FALSE, daily |-> FALSE]
    /\ runs = 0
    /\ raced = FALSE
    /\ passed = {}
    /\ unmerged = {}

-----------------------------------------------------------------------------
(* The lock file *)

\* _acquire_lock: O_CREAT | O_EXCL.  The file is empty until the PID is written.
LockOpen(p) ==
    /\ Pc(p) = "open"
    /\ \/ /\ run[p].tries = 3
          /\ run' = [run EXCEPT ![p] = Idle]
          /\ UNCHANGED lock
       \/ /\ run[p].tries < 3
          /\ lock = NoLock
          /\ lock' = Empty
          /\ Goto(p, "own")
       \/ /\ run[p].tries < 3
          /\ lock # NoLock
          /\ Goto(p, "read")
          /\ UNCHANGED lock
    /\ UNCHANGED <<storeVars, pub, ckpt, qckpt, sched, runs, passed, unmerged>>

\* The live holder refuses the run; anything else counts as left behind.
LockRead(p) ==
    /\ Pc(p) = "read"
    /\ IF lock \in Procs THEN run' = [run EXCEPT ![p] = Idle] ELSE Goto(p, "unlink")
    /\ UNCHANGED <<storeVars, pub, lock, ckpt, qckpt, sched, runs, passed, unmerged>>

\* unlink(missing_ok=True): whatever is there by now.
LockUnlink(p) ==
    /\ Pc(p) = "unlink"
    /\ lock' = NoLock
    /\ run' = [run EXCEPT ![p].pc = "open", ![p].tries = @ + 1]
    /\ UNCHANGED <<storeVars, pub, ckpt, qckpt, sched, runs, passed, unmerged>>

\* The PID is written to the file that was opened, if it is still the lock.
LockOwn(p) ==
    /\ Pc(p) = "own"
    /\ lock' = IF lock = Empty THEN p ELSE lock
    /\ Goto(p, "begin")
    /\ UNCHANGED <<storeVars, pub, ckpt, qckpt, sched, runs, passed, unmerged>>

\* _save_report, then _release_lock, whoever's lock it is.
Release(p) ==
    /\ Pc(p) = "release"
    /\ lock' = NoLock
    /\ run' = [run EXCEPT ![p] = Idle]
    /\ merr' = [merr EXCEPT ![p] = FALSE]
    /\ UNCHANGED <<file, tmp, flight, found, lost, away, faults, pub, ckpt, qckpt, sched, runs, passed, unmerged>>

-----------------------------------------------------------------------------
(* A run *)

Collectable == {q \in Quarters : QuarterEnd[q] <= pub}
LastOf(S) == IF S = {} THEN 0 ELSE CHOOSE x \in S : \A y \in S : y <= x

\* generate_backfill_dates
BackfillDates(from, to) == {d \in Days : from <= d /\ d <= to}
\* _is_blocked_day
Blocked(d) == d \in BlockedDays

\* The loop over the days: a blocked one is skipped, there is nothing to wait for.  After
\* the last day the warnings are drained and DART has its turn.
ToDay(r, d) ==
    LET open == {x \in BackfillDates(d, r.to) : ~Blocked(x)}
    IN IF open = {} THEN [r EXCEPT !.pc = "corp", !.halt = FALSE, !.todo = <<>>]
       ELSE [r EXCEPT !.pc = "gov", !.at = CHOOSE x \in open : \A y \in open : x <= y,
                      !.todo = <<>>]

\* The loop over the quarters.
ToQuarter(r, q) == IF q > r.to THEN [r EXCEPT !.pc = "ind"] ELSE [r EXCEPT !.pc = "dart", !.at = q]

Become(p, r) == run' = [run EXCEPT ![p] = r]

\* _resolve_dates: from the day after the checkpoint to the last published one.
DatesLeft == BackfillDates(ckpt + 1, pub) # {}

\* run_backfill; with no date left DART is not asked either.
BeginBackfill(p) ==
    /\ Pc(p) = "begin"
    /\ run[p].job = "backfill"
    /\ IF DatesLeft THEN Become(p, ToDay([run[p] EXCEPT !.to = pub], ckpt + 1))
       ELSE Goto(p, "release")
    /\ UNCHANGED <<storeVars, pub, lock, ckpt, qckpt, sched, runs, passed, unmerged>>

\* run_daily: yesterday, whose data may not be published yet; a guard skips the run.
BeginDaily(p) ==
    /\ Pc(p) = "begin"
    /\ run[p].job = "daily"
    /\ \/ Goto(p, "release")
       \/ \E d \in {x \in {pub, pub + 1} \cap Days : ~Blocked(x)} :
            run' = [run EXCEPT ![p].pc = "gov", ![p].at = d, ![p].to = d]
    /\ UNCHANGED <<storeVars, pub, lock, ckpt, qckpt, sched, runs, passed, unmerged>>

\* _wait_out_trading_pause: the wait is ended by the stop event, or given up.
GovPaused(p) ==
    /\ Pc(p) = "gov"
    /\ run[p].job = "backfill"
    /\ (p = "sched" /\ sched.stopping /\ UNCHANGED faults) \/ Fault
    /\ Become(p, ToDay(run[p], run[p].to + 1))
    /\ UNCHANGED <<file, tmp, flight, merr, found, lost, away,
                   pub, lock, ckpt, qckpt, sched, runs, passed, unmerged>>

\* collect: the day is fetched.  A failure stops the checkpoint for the rest of the run.
GovFetch(p) ==
    LET d == run[p].at IN
    /\ Pc(p) = "gov"
    /\ \E o \in GovOutcomes :
         /\ IF d > pub THEN o = "empty" /\ UNCHANGED faults
            ELSE IF o = "rows" THEN UNCHANGED faults ELSE Fault
         /\ Become(p, CASE o = "rows" -> [run[p] EXCEPT !.pc = "write", !.fund = TRUE,
                                              !.todo = <<PriceRow[d], FundRow[d]>>]
                        [] o = "empty" -> ToDay(run[p], d + 1)
                        [] o = "raise" -> ToDay([run[p] EXCEPT !.halt = TRUE], d + 1)
                        [] o = "stop" -> ToDay(run[p], run[p].to + 1))
         /\ passed' = IF o = "empty" /\ run[p].job = "backfill"
                      THEN passed \cup {PriceRow[d], FundRow[d]} ELSE passed
    /\ UNCHANGED <<file, tmp, flight, merr, found, lost, away,
                   pub, lock, ckpt, qckpt, sched, runs, unmerged>>

\* What follows a failure of a store write, by where it was made.
AfterRaise(p) ==
    CASE Pc(p) = "write" -> ToDay([run[p] EXCEPT !.halt = TRUE], run[p].at + 1)
      [] Pc(p) = "qwrite" -> [run[p] EXCEPT !.pc = "ind", !.todo = <<>>]
      [] Pc(p) = "iwrite" -> [run[p] EXCEPT !.pc = "release", !.todo = <<>>]
      [] Pc(p) = "inject" -> Idle

WritePcs == {"write", "qwrite", "iwrite", "inject"}
Next1(p) == [run EXCEPT ![p].todo = Tail(@)]

\* The rows of the next write.  compute writes back the daily rows it has read.
RowsToWrite(p) ==
    LET i == Head(run[p].todo) IN
    IF Pc(p) = "iwrite" THEN {FundRow[d] : d \in Days} \cap file[PartOf[i]].rows ELSE {i}

Refused(p) == IF run[p].job = "backfill" /\ Pc(p) # "iwrite" THEN {Head(run[p].todo)} ELSE {}

\* store.write: one partition after the other.
StoreStep(p) ==
    /\ Pc(p) \in WritePcs
    /\ run[p].todo # <<>>
    /\ LET part == PartOf[Head(run[p].todo)] IN
       \/ BeginWrite(p, part, RowsToWrite(p)) /\ UNCHANGED <<run, unmerged>>
       \/ WriteUnmerged(p, part) /\ run' = Next1(p) /\ unmerged' = unmerged \cup Refused(p)
       \/ Replace(p) /\ run' = Next1(p) /\ UNCHANGED unmerged
       \/ ReplaceWarns(p) /\ run' = Next1(p) /\ unmerged' = unmerged \cup Refused(p)
       \/ ReplaceRaises(p) /\ Become(p, AfterRaise(p)) /\ UNCHANGED unmerged
    /\ UNCHANGED <<pub, lock, ckpt, qckpt, sched, runs, passed>>

\* Mutant: the checkpoint follows every day that was stored.
AdvanceAlways(p, was, to) == IF merr[p] THEN was ELSE to

\* Checkpoint.save by rename, after the writes of the day and never past a failure.
Advance(p, was, to) == IF run[p].halt \/ merr[p] THEN was ELSE to

\* The warnings of the day are drained and decide about the checkpoint.
GovStored(p) ==
    /\ Pc(p) = "write" /\ run[p].todo = <<>>
    /\ ckpt' = IF run[p].job = "daily" THEN ckpt ELSE Advance(p, ckpt, run[p].at)
    /\ merr' = [merr EXCEPT ![p] = FALSE]
    /\ Become(p, ToDay(run[p], run[p].at + 1))
    /\ UNCHANGED <<file, tmp, flight, found, lost, away, faults,
                   pub, lock, qckpt, sched, runs, passed, unmerged>>

\* checkpoint.save raises like a failed fetch.
GovUnsaved(p) ==
    /\ Pc(p) = "write" /\ run[p].todo = <<>> /\ run[p].job = "backfill"
    /\ ~run[p].halt /\ ~merr[p]
    /\ Fault
    /\ Become(p, ToDay([run[p] EXCEPT !.halt = TRUE], run[p].at + 1))
    /\ UNCHANGED <<file, tmp, flight, merr, found, lost, away,
                   pub, lock, ckpt, qckpt, sched, runs, passed, unmerged>>

-----------------------------------------------------------------------------
(* DART *)

\* _collect_latest_quarter: a daily run takes the latest quarter only.
FirstQuarter(job, last) == IF job = "daily" THEN last ELSE qckpt + 1

\* DARTCollector.collect: every quarter after the checkpoint, if there is one.
DartBegin(p) ==
    LET last == LastOf(Collectable) IN
    /\ Pc(p) = "corp"
    /\ \E o \in CorpCodeOutcomes :
         /\ IF o = "rows" THEN UNCHANGED faults ELSE Fault
         /\ IF o # "rows" \/ last <= qckpt THEN Goto(p, "ind")
            ELSE Become(p, ToQuarter([run[p] EXCEPT !.to = last],
                                     FirstQuarter(run[p].job, last)))
    /\ merr' = [merr EXCEPT ![p] = FALSE]
    /\ UNCHANGED <<file, tmp, flight, found, lost, away,
                   pub, lock, ckpt, qckpt, sched, runs, passed, unmerged>>

\* _fetch_quarter
DartFetch(p) ==
    LET q == run[p].at IN
    /\ Pc(p) = "dart"
    /\ \E o \in DartOutcomes :
         /\ IF o = "rows" THEN UNCHANGED faults ELSE Fault
         /\ Become(p, CASE o = "rows" -> [run[p] EXCEPT !.pc = "qwrite", !.fund = TRUE,
                                              !.todo = <<QuarterRow[q]>>]
                        [] o = "empty" -> ToQuarter(run[p], q + 1)
                        [] o = "raise" -> ToQuarter([run[p] EXCEPT !.halt = TRUE], q + 1)
                        [] o = "stop" -> [run[p] EXCEPT !.pc = "ind"])
         /\ passed' = IF o = "empty" THEN passed \cup {QuarterRow[q]} ELSE passed
    /\ UNCHANGED <<file, tmp, flight, merr, found, lost, away,
                   pub, lock, ckpt, qckpt, sched, runs, unmerged>>

\* The failures counted before and after the write decide about the quarter's checkpoint.
\* A daily run passes over the quarters before the one it has stored.
DartStored(p) ==
    /\ Pc(p) = "qwrite" /\ run[p].todo = <<>>
    /\ qckpt' = Advance(p, qckpt, run[p].at)
    /\ passed' = IF run[p].job = "daily" /\ qckpt' # qckpt
                 THEN passed \cup {QuarterRow[q] : q \in (qckpt + 1)..(run[p].at - 1)}
                 ELSE passed
    /\ merr' = [merr EXCEPT ![p] = FALSE]
    /\ Become(p, ToQuarter(run[p], run[p].at + 1))
    /\ UNCHANGED <<file, tmp, flight, found, lost, away, faults,
                   pub, lock, ckpt, sched, runs, unmerged>>

\* _compute_indicators: daily rows are joined with the quarters and written back.
Indicators(p) ==
    /\ Pc(p) = "ind"
    /\ LET part == PartOf[FundRow[1]]
           both == /\ run[p].fund /\ Readable(part)
                   /\ file[part].rows \cap {FundRow[d] : d \in Days} # {}
                   /\ file[part].rows \cap {QuarterRow[q] : q \in Quarters} # {}
       IN run' = IF both THEN [run EXCEPT ![p].pc = "iwrite", ![p].todo = <<FundRow[1]>>]
                 ELSE [run EXCEPT ![p].pc = "release"]
    /\ UNCHANGED <<storeVars, pub, lock, ckpt, qckpt, sched, runs, passed, unmerged>>

IndicatorsStored(p) ==
    /\ Pc(p) = "iwrite" /\ run[p].todo = <<>>
    /\ merr' = [merr EXCEPT ![p] = FALSE]
    /\ Goto(p, "release")
    /\ UNCHANGED <<file, tmp, flight, found, lost, away, faults,
                   pub, lock, ckpt, qckpt, sched, runs, passed, unmerged>>

-----------------------------------------------------------------------------
(* The scheduler and the commands *)

\* FeedOrchestrator.run_backfill, run_daily: the lock first.
StartJob(p, job) == run' = [run EXCEPT ![p] = [Idle EXCEPT !.pc = "open", !.job = job]]

\* run_scheduler_loop: the backfill of the day, then its daily run, once each.
SchedBackfill ==
    /\ sched.up /\ ~sched.stopping /\ ~sched.backfilled
    /\ Pc("sched") = "idle"
    /\ sched' = [sched EXCEPT !.backfilled = TRUE]
    /\ StartJob("sched", "backfill")
    /\ UNCHANGED <<storeVars, pub, lock, ckpt, qckpt, runs, passed, unmerged>>

SchedDaily ==
    /\ sched.up /\ ~sched.stopping /\ sched.backfilled /\ ~sched.daily
    /\ Pc("sched") = "idle"
    /\ sched' = [sched EXCEPT !.daily = TRUE]
    /\ StartJob("sched", "daily")
    /\ UNCHANGED <<storeVars, pub, lock, ckpt, qckpt, runs, passed, unmerged>>

\* The date changes, which the loop sees between two passes.  Both times of the schedule
\* lie in the day, so a scheduler that is up has run both jobs by then.
NewDay ==
    /\ Pc("sched") = "idle"
    /\ sched.up => sched.backfilled /\ sched.daily
    /\ pub' = IF pub + 1 \in Days THEN pub + 1 ELSE pub
    /\ sched' = [sched EXCEPT !.backfilled = FALSE, !.daily = FALSE]
    /\ UNCHANGED <<storeVars, lock, run, ckpt, qckpt, runs, passed, unmerged>>

\* SIGTERM sets the stop event; the loop ends after the job.
SchedStop ==
    /\ sched.up /\ ~sched.stopping
    /\ Fault
    /\ sched' = [sched EXCEPT !.stopping = TRUE]
    /\ UNCHANGED <<file, tmp, flight, merr, found, lost, away,
                   pub, lock, run, ckpt, qckpt, runs, passed, unmerged>>

SchedExit ==
    /\ sched.up /\ sched.stopping /\ Pc("sched") = "idle"
    /\ sched' = [sched EXCEPT !.up = FALSE]
    /\ UNCHANGED <<storeVars, pub, lock, run, ckpt, qckpt, runs, passed, unmerged>>

SchedStart ==
    /\ ~sched.up
    /\ sched' = [up |-> TRUE, stopping |-> FALSE, backfilled |-> FALSE, daily |-> FALSE]
    /\ UNCHANGED <<storeVars, pub, lock, run, ckpt, qckpt, runs, passed, unmerged>>

\* feed run backfill, feed run daily; feed inject takes no lock.
Command ==
    /\ Pc("cli") = "idle"
    /\ runs < MaxRuns
    /\ runs' = runs + 1
    /\ \/ \E job \in {"backfill", "daily"} : StartJob("cli", job)
       \/ \E d \in {pub} :
            run' = [run EXCEPT !["cli"] = [Idle EXCEPT !.pc = "inject", !.job = "inject",
                                                       !.todo = <<PriceRow[d]>>]]
    /\ UNCHANGED <<storeVars, pub, lock, ckpt, qckpt, sched, passed, unmerged>>

\* inject_dataframe returns; a warning of the store is not looked at.
InjectDone ==
    /\ Pc("cli") = "inject" /\ run["cli"].todo = <<>>
    /\ merr' = [merr EXCEPT !["cli"] = FALSE]
    /\ run' = [run EXCEPT !["cli"] = Idle]
    /\ UNCHANGED <<file, tmp, flight, found, lost, away, faults,
                   pub, lock, ckpt, qckpt, sched, runs, passed, unmerged>>

\* A process is killed: the lock file stays and names no process any more.
Crash(p) ==
    /\ Pc(p) # "idle"
    /\ Fault
    /\ StoreCrash(p)
    /\ lock' = IF lock = p THEN Dead ELSE lock
    /\ run' = [run EXCEPT ![p] = Idle]
    /\ sched' = IF p = "sched" THEN [sched EXCEPT !.up = FALSE] ELSE sched
    /\ UNCHANGED <<pub, ckpt, qckpt, runs, passed, unmerged>>

FeedMaintenance ==
    /\ Maintenance
    /\ UNCHANGED <<pub, lock, run, ckpt, qckpt, sched, runs, passed, unmerged>>

ProcStep(p) ==
    \/ LockOpen(p) \/ LockRead(p) \/ LockUnlink(p) \/ LockOwn(p) \/ Release(p)
    \/ BeginBackfill(p) \/ BeginDaily(p)
    \/ GovPaused(p) \/ GovFetch(p)
    \/ StoreStep(p) \/ GovStored(p) \/ GovUnsaved(p)
    \/ DartBegin(p) \/ DartFetch(p) \/ DartStored(p)
    \/ Indicators(p) \/ IndicatorsStored(p)

FeedStep ==
    \/ \E p \in Procs : ProcStep(p) \/ Crash(p)
    \/ SchedBackfill \/ SchedDaily \/ NewDay \/ SchedStop \/ SchedExit \/ SchedStart
    \/ Command \/ InjectDone \/ FeedMaintenance

\* Bound: what two jobs do to the store at once is not followed any further.
Alone(A) == ~raced /\ A /\ raced' = (Cardinality(Running(run')) > 1)

FeedNext == Alone(FeedStep)

-----------------------------------------------------------------------------
DayRows(d) == {PriceRow[d], FundRow[d]}
Accounted(rows) == \A i \in rows : Stored(i) \/ i \in lost \cup passed \cup unmerged

\* Short of a disk fault, the quarantine and two jobs at once, a stored row stays stored:
\* through crashes between the temporary file and the rename, stale locks, merges that
\* fail and runs that start over (store.py, orchestrator.py).  Who deletes a dataset by
\* command (ante data delete) is no step of this model.
StoredRowsSurvive ==
    [][~raced' => \A i \in Items : Stored(i) => Stored(i)' \/ i \in lost']_<<storeVars, feedVars>>

=============================================================================
