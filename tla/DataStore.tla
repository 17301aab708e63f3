----------------------------- MODULE DataStore ------------------------------
(***************************************************************************)
(* The Parquet store (data/store.py) as several processes use it: a data   *)
(* set is a directory of partitions, one file each; a write reads the      *)
(* file, merges, writes a temporary file beside it and renames that over   *)
(* the partition.  No lock is held: two processes may interleave between   *)
(* the read and the rename.                                                *)
(*                                                                         *)
(* A file is absent, zero bytes long (left by an interrupted write of an   *)
(* older release), readable, or damaged.  A damaged file keeps the rows it *)
(* had in the model, so that what was lost can be named.                   *)
(***************************************************************************)
EXTENDS Naturals, FiniteSets, Sequences

CONSTANTS
    Items,        \* rows, by natural key
    Parts,        \* partitions
    PartOf,       \* the partition a row belongs to
    PartNo,       \* partitions in the order of their names
    ZeroParts,    \* partitions an older release may have left empty
    Writers,      \* processes that write
    MaxFaults     \* bound: faults of disk, network and processes in a behaviour

VARIABLES
    file,      \* partition -> its file
    tmp,       \* partition -> the temporary files beside it, by writer, and orphans
    flight,    \* writer -> the write it has in hand
    merr,      \* writer -> _pending_warnings has a store_merge
    found,     \* a damaged file validate(fix) is about to move away, or Nothing
    lost,      \* history: rows a disk fault or the quarantine has taken away
    away,      \* history: partitions the quarantine has moved away
    faults     \* faults so far

storeVars == <<file, tmp, flight, merr, found, lost, away, faults>>

Orphan == "orphan"
Nothing == "nothing"

ASSUME PartOfType == \A i \in Items : PartOf[i] \in Parts
ASSUME NothingNoPart == Nothing \notin Parts

NoWrite == [part |-> Nothing, rows |-> {}, fresh |-> FALSE]
Absent == [st |-> "absent", rows |-> {}]
Ok(rows) == [st |-> "ok", rows |-> rows]

InitStore ==
    /\ \E z \in SUBSET ZeroParts :
         file = [p \in Parts |-> IF p \in z THEN [st |-> "zero", rows |-> {}] ELSE Absent]
    /\ tmp = [p \in Parts |-> {}]
    /\ flight = [w \in Writers |-> NoWrite]
    /\ merr = [w \in Writers |-> FALSE]
    /\ found = Nothing
    /\ lost = {}
    /\ away = {}
    /\ faults = 0

Fault == faults < MaxFaults /\ faults' = faults + 1

Readable(p) == file[p].st = "ok"
\* filepath.exists() and not _is_zero_byte: what is there is merged, not replaced.
Occupied(p) == file[p].st \in {"ok", "damaged"}
Stored(i) == Readable(PartOf[i]) /\ i \in file[PartOf[i]].rows

\* _dedup_sort_by_key: the rows of the file and the new ones, one per natural key.
Merged(p, rows) == file[p].rows \cup rows

\* _record_merge_failure: the file stays, a store_merge warning is kept.
MergeFailure(w) ==
    /\ merr' = [merr EXCEPT ![w] = TRUE]
    /\ flight' = [flight EXCEPT ![w] = NoWrite]

\* _persist_partition up to the temporary file.
OpenWrite(w, p, rows) ==
    /\ flight[w] = NoWrite
    /\ ~Occupied(p) \/ Readable(p)
    /\ flight' = [flight EXCEPT ![w] =
         [part |-> p, rows |-> IF Occupied(p) THEN Merged(p, rows) ELSE rows,
          fresh |-> ~Occupied(p)]]
    /\ tmp' = [tmp EXCEPT ![p] = @ \cup {w}]
    /\ UNCHANGED <<file, merr, found, lost, away, faults>>

\* Mutant: the partition itself is opened for writing and is empty until the end.
OpenWriteInPlace(w, p, rows) ==
    /\ flight[w] = NoWrite
    /\ ~Occupied(p) \/ Readable(p)
    /\ flight' = [flight EXCEPT ![w] =
         [part |-> p, rows |-> IF Occupied(p) THEN Merged(p, rows) ELSE rows,
          fresh |-> ~Occupied(p)]]
    /\ file' = [file EXCEPT ![p] = [st |-> "zero", rows |-> {}]]
    /\ tmp' = [tmp EXCEPT ![p] = @ \cup {w}]
    /\ UNCHANGED <<merr, found, lost, away, faults>>

BeginWrite(w, p, rows) == OpenWrite(w, p, rows)

\* The partition cannot be read or merged: damaged, or an error of this attempt.
WriteUnmerged(w, p) ==
    /\ flight[w] = NoWrite
    /\ Occupied(p)
    /\ (~Readable(p) /\ UNCHANGED faults) \/ (Readable(p) /\ Fault)
    /\ MergeFailure(w)
    /\ UNCHANGED <<file, tmp, found, lost, away>>

\* _atomic_write_parquet: the temporary file is renamed over the partition.
Replace(w) ==
    LET p == flight[w].part IN
    /\ p # Nothing
    /\ w \in tmp[p]
    /\ file' = [file EXCEPT ![p] = Ok(flight[w].rows)]
    /\ tmp' = [tmp EXCEPT ![p] = @ \ {w}]
    /\ flight' = [flight EXCEPT ![w] = NoWrite]
    /\ UNCHANGED <<merr, found, lost, away, faults>>

\* The write fails, or its temporary file was swept away: a merge becomes a warning...
ReplaceWarns(w) ==
    LET p == flight[w].part IN
    /\ p # Nothing
    /\ ~flight[w].fresh
    /\ (w \notin tmp[p] /\ UNCHANGED faults) \/ (w \in tmp[p] /\ Fault)
    /\ tmp' = [tmp EXCEPT ![p] = @ \ {w}]
    /\ MergeFailure(w)
    /\ UNCHANGED <<file, found, lost, away>>

\* ...and the first write of a partition raises.
ReplaceRaises(w) ==
    LET p == flight[w].part IN
    /\ p # Nothing
    /\ flight[w].fresh
    /\ (w \notin tmp[p] /\ UNCHANGED faults) \/ (w \in tmp[p] /\ Fault)
    /\ tmp' = [tmp EXCEPT ![p] = @ \ {w}]
    /\ flight' = [flight EXCEPT ![w] = NoWrite]
    /\ UNCHANGED <<file, merr, found, lost, away>>

\* A process dies: the temporary file it was writing stays.
StoreCrash(w) ==
    /\ tmp' = [p \in Parts |-> IF w \in tmp[p] THEN (tmp[p] \ {w}) \cup {Orphan} ELSE tmp[p]]
    /\ flight' = [flight EXCEPT ![w] = NoWrite]
    /\ merr' = [merr EXCEPT ![w] = FALSE]
    /\ UNCHANGED <<file, found, lost, away>>

-----------------------------------------------------------------------------
(* ante data validate --fix, in a process of its own *)

\* _sweep_stale_tmp does not tell an orphan from a file in use.
SweepTmp ==
    /\ \E p \in Parts : tmp[p] # {}
    /\ Fault
    /\ tmp' = [p \in Parts |-> {}]
    /\ UNCHANGED <<file, flight, merr, found, lost, away>>

\* validate: a file that cannot be read...
FindDamaged ==
    /\ found = Nothing
    /\ \E p \in Parts : file[p].st \in {"damaged", "zero"} /\ found' = p
    /\ Fault
    /\ UNCHANGED <<file, tmp, flight, merr, lost, away>>

\* ..._quarantine_corrupt: is moved away, whatever it has become.
Quarantine ==
    /\ found # Nothing
    /\ file' = [file EXCEPT ![found] = Absent]
    /\ lost' = lost \cup file[found].rows
    /\ away' = away \cup {found}
    /\ found' = Nothing
    /\ UNCHANGED <<tmp, flight, merr, faults>>

\* The disk: a file loses its contents.
Damage ==
    \E p \in Parts :
        /\ Readable(p)
        /\ Fault
        /\ file' = [file EXCEPT ![p].st = "damaged"]
        /\ lost' = lost \cup file[p].rows
        /\ UNCHANGED <<tmp, flight, merr, found, away>>

\* What changes files apart from the writers.  ante data delete, by which the operator gives
\* a dataset up (data/datasets.py: delete_dataset), is left out.
Maintenance == SweepTmp \/ FindDamaged \/ Quarantine \/ Damage

=============================================================================
