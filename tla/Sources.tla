------------------------------ MODULE Sources -------------------------------
(***************************************************************************)
(* What a fetch from data.go.kr or DART can come to (feed/sources), and    *)
(* what the collectors make of it (feed/pipeline/data_go_kr_collector.py,  *)
(* dart_collector.py, feed/transform/validate.py).                         *)
(*                                                                         *)
(* An answer to one request is known by the class of its code; a row by    *)
(* the check it fails.  The outcome of a fetch is "rows", "empty", "raise" *)
(* (retried by a later run) or "stop" (daily limit or key: the source is   *)
(* left alone for this run).                                               *)
(***************************************************************************)
EXTENDS Naturals, Sequences

CONSTANTS
    MaxRetries,   \* max_retries
    MaxPages      \* bound: pages of a date, batches of a quarter

Answers == {"ok", "nodata", "timeout", "http", "retry", "once", "skip", "limit", "critical"}

\* _fetch_page, _fetch_multi_acnt: the attempts of one request, rs[i] the answer to the i-th.
\* RETRY_ONCE gives up at the second attempt, the others at the last.
RequestOutcome(rs) ==
    LET try[i \in 1..MaxRetries + 1] ==
          IF i > MaxRetries THEN "raise"
          ELSE CASE rs[i] = "ok" -> "rows"
                 [] rs[i] = "nodata" -> "empty"
                 [] rs[i] \in {"http", "skip"} -> "raise"
                 [] rs[i] \in {"limit", "critical"} -> "stop"
                 [] rs[i] = "once" -> IF i >= 2 THEN "raise" ELSE try[i + 1]
                 [] rs[i] \in {"timeout", "retry"} -> try[i + 1]
    IN try[1]

\* _download_corp_code_zip: the same, where a code that is no retry is tried again too.
DownloadOutcome(rs) ==
    LET try[i \in 1..MaxRetries + 1] ==
          IF i > MaxRetries THEN "raise"
          ELSE CASE rs[i] = "ok" -> "rows"
                 [] rs[i] = "http" -> "raise"
                 [] rs[i] \in {"limit", "critical"} -> "stop"
                 [] rs[i] = "once" -> IF i >= 2 THEN "raise" ELSE try[i + 1]
                 [] rs[i] \in {"timeout", "retry", "skip", "nodata"} -> try[i + 1]
    IN try[1]

Requests == {RequestOutcome(rs) : rs \in [1..MaxRetries -> Answers]}

\* fetch_by_date: pages until totalCount; an empty page before that is an error.
FetchByDate(pages, total) ==
    LET from[i \in 1..MaxPages + 1] ==
          IF i > total THEN "rows"
          ELSE CASE pages[i] = "rows" -> from[i + 1]
                 [] pages[i] = "empty" -> "raise"
                 [] OTHER -> pages[i]
    IN IF pages[1] \in {"rows", "empty"} /\ total = 0 THEN "empty" ELSE from[1]

\* fetch_financial: every batch, the ones without data contribute nothing.
FetchFinancial(batches) ==
    CASE \E i \in 1..MaxPages : batches[i] \notin {"rows", "empty"}
           -> batches[CHOOSE i \in 1..MaxPages :
                        /\ batches[i] \notin {"rows", "empty"}
                        /\ \A j \in 1..i - 1 : batches[j] \in {"rows", "empty"}]
      [] \A i \in 1..MaxPages : batches[i] = "empty" -> "empty"
      [] OTHER -> "rows"

-----------------------------------------------------------------------------
(* From the rows of an answer to those that are stored. *)

Rows == {"good", "odd", "no_symbol", "no_field", "unusable"}

\* is_krx_symbol
FilterInvalidSymbols(rows) == rows \ {"no_symbol"}
\* The required fields are there and not null.
FilterSchemaInvalid(rows) == rows \ {"no_field"}
\* validate_schema, a layer of validate_all that blocks the batch.
SchemaValid(rows) == "no_field" \notin rows
\* The layers that only warn: prices, volumes, dates out of order.
BusinessWarnings(rows) == rows \cap {"odd"}
\* What is blocked, not what is warned about, keeps a batch from being stored.
ValidationPassed(rows) == SchemaValid(rows \ BusinessWarnings(rows))
\* normalize_ohlcv, normalize_fundamental drop what has no usable value, and so does
\* the normaliser of the DART accounts.
Normalized(rows) == rows \ {"unusable"}
NormalizedQuarter(rows) == rows \ {"unusable", "no_field", "no_symbol"}

\* DataGoKrCollector.collect: stored_ok says that a row was handed to the store.
Collected(rows) ==
    LET survivors == FilterSchemaInvalid(FilterInvalidSymbols(rows))
    IN IF survivors # {} /\ ValidationPassed(survivors) /\ Normalized(survivors) # {}
       THEN "rows" ELSE "empty"

\* DARTCollector._fetch_quarter: rows of which none can be stored hold the checkpoint back.
QuarterStatus(rows) == IF NormalizedQuarter(rows) = {} THEN "raise" ELSE "rows"

GovOutcomes ==
    LET fetched == {FetchByDate(ps, n) : ps \in [1..MaxPages -> Requests], n \in 0..MaxPages}
    IN (fetched \ {"rows"})
         \cup IF "rows" \in fetched THEN {Collected(rs) : rs \in SUBSET Rows \ {{}}} ELSE {}

DartOutcomes ==
    LET fetched == {FetchFinancial(bs) : bs \in [1..MaxPages -> Requests]}
    IN (fetched \ {"rows"})
         \cup IF "rows" \in fetched THEN {QuarterStatus(rs) : rs \in SUBSET Rows \ {{}}} ELSE {}

\* _load_corp_codes: without the map of companies there is nothing to ask for.
CorpCodeOutcomes == {DownloadOutcome(rs) : rs \in [1..MaxRetries -> Answers]} \cup {"empty"}

=============================================================================
