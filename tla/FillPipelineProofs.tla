------------------------ MODULE FillPipelineProofs --------------------------
(***************************************************************************)
(* The fill pipeline keeps its books for every set of orders, quantities   *)
(* and number of crashes and errors, with or without the stream.           *)
(***************************************************************************)
EXTENDS FillPipeline, SequenceTheorems, TLAPS

-----------------------------------------------------------------------------
(* The inductive invariant, one part per concern. *)

\* What the task inside FillApplier has established: it has a tracked order that
\* was not completed, its transaction is an advance, and after the COMMIT the row
\* is what it wrote, because it still holds the write lock.
ApplierKnows ==
    /\ apply.pc \in {"looked", "staged"} => status[apply.order] \notin {"none", "filled"}
    /\ apply.pc = "staged" => apply.cum > recorded[apply.order]
    /\ apply.pc = "committed" =>
          /\ recorded[apply.order] = apply.cum
          /\ status[apply.order] = FillStatus(apply.order, apply.cum)

\* What the status of an order says of its recorded quantity.
StatusKnows ==
    \A o \in Orders :
        /\ status[o] = "none" => recorded[o] = 0
        /\ status[o] = "filled" => recorded[o] >= Ordered[o]

Books == TradesMatchRecorded /\ ApplierKnows /\ StatusKnows


\* The broker: executed shares and notifications stay natural numbers.
LEMMA BrokerTypesNext == BrokerTypes /\ [Next]_vars => BrokerTypes'
  <1> SUFFICES ASSUME BrokerTypes, [Next]_vars PROVE BrokerTypes'
    OBVIOUS
  <1>1. ASSUME NEW o \in Orders, Accept(o) PROVE BrokerTypes'
    BY <1>1 DEF BrokerTypes, Accept
  <1>2. ASSUME NEW o \in Orders, Execute(o) PROVE BrokerTypes'
    BY <1>2 DEF BrokerTypes, Execute
  <1>3. ASSUME NEW o \in Orders, Close(o) PROVE BrokerTypes'
    BY <1>3 DEF BrokerTypes, Close
  <1>4. ASSUME NEW o \in Orders, ApplyStreamIncrement(o) PROVE BrokerTypes'
    BY <1>4 DEF BrokerTypes, ApplyStreamIncrement
  <1>5. CASE Crash
    BY <1>5 DEF BrokerTypes, Crash
  <1>6. CASE UNCHANGED brokerVars
    BY <1>6 DEF BrokerTypes, brokerVars
  <1> QED
    BY <1>1, <1>2, <1>3, <1>4, <1>5, <1>6
       DEF Next, ApplierStep, PublisherStep, vars, brokerVars, ledgerVars, pubVars, boundVars,
       Open, ExpireStale, MarkTerminal, ApplyCumulative, Stage, Commit, Resume, Rollback, Fetch,
       Publish, MarkPublished, MarkFails, PublishHandlerFails, Restart

\* The bounds on crashes and errors are kept.
LEMMA BoundTypesNext == BoundTypes /\ [Next]_vars => BoundTypes'
  <1> SUFFICES ASSUME BoundTypes, [Next]_vars PROVE BoundTypes'
    OBVIOUS
  <1>1. CASE Rollback
    BY <1>1, BoundsAssumption DEF BoundTypes, Rollback
  <1>2. CASE MarkFails
    BY <1>2, BoundsAssumption DEF BoundTypes, MarkFails
  <1>3. ASSUME NEW i \in batch, PublishHandlerFails(i) PROVE BoundTypes'
    BY <1>3, BoundsAssumption DEF BoundTypes, PublishHandlerFails
  <1>4. CASE Crash
    BY <1>4, BoundsAssumption DEF BoundTypes, Crash
  <1>5. CASE UNCHANGED boundVars
    BY <1>5 DEF BoundTypes, boundVars
  <1> QED
    BY <1>1, <1>2, <1>3, <1>4, <1>5
       DEF Next, ApplierStep, PublisherStep, vars, brokerVars, ledgerVars, pubVars, boundVars,
       Accept, Execute, Close, Open, ExpireStale, MarkTerminal, ApplyCumulative,
       ApplyStreamIncrement, Stage, Commit, Resume, Fetch, Publish, MarkPublished, Restart

\* The committed rows: what a fill writes has its type, and the position stays
\* a natural number because on_trade clamps a sell.
LEMMA LedgerTypesNext == TypeOK /\ Books /\ [Next]_vars => LedgerTypes'
  <1> SUFFICES ASSUME TypeOK, Books, [Next]_vars PROVE LedgerTypes'
    OBVIOUS
  <1>1. ASSUME NEW o \in Orders, Open(o) PROVE LedgerTypes'
    BY <1>1 DEF Open, ledgerVars, TypeOK, LedgerTypes, Statuses, OpenStatuses
  <1>2. ASSUME NEW o \in Orders, ExpireStale(o) PROVE LedgerTypes'
    BY <1>2 DEF ExpireStale, TypeOK, LedgerTypes, Statuses, OpenStatuses
  <1>3. ASSUME NEW o \in Orders, NEW st \in EndStatuses, MarkTerminal(o, st) PROVE LedgerTypes'
    BY <1>3, EndStatusesAssumption DEF MarkTerminal, TypeOK, LedgerTypes, Statuses, OpenStatuses
  <1>4. CASE Commit
    <2>1. apply \in [pc : {"staged"}, order : Orders, cum : Nat] /\ apply.cum > recorded[apply.order]
      BY <1>4 DEF Commit, TypeOK, ProcessTypes, Books, ApplierKnows, Idle
    <2> DEFINE o == apply.order
               row == [order |-> o, cum |-> apply.cum, qty |-> apply.cum - recorded[o],
                       published |-> FALSE]
               Row == [order : Orders, cum : Nat, qty : Nat, published : BOOLEAN]
    <2>2. row \in Row /\ outbox' = Append(outbox, row) /\ outbox \in Seq(Row)
      BY <1>4, <2>1 DEF Commit, TypeOK, LedgerTypes
    <2>3. outbox' \in Seq(Row)
      BY <2>2, AppendProperties
    <2>4. position' \in Nat
      BY <1>4, <2>1 DEF Commit, OnTrade, TypeOK, LedgerTypes
    <2>5. recorded' \in [Orders -> Nat] /\ traded' \in [Orders -> Nat]
      BY <1>4, <2>1 DEF Commit, TypeOK, LedgerTypes
    <2>6. status' \in [Orders -> Statuses]
      BY <1>4, <2>1 DEF Commit, TypeOK, LedgerTypes, FillStatus, Statuses, OpenStatuses
    <2> QED
      BY <2>3, <2>4, <2>5, <2>6 DEF LedgerTypes
  <1>5. ASSUME NEW i \in batch, MarkPublished(i) PROVE LedgerTypes'
    <2> DEFINE Row == [order : Orders, cum : Nat, qty : Nat, published : BOOLEAN]
    <2>1. i \in 1..Len(outbox) /\ outbox \in Seq(Row)
      BY <1>5 DEF TypeOK, PublisherTypes, LedgerTypes
    <2>2. outbox[i] \in Row
      BY <2>1, ElementOfSeq
    <2>3. [outbox[i] EXCEPT !.published = TRUE] \in Row
      BY <2>2
    <2>4. outbox' = [outbox EXCEPT ![i] = [outbox[i] EXCEPT !.published = TRUE]]
      BY <1>5 DEF MarkPublished
    <2>5. outbox' \in Seq(Row)
      BY <2>1, <2>3, <2>4, ExceptSeq
    <2> QED
      BY <1>5, <2>5 DEF MarkPublished, TypeOK, LedgerTypes
  <1>6. CASE UNCHANGED ledgerVars
    BY <1>6 DEF TypeOK, LedgerTypes, ledgerVars
  <1> QED
    BY <1>1, <1>2, <1>3, <1>4, <1>5, <1>6
       DEF Next, ApplierStep, PublisherStep, vars, brokerVars, ledgerVars, pubVars, boundVars,
       Accept, Execute, Close, ApplyCumulative, ApplyStreamIncrement, Stage, Resume, Rollback,
       Fetch, Publish, MarkFails, PublishHandlerFails, Crash, Restart

\* The memory of the process: caches, events on their way and the applier's task.
LEMMA ProcessTypesNext == TypeOK /\ Books /\ [Next]_vars => ProcessTypes'
  <1> SUFFICES ASSUME TypeOK, Books, [Next]_vars PROVE ProcessTypes'
    OBVIOUS
  <1>1. ASSUME NEW o \in Orders, Accept(o) PROVE ProcessTypes'
    BY <1>1 DEF TypeOK, ProcessTypes, Accept
  <1>2. ASSUME NEW o \in Orders, Open(o) PROVE ProcessTypes'
    BY <1>2 DEF TypeOK, ProcessTypes, Open, OpenStatuses
  <1>3. ASSUME NEW o \in Orders, ExpireStale(o) PROVE ProcessTypes'
    BY <1>3 DEF TypeOK, ProcessTypes, ExpireStale, OpenStatuses, NotCached
  <1>4. ASSUME NEW o \in Orders, NEW st \in EndStatuses, MarkTerminal(o, st) PROVE ProcessTypes'
    BY <1>4 DEF TypeOK, ProcessTypes, MarkTerminal, OpenStatuses, NotCached
  <1>5. ASSUME NEW o \in Orders, NEW cum \in 1..Ordered[o], ApplyCumulative(o, cum) PROVE ProcessTypes'
    BY <1>5, OrderedAssumption DEF TypeOK, ProcessTypes, ApplyCumulative, Applying
  <1>6. ASSUME NEW o \in Orders, ApplyStreamIncrement(o) PROVE ProcessTypes'
    BY <1>6 DEF TypeOK, ProcessTypes, LedgerTypes, ApplyStreamIncrement, Applying
  <1>7. CASE Stage
    <2>1. apply \in [pc : {"looked"}, order : Orders, cum : Nat]
      BY <1>7 DEF Stage, TypeOK, ProcessTypes, Idle
    <2>2. apply' = Idle \/ apply' \in [pc : {"staged"}, order : Orders, cum : Nat]
      BY <1>7, <2>1 DEF Stage
    <2>3. posCache' \in Nat
      BY <1>7, <2>1 DEF Stage, OnTrade, TypeOK, LedgerTypes, ProcessTypes
    <2> QED
      BY <1>7, <2>2, <2>3 DEF Stage, TypeOK, ProcessTypes
  <1>8. CASE Commit
    <2>1. apply \in [pc : {"staged"}, order : Orders, cum : Nat]
      BY <1>8 DEF Commit, TypeOK, ProcessTypes, Idle
    <2>2. apply' \in [pc : {"committed"}, order : Orders, cum : Nat]
      BY <1>8, <2>1 DEF Commit
    <2> QED
      BY <1>8, <2>2 DEF Commit, TypeOK, ProcessTypes
  <1>9. CASE Resume
    <2>1. apply \in [pc : {"committed"}, order : Orders, cum : Nat]
      BY <1>9 DEF Resume, TypeOK, ProcessTypes, Idle
    <2>2. cache' \in [Orders -> [status : OpenStatuses \cup {"none"}, recorded : Nat]]
      BY <1>9, <2>1 DEF Resume, Mirror, FillStatus, NotCached, OpenStatuses, TypeOK, ProcessTypes
    <2> QED
      BY <1>9, <2>2 DEF Resume, TypeOK, ProcessTypes
  <1>10. CASE Rollback
    BY <1>10 DEF TypeOK, ProcessTypes, Rollback
  <1>11. CASE Crash
    BY <1>11 DEF TypeOK, ProcessTypes, Crash, NotCached, OpenStatuses
  <1>12. CASE Restart
    BY <1>12 DEF TypeOK, ProcessTypes, LedgerTypes, Restart, NotCached, OpenStatuses, Lookup, Entry
  <1>13. CASE UNCHANGED <<up, seed, cache, posCache, apply>>
    BY <1>13 DEF TypeOK, ProcessTypes
  <1> QED
    BY <1>1, <1>2, <1>3, <1>4, <1>5, <1>6, <1>7, <1>8, <1>9, <1>10, <1>11, <1>12, <1>13
       DEF Next, ApplierStep, PublisherStep, vars, brokerVars, ledgerVars, pubVars, boundVars,
       Execute, Close, Fetch, Publish, MarkPublished, MarkFails, PublishHandlerFails

\* The publisher only works on rows the outbox has.
LEMMA PublisherTypesNext == TypeOK /\ Books /\ [Next]_vars => PublisherTypes'
  <1> SUFFICES ASSUME TypeOK, Books, [Next]_vars PROVE PublisherTypes'
    OBVIOUS
  <1>1. CASE Commit
    <2>1. apply \in [pc : {"staged"}, order : Orders, cum : Nat] /\ apply.cum > recorded[apply.order]
      BY <1>1 DEF Commit, TypeOK, ProcessTypes, Books, ApplierKnows, Idle
    <2> DEFINE o == apply.order
               row == [order |-> o, cum |-> apply.cum, qty |-> apply.cum - recorded[o],
                       published |-> FALSE]
               Row == [order : Orders, cum : Nat, qty : Nat, published : BOOLEAN]
    <2>2. row \in Row /\ outbox' = Append(outbox, row) /\ outbox \in Seq(Row)
      BY <1>1, <2>1 DEF Commit, TypeOK, LedgerTypes
    <2>3. Len(outbox') = Len(outbox) + 1
      BY <2>2, AppendProperties
    <2>4. /\ delivered' \in Seq(Nat) /\ Len(delivered') = Len(delivered) + 1
          /\ settled' \in Seq(Nat) /\ Len(settled') = Len(settled) + 1
      BY <1>1, AppendProperties DEF Commit, TypeOK, PublisherTypes
    <2>5. Len(outbox) \in Nat
      BY <2>2, LenProperties
    <2> QED
      BY <1>1, <2>3, <2>4, <2>5 DEF Commit, TypeOK, PublisherTypes
  <1>2. CASE Fetch
    BY <1>2 DEF TypeOK, PublisherTypes, Fetch, Unpublished, ledgerVars
  <1>3. ASSUME NEW i \in batch, Publish(i) PROVE PublisherTypes'
    <2> DEFINE Row == [order : Orders, cum : Nat, qty : Nat, published : BOOLEAN]
    <2>1. i \in 1..Len(outbox) /\ outbox \in Seq(Row) /\ i \in 1..Len(delivered) /\ i \in 1..Len(settled)
      BY <1>3 DEF TypeOK, PublisherTypes, LedgerTypes
    <2>2. outbox[i] \in Row /\ delivered[i] \in Nat /\ settled[i] \in Nat
      BY <2>1, ElementOfSeq DEF TypeOK, PublisherTypes
    <2> DEFINE incremented(s) == [s EXCEPT ![i] = s[i] + 1]
    <2>a. ASSUME NEW s \in Seq(Nat), i \in 1..Len(s)
          PROVE  incremented(s) \in Seq(Nat) /\ Len(incremented(s)) = Len(s)
      <3>1. s[i] + 1 \in Nat
        BY <2>a, ElementOfSeq
      <3> QED
        BY <2>a, <3>1, ExceptSeq
    <2>3. delivered' \in Seq(Nat) /\ Len(delivered') = Len(delivered)
      BY <1>3, <2>1, <2>a DEF Publish, TypeOK, PublisherTypes
    <2>4. settled' \in Seq(Nat) /\ Len(settled') = Len(settled)
      BY <1>3, <2>1, <2>a DEF Publish, TypeOK, PublisherTypes
    <2>5. dedup' \subseteq Orders \X Nat
      BY <1>3, <2>2 DEF Publish, Key, TypeOK, PublisherTypes
    <2> QED
      BY <1>3, <2>3, <2>4, <2>5 DEF Publish, ledgerVars, TypeOK, PublisherTypes
  <1>4. ASSUME NEW i \in batch, MarkPublished(i) PROVE PublisherTypes'
    <2> DEFINE Row == [order : Orders, cum : Nat, qty : Nat, published : BOOLEAN]
    <2>1. i \in 1..Len(outbox) /\ outbox \in Seq(Row)
      BY <1>4 DEF TypeOK, PublisherTypes, LedgerTypes
    <2>2. outbox[i] \in Row
      BY <2>1, ElementOfSeq
    <2>3. [outbox[i] EXCEPT !.published = TRUE] \in Row
      BY <2>2
    <2>4. outbox' = [outbox EXCEPT ![i] = [outbox[i] EXCEPT !.published = TRUE]]
      BY <1>4 DEF MarkPublished
    <2>5. Len(outbox') = Len(outbox)
      BY <2>1, <2>3, <2>4, ExceptSeq
    <2> QED
      BY <1>4, <2>5 DEF MarkPublished, TypeOK, PublisherTypes
  <1>5. CASE MarkFails
    BY <1>5 DEF TypeOK, PublisherTypes, MarkFails, ledgerVars
  <1>6. ASSUME NEW i \in batch, PublishHandlerFails(i) PROVE PublisherTypes'
    <2>1. i \in 1..Len(delivered) /\ delivered[i] \in Nat
      BY <1>6, ElementOfSeq DEF TypeOK, PublisherTypes
    <2>2. delivered' \in Seq(Nat) /\ Len(delivered') = Len(delivered)
      BY <1>6, <2>1, ExceptSeq DEF PublishHandlerFails, TypeOK, PublisherTypes
    <2> QED
      BY <1>6, <2>2 DEF PublishHandlerFails, ledgerVars, TypeOK, PublisherTypes
  <1>7. CASE Crash
    BY <1>7 DEF TypeOK, PublisherTypes, Crash, ledgerVars
  <1>8. CASE UNCHANGED <<outbox, pubVars>>
    BY <1>8 DEF TypeOK, PublisherTypes, pubVars
  <1> QED
    BY <1>1, <1>2, <1>3, <1>4, <1>5, <1>6, <1>7, <1>8
       DEF Next, ApplierStep, PublisherStep, vars, brokerVars, ledgerVars, pubVars, boundVars,
       Accept, Execute, Close, Open, ExpireStale, MarkTerminal, ApplyCumulative,
       ApplyStreamIncrement, Stage, Resume, Rollback, Restart

\* The task inside the applier and the books keep agreeing: the transaction
\* advances an order, its trades and its position together.
LEMMA BooksNext == TypeOK /\ Books /\ [Next]_vars => Books'
  <1> SUFFICES ASSUME TypeOK, Books, [Next]_vars PROVE Books'
    OBVIOUS
  <1>1. ASSUME NEW o \in Orders, Open(o) PROVE Books'
    BY <1>1 DEF Books, TradesMatchRecorded, ApplierKnows, StatusKnows, TypeOK, LedgerTypes,
       ProcessTypes, Open, WriterFree, Idle
  <1>2. ASSUME NEW o \in Orders, ExpireStale(o) PROVE Books'
    BY <1>2 DEF Books, TradesMatchRecorded, ApplierKnows, StatusKnows, TypeOK, LedgerTypes,
       ProcessTypes, ExpireStale, WriterFree, Idle
  <1>3. ASSUME NEW o \in Orders, NEW st \in EndStatuses, MarkTerminal(o, st) PROVE Books'
    BY <1>3, EndStatusesAssumption DEF Books, TradesMatchRecorded, ApplierKnows, StatusKnows,
       TypeOK, LedgerTypes, ProcessTypes, MarkTerminal, WriterFree, Idle
  <1>4. ASSUME NEW o \in Orders, NEW cum \in 1..Ordered[o], ApplyCumulative(o, cum) PROVE Books'
    BY <1>4 DEF Books, TradesMatchRecorded, ApplierKnows, StatusKnows, TypeOK, LedgerTypes,
       ProcessTypes, ApplyCumulative, Applying, Lookup, OpenStatuses, ledgerVars
  <1>5. ASSUME NEW o \in Orders, ApplyStreamIncrement(o) PROVE Books'
    BY <1>5 DEF Books, TradesMatchRecorded, ApplierKnows, StatusKnows, TypeOK, LedgerTypes,
       ProcessTypes, ApplyStreamIncrement, Applying, Lookup, OpenStatuses, Idle, ledgerVars
  <1>6. CASE Stage
    <2>1. apply \in [pc : {"looked"}, order : Orders, cum : Nat]
      BY <1>6 DEF Stage, TypeOK, ProcessTypes, Idle
    <2> QED
      BY <1>6, <2>1 DEF Books, TradesMatchRecorded, ApplierKnows, StatusKnows, Stage,
       Idle, ledgerVars
  <1>7. CASE Commit
    <2>1. apply \in [pc : {"staged"}, order : Orders, cum : Nat]
      BY <1>7 DEF Commit, TypeOK, ProcessTypes, Idle
    <2>2. apply.cum > recorded[apply.order] /\ status[apply.order] # "none"
      BY <1>7 DEF Commit, Books, ApplierKnows
    <2>3. TradesMatchRecorded'
      <3>1. traded[apply.order] + (apply.cum - recorded[apply.order]) = apply.cum
        BY <2>1 DEF Books, TradesMatchRecorded, TypeOK, LedgerTypes
      <3>2. traded' = [traded EXCEPT ![apply.order] = apply.cum]
        BY <1>7, <3>1 DEF Commit
      <3> QED
        BY <1>7, <3>2 DEF Commit, Books, TradesMatchRecorded
    <2>4. ApplierKnows'
      BY <1>7, <2>1 DEF Commit, ApplierKnows, TypeOK, LedgerTypes, FillStatus
    <2>5. StatusKnows'
      BY <1>7, <2>1, OrderedAssumption DEF Commit, Books, StatusKnows, TypeOK, LedgerTypes, FillStatus
    <2> QED
      BY <2>3, <2>4, <2>5 DEF Books
  <1>8. CASE Resume
    BY <1>8 DEF Books, TradesMatchRecorded, ApplierKnows, StatusKnows, TypeOK, LedgerTypes,
       ProcessTypes, Resume, Idle, ledgerVars
  <1>9. CASE Rollback
    BY <1>9 DEF Books, TradesMatchRecorded, ApplierKnows, StatusKnows, TypeOK, LedgerTypes,
       ProcessTypes, Rollback, Idle, ledgerVars
  <1>10. CASE Crash
    BY <1>10 DEF Books, TradesMatchRecorded, ApplierKnows, StatusKnows, TypeOK, LedgerTypes,
       ProcessTypes, Crash, Idle, ledgerVars
  <1>11. CASE UNCHANGED <<status, recorded, traded, apply>>
    BY <1>11 DEF Books, TradesMatchRecorded, ApplierKnows, StatusKnows
  <1> QED
    BY <1>1, <1>2, <1>3, <1>4, <1>5, <1>6, <1>7, <1>8, <1>9, <1>10, <1>11
       DEF Next, ApplierStep, PublisherStep, vars, brokerVars, ledgerVars, pubVars, boundVars,
       Accept, Execute, Close, Fetch, Publish, MarkPublished, MarkFails, PublishHandlerFails,
       Restart

\* Types and books together are inductive.
LEMMA TypeNext == TypeOK /\ Books /\ [Next]_vars => TypeOK' /\ Books'
  BY BrokerTypesNext, LedgerTypesNext, ProcessTypesNext, PublisherTypesNext, BoundTypesNext, BooksNext
     DEF TypeOK

-----------------------------------------------------------------------------
(* The two steps that change the outbox. *)

\* COMMIT appends the row of the fill and leaves the others alone.
LEMMA CommitRows ==
  ASSUME TypeOK, Books, Commit
  PROVE  /\ apply.order \in Orders /\ apply.cum \in Nat
         /\ apply.cum > recorded[apply.order]
         /\ Len(outbox) \in Nat /\ Len(outbox') = Len(outbox) + 1
         /\ \A j \in Rows : outbox'[j] = outbox[j] /\ outbox[j].order \in Orders
                            /\ outbox[j].cum \in Nat /\ outbox[j].qty \in Nat
         /\ outbox'[Len(outbox) + 1] = [order |-> apply.order, cum |-> apply.cum,
                                        qty |-> apply.cum - recorded[apply.order],
                                        published |-> FALSE]
  <1> DEFINE row == [order |-> apply.order, cum |-> apply.cum,
                     qty |-> apply.cum - recorded[apply.order], published |-> FALSE]
             Row == [order : Orders, cum : Nat, qty : Nat, published : BOOLEAN]
  <1>1. apply \in [pc : {"staged"}, order : Orders, cum : Nat] /\ apply.cum > recorded[apply.order]
    BY DEF Commit, TypeOK, ProcessTypes, Books, ApplierKnows, Idle
  <1>2. row \in Row /\ outbox' = Append(outbox, row) /\ outbox \in Seq(Row)
    BY <1>1 DEF Commit, TypeOK, LedgerTypes
  <1>3. /\ Len(outbox') = Len(outbox) + 1
        /\ \A j \in 1..Len(outbox) : outbox'[j] = outbox[j]
        /\ outbox'[Len(outbox) + 1] = row
    BY <1>2, AppendProperties
  <1>4. \A j \in Rows : outbox[j] \in Row
    BY <1>2, ElementOfSeq DEF Rows
  <1>5. Len(outbox) \in Nat
    BY <1>2, LenProperties
  <1> QED
    BY <1>1, <1>3, <1>4, <1>5 DEF Rows

\* mark_published sets one flag.
LEMMA MarkRows ==
  ASSUME TypeOK, NEW i \in batch, MarkPublished(i)
  PROVE  /\ i \in Rows /\ Rows' = Rows
         /\ \A j \in Rows : /\ outbox'[j].order = outbox[j].order
                            /\ outbox'[j].cum = outbox[j].cum
                            /\ outbox'[j].qty = outbox[j].qty
                            /\ outbox'[j].published => (outbox[j].published \/ j = i)
  <1> DEFINE Row == [order : Orders, cum : Nat, qty : Nat, published : BOOLEAN]
             marked == [outbox[i] EXCEPT !.published = TRUE]
  <1>1. i \in 1..Len(outbox) /\ outbox \in Seq(Row)
    BY DEF TypeOK, PublisherTypes, LedgerTypes
  <1>2. outbox[i] \in Row
    BY <1>1, ElementOfSeq
  <1>3. /\ marked \in Row /\ marked.order = outbox[i].order
        /\ marked.cum = outbox[i].cum /\ marked.qty = outbox[i].qty
    BY <1>2
  <1>4. outbox' = [outbox EXCEPT ![i] = marked]
    BY DEF MarkPublished
  <1> HIDE DEF marked, Row
  <1>5. /\ Len(outbox') = Len(outbox)
        /\ \A j \in 1..Len(outbox) : outbox'[j] = IF j = i THEN marked ELSE outbox[j]
    BY <1>1, <1>3, <1>4, ExceptSeq
  <1> QED
    BY <1>1, <1>3, <1>5 DEF Rows

-----------------------------------------------------------------------------
(* The announced shares. *)

\* The announced shares stay exactly the recorded ones, each in one row.
LEMMA SharesNext ==
  TypeOK /\ Books /\ EachShareAnnouncedOnce /\ [Next]_vars => EachShareAnnouncedOnce'
  <1> SUFFICES ASSUME TypeOK, Books, EachShareAnnouncedOnce, [Next]_vars
               PROVE  EachShareAnnouncedOnce'
    OBVIOUS
  <1>1. CASE Commit
    <2> DEFINE c == apply.order
    <2>0. PICK n0 \in Nat : n0 = Len(outbox) + 1
      BY <1>1, CommitRows
    <2>1. /\ c \in Orders /\ apply.cum \in Nat /\ apply.cum > recorded[c]
          /\ Len(outbox) \in Nat /\ Len(outbox') = Len(outbox) + 1
          /\ \A j \in Rows : outbox'[j] = outbox[j] /\ outbox[j].cum \in Nat /\ outbox[j].qty \in Nat
          /\ outbox'[n0].order = c /\ outbox'[n0].cum = apply.cum
          /\ outbox'[n0].qty = apply.cum - recorded[c]
      BY <1>1, <2>0, CommitRows
    <2>2. Rows' = Rows \cup {n0} /\ n0 \notin Rows
      BY <2>0, <2>1 DEF Rows
    <2>3. recorded \in [Orders -> Nat] /\ recorded' = [recorded EXCEPT ![c] = apply.cum]
      BY <1>1 DEF Commit, TypeOK, LedgerTypes
    <2>4. RowShares(n0)' = (recorded[c] + 1)..apply.cum
      BY <2>1, <2>3 DEF RowShares
    <2>5. \A j \in Rows : RowShares(j)' = RowShares(j)
      BY <2>1 DEF RowShares
    <2>6. ASSUME NEW o \in Orders, NEW n \in 1..(recorded'[o])
          PROVE  \E i \in Rows' :
                    /\ outbox'[i].order = o /\ n \in RowShares(i)'
                    /\ \A j \in Rows' : outbox'[j].order = o /\ n \in RowShares(j)' => j = i
      <3>1. CASE n \in 1..recorded[o]
        <4>1. PICK i \in Rows :
                 /\ outbox[i].order = o /\ n \in RowShares(i)
                 /\ \A j \in Rows : outbox[j].order = o /\ n \in RowShares(j) => j = i
          BY <3>1 DEF EachShareAnnouncedOnce
        <4>2. ~(outbox'[n0].order = o /\ n \in RowShares(n0)')
          BY <2>1, <2>3, <2>4, <3>1
        <4>3. i \in Rows' /\ outbox'[i].order = o /\ n \in RowShares(i)'
          BY <2>1, <2>2, <2>5, <4>1
        <4>4. ASSUME NEW j \in Rows', outbox'[j].order = o, n \in RowShares(j)' PROVE j = i
          <5>1. j \in Rows
            BY <2>2, <4>2, <4>4
          <5>2. outbox[j].order = o /\ n \in RowShares(j)
            BY <2>1, <2>5, <4>4, <5>1
          <5> QED
            BY <4>1, <5>1, <5>2
        <4> QED
          BY <4>3, <4>4
      <3>2. CASE n \notin 1..recorded[o]
        <4>1. o = c /\ n \in RowShares(n0)'
          BY <2>1, <2>3, <2>4, <3>2
        <4>2. \A j \in Rows : ~(outbox'[j].order = o /\ n \in RowShares(j)')
          BY <2>1, <2>5, <3>2 DEF EachShareAnnouncedOnce
        <4> QED
          BY <2>1, <2>2, <4>1, <4>2
      <3> QED
        BY <3>1, <3>2
    <2>7. ASSUME NEW o \in Orders, NEW i \in Rows', outbox'[i].order = o
          PROVE  RowShares(i)' \subseteq 1..(recorded'[o])
      <3>1. CASE i = n0
        BY <2>1, <2>3, <2>4, <2>7, <3>1
      <3>2. CASE i \in Rows
        <4>1. RowShares(i) \subseteq 1..recorded[o]
          BY <2>1, <2>7, <3>2 DEF EachShareAnnouncedOnce
        <4> QED
          BY <2>1, <2>3, <2>5, <3>2, <4>1
      <3> QED
        BY <2>2, <3>1, <3>2
    <2> QED
      BY <2>6, <2>7 DEF EachShareAnnouncedOnce
  <1>2. ASSUME NEW i \in batch, MarkPublished(i) PROVE EachShareAnnouncedOnce'
    <2>1. /\ Rows' = Rows
          /\ \A j \in Rows : outbox'[j].order = outbox[j].order /\ RowShares(j)' = RowShares(j)
      BY <1>2, MarkRows DEF RowShares
    <2>2. recorded' = recorded
      BY <1>2 DEF MarkPublished
    <2> QED
      BY <2>1, <2>2 DEF EachShareAnnouncedOnce
  <1>3. CASE UNCHANGED <<recorded, outbox>>
    BY <1>3 DEF EachShareAnnouncedOnce, Rows, RowShares
  <1> QED
    BY <1>1, <1>2, <1>3
       DEF Next, ApplierStep, PublisherStep, vars, brokerVars, ledgerVars, pubVars, boundVars,
           Accept, Execute, Close, Open, ExpireStale, MarkTerminal, ApplyCumulative,
           ApplyStreamIncrement, Stage, Resume, Rollback, Fetch, Publish, MarkFails,
           PublishHandlerFails, Crash, Restart

-----------------------------------------------------------------------------
(* The publisher and the consumer. *)

\* A settled row has its key in treasury_fill_dedup, so it is not settled again.
SettledKnows ==
    \A i \in Rows : settled[i] <= 1 /\ (settled[i] = 1 => Key(outbox[i]) \in dedup)

\* The row to be marked went out.
PublisherKnows == handed # 0 => delivered[handed] >= 1

Delivery == SettledKnows /\ PublisherKnows /\ MarkedAfterDelivery

\* A row stays unmarked until it is delivered and its key is stored when it is
\* settled.
LEMMA DeliveryNext == TypeOK /\ Books /\ Delivery /\ [Next]_vars => Delivery'
  <1> SUFFICES ASSUME TypeOK, Books, Delivery, [Next]_vars PROVE Delivery'
    OBVIOUS
  <1> DEFINE Row == [order : Orders, cum : Nat, qty : Nat, published : BOOLEAN]
  <1>0. /\ delivered \in Seq(Nat) /\ Len(delivered) = Len(outbox)
        /\ settled \in Seq(Nat) /\ Len(settled) = Len(outbox)
        /\ batch \subseteq Rows /\ handed \in batch \cup {0}
        /\ Len(outbox) \in Nat
        /\ \A j \in Rows : delivered[j] \in Nat /\ settled[j] \in Nat
    <2>1. outbox \in Seq(Row) /\ delivered \in Seq(Nat) /\ settled \in Seq(Nat)
      BY DEF TypeOK, PublisherTypes, LedgerTypes
    <2>2. Len(outbox) \in Nat
      BY <2>1, LenProperties
    <2> QED
      BY <2>1, <2>2, ElementOfSeq DEF TypeOK, PublisherTypes, Rows
  <1>nat. \A j \in Rows : delivered[j] \in Nat /\ settled[j] \in Nat
    BY <1>0
  <1>1. CASE Commit
    <2>0. PICK n0 \in Nat : n0 = Len(outbox) + 1
      BY <1>0
    <2>1. /\ Len(outbox') = n0 /\ \A j \in Rows : outbox'[j] = outbox[j]
          /\ ~outbox'[n0].published
      BY <1>1, <2>0, CommitRows
    <2>2. /\ \A j \in Rows : delivered'[j] = delivered[j] /\ settled'[j] = settled[j]
          /\ settled'[n0] = 0
      BY <1>0, <1>1, <2>0, AppendProperties DEF Commit, Rows
    <2>3. Rows' = Rows \cup {n0}
      BY <1>0, <2>0, <2>1 DEF Rows
    <2>4. dedup' = dedup /\ handed' = handed
      BY <1>1 DEF Commit
    <2>5. SettledKnows'
      BY <2>1, <2>2, <2>3, <2>4 DEF Delivery, SettledKnows, Key
    <2>6. PublisherKnows'
      BY <1>0, <2>2, <2>4 DEF Delivery, PublisherKnows
    <2>7. MarkedAfterDelivery'
      BY <2>1, <2>2, <2>3 DEF Delivery, MarkedAfterDelivery
    <2> QED
      BY <2>5, <2>6, <2>7 DEF Delivery
  <1>2. ASSUME NEW i \in batch, Publish(i) PROVE Delivery'
    <2>1. /\ outbox' = outbox /\ Rows' = Rows /\ i \in Rows /\ i # 0 /\ handed' = i
      BY <1>0, <1>2 DEF Publish, ledgerVars, Rows
    <2>2. \A j \in Rows : delivered'[j] = IF j = i THEN delivered[i] + 1 ELSE delivered[j]
      <3>1. delivered' = [delivered EXCEPT ![i] = @ + 1] /\ DOMAIN delivered = Rows
        BY <1>0, <1>2 DEF Publish, Rows
      <3> QED
        BY <3>1
    <2>3. \A j \in Rows : settled'[j] = IF j = i /\ Key(outbox[i]) \notin dedup
                                        THEN settled[i] + 1 ELSE settled[j]
      BY <1>0, <1>2, <2>1 DEF Publish, Rows
    <2>4. dedup' = dedup \cup {Key(outbox[i])}
      BY <1>2 DEF Publish
    <2>5. SettledKnows'
      BY <1>nat, <2>1, <2>3, <2>4 DEF Delivery, SettledKnows, Key
    <2>6. PublisherKnows'
      BY <1>nat, <2>1, <2>2 DEF PublisherKnows
    <2>7. MarkedAfterDelivery'
      BY <1>nat, <2>1, <2>2 DEF Delivery, MarkedAfterDelivery
    <2> QED
      BY <2>5, <2>6, <2>7 DEF Delivery
  <1>3. ASSUME NEW i \in batch, PublishHandlerFails(i) PROVE Delivery'
    <2>1. /\ outbox' = outbox /\ Rows' = Rows /\ i \in Rows /\ i # 0 /\ handed' = i
          /\ settled' = settled /\ dedup' = dedup
      BY <1>0, <1>3 DEF PublishHandlerFails, ledgerVars, Rows
    <2>2. \A j \in Rows : delivered'[j] = IF j = i THEN delivered[i] + 1 ELSE delivered[j]
      <3>1. delivered' = [delivered EXCEPT ![i] = @ + 1] /\ DOMAIN delivered = Rows
        BY <1>0, <1>3 DEF PublishHandlerFails, Rows
      <3> QED
        BY <3>1
    <2>3. SettledKnows'
      BY <2>1 DEF Delivery, SettledKnows, Key
    <2>4. PublisherKnows'
      BY <1>nat, <2>1, <2>2 DEF PublisherKnows
    <2>5. MarkedAfterDelivery'
      BY <1>nat, <2>1, <2>2 DEF Delivery, MarkedAfterDelivery
    <2> QED
      BY <2>3, <2>4, <2>5 DEF Delivery
  <1>4. ASSUME NEW i \in batch, MarkPublished(i) PROVE Delivery'
    <2>1. /\ i \in Rows /\ Rows' = Rows /\ handed = i /\ i # 0 /\ handed' = 0
          /\ delivered' = delivered /\ settled' = settled /\ dedup' = dedup
          /\ \A j \in Rows : /\ Key(outbox[j])' = Key(outbox[j])
                             /\ outbox'[j].published => (outbox[j].published \/ j = i)
      BY <1>0, <1>4, MarkRows DEF MarkPublished, Key, Rows
    <2> QED
      BY <2>1 DEF Delivery, SettledKnows, Key, PublisherKnows, MarkedAfterDelivery
  <1>5. CASE MarkFails \/ Crash
    BY <1>5 DEF MarkFails, Crash, ledgerVars, Delivery, SettledKnows, Key, PublisherKnows,
       MarkedAfterDelivery, Rows
  <1>6. CASE UNCHANGED <<outbox, dedup, delivered, settled, handed>>
    BY <1>6 DEF Delivery, SettledKnows, Key, PublisherKnows, MarkedAfterDelivery, Rows
  <1> QED
    BY <1>1, <1>2, <1>3, <1>4, <1>5, <1>6
       DEF Next, ApplierStep, PublisherStep, vars, brokerVars, ledgerVars, pubVars, boundVars,
           Accept, Execute, Close, Open, ExpireStale, MarkTerminal, ApplyCumulative,
           ApplyStreamIncrement, Stage, Resume, Rollback, Fetch, Restart

-----------------------------------------------------------------------------
(* The caches. *)

\* A staged fill has written the position cache, and the process is up while a
\* task runs.
PositionCacheKnows ==
    /\ apply.pc = "staged" => posCache = OnTrade(apply.order, apply.cum - recorded[apply.order])
    /\ PositionCacheRepaired
    /\ apply # Idle => up

Caches == CacheSound /\ PositionCacheKnows

\* The open cache stays sound: mark_terminal and expire_stale evict, the mirror
\* of a fill writes what was committed.
LEMMA CacheSoundNext == TypeOK /\ Books /\ Caches /\ [Next]_vars => CacheSound'
  <1> SUFFICES ASSUME TypeOK, Books, Caches, [Next]_vars PROVE CacheSound'
    OBVIOUS
  <1>1. ASSUME NEW o \in Orders, Open(o) PROVE CacheSound'
    <2>1. CASE status[o] = "none"
      <3>1. recorded[o] = 0
        BY <2>1 DEF Books, StatusKnows
      <3>2. ASSUME NEW p \in Orders, cache'[p] # NotCached
            PROVE  cache'[p] = Entry(p)' /\ Lookup(p)'
        <4>1. CASE p = o
          BY <1>1, <2>1, <3>1, <4>1 DEF Open, Entry, Lookup, OpenStatuses, TypeOK, LedgerTypes, ProcessTypes
        <4>2. CASE p # o
          BY <1>1, <2>1, <3>2, <4>2 DEF Open, WriterFree, Caches, CacheSound, Entry, Lookup, TypeOK,
             LedgerTypes, ProcessTypes
        <4> QED
          BY <4>1, <4>2
      <3> QED
        BY <3>2 DEF CacheSound
    <2>2. CASE status[o] # "none"
      BY <1>1, <2>2 DEF Open, Caches, CacheSound, Entry, Lookup
    <2> QED
      BY <2>1, <2>2
  <1>2. ASSUME NEW o \in Orders, ExpireStale(o) PROVE CacheSound'
    BY <1>2 DEF ExpireStale, WriterFree, Caches, CacheSound, Entry, Lookup, TypeOK, LedgerTypes,
       ProcessTypes
  <1>3. ASSUME NEW o \in Orders, NEW st \in EndStatuses, MarkTerminal(o, st) PROVE CacheSound'
    BY <1>3 DEF MarkTerminal, WriterFree, Caches, CacheSound, Entry, Lookup, TypeOK, LedgerTypes,
       ProcessTypes
  <1>4. ASSUME NEW o \in Orders, NEW cum \in 1..Ordered[o], ApplyCumulative(o, cum) PROVE CacheSound'
    BY <1>4 DEF ApplyCumulative, Idle, ledgerVars, Caches, CacheSound, Entry, Lookup
  <1>5. ASSUME NEW o \in Orders, ApplyStreamIncrement(o) PROVE CacheSound'
    BY <1>5 DEF ApplyStreamIncrement, Idle, ledgerVars, Caches, CacheSound, Entry, Lookup
  <1>6. CASE Stage
    BY <1>6 DEF Stage, ledgerVars, Caches, CacheSound, Entry, Lookup
  <1>7. CASE Commit
    <2>1. apply \in [pc : {"staged"}, order : Orders, cum : Nat]
      BY <1>7 DEF Commit, TypeOK, ProcessTypes, Idle
    <2> QED
      BY <1>7, <2>1 DEF Commit, Caches, CacheSound, Entry, Lookup, TypeOK, LedgerTypes
  <1>8. CASE Resume
    <2>1. apply \in [pc : {"committed"}, order : Orders, cum : Nat]
      BY <1>8 DEF Resume, TypeOK, ProcessTypes, Idle
    <2>2. status[apply.order] = FillStatus(apply.order, apply.cum) /\ recorded[apply.order] = apply.cum
      BY <1>8 DEF Resume, Books, ApplierKnows
    <2> QED
      BY <1>8, <2>1, <2>2 DEF Resume, Mirror, FillStatus, ledgerVars, Caches, CacheSound, Entry, Lookup,
         OpenStatuses, TypeOK, ProcessTypes
  <1>9. CASE Rollback
    BY <1>9 DEF Rollback, ledgerVars, Caches, CacheSound, Entry, Lookup
  <1>10. CASE Crash
    BY <1>10 DEF Crash, Caches, CacheSound, Entry, Lookup
  <1>11. CASE Restart
    BY <1>11 DEF Restart, ledgerVars, Caches, CacheSound, Entry, Lookup
  <1>12. CASE UNCHANGED <<status, recorded, cache, apply>>
    BY <1>12 DEF Caches, CacheSound, Entry, Lookup
  <1> QED
    BY <1>1, <1>2, <1>3, <1>4, <1>5, <1>6, <1>7, <1>8, <1>9, <1>10, <1>11, <1>12
       DEF Next, ApplierStep, PublisherStep, vars, brokerVars, ledgerVars, pubVars, boundVars,
       Accept, Execute, Close, Fetch, Publish, MarkPublished, MarkFails, PublishHandlerFails

\* The position cache holds what the fill under way will commit.
LEMMA PositionCacheNext == TypeOK /\ Books /\ Caches /\ [Next]_vars => PositionCacheKnows'
  <1> SUFFICES ASSUME TypeOK, Books, Caches, [Next]_vars PROVE PositionCacheKnows'
    OBVIOUS
  <1>1. ASSUME NEW o \in Orders, Open(o) PROVE PositionCacheKnows'
    BY <1>1 DEF Open, WriterFree, Caches, PositionCacheKnows, PositionCacheRepaired
  <1>2. ASSUME NEW o \in Orders, ExpireStale(o) PROVE PositionCacheKnows'
    BY <1>2 DEF ExpireStale, WriterFree, Caches, PositionCacheKnows, PositionCacheRepaired
  <1>3. ASSUME NEW o \in Orders, NEW st \in EndStatuses, MarkTerminal(o, st) PROVE PositionCacheKnows'
    BY <1>3 DEF MarkTerminal, WriterFree, Caches, PositionCacheKnows, PositionCacheRepaired
  <1>4. ASSUME NEW o \in Orders, NEW cum \in 1..Ordered[o], ApplyCumulative(o, cum) PROVE PositionCacheKnows'
    BY <1>4 DEF ApplyCumulative, Applying, Caches, PositionCacheKnows, PositionCacheRepaired
  <1>5. ASSUME NEW o \in Orders, ApplyStreamIncrement(o) PROVE PositionCacheKnows'
    BY <1>5 DEF ApplyStreamIncrement, Applying, Idle, Caches, PositionCacheKnows,
       PositionCacheRepaired
  <1>6. CASE Stage
    <2>1. apply \in [pc : {"looked"}, order : Orders, cum : Nat]
      BY <1>6 DEF Stage, TypeOK, ProcessTypes, Idle
    <2> QED
      BY <1>6, <2>1 DEF Stage, Idle, OnTrade, ledgerVars, Caches, PositionCacheKnows,
       PositionCacheRepaired
  <1>7. CASE Commit
    <2>1. apply \in [pc : {"staged"}, order : Orders, cum : Nat]
      BY <1>7 DEF Commit, TypeOK, ProcessTypes, Idle
    <2> QED
      BY <1>7, <2>1 DEF Commit, Idle, Caches, PositionCacheKnows, PositionCacheRepaired
  <1>8. CASE Resume
    BY <1>8 DEF Resume, Idle, Caches, PositionCacheKnows, PositionCacheRepaired
  <1>9. CASE Rollback
    BY <1>9 DEF Rollback, Idle, Caches, PositionCacheKnows, PositionCacheRepaired
  <1>10. CASE Crash
    BY <1>10 DEF Crash, Idle, Caches, PositionCacheKnows, PositionCacheRepaired
  <1>11. CASE Restart
    BY <1>11 DEF Restart, Idle, Caches, PositionCacheKnows, PositionCacheRepaired
  <1>12. CASE UNCHANGED <<up, recorded, position, posCache, apply>>
    BY <1>12 DEF Caches, PositionCacheKnows, PositionCacheRepaired, OnTrade
  <1> QED
    BY <1>1, <1>2, <1>3, <1>4, <1>5, <1>6, <1>7, <1>8, <1>9, <1>10, <1>11, <1>12
       DEF Next, ApplierStep, PublisherStep, vars, brokerVars, ledgerVars, pubVars, boundVars,
       Accept, Execute, Close, Fetch, Publish, MarkPublished, MarkFails, PublishHandlerFails

-----------------------------------------------------------------------------
(* The theorems. *)

IInv == TypeOK /\ Books /\ EachShareAnnouncedOnce /\ Delivery /\ Caches

\* The inductive invariant holds initially.
LEMMA InitIInv == Init => IInv
  <1> SUFFICES ASSUME Init PROVE IInv
    OBVIOUS
  <1>1. TypeOK
    BY BoundsAssumption
       DEF Init, TypeOK, BrokerTypes, LedgerTypes, ProcessTypes, PublisherTypes, BoundTypes,
           Statuses, OpenStatuses, NotCached
  <1>2. Books
    BY OrderedAssumption DEF Init, Books, TradesMatchRecorded, ApplierKnows, StatusKnows, Idle
  <1>3. Rows = {}
    BY DEF Init, Rows
  <1>4. EachShareAnnouncedOnce /\ Delivery
    BY <1>3 DEF Init, EachShareAnnouncedOnce, Delivery, SettledKnows, PublisherKnows,
       MarkedAfterDelivery
  <1>5. Caches
    BY DEF Init, Caches, CacheSound, PositionCacheKnows, PositionCacheRepaired, Idle
  <1> QED
    BY <1>1, <1>2, <1>4, <1>5 DEF IInv

\* Every step keeps the inductive invariant.
LEMMA NextIInv == IInv /\ [Next]_vars => IInv'
  BY TypeNext, SharesNext, DeliveryNext, CacheSoundNext, PositionCacheNext DEF IInv, Caches

\* Every behaviour of the pipeline satisfies the inductive invariant.
THEOREM PipelineInvariant == Spec => []IInv
  BY InitIInv, NextIInv, PTL DEF Spec

\* The state of the pipeline always has its type.
THEOREM PipelineTypeCorrect == Spec => []TypeOK
  BY PipelineInvariant, PTL DEF IInv

\* The trades of every order add up to its recorded quantity, after any number of
\* crashes, rollbacks and concurrent observations (one transaction in FillApplier).
THEOREM PipelineBooksAgree == Spec => []TradesMatchRecorded
  BY PipelineInvariant, PTL DEF IInv, Books

\* Every recorded share is announced by exactly one outbox row (the enqueue in the
\* same transaction).
THEOREM PipelineAnnouncesOnce == Spec => []EachShareAnnouncedOnce
  BY PipelineInvariant, PTL DEF IInv

\* Treasury settles no event twice, however often the publisher repeats it.
THEOREM PipelineSettlesAtMostOnce == Spec => []SettledAtMostOnce
  <1>1. IInv => SettledAtMostOnce
    BY DEF IInv, Delivery, SettledKnows, SettledAtMostOnce
  <1> QED
    BY <1>1, PipelineInvariant, PTL

\* No row is marked before its event went out.
THEOREM PipelineMarksAfterDelivery == Spec => []MarkedAfterDelivery
  BY PipelineInvariant, PTL DEF IInv, Delivery

\* The open cache never holds an entry that disagrees with the database, but for
\* the fill whose task has not resumed after its COMMIT.
THEOREM PipelineCacheSound == Spec => []CacheSound
  BY PipelineInvariant, PTL DEF IInv, Caches

\* A committed fill leaves the position cache equal to the stored position.
THEOREM PipelinePositionRepaired == Spec => []PositionCacheRepaired
  BY PipelineInvariant, PTL DEF IInv, Caches, PositionCacheKnows

\* No step lowers a recorded quantity or takes an order out of filled.
LEMMA KeepsFillsNext == TypeOK /\ Books /\ [Next]_vars => KeepsFills
  <1> SUFFICES ASSUME TypeOK, Books, [Next]_vars PROVE KeepsFills
    OBVIOUS
  <1>1. ASSUME NEW o \in Orders, Open(o) PROVE KeepsFills
    BY <1>1 DEF Open, KeepsFills, TypeOK, LedgerTypes
  <1>2. ASSUME NEW o \in Orders, ExpireStale(o) PROVE KeepsFills
    BY <1>2 DEF ExpireStale, KeepsFills, TypeOK, LedgerTypes
  <1>3. ASSUME NEW o \in Orders, NEW st \in EndStatuses, MarkTerminal(o, st) PROVE KeepsFills
    BY <1>3 DEF MarkTerminal, KeepsFills, TypeOK, LedgerTypes
  <1>4. CASE Commit
    <2>1. apply.order \in Orders /\ apply.cum \in Nat /\ apply.cum > recorded[apply.order]
      BY <1>4, CommitRows
    <2>2. status[apply.order] # "filled"
      BY <1>4 DEF Commit, Books, ApplierKnows
    <2> QED
      BY <1>4, <2>1, <2>2 DEF Commit, KeepsFills, TypeOK, LedgerTypes
  <1>5. CASE UNCHANGED <<status, recorded>>
    BY <1>5 DEF KeepsFills, TypeOK, LedgerTypes
  <1> QED
    BY <1>1, <1>2, <1>3, <1>4, <1>5
       DEF Next, ApplierStep, PublisherStep, vars, brokerVars, ledgerVars, pubVars, boundVars,
           Accept, Execute, Close, ApplyCumulative, ApplyStreamIncrement, Stage, Resume, Rollback,
           Fetch, Publish, MarkPublished, MarkFails, PublishHandlerFails, Crash, Restart

\* No step takes recorded shares away or reopens a completely filled order.
THEOREM PipelineNeverUnfills == Spec => NeverUnfilled
  <1>1. TypeOK /\ Books /\ [Next]_vars => [KeepsFills]_vars
    BY KeepsFillsNext
  <1>2. IInv => TypeOK /\ Books
    BY DEF IInv
  <1> QED
    BY <1>1, <1>2, PipelineInvariant, PTL DEF Spec, NeverUnfilled

-----------------------------------------------------------------------------
(* The pipeline implements the abstract ledger. *)

\* The pipeline starts with the empty ledger.
LEMMA InitLedger == Init => Ledger!LedgerInit
  <1> SUFFICES ASSUME Init PROVE Ledger!LedgerInit
    OBVIOUS
  <1>1. Rows = {}
    BY DEF Init, Rows
  <1>2. Announced = [o \in Orders |-> {}]
    BY <1>1 DEF Announced
  <1>3. Finished = {}
    BY DEF Init, Finished
  <1> QED
    BY <1>2, <1>3 DEF Init, Ledger!LedgerInit

\* A committed fill is one Advance of the ledger.
LEMMA CommitAdvances ==
  ASSUME TypeOK, Books, Commit
  PROVE  Ledger!Advance(apply.order)
  <1>0. PICK c \in Orders, n0 \in Nat : c = apply.order /\ n0 = Len(outbox) + 1
    BY CommitRows
  <1>1. /\ c \in Orders /\ apply.cum \in Nat /\ apply.cum > recorded[c]
        /\ Len(outbox) \in Nat /\ Len(outbox') = Len(outbox) + 1
        /\ \A j \in Rows : outbox'[j] = outbox[j]
        /\ outbox'[n0].order = c /\ outbox'[n0].cum = apply.cum
        /\ outbox'[n0].qty = apply.cum - recorded[c]
    BY <1>0, CommitRows
  <1>2. Rows' = Rows \cup {n0} /\ n0 \notin Rows
    BY <1>0, <1>1 DEF Rows
  <1>3. /\ recorded' = [recorded EXCEPT ![c] = apply.cum] /\ recorded'[c] = apply.cum
        /\ traded' = [traded EXCEPT ![c] = traded[c] + (apply.cum - recorded[c])]
        /\ recorded[c] \in Nat
    BY <1>0, <1>1 DEF Commit, TypeOK, LedgerTypes
  <1>4. RowShares(n0)' = (recorded[c] + 1)..apply.cum
    BY <1>1, <1>3 DEF RowShares
  <1>5. \A j \in Rows : RowShares(j)' = RowShares(j)
    BY <1>1 DEF RowShares
  <1>6. Announced' = [Announced EXCEPT ![c] = @ \cup (recorded[c] + 1)..apply.cum]
    <2> DEFINE Of(o) == {j \in Rows : outbox[j].order = o}
    <2>1. Of(c)' = Of(c) \cup {n0}
      BY <1>1, <1>2
    <2>2. \A o \in Orders \ {c} : Of(o)' = Of(o)
      BY <1>1, <1>2
    <2>3. {RowShares(j)' : j \in Of(c)'} = {RowShares(j) : j \in Of(c)} \cup {RowShares(n0)'}
      BY <1>5, <2>1
    <2>4. \A o \in Orders \ {c} : {RowShares(j)' : j \in Of(o)'} = {RowShares(j) : j \in Of(o)}
      BY <1>5, <2>2
    <2> DEFINE Told(o) == UNION {RowShares(j) : j \in Of(o)}
    <2>5. Told(c)' = Told(c) \cup (recorded[c] + 1)..apply.cum
      <3> HIDE DEF Of
      <3>1. Told(c)' = UNION ({RowShares(j) : j \in Of(c)} \cup {RowShares(n0)'})
        BY <2>3
      <3> QED
        BY <1>4, <3>1
    <2>6. \A o \in Orders \ {c} : Told(o)' = Told(o)
      BY <2>4
    <2>7. Announced = [o \in Orders |-> Told(o)] /\ Announced' = [o \in Orders |-> Told(o)']
      BY DEF Announced
    <2> HIDE DEF Told, Of
    <2> QED
      BY <1>1, <2>5, <2>6, <2>7
  <1>7. c \notin Finished
    BY <1>0 DEF Commit, Books, ApplierKnows, Finished
  <1>8. Finished' \in {Finished, Finished \cup {c}}
    <2>1. status' = [status EXCEPT ![c] = FillStatus(c, apply.cum)]
      BY <1>0 DEF Commit
    <2> QED
      BY <1>1, <1>7, <2>1 DEF Finished, FillStatus, TypeOK, LedgerTypes
  <1> QED
    BY <1>0, <1>1, <1>3, <1>6, <1>7, <1>8 DEF Ledger!Advance, Ledger!Shares

\* Every other step leaves the ledger as it is.
LEMMA NextLedger == TypeOK /\ Books /\ [Next]_vars => [Ledger!LedgerNext]_Ledger!ledger
  <1> SUFFICES ASSUME TypeOK, Books, [Next]_vars PROVE [Ledger!LedgerNext]_Ledger!ledger
    OBVIOUS
  <1>1. CASE Commit
    BY <1>1, CommitAdvances, CommitRows DEF Ledger!LedgerNext
  <1>2. ASSUME UNCHANGED <<recorded, traded, outbox>>, Finished' = Finished
        PROVE  UNCHANGED Ledger!ledger
    BY <1>2 DEF Ledger!ledger, Announced, Rows, RowShares
  <1>3. ASSUME NEW o \in Orders, Open(o) PROVE UNCHANGED Ledger!ledger
    BY <1>2, <1>3 DEF Open, Finished, TypeOK, LedgerTypes
  <1>4. ASSUME NEW o \in Orders, ExpireStale(o) PROVE UNCHANGED Ledger!ledger
    BY <1>2, <1>4 DEF ExpireStale, Finished, TypeOK, LedgerTypes
  <1>5. ASSUME NEW o \in Orders, NEW st \in EndStatuses, MarkTerminal(o, st)
        PROVE  UNCHANGED Ledger!ledger
    BY <1>2, <1>5, EndStatusesAssumption DEF MarkTerminal, Finished, TypeOK, LedgerTypes
  <1>6. ASSUME NEW i \in batch, MarkPublished(i) PROVE UNCHANGED Ledger!ledger
    <2>1. /\ Rows' = Rows
          /\ \A j \in Rows : outbox'[j].order = outbox[j].order /\ RowShares(j)' = RowShares(j)
      BY <1>6, MarkRows DEF RowShares
    <2>2. Announced' = Announced
      BY <2>1 DEF Announced
    <2> QED
      BY <1>6, <2>2 DEF MarkPublished, Ledger!ledger, Finished
  <1>7. ASSUME UNCHANGED <<status, recorded, traded, outbox>> PROVE UNCHANGED Ledger!ledger
    BY <1>2, <1>7 DEF Finished
  <1> QED
    BY <1>1, <1>3, <1>4, <1>5, <1>6, <1>7
       DEF Next, ApplierStep, PublisherStep, vars, brokerVars, ledgerVars, pubVars, boundVars,
           Accept, Execute, Close, ApplyCumulative, ApplyStreamIncrement, Stage, Resume, Rollback,
           Fetch, Publish, MarkFails, PublishHandlerFails, Crash, Restart

\* The pipeline, with its caches, lock, outbox, crashes and rollbacks, implements
\* the ledger that only ever advances an order, its trades and its announcements
\* together.
THEOREM PipelineImplementsLedger == Spec => ImplementsLedger
  <1>1. IInv => TypeOK /\ Books
    BY DEF IInv
  <1> QED
    BY <1>1, InitLedger, NextLedger, PipelineInvariant, PTL
       DEF Spec, ImplementsLedger, Ledger!LedgerSpec

=============================================================================
