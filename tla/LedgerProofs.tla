---------------------------- MODULE LedgerProofs ----------------------------
(***************************************************************************)
(* Proofs about Ledger, for every set of callers and items: the committed  *)
(* chain always verifies, no append is lost to another writer, the chain   *)
(* implements the append-only history of ChainLog, every row has exactly   *)
(* one event, and every receipt names the event of its own call.           *)
(*                                                                         *)
(* The argument: BEGIN IMMEDIATE makes "holds the lock" and "is inside a   *)
(* transaction" the same thing (LockHeld), so only one caller has          *)
(* uncommitted rows (OneWriter), and those rows continue the committed     *)
(* chain (ViewsLinked).  A commit turns that view into the chain.  What    *)
(* waits to be committed says exactly what its call is about, and the      *)
(* checks for a duplicate, made under the lock, still hold when it commits *)
(* (PendFollowsActs): so a commit adds one event per row (EventsMatch).    *)
(***************************************************************************)
EXTENDS Ledger, Induction, SequenceTheorems

\* Appending commutes with the prefix a view adds to the pending rows.
LEMMA ConcatAppend ==
    ASSUME NEW S, NEW s \in Seq(S), NEW t \in Seq(S), NEW x \in S
    PROVE  s \o Append(t, x) = Append(s \o t, x)
  <1>1. /\ s \o t \in Seq(S)
        /\ Len(s \o t) = Len(s) + Len(t)
        /\ Append(t, x) \in Seq(S)
        /\ Append(s \o t, x) \in Seq(S)
    BY ConcatProperties
  <1>2. /\ s \o Append(t, x) \in Seq(S)
        /\ Len(s \o Append(t, x)) = Len(s) + Len(t) + 1
    BY <1>1, ConcatProperties
  <1>3. ASSUME NEW i \in 1..Len(s) + Len(t) + 1
        PROVE  (s \o Append(t, x))[i] = Append(s \o t, x)[i]
    <2>1. /\ Len(Append(t, x)) = Len(t) + 1
          /\ \A j \in 1..Len(t) : Append(t, x)[j] = t[j]
          /\ Append(t, x)[Len(t) + 1] = x
      BY AppendProperties
    <2>2. (s \o Append(t, x))[i] = IF i <= Len(s) THEN s[i] ELSE Append(t, x)[i - Len(s)]
      BY <1>1, <2>1, ConcatProperties
    <2>3. Append(s \o t, x)[i] = IF i <= Len(s) + Len(t) THEN (s \o t)[i] ELSE x
      BY <1>1, AppendProperties
    <2>4. i <= Len(s) + Len(t) =>
            (s \o t)[i] = IF i <= Len(s) THEN s[i] ELSE t[i - Len(s)]
      BY ConcatProperties
    <2>5. Len(s) \in Nat /\ Len(t) \in Nat OBVIOUS
    <2>6. CASE i <= Len(s) BY <2>2, <2>3, <2>4, <2>5, <2>6
    <2>7. CASE Len(s) < i /\ i <= Len(s) + Len(t)
      <3>1. i - Len(s) \in 1..Len(t) BY <2>5, <2>7
      <3> QED BY <2>1, <2>2, <2>3, <2>4, <2>5, <2>7, <3>1
    <2>8. CASE i = Len(s) + Len(t) + 1 BY <2>1, <2>2, <2>3, <2>5, <2>8
    <2> QED BY <2>5, <2>6, <2>7, <2>8
  <1> QED BY <1>1, <1>2, <1>3, SeqEqual

\* A pending event has the canonical event's shape.
LEMMA EventTyped ==
    ASSUME NEW n \in Nat, NEW kind \in Kinds, NEW ref \in Refs
    PROVE  Event(n, kind, ref) \in EventType
  BY DEF Event, EventType

\* The head hash of a typed view is a hash.
LEMMA HeadHashTyped ==
    ASSUME NEW view \in Seq(RowType)
    PROVE  HeadHash(view) \in Seq(EventType)
  <1>1. CASE view = <<>>
    BY <1>1 DEF HeadHash, Genesis
  <1>2. CASE view # <<>>
    <2>1. view[Len(view)] \in RowType BY <1>2
    <2> QED BY <1>2, <2>1 DEF HeadHash, RowType
  <1> QED BY <1>1, <1>2

\* append_in_txn inserts a row of the table's shape.
LEMMA NextRowTyped ==
    ASSUME NEW view \in Seq(RowType), NEW kind \in Kinds, NEW ref \in Refs
    PROVE  NextRow(view, kind, ref) \in RowType
  <1>1. Event(Len(view) + 1, kind, ref) \in EventType
    <2>1. Len(view) + 1 \in Nat OBVIOUS
    <2> QED BY <2>1, EventTyped
  <1>2. HeadHash(view) \in Seq(EventType) BY HeadHashTyped
  <1> QED BY <1>1, <1>2 DEF NextRow, RowType, EntryHash

\* append_in_txn extends a chain that verifies to a chain that verifies.
LEMMA AppendLinked ==
    ASSUME NEW view \in Seq(RowType), Linked(view),
           NEW kind \in Kinds, NEW ref \in Refs
    PROVE  Linked(Append(view, NextRow(view, kind, ref)))
  <1> DEFINE row == NextRow(view, kind, ref)
             n == Len(view) + 1
  <1>1. row \in RowType BY NextRowTyped
  <1>2. /\ Len(Append(view, row)) = n
        /\ \A m \in 1..Len(view) : Append(view, row)[m] = view[m]
        /\ Append(view, row)[n] = row
        /\ Len(view) \in Nat
    <2> HIDE DEF row
    <2> QED BY <1>1, AppendProperties, LenProperties
  <1>3. /\ row.event.seq = n
        /\ row.prev = IF n = 1 THEN Genesis ELSE view[n - 1].entry
        /\ row.entry = EntryHash(row.prev, row.event)
    BY DEF NextRow, Event, HeadHash
  <1> HIDE DEF row
  <1>4. ASSUME NEW m \in 1..n
        PROVE  /\ Append(view, row)[m].event.seq = m
               /\ Append(view, row)[m].prev =
                    IF m = 1 THEN Genesis ELSE Append(view, row)[m - 1].entry
               /\ Append(view, row)[m].entry =
                    EntryHash(Append(view, row)[m].prev, Append(view, row)[m].event)
    <2>1. CASE m = n
      <3>1. m # 1 => Append(view, row)[m - 1] = view[m - 1] BY <1>2, <2>1
      <3> QED BY <1>2, <1>3, <2>1, <3>1
    <2>2. CASE m # n
      <3>1. m \in 1..Len(view) /\ (m # 1 => m - 1 \in 1..Len(view)) BY <1>2, <2>2
      <3> QED BY <1>2, <3>1 DEF Linked
    <2> QED BY <2>1, <2>2
  <1> HIDE DEF n
  <1>5. Len(Append(view, row)) = n BY <1>2
  <1> QED BY <1>4, <1>5 DEF Linked, row

\* What a call appends are events about rows.
LEMMA ActsTyped ==
    ASSUME TypeOK, NEW c \in Callers, call[c] \in Items
    PROVE  Acts(c) \in Seq(Kinds \X Refs)
  <1>1. rowId[c] \in Nat BY DEF TypeOK
  <1>2. PageRow(rowId[c]) \in Refs BY <1>1 DEF PageRow, Refs
  <1>3. ASSUME NEW kind \in Kinds, NEW ref \in Refs
        PROVE  << <<kind, ref>> >> \in Seq(Kinds \X Refs)
    <2>1. <<kind, ref>> \in Kinds \X Refs OBVIOUS
    <2> QED BY <2>1
  <1>4. ASSUME NEW k \in Claims
        PROVE  RetireActs(k) \in Seq(Kinds \X Refs)
    <2>1. k \in Refs BY DEF Refs, Items
    <2>2. << <<"claim_retired", k>> >> \in Seq(Kinds \X Refs)
      BY <1>3, <2>1 DEF Kinds
    <2>3. <<>> \in Seq(Kinds \X Refs) OBVIOUS
    <2> QED BY <2>2, <2>3 DEF RetireActs
  <1>5. call[c] \in Refs BY DEF Refs
  <1>6. CASE call[c] \in Prompts BY <1>3, <1>5, <1>6, LedgerAssumptions DEF Acts, Kinds
  <1>7. CASE call[c] \in Pages BY <1>2, <1>3, <1>7, LedgerAssumptions DEF Acts, Kinds
  <1>8. CASE call[c] \in Decisions BY <1>3, <1>5, <1>8, LedgerAssumptions DEF Acts, Kinds
  <1>9. CASE call[c] \in Claims BY <1>3, <1>5, <1>9, LedgerAssumptions DEF Acts, Kinds
  <1>10. CASE call[c] \in Retires
    <2>1. PICK k \in Claims : call[c] = Retire(k) BY <1>10 DEF Retires
    <2>2. Subject(call[c]) = k BY <2>1 DEF Subject, Retire
    <2>3. call[c] \notin Undos BY <2>1 DEF Undos, Retire, Undo
    <2>4. Acts(c) = RetireActs(k)
      BY <1>10, <2>2, <2>3, LedgerAssumptions DEF Acts
    <2> QED BY <1>4, <2>4
  <1>11. CASE call[c] \in Undos
    <2>1. PICK k \in Claims : call[c] = Undo(k) BY <1>11 DEF Undos
    <2>2. Subject(call[c]) = k BY <2>1 DEF Subject, Undo
    <2>3. call[c] \notin Retires BY <2>1 DEF Retires, Retire, Undo
    <2>4. Acts(c) = Append(RetireActs(k), <<"gardener_revert", call[c]>>)
      BY <1>11, <2>2, <2>3, LedgerAssumptions DEF Acts, Kinds
    <2>5. <<"gardener_revert", call[c]>> \in Kinds \X Refs BY <1>5 DEF Kinds
    <2> QED BY <1>4, <2>4, <2>5
  <1> QED BY <1>6, <1>7, <1>8, <1>9, <1>10, <1>11 DEF Items

-----------------------------------------------------------------------------
(* The inductive invariant, action by action.                              *)

\* What a call can return.
LEMMA RepliesTyped ==
    /\ Pending \in Replies /\ Pending.st # "constraint"
    /\ Nothing \in Replies /\ Nothing.st # "constraint"
    /\ \A why \in {"busy", "constraint", "error", "crashed"} :
            Failed(why) \in Replies /\ Failed(why).st = why
    /\ \A n \in Nat : Receipt(n) \in Replies /\ Receipt(n).st # "constraint"
  BY DEF Pending, Nothing, Failed, Receipt, Replies

\* The initial state has an empty chain and no transaction.
LEMMA InitInv == Init => LedgerInv
  <1> SUFFICES ASSUME Init PROVE LedgerInv OBVIOUS
  <1> USE LedgerAssumptions DEF Init
  <1>1. TypeOK BY RepliesTyped DEF TypeOK
  <1>2. LockHeld /\ OneWriter /\ InCall /\ NoAppendLost
    BY DEF LockHeld, OneWriter, InCall, NoAppendLost, Nothing
  <1>3. ViewsLinked
    <2>1. ledger \o <<>> = <<>> OBVIOUS
    <2> QED BY <2>1 DEF ViewsLinked, Linked
  <1> QED BY <1>1, <1>2, <1>3 DEF LedgerInv

\* A step that leaves the chain and the pending rows alone keeps every view.
LEMMA SameViews ==
    ASSUME ViewsLinked, UNCHANGED <<ledger, pend>>
    PROVE  ViewsLinked'
  <1>1. ledger' = ledger /\ pend' = pend OBVIOUS
  <1> QED BY <1>1 DEF ViewsLinked

\* The committed part of a view that verifies verifies.
LEMMA LinkedPrefix ==
    ASSUME NEW s \in Seq(RowType), NEW t \in Seq(RowType), Linked(s \o t)
    PROVE  Linked(s)
  <1>1. /\ Len(s \o t) = Len(s) + Len(t)
        /\ \A n \in 1..Len(s) : (s \o t)[n] = s[n]
        /\ Len(s) \in Nat /\ Len(t) \in Nat
    BY ConcatProperties
  <1>2. ASSUME NEW n \in 1..Len(s)
        PROVE  /\ s[n].event.seq = n
               /\ s[n].prev = IF n = 1 THEN Genesis ELSE s[n - 1].entry
               /\ s[n].entry = EntryHash(s[n].prev, s[n].event)
    <2>1. n \in 1..Len(s \o t) BY <1>1
    <2>2. n # 1 => n - 1 \in 1..Len(s) BY <1>1
    <2> QED BY <1>1, <2>1, <2>2 DEF Linked
  <1> QED BY <1>2 DEF Linked

\* Every view of an invariant state starts with a chain that verifies.
LEMMA CommittedLinked ==
    ASSUME TypeOK, ViewsLinked, NEW c \in Callers
    PROVE  Linked(ledger)
  BY LinkedPrefix DEF TypeOK, ViewsLinked

\* Ending a transaction without its rows keeps every view.
LEMMA DiscardViews ==
    ASSUME TypeOK, ViewsLinked, NEW c \in Callers, UNCHANGED ledger,
           pend' = [pend EXCEPT ![c] = <<>>]
    PROVE  ViewsLinked'
  <1>1. Linked(ledger \o <<>>)
    BY CommittedLinked, ConcatEmptySeq DEF TypeOK
  <1>2. ASSUME NEW d \in Callers
        PROVE  Linked(ledger' \o pend'[d])
    <2>1. ledger' \o pend'[d] = IF d = c THEN ledger \o <<>> ELSE ledger \o pend[d]
      BY DEF TypeOK
    <2> QED BY <1>1, <2>1 DEF ViewsLinked
  <1> QED BY <1>2 DEF ViewsLinked, Linked

\* What every step outside a transaction keeps: it leaves the chain, the lock
\* and the pending rows alone, and moves only the caller outside "txn".
LEMMA OutsideStep ==
    ASSUME LedgerInv, NEW c \in Callers, NEW l \in {"idle", "lookup", "insert", "check", "begin"},
           pc[c] # "txn", pc' = [pc EXCEPT ![c] = l],
           UNCHANGED <<ledger, writer, pend>>
    PROVE  LockHeld' /\ OneWriter' /\ ViewsLinked'
  <1>1. ViewsLinked' BY SameViews DEF LedgerInv
  <1> QED BY <1>1 DEF LedgerInv, TypeOK, LockHeld, OneWriter

\* A caller submits a call.
LEMMA SubmitStep ==
    ASSUME LedgerInv, NEW c \in Callers, NEW i \in Items, Submit(c, i)
    PROVE  LedgerInv'
  <1> DEFINE l == CASE i \in Pages -> "lookup"
                    [] i \in Decisions \cup Undos -> "check"
                    [] OTHER -> "begin"
  <1>1. l \in {"lookup", "check", "begin"} /\ (i \in Undos => l = "check")
    BY LedgerAssumptions
  <1>2. pc' = [pc EXCEPT ![c] = l] BY DEF Submit
  <1> HIDE DEF l
  <1>3. TypeOK'
    BY <1>1, <1>2, RepliesTyped, LedgerAssumptions DEF LedgerInv, TypeOK, Submit, tables
  <1>4. LockHeld' /\ OneWriter' /\ ViewsLinked'
    BY <1>1, <1>2, OutsideStep DEF Submit
  <1>5. InCall' BY <1>1, <1>2 DEF LedgerInv, TypeOK, InCall, Submit, tables
  <1>6. NoAppendLost' BY RepliesTyped DEF LedgerInv, TypeOK, NoAppendLost, Submit
  <1> QED BY <1>3, <1>4, <1>5, <1>6 DEF LedgerInv

\* A page's row is looked up.
LEMMA PageLookupStep ==
    ASSUME LedgerInv, NEW c \in Callers, PageLookup(c)
    PROVE  LedgerInv'
  <1> USE DEF PageLookup, Return, Goto, tables
  <1>1. TypeOK' BY RepliesTyped DEF LedgerInv, TypeOK
  <1>2. LockHeld' /\ OneWriter' /\ ViewsLinked' BY OutsideStep
  <1>3. InCall' BY DEF LedgerInv, TypeOK, InCall
  <1>4. NoAppendLost' BY RepliesTyped DEF LedgerInv, TypeOK, NoAppendLost
  <1> QED BY <1>1, <1>2, <1>3, <1>4 DEF LedgerInv

\* A page's row is inserted.
LEMMA PageInsertStep ==
    ASSUME LedgerInv, NEW c \in Callers, PageInsert(c)
    PROVE  LedgerInv'
  <1> USE DEF PageInsert, Goto
  <1>1. call[c] \in Pages /\ call[c] \notin Undos
    BY LedgerAssumptions DEF LedgerInv, InCall
  <1>2. TypeOK' BY <1>1 DEF LedgerInv, TypeOK
  <1>3. LockHeld' /\ OneWriter' /\ ViewsLinked' BY OutsideStep
  <1>4. InCall' BY <1>1 DEF LedgerInv, TypeOK, InCall
  <1>5. NoAppendLost' BY DEF LedgerInv, TypeOK, NoAppendLost
  <1> QED BY <1>2, <1>3, <1>4, <1>5 DEF LedgerInv

\* The existence check, outside the transaction.
LEMMA CheckStep ==
    ASSUME LedgerInv, NEW c \in Callers, Check(c)
    PROVE  LedgerInv'
  <1> USE DEF Check, Return, Goto, tables
  <1>1. TypeOK' BY RepliesTyped DEF LedgerInv, TypeOK
  <1>2. LockHeld' /\ OneWriter' /\ ViewsLinked' BY OutsideStep
  <1>3. InCall' BY DEF LedgerInv, TypeOK, InCall, AlreadyRecorded
  <1>4. NoAppendLost' BY RepliesTyped DEF LedgerInv, TypeOK, NoAppendLost
  <1> QED BY <1>1, <1>2, <1>3, <1>4 DEF LedgerInv

\* The write transaction begins.
LEMMA BeginStep ==
    ASSUME LedgerInv, NEW c \in Callers, Begin(c)
    PROVE  LedgerInv'
  <1> USE DEF Begin, Goto, tables
  <1>1. TypeOK' BY DEF LedgerInv, TypeOK
  <1>2. LockHeld' BY LedgerAssumptions DEF LedgerInv, TypeOK, LockHeld, MayBegin
  <1>3. OneWriter' BY LedgerAssumptions DEF LedgerInv, TypeOK, OneWriter, MayBegin
  <1>4. InCall' BY DEF LedgerInv, TypeOK, InCall
  <1>5. ViewsLinked' BY SameViews DEF LedgerInv
  <1>6. NoAppendLost' BY DEF LedgerInv, NoAppendLost
  <1> QED BY <1>1, <1>2, <1>3, <1>4, <1>5, <1>6 DEF LedgerInv

\* Every retry of BEGIN found the file busy.
LEMMA GiveUpStep ==
    ASSUME LedgerInv, NEW c \in Callers, GiveUp(c)
    PROVE  LedgerInv'
  <1> USE DEF GiveUp, Return, tables
  <1>1. TypeOK' BY RepliesTyped DEF LedgerInv, TypeOK
  <1>2. LockHeld' /\ OneWriter' /\ ViewsLinked' BY OutsideStep
  <1>3. InCall' BY DEF LedgerInv, TypeOK, InCall
  <1>4. NoAppendLost' BY RepliesTyped DEF LedgerInv, TypeOK, NoAppendLost
  <1> QED BY <1>1, <1>2, <1>3, <1>4 DEF LedgerInv

\* A transaction that ends without its rows: found a duplicate, failed, or
\* died with its process.
LEMMA EndWithoutRows ==
    ASSUME LedgerInv, NEW c \in Callers, NEW r \in Replies, r.st # "constraint",
           writer' = IF writer = c THEN NoCaller ELSE writer,
           pend' = [pend EXCEPT ![c] = <<>>], Return(c, r),
           UNCHANGED <<ledger, tables, call, rowId, calls>>
    PROVE  LedgerInv'
  <1> USE DEF Return, tables
  <1>1. TypeOK' BY DEF LedgerInv, TypeOK
  <1>2. LockHeld' BY LedgerAssumptions DEF LedgerInv, TypeOK, LockHeld
  <1>3. OneWriter' BY DEF LedgerInv, TypeOK, OneWriter
  <1>4. InCall' BY DEF LedgerInv, TypeOK, InCall
  <1>5. ViewsLinked' BY DiscardViews DEF LedgerInv
  <1>6. NoAppendLost' BY DEF LedgerInv, TypeOK, NoAppendLost
  <1> QED BY <1>1, <1>2, <1>3, <1>4, <1>5, <1>6 DEF LedgerInv

\* The row exists already.
LEMMA ReturnExistingStep ==
    ASSUME LedgerInv, NEW c \in Callers, ReturnExisting(c)
    PROVE  LedgerInv'
  <1>1. writer = c BY DEF ReturnExisting, LedgerInv, LockHeld
  <1> QED BY <1>1, EndWithoutRows, RepliesTyped DEF ReturnExisting, Discard

\* A caller's process dies and its transaction is rolled back.
LEMMA CrashStep ==
    ASSUME LedgerInv, NEW c \in Callers, Crash(c)
    PROVE  LedgerInv'
  BY EndWithoutRows, RepliesTyped DEF Crash

\* The first pending row is the committed chain's successor, so its seq is free.
LEMMA SeqFree ==
    ASSUME LedgerInv, NEW c \in Callers, pend[c] # <<>>
    PROVE  ~SeqTaken(c)
  <1>1. ledger \in Seq(RowType) /\ pend[c] \in Seq(RowType)
    BY DEF LedgerInv, TypeOK
  <1>2. Len(ledger) \in Nat /\ Len(pend[c]) \in Nat /\ Len(pend[c]) >= 1
    BY <1>1, EmptySeq
  <1>3. /\ Len(ledger) + 1 \in 1..Len(ledger \o pend[c])
        /\ (ledger \o pend[c])[Len(ledger) + 1] = pend[c][1]
    BY <1>1, <1>2, ConcatProperties
  <1>4. pend[c][1].event.seq = Len(ledger) + 1
    BY <1>3 DEF LedgerInv, ViewsLinked, Linked
  <1> QED BY <1>2, <1>4 DEF SeqTaken

\* A statement failed and the transaction is rolled back.
LEMMA RollbackStep ==
    ASSUME LedgerInv, NEW c \in Callers, Rollback(c)
    PROVE  LedgerInv'
  <1>1. writer = c BY DEF Rollback, LedgerInv, LockHeld
  <1>2. ~(Appended(c) /\ SeqTaken(c)) BY SeqFree DEF Appended
  <1> QED BY <1>1, <1>2, EndWithoutRows, RepliesTyped DEF Rollback, Discard

\* The rows and their event are written, uncommitted.
LEMMA AppendInTxnStep ==
    ASSUME LedgerInv, NEW c \in Callers, AppendInTxn(c)
    PROVE  LedgerInv'
  <1> DEFINE act == Acts(c)[Len(pend[c]) + 1]
             row == NextRow(ledger \o pend[c], act[1], act[2])
  <1> USE DEF AppendInTxn, tables
  <1>1. ledger \in Seq(RowType) /\ pend[c] \in Seq(RowType) /\ pend \in [Callers -> Seq(RowType)]
    BY DEF LedgerInv, TypeOK
  <1>2. act \in Kinds \X Refs
    <2>1. Acts(c) \in Seq(Kinds \X Refs) BY ActsTyped DEF LedgerInv, InCall
    <2>2. Len(pend[c]) + 1 \in 1..Len(Acts(c)) BY <1>1, <2>1, LenProperties
    <2> QED BY <2>1, <2>2, ElementOfSeq
  <1>3. ledger \o pend[c] \in Seq(RowType) BY <1>1
  <1>4. act[1] \in Kinds /\ act[2] \in Refs BY <1>2
  <1>5. row \in RowType BY <1>3, <1>4, NextRowTyped
  <1>6. Linked(Append(ledger \o pend[c], row))
    BY <1>3, <1>4, AppendLinked DEF LedgerInv, ViewsLinked
  <1>7. pend' = [pend EXCEPT ![c] = Append(pend[c], row)] OBVIOUS
  <1> HIDE DEF row
  <1>8. TypeOK' BY <1>1, <1>5, <1>7 DEF LedgerInv, TypeOK
  <1>9. LockHeld' BY DEF LedgerInv, LockHeld
  <1>10. OneWriter' BY <1>1, <1>7 DEF LedgerInv, OneWriter, LockHeld
  <1>11. InCall' BY DEF LedgerInv, InCall
  <1>12. ViewsLinked'
    <2>1. ASSUME NEW d \in Callers
          PROVE  Linked(ledger' \o pend'[d])
      <3>1. CASE d = c
        <4>1. ledger' \o pend'[d] = Append(ledger \o pend[c], row)
          BY <1>1, <1>5, <1>7, <3>1, ConcatAppend
        <4> QED BY <1>6, <4>1
      <3>2. CASE d # c
        BY <1>1, <1>7, <3>2 DEF LedgerInv, ViewsLinked
      <3> QED BY <3>1, <3>2
    <2> QED BY <2>1 DEF ViewsLinked, Linked
  <1>13. NoAppendLost' BY DEF LedgerInv, NoAppendLost
  <1> QED BY <1>8, <1>9, <1>10, <1>11, <1>12, <1>13 DEF LedgerInv

\* A claim a transaction retires is a recorded one.
LEMMA RetiredIsRecorded ==
    ASSUME LedgerInv, NEW c \in Callers, Appended(c), NEW k \in Claims,
           call[c] \in {Retire(k), Undo(k)}
    PROVE  k \in claims
  <1>1. Subject(call[c]) = k BY DEF Subject, Retire, Undo
  <1>2. CASE call[c] = Undo(k)
    BY <1>1, <1>2 DEF LedgerInv, InCall, Appended, Undos
  <1>3. CASE call[c] = Retire(k)
    <2>1. call[c] \in Retires /\ call[c] \notin Undos
      BY <1>3 DEF Retires, Undos, Retire, Undo
    <2>2. Acts(c) = RetireActs(k) BY <1>1, <2>1, LedgerAssumptions DEF Acts
    <2>3. Len(pend[c]) # 0 BY EmptySeq DEF LedgerInv, TypeOK, Appended
    <2>4. Acts(c) # <<>> BY <2>3 DEF Appended
    <2> QED BY <2>2, <2>4 DEF RetireActs
  <1> QED BY <1>2, <1>3

\* The transaction commits.
LEMMA CommitStep ==
    ASSUME LedgerInv, NEW c \in Callers, Commit(c)
    PROVE  LedgerInv'
  <1> DEFINE n == pend[c][Len(pend[c])].event.seq
  <1> USE DEF Commit, Discard, Return
  <1>1. ledger \in Seq(RowType) /\ pend \in [Callers -> Seq(RowType)]
    BY DEF LedgerInv, TypeOK
  <1>2. n \in Nat
    <2>1. pend[c][Len(pend[c])] \in RowType BY <1>1 DEF Appended
    <2> QED BY <2>1 DEF RowType, EventType
  <1>3. writer = c BY DEF LedgerInv, LockHeld, Appended
  <1>4. \A d \in Callers : pend'[d] = <<>>
    BY <1>1, <1>3 DEF LedgerInv, OneWriter
  <1>5. Receipt(n) \in Replies /\ Receipt(n).st # "constraint" BY <1>2, RepliesTyped
  <1> HIDE DEF n
  <1>6. TypeOK'
    <2>1. ledger' \in Seq(RowType) BY <1>1
    <2>2. reply' \in [Callers -> Replies] BY <1>5 DEF n, LedgerInv, TypeOK
    <2>3. /\ prompts' \subseteq Prompts
          /\ claims' \subseteq Claims /\ claims \subseteq claims'
          /\ reverted' \subseteq retired'
      BY DEF LedgerInv, TypeOK
    <2>4. retired' \subseteq claims'
      BY <2>3, RetiredIsRecorded DEF LedgerInv, TypeOK
    <2> QED BY <1>1, <2>1, <2>2, <2>3, <2>4 DEF LedgerInv, TypeOK
  <1>7. LockHeld' BY <1>3, LedgerAssumptions DEF LedgerInv, TypeOK, LockHeld
  <1>8. OneWriter' BY <1>4 DEF OneWriter
  <1>9. InCall'
    <2>1. claims \subseteq claims' OBVIOUS
    <2> QED BY <2>1 DEF LedgerInv, TypeOK, InCall
  <1>10. ViewsLinked'
    <2>1. ledger' \in Seq(RowType) /\ Linked(ledger')
      BY <1>1 DEF LedgerInv, ViewsLinked
    <2>2. \A d \in Callers : Linked(ledger' \o pend'[d])
      BY <1>4, <2>1, ConcatEmptySeq
    <2> QED BY <2>2 DEF ViewsLinked, Linked
  <1>11. NoAppendLost' BY <1>5 DEF n, LedgerInv, TypeOK, NoAppendLost
  <1> QED BY <1>6, <1>7, <1>8, <1>9, <1>10, <1>11 DEF LedgerInv

-----------------------------------------------------------------------------
(* The theorems.                                                           *)

\* Every step of every caller keeps the invariant.
LEMMA LedgerInvStep == LedgerInv /\ [Next]_vars => LedgerInv'
  <1> SUFFICES ASSUME LedgerInv, [Next]_vars PROVE LedgerInv' OBVIOUS
  <1>1. ASSUME NEW c \in Callers, NEW i \in Items, Submit(c, i) PROVE LedgerInv'
    BY <1>1, SubmitStep
  <1>2. ASSUME NEW c \in Callers, Step(c) PROVE LedgerInv'
    BY <1>2, PageLookupStep, PageInsertStep, CheckStep, BeginStep, GiveUpStep,
       ReturnExistingStep, AppendInTxnStep, CommitStep, RollbackStep DEF Step
  <1>3. ASSUME NEW c \in Callers, Crash(c) PROVE LedgerInv'
    BY <1>3, CrashStep
  <1>4. CASE UNCHANGED vars
    <2>1. TypeOK' BY <1>4 DEF vars, tables, LedgerInv, TypeOK
    <2>2. LockHeld' /\ OneWriter' /\ NoAppendLost'
      BY <1>4 DEF vars, LedgerInv, LockHeld, OneWriter, NoAppendLost
    <2>3. InCall' BY <1>4 DEF vars, tables, LedgerInv, InCall
    <2>4. ViewsLinked' BY <1>4, SameViews DEF vars, LedgerInv
    <2> QED BY <2>1, <2>2, <2>3, <2>4 DEF LedgerInv
  <1>5. CASE Quiescent BY <1>4, <1>5 DEF Quiescent
  <1> QED BY <1>1, <1>2, <1>3, <1>4, <1>5 DEF Next

\* The strengthening holds in every reachable state.
THEOREM LedgerInvariant == Spec => []LedgerInv
  <1> QED BY InitInv, LedgerInvStep, PTL DEF Spec

\* Every variable keeps its shape, and nothing is retired or reverted that was
\* not recorded: Spec => []TypeOK.
THEOREM LedgerTypeCorrect == Spec => []TypeOK
  <1>1. LedgerInv => TypeOK BY DEF LedgerInv
  <1> QED BY <1>1, LedgerInvariant, PTL

\* The committed chain verifies in every reachable state, whatever the callers
\* append, roll back or crash in: append_event never forks it.
THEOREM ChainAlwaysIntact == Spec => []ChainIntact
  <1>1. LedgerInv => ChainIntact
    BY CommittedLinked, LedgerAssumptions DEF LedgerInv, ChainIntact
  <1> QED BY <1>1, LedgerInvariant, PTL

\* No append ever fails because another writer took its seq.
THEOREM NoAppendEverLost == Spec => []NoAppendLost
  <1>1. LedgerInv => NoAppendLost BY DEF LedgerInv
  <1> QED BY <1>1, LedgerInvariant, PTL

-----------------------------------------------------------------------------
(* The chain implements the abstract history.                              *)

\* A hash with an event appended.
LEMMA EventAppended ==
    ASSUME NEW h \in Seq(EventType), NEW e \in EventType
    PROVE  /\ Len(Append(h, e)) = Len(h) + 1
           /\ Append(h, e)[Len(h) + 1] = e
           /\ \A m \in 1..Len(h) : Append(h, e)[m] = h[m]
           /\ Len(h) \in Nat
  BY AppendProperties, LenProperties

\* Every row's hash of a chain that verifies lists the events up to that row.
LEMMA HashListsEvents ==
    ASSUME NEW s \in Seq(RowType), Linked(s), NEW n \in 1..Len(s)
    PROVE  /\ s[n].entry \in Seq(EventType) /\ Len(s[n].entry) = n
           /\ \A m \in 1..n : s[n].entry[m] = s[m].event
  <1> DEFINE T == {k \in 1..Len(s) : /\ Len(s[k].entry) = k
                                     /\ \A m \in 1..k : s[k].entry[m] = s[m].event}
  <1>1. ASSUME NEW k \in 1..Len(s)
        PROVE  /\ s[k] \in RowType /\ s[k].event \in EventType
               /\ s[k].prev \in Seq(EventType) /\ s[k].entry \in Seq(EventType)
               /\ s[k].prev = IF k = 1 THEN Genesis ELSE s[k - 1].entry
               /\ s[k].entry = Append(s[k].prev, s[k].event)
    <2>1. s[k] \in RowType BY ElementOfSeq
    <2> QED BY <2>1 DEF Linked, EntryHash, RowType
  <1>2. ASSUME NEW k \in 1..Len(s)
        PROVE  /\ Len(s[k].entry) = Len(s[k].prev) + 1
               /\ s[k].entry[Len(s[k].prev) + 1] = s[k].event
               /\ \A m \in 1..Len(s[k].prev) : s[k].entry[m] = s[k].prev[m]
    <2>1. s[k].prev \in Seq(EventType) /\ s[k].event \in EventType BY <1>1
    <2>2. s[k].entry = Append(s[k].prev, s[k].event) BY <1>1
    <2> QED BY <2>1, <2>2, EventAppended
  <1>3. 1 <= Len(s) => 1 \in T
    <2>1. ASSUME 1 <= Len(s)
          PROVE  1 \in T
      <3>1. 1 \in 1..Len(s) BY <2>1, LenProperties
      <3>2. s[1].prev = <<>> /\ Len(s[1].prev) = 0 BY <1>1, <3>1, EmptySeq DEF Genesis
      <3>3. Len(s[1].entry) = 1 /\ s[1].entry[1] = s[1].event
        <4>1. /\ Len(s[1].entry) = Len(s[1].prev) + 1
              /\ s[1].entry[Len(s[1].prev) + 1] = s[1].event
          BY <1>2, <3>1
        <4>2. Len(s[1].prev) + 1 = 1 BY <3>2
        <4> QED BY <4>1, <4>2
      <3>4. \A m \in 1..1 : m = 1 OBVIOUS
      <3> QED BY <3>1, <3>3, <3>4
    <2> QED BY <2>1
  <1>4. ASSUME NEW k \in 1..Len(s), k < Len(s), k \in T
        PROVE  k + 1 \in T
    <2>1. k + 1 \in 1..Len(s) /\ k + 1 # 1 /\ (k + 1) - 1 = k BY <1>4, LenProperties
    <2>2. s[k + 1].prev = s[k].entry BY <1>1, <2>1
    <2>3. Len(s[k + 1].entry) = k + 1 /\ s[k + 1].entry[k + 1] = s[k + 1].event
      BY <1>2, <1>4, <2>1, <2>2
    <2>4. ASSUME NEW m \in 1..k
          PROVE  s[k + 1].entry[m] = s[m].event
      <3>1. m \in 1..Len(s[k + 1].prev) BY <1>4, <2>2
      <3>2. s[k + 1].entry[m] = s[k].entry[m] BY <1>2, <2>1, <2>2, <3>1
      <3> QED BY <1>4, <3>2
    <2>5. \A m \in 1..(k + 1) : m \in 1..k \/ m = k + 1 BY <1>4
    <2> QED BY <2>1, <2>3, <2>4, <2>5
  <1>5. 1..Len(s) \subseteq T
    <2> HIDE DEF T
    <2>1. \A k \in 1..Len(s) : k < Len(s) /\ k \in T => k + 1 \in T BY <1>4
    <2>2. 1 \in Int /\ Len(s) \in Int BY LenProperties
    <2> QED BY <1>3, <2>1, <2>2, IntervalInduction
  <1> QED BY <1>1, <1>5

\* The head hash of a chain that verifies is the list of its events.
LEMMA HeadHashIsHistory ==
    ASSUME NEW s \in Seq(RowType), Linked(s)
    PROVE  /\ HeadHash(s) \in Seq(EventType) /\ Len(HeadHash(s)) = Len(s)
           /\ \A n \in 1..Len(s) : HeadHash(s)[n] = s[n].event /\ s[n].event.seq = n
  <1>1. CASE s = <<>> BY <1>1, EmptySeq, LenProperties DEF HeadHash, Genesis
  <1>2. CASE s # <<>>
    <2>1. Len(s) \in 1..Len(s) BY <1>2, EmptySeq, LenProperties
    <2> QED BY <1>2, <2>1, HashListsEvents DEF HeadHash, Linked
  <1> QED BY <1>1, <1>2

\* A commit is the only step that changes the chain, and what it does to the
\* head hash is one step of the abstract history.
LEMMA CommitGrowsLog ==
    ASSUME LedgerInv, NEW c \in Callers, Commit(c)
    PROVE  Log!Grow
  <1>1. /\ ledger \in Seq(RowType) /\ pend[c] \in Seq(RowType)
        /\ ledger' = ledger \o pend[c] /\ pend[c] # <<>>
    BY DEF LedgerInv, TypeOK, Commit, Appended
  <1>2. /\ ledger' \in Seq(RowType)
        /\ Len(ledger') = Len(ledger) + Len(pend[c])
        /\ \A n \in 1..Len(ledger) : ledger'[n] = ledger[n]
    BY <1>1, ConcatProperties
  <1>3. Linked(ledger) /\ Linked(ledger')
    BY <1>1, CommittedLinked DEF LedgerInv, ViewsLinked
  <1>4. Len(ledger) \in Nat /\ Len(pend[c]) \in Nat /\ Len(pend[c]) > 0
    BY <1>1, EmptySeq, LenProperties
  <1>5. /\ Len(HeadHash(ledger)) = Len(ledger)
        /\ \A n \in 1..Len(ledger) : HeadHash(ledger)[n] = ledger[n].event
    BY <1>1, <1>3, HeadHashIsHistory
  <1>6. /\ Len(HeadHash(ledger')) = Len(ledger')
        /\ \A n \in 1..Len(ledger') :
            HeadHash(ledger')[n] = ledger'[n].event /\ ledger'[n].event.seq = n
    BY <1>2, <1>3, HeadHashIsHistory
  <1>7. Len(HeadHash(ledger)) < Len(HeadHash(ledger')) BY <1>2, <1>4, <1>5, <1>6
  <1>8. \A n \in 1..Len(HeadHash(ledger)) : HeadHash(ledger')[n] = HeadHash(ledger)[n]
    BY <1>2, <1>4, <1>5, <1>6
  <1>9. \A n \in 1..Len(HeadHash(ledger')) : HeadHash(ledger')[n].seq = n BY <1>6
  <1>10. HeadHash(ledger)' = HeadHash(ledger') BY DEF HeadHash, Genesis
  <1> QED BY <1>7, <1>8, <1>9, <1>10 DEF Log!Grow, Log!Numbered

\* Every other step leaves the chain alone.
LEMMA OnlyCommitGrows ==
    ASSUME [Next]_vars, \A c \in Callers : ~Commit(c)
    PROVE  UNCHANGED ledger
  <1>1. ASSUME NEW c \in Callers, Step(c) PROVE UNCHANGED ledger
    BY <1>1 DEF Step, PageLookup, PageInsert, Check, Begin, GiveUp, ReturnExisting,
                AppendInTxn, Rollback
  <1> QED BY <1>1 DEF Next, Submit, Crash, Quiescent, vars

\* The ledger implements ChainLog: to a reader of the head hash, appends,
\* rollbacks, retries and crashes are one numbered history that only grows.
THEOREM LedgerImplementsChainLog == Spec => ImplementsChainLog
  <1>1. Init => Log!Init BY DEF Init, Log!Init, HeadHash, Genesis
  <1>2. LedgerInv /\ [Next]_vars => [Log!Grow]_(HeadHash(ledger))
    <2> SUFFICES ASSUME LedgerInv, [Next]_vars
                 PROVE  Log!Grow \/ HeadHash(ledger)' = HeadHash(ledger)
      OBVIOUS
    <2>1. CASE \E c \in Callers : Commit(c) BY <2>1, CommitGrowsLog
    <2>2. CASE \A c \in Callers : ~Commit(c)
      <3>1. UNCHANGED ledger BY <2>2, OnlyCommitGrows
      <3> QED BY <3>1 DEF HeadHash, Genesis
    <2> QED BY <2>1, <2>2
  <1> QED BY <1>1, <1>2, LedgerInvariant, PTL DEF Spec, ImplementsChainLog, Log!Spec

-----------------------------------------------------------------------------
(* Rows and events exist together.                                         *)

\* What a transaction has appended so far is the beginning of what its call
\* says, and no duplicate of it is stored.
PendFollowsActs ==
    \A c \in Callers : pend[c] # <<>> =>
        /\ Len(pend[c]) <= Len(Acts(c))
        /\ \A j \in 1..Len(pend[c]) :
            /\ pend[c][j].event.kind = Acts(c)[j][1]
            /\ pend[c][j].event.ref = Acts(c)[j][2]
        /\ ~DuplicateInTxn(c)

\* A call that has not returned has no reply yet.
Waiting == \A c \in Callers : pc[c] # "idle" => reply[c].st = "pending"

\* Exactly one event of a kind about a thing, or none.
ExactlyOneIf(present, kind, ref) ==
    /\ present => \E n : EventsAbout(kind, ref) = {n}
    /\ ~present => EventsAbout(kind, ref) = {}
PromptsOnce == \A i \in Prompts : ExactlyOneIf(i \in prompts, "prompt", i)
ClaimsOnce == \A k \in Claims : ExactlyOneIf(k \in claims, "claim", k)
RetiresOnce == \A k \in Claims : ExactlyOneIf(k \in retired, "claim_retired", k)
EventsMatch == PromptsOnce /\ ClaimsOnce /\ RetiresOnce /\ UndosChained

RecordInv == LedgerInv /\ PendFollowsActs /\ Waiting /\ EventsMatch /\ ReceiptNamesOwnEvent

\* Exactly one event is what the property counts.
LEMMA EventsMatchCounts == EventsMatch => RowsMatchChain
  <1>1. ASSUME NEW S
        PROVE  /\ (\E n : S = {n}) => Cardinality(S) = 1
               /\ S = {} => Cardinality(S) = 0
    BY FS_Singleton, FS_EmptySet
  <1>2. ASSUME EventsMatch
        PROVE  PromptsChained
    BY <1>1, <1>2 DEF EventsMatch, PromptsOnce, PromptsChained, ExactlyOneIf, OneEventIff
  <1>3. ASSUME EventsMatch
        PROVE  ClaimsChained
    BY <1>1, <1>3 DEF EventsMatch, ClaimsOnce, ClaimsChained, ExactlyOneIf, OneEventIff
  <1>4. ASSUME EventsMatch
        PROVE  RetiresChained
    BY <1>1, <1>4 DEF EventsMatch, RetiresOnce, RetiresChained, ExactlyOneIf, OneEventIff
  <1>5. EventsMatch => UndosChained BY DEF EventsMatch
  <1> QED BY <1>2, <1>3, <1>4, <1>5 DEF RowsMatchChain

\* Appending to a sequence of one.
LEMMA AppendSecond ==
    ASSUME NEW a, NEW b
    PROVE  Append(<<a>>, b) = <<a, b>>
  <1> DEFINE S == {a, b}
  <1>1. <<a>> \in Seq(S) /\ b \in S /\ <<a, b>> \in Seq(S) OBVIOUS
  <1>2. Len(<<a>>) = 1 /\ <<a>>[1] = a /\ Len(<<a, b>>) = 2 /\ <<a, b>>[1] = a /\ <<a, b>>[2] = b
    OBVIOUS
  <1>3. /\ Append(<<a>>, b) \in Seq(S) /\ Len(Append(<<a>>, b)) = Len(<<a>>) + 1
        /\ \A i \in 1..Len(<<a>>) : Append(<<a>>, b)[i] = <<a>>[i]
        /\ Append(<<a>>, b)[Len(<<a>>) + 1] = b
    <2> HIDE DEF S
    <2> QED BY <1>1, AppendProperties
  <1>4. /\ Len(Append(<<a>>, b)) = 2
        /\ \A i \in 1..2 : Append(<<a>>, b)[i] = <<a, b>>[i]
    <2>1. \A i \in 1..2 : i = 1 \/ i = 2 OBVIOUS
    <2> QED BY <1>2, <1>3, <2>1
  <1> HIDE DEF S
  <1> QED BY <1>1, <1>2, <1>3, <1>4, SeqEqual

\* The two events of a retire-and-revert, and each alone.
LEMMA RetireActsFacts ==
    ASSUME NEW k \in Claims, NEW u \in Refs
    PROVE  /\ k \in claims \ retired =>
                /\ RetireActs(k) = << <<"claim_retired", k>> >>
                /\ Append(RetireActs(k), <<"gardener_revert", u>>) =
                     << <<"claim_retired", k>>, <<"gardener_revert", u>> >>
           /\ k \notin claims \ retired =>
                /\ RetireActs(k) = <<>>
                /\ Append(RetireActs(k), <<"gardener_revert", u>>) = << <<"gardener_revert", u>> >>
  <1>1. CASE k \in claims \ retired
    <2>1. RetireActs(k) = << <<"claim_retired", k>> >> BY <1>1 DEF RetireActs
    <2>2. Append(<< <<"claim_retired", k>> >>, <<"gardener_revert", u>>) =
            << <<"claim_retired", k>>, <<"gardener_revert", u>> >>
      BY AppendSecond
    <2> QED BY <1>1, <2>1, <2>2
  <1>2. CASE k \notin claims \ retired
    <2>1. RetireActs(k) = <<>> BY <1>2 DEF RetireActs
    <2>2. Append(<<>>, <<"gardener_revert", u>>) = << <<"gardener_revert", u>> >>
      OBVIOUS
    <2> QED BY <1>2, <2>1, <2>2
  <1> QED BY <1>1, <1>2

\* What each kind of call says: each thing at most once, and what it is about.
ActsSound(c) ==
    /\ \A i, j \in 1..Len(Acts(c)) : Acts(c)[i][1] = Acts(c)[j][1] => i = j
    /\ \A j \in 1..Len(Acts(c)) :
        /\ Acts(c)[j][1] = "prompt" => call[c] \in Prompts /\ Acts(c)[j][2] = call[c]
        /\ Acts(c)[j][1] = "claim" => call[c] \in Claims /\ Acts(c)[j][2] = call[c]
        /\ Acts(c)[j][1] = "claim_retired" =>
            \E k \in claims \ retired : call[c] \in {Retire(k), Undo(k)} /\ Acts(c)[j][2] = k
        /\ Acts(c)[j][1] = "gardener_revert" => call[c] \in Undos /\ Acts(c)[j][2] = call[c]
    /\ call[c] \in Prompts => \E j \in 1..Len(Acts(c)) : Acts(c)[j] = <<"prompt", call[c]>>
    /\ call[c] \in Claims => \E j \in 1..Len(Acts(c)) : Acts(c)[j] = <<"claim", call[c]>>
    /\ \A k \in claims \ retired : call[c] \in {Retire(k), Undo(k)} =>
        \E j \in 1..Len(Acts(c)) : Acts(c)[j] = <<"claim_retired", k>>
    /\ call[c] \in Undos => \E j \in 1..Len(Acts(c)) : Acts(c)[j] = <<"gardener_revert", call[c]>>
    /\ Len(Acts(c)) # 0 => Acts(c)[Len(Acts(c))][2] = LastRef(c)

LEMMA ActsAreSound ==
    ASSUME TypeOK, NEW c \in Callers, call[c] \in Items
    PROVE  ActsSound(c)
  <1>1. \A k \in Claims : Retire(k) \in Retires /\ Undo(k) \in Undos BY DEF Retires, Undos
  <1>2. \A k \in Claims, l \in Claims :
            /\ Retire(k) = Retire(l) => k = l
            /\ Undo(k) = Undo(l) => k = l
            /\ Retire(k) # Undo(l)
            /\ Subject(Retire(k)) = k /\ Subject(Undo(k)) = k
    BY DEF Retire, Undo, Subject
  <1>3. claims \subseteq Claims BY DEF TypeOK
  <1>4. ASSUME NEW x \in {"prompt", "browse_event", "decision", "claim"}, NEW r,
               Acts(c) = << <<x, r>> >>
        PROVE  /\ Len(Acts(c)) = 1 /\ Acts(c)[1] = <<x, r>>
               /\ \A j \in 1..Len(Acts(c)) : j = 1
    BY <1>4
  <1>5. CASE call[c] \in Prompts
    <2>1. Acts(c) = << <<"prompt", call[c]>> >> /\ LastRef(c) = call[c]
      BY <1>5, LedgerAssumptions DEF Acts, LastRef
    <2>2. call[c] \notin Claims \cup Retires \cup Undos BY <1>5, LedgerAssumptions
    <2> QED BY <1>1, <1>3, <1>4, <1>5, <2>1, <2>2 DEF ActsSound
  <1>6. CASE call[c] \in Pages
    <2>1. /\ Acts(c) = << <<"browse_event", PageRow(rowId[c])>> >>
          /\ LastRef(c) = PageRow(rowId[c])
      BY <1>6, LedgerAssumptions DEF Acts, LastRef
    <2>2. call[c] \notin Prompts \cup Claims \cup Retires \cup Undos BY <1>6, LedgerAssumptions
    <2> QED BY <1>1, <1>3, <1>4, <1>6, <2>1, <2>2 DEF ActsSound
  <1>7. CASE call[c] \in Decisions
    <2>1. Acts(c) = << <<"decision", call[c]>> >> /\ LastRef(c) = call[c]
      BY <1>7, LedgerAssumptions DEF Acts, LastRef
    <2>2. call[c] \notin Prompts \cup Claims \cup Retires \cup Undos BY <1>7, LedgerAssumptions
    <2> QED BY <1>1, <1>3, <1>4, <1>7, <2>1, <2>2 DEF ActsSound
  <1>8. CASE call[c] \in Claims
    <2>1. Acts(c) = << <<"claim", call[c]>> >> /\ LastRef(c) = call[c]
      BY <1>8, LedgerAssumptions DEF Acts, LastRef
    <2>2. call[c] \notin Prompts \cup Retires \cup Undos BY <1>8, LedgerAssumptions
    <2> QED BY <1>1, <1>3, <1>4, <1>8, <2>1, <2>2 DEF ActsSound
  <1>9. CASE call[c] \in Retires
    <2>1. PICK k \in Claims : call[c] = Retire(k) BY <1>9 DEF Retires
    <2>2. Subject(call[c]) = k /\ \A l \in Claims : call[c] \in {Retire(l), Undo(l)} => l = k
      BY <1>2, <2>1
    <2>3. call[c] \notin Prompts \cup Claims \cup Undos \cup Pages \cup Decisions
      BY <1>2, <1>9, <2>1, LedgerAssumptions DEF Undos
    <2>4. Acts(c) = RetireActs(k) /\ LastRef(c) = k
      BY <1>9, <2>2, <2>3 DEF Acts, LastRef
    <2>5. CASE k \in claims \ retired
      <3>1. Acts(c) = << <<"claim_retired", k>> >> BY <2>4, <2>5 DEF RetireActs
      <3>2. /\ Len(Acts(c)) = 1 /\ Acts(c)[1] = <<"claim_retired", k>>
            /\ \A j \in 1..Len(Acts(c)) : j = 1
        BY <3>1
      <3> QED BY <1>3, <2>1, <2>2, <2>3, <2>4, <2>5, <3>2 DEF ActsSound
    <2>6. CASE k \notin claims \ retired
      <3>1. Acts(c) = <<>> /\ Len(Acts(c)) = 0 BY <2>4, <2>6 DEF RetireActs
      <3> QED BY <1>3, <2>2, <2>3, <2>6, <3>1 DEF ActsSound
    <2> QED BY <2>5, <2>6
  <1>10. CASE call[c] \in Undos
    <2>1. PICK k \in Claims : call[c] = Undo(k) BY <1>10 DEF Undos
    <2>2. Subject(call[c]) = k /\ \A l \in Claims : call[c] \in {Retire(l), Undo(l)} => l = k
      BY <1>2, <2>1
    <2>3. call[c] \notin Prompts \cup Claims \cup Retires \cup Pages \cup Decisions
      BY <1>2, <1>10, <2>1, LedgerAssumptions DEF Retires
    <2>4. /\ Acts(c) = Append(RetireActs(k), <<"gardener_revert", call[c]>>)
          /\ LastRef(c) = call[c] /\ call[c] \in Refs
      BY <1>10, <2>2, <2>3 DEF Acts, LastRef, Refs
    <2>5. CASE k \in claims \ retired
      <3>1. Acts(c) = << <<"claim_retired", k>>, <<"gardener_revert", call[c]>> >>
        BY <2>4, <2>5, RetireActsFacts
      <3>2. /\ Len(Acts(c)) = 2 /\ Acts(c)[1] = <<"claim_retired", k>>
            /\ Acts(c)[2] = <<"gardener_revert", call[c]>>
            /\ \A j \in 1..Len(Acts(c)) : j = 1 \/ j = 2
        BY <3>1
      <3> QED BY <1>3, <1>10, <2>1, <2>2, <2>3, <2>4, <2>5, <3>2 DEF ActsSound
    <2>6. CASE k \notin claims \ retired
      <3>1. Acts(c) = << <<"gardener_revert", call[c]>> >>
        BY <2>4, <2>6, RetireActsFacts
      <3>2. /\ Len(Acts(c)) = 1 /\ Acts(c)[1] = <<"gardener_revert", call[c]>>
            /\ \A j \in 1..Len(Acts(c)) : j = 1
        BY <3>1
      <3> QED BY <1>3, <1>10, <2>1, <2>2, <2>3, <2>4, <2>6, <3>2 DEF ActsSound
    <2> QED BY <2>5, <2>6
  <1> QED BY <1>5, <1>6, <1>7, <1>8, <1>9, <1>10 DEF Items

\* Initially there is nothing.
LEMMA RecordInit == Init => RecordInv
  <1> SUFFICES ASSUME Init PROVE RecordInv OBVIOUS
  <1>1. \A kind, ref : EventsAbout(kind, ref) = {} BY EmptySeq DEF Init, EventsAbout
  <1>2. EventsMatch
    BY <1>1 DEF Init, EventsMatch, PromptsOnce, ClaimsOnce, RetiresOnce, UndosChained, ExactlyOneIf
  <1>3. PendFollowsActs /\ Waiting /\ ReceiptNamesOwnEvent
    BY DEF Init, PendFollowsActs, Waiting, ReceiptNamesOwnEvent, Nothing
  <1> QED BY <1>2, <1>3, InitInv DEF RecordInv

\* What a call says and is about depends on its item, its page's row and the
\* claims' tables alone.
LEMMA SameActs ==
    ASSUME NEW c \in Callers, UNCHANGED <<prompts, claims, retired>>,
           call'[c] = call[c], rowId'[c] = rowId[c]
    PROVE  /\ Acts(c)' = Acts(c) /\ (DuplicateInTxn(c)' <=> DuplicateInTxn(c))
           /\ LastRef(c)' = LastRef(c)
  <1>1. Acts(c)' = Acts(c) BY DEF Acts, RetireActs
  <1>2. LastRef(c)' = LastRef(c) BY DEF LastRef
  <1> QED BY <1>1, <1>2 DEF DuplicateInTxn

\* Events and rows match as long as neither changes.
LEMMA SameRecords ==
    ASSUME EventsMatch, UNCHANGED <<ledger, prompts, claims, retired, reverted>>
    PROVE  EventsMatch'
  <1>1. \A kind, ref : EventsAbout(kind, ref)' = EventsAbout(kind, ref) BY DEF EventsAbout
  <1>2. PromptsOnce' BY <1>1 DEF EventsMatch, PromptsOnce, ExactlyOneIf
  <1>3. ClaimsOnce' BY <1>1 DEF EventsMatch, ClaimsOnce, ExactlyOneIf
  <1>4. RetiresOnce' BY <1>1 DEF EventsMatch, RetiresOnce, ExactlyOneIf
  <1>5. UndosChained' BY <1>1 DEF EventsMatch, UndosChained
  <1> QED BY <1>2, <1>3, <1>4, <1>5 DEF EventsMatch

\* Steps that write neither the chain nor the tables its events are about.
LEMMA UnrecordedStep ==
    ASSUME RecordInv, LedgerInv', Waiting', UNCHANGED <<ledger, prompts, claims, retired, reverted>>,
           \A d \in Callers :
                pend'[d] = <<>> \/ (pend'[d] = pend[d] /\ call'[d] = call[d] /\ rowId'[d] = rowId[d]),
           \A d \in Callers :
                reply'[d].st # "ok" \/ (reply'[d] = reply[d] /\ call'[d] = call[d] /\ rowId'[d] = rowId[d])
    PROVE  RecordInv'
  <1>1. PendFollowsActs'
    <2>1. ASSUME NEW d \in Callers, pend'[d] # <<>>
          PROVE  /\ Len(pend'[d]) <= Len(Acts(d)')
                 /\ \A j \in 1..Len(pend'[d]) :
                     /\ pend'[d][j].event.kind = Acts(d)'[j][1]
                     /\ pend'[d][j].event.ref = Acts(d)'[j][2]
                 /\ ~DuplicateInTxn(d)'
      <3>1. Acts(d)' = Acts(d) /\ (DuplicateInTxn(d)' <=> DuplicateInTxn(d)) /\ pend'[d] = pend[d]
        BY <2>1, SameActs
      <3> QED BY <2>1, <3>1 DEF RecordInv, PendFollowsActs
    <2> QED BY <2>1 DEF PendFollowsActs
  <1>2. ReceiptNamesOwnEvent'
    <2>1. ASSUME NEW d \in Callers, reply'[d].st = "ok"
          PROVE  /\ reply'[d].seq \in 1..Len(ledger')
                 /\ ledger'[reply'[d].seq].event.ref = LastRef(d)'
      <3>1. reply'[d] = reply[d] /\ LastRef(d)' = LastRef(d) BY <2>1, SameActs
      <3> QED BY <2>1, <3>1 DEF RecordInv, ReceiptNamesOwnEvent
    <2> QED BY <2>1 DEF ReceiptNamesOwnEvent
  <1>4. EventsMatch' BY SameRecords DEF RecordInv
  <1> QED BY <1>1, <1>2, <1>4 DEF RecordInv

\* The replies that are no receipt.
LEMMA OtherReplies ==
    /\ Pending.st = "pending" /\ Nothing.st # "ok"
    /\ \A why \in {"busy", "constraint", "error", "crashed"} : Failed(why).st # "ok"
    /\ \A n : Receipt(n).st = "ok" /\ Receipt(n).seq = n
  BY DEF Pending, Nothing, Failed, Receipt

\* A call outside a transaction has written nothing.
LEMMA OutsideIsEmpty ==
    ASSUME LedgerInv, NEW c \in Callers, pc[c] # "txn"
    PROVE  pend[c] = <<>>
  BY DEF LedgerInv, LockHeld, OneWriter

\* The steps of a call other than its appends and its commit.
LEMMA UnrecordedSteps ==
    ASSUME RecordInv, LedgerInv', NEW c \in Callers,
           \/ \E i \in Items : Submit(c, i)
           \/ PageLookup(c) \/ PageInsert(c) \/ Check(c) \/ Begin(c) \/ GiveUp(c)
           \/ ReturnExisting(c) \/ Rollback(c) \/ Crash(c)
    PROVE  RecordInv'
  <1>0. /\ reply \in [Callers -> Replies] /\ pc \in [Callers -> {"idle", "lookup", "insert", "check", "begin", "txn"}]
        /\ pend \in [Callers -> Seq(RowType)] /\ call \in [Callers -> Items \cup {NoItem}]
        /\ rowId \in [Callers -> Nat]
        /\ \A d \in Callers : pc[d] # "idle" => reply[d].st = "pending"
        /\ pc[c] # "txn" => pend[c] = <<>>
    BY OutsideIsEmpty DEF RecordInv, LedgerInv, TypeOK, Waiting
  <1> USE <1>0 DEF Return, Goto, Discard, tables
  <1>1. ASSUME NEW i \in Items, Submit(c, i) PROVE RecordInv'
    <2>1. Waiting' BY <1>1, OtherReplies DEF Submit, Waiting
    <2> QED BY <1>1, <2>1, OtherReplies, UnrecordedStep DEF Submit
  <1>2. CASE PageLookup(c)
    <2>1. Waiting' BY <1>2, OtherReplies DEF PageLookup, Waiting
    <2> QED BY <1>2, <2>1, OtherReplies, UnrecordedStep DEF PageLookup
  <1>3. CASE PageInsert(c)
    <2>1. Waiting' BY <1>3, OtherReplies DEF PageInsert, Waiting
    <2> QED BY <1>3, <2>1, OtherReplies, UnrecordedStep DEF PageInsert
  <1>4. CASE Check(c)
    <2>1. Waiting' BY <1>4, OtherReplies DEF Check, Waiting
    <2> QED BY <1>4, <2>1, OtherReplies, UnrecordedStep DEF Check
  <1>5. CASE Begin(c)
    <2>1. Waiting' BY <1>5, OtherReplies DEF Begin, Waiting
    <2> QED BY <1>5, <2>1, OtherReplies, UnrecordedStep DEF Begin
  <1>6. CASE GiveUp(c)
    <2>1. Waiting' BY <1>6, OtherReplies DEF GiveUp, Waiting
    <2> QED BY <1>6, <2>1, OtherReplies, UnrecordedStep DEF GiveUp
  <1>7. CASE ReturnExisting(c)
    <2>1. Waiting' BY <1>7, OtherReplies DEF ReturnExisting, Waiting
    <2> QED BY <1>7, <2>1, OtherReplies, UnrecordedStep DEF ReturnExisting
  <1>8. CASE Rollback(c)
    <2>1. Waiting' BY <1>8, OtherReplies DEF Rollback, Waiting
    <2> QED BY <1>8, <2>1, OtherReplies, UnrecordedStep DEF Rollback
  <1>9. CASE Crash(c)
    <2>1. Waiting' BY <1>9, OtherReplies DEF Crash, Waiting
    <2> QED BY <1>9, <2>1, OtherReplies, UnrecordedStep DEF Crash
  <1> QED BY <1>1, <1>2, <1>3, <1>4, <1>5, <1>6, <1>7, <1>8, <1>9

\* The row that is appended is the next thing the call says.
LEMMA AppendRecorded ==
    ASSUME RecordInv, LedgerInv', NEW c \in Callers, AppendInTxn(c)
    PROVE  RecordInv'
  <1> DEFINE n == Len(pend[c])
             act == Acts(c)[n + 1]
             row == NextRow(ledger \o pend[c], act[1], act[2])
  <1>1. /\ pend \in [Callers -> Seq(RowType)] /\ pend' \in [Callers -> Seq(RowType)]
        /\ pend[c] \in Seq(RowType)
    BY DEF RecordInv, LedgerInv, TypeOK
  <1>2. pend' = [pend EXCEPT ![c] = Append(pend[c], row)] BY DEF AppendInTxn
  <1>3. row.event.kind = act[1] /\ row.event.ref = act[2] BY DEF NextRow, Event
  <1>4. /\ Len(Append(pend[c], row)) = n + 1 /\ Append(pend[c], row)[n + 1] = row
        /\ \A j \in 1..n : Append(pend[c], row)[j] = pend[c][j]
        /\ n \in Nat
    <2>1. pend'[c] = Append(pend[c], row) BY <1>1, <1>2
    <2>2. act \in Kinds \X Refs
      <3>1. Acts(c) \in Seq(Kinds \X Refs)
        BY ActsTyped DEF RecordInv, LedgerInv, InCall, AppendInTxn
      <3>2. n + 1 \in 1..Len(Acts(c)) BY <1>1, <3>1, LenProperties DEF AppendInTxn
      <3> QED BY <3>1, <3>2, ElementOfSeq
    <2>3. ledger \o pend[c] \in Seq(RowType) BY <1>1 DEF RecordInv, LedgerInv, TypeOK
    <2>4. row \in RowType
      <3>1. act[1] \in Kinds /\ act[2] \in Refs BY <2>2
      <3> QED BY <2>3, <3>1, NextRowTyped
    <2> HIDE DEF row
    <2> QED BY <1>1, <2>4, AppendProperties, LenProperties
  <1>5. Len(Acts(c)) \in Nat
    <2>1. Acts(c) \in Seq(Kinds \X Refs)
      BY ActsTyped DEF RecordInv, LedgerInv, InCall, AppendInTxn
    <2> QED BY <2>1, LenProperties
  <1>6. UNCHANGED <<ledger, tables, writer, pc, call, rowId, reply, calls>> BY DEF AppendInTxn
  <1>7. PendFollowsActs'
    <2>1. ASSUME NEW d \in Callers, pend'[d] # <<>>
          PROVE  /\ Len(pend'[d]) <= Len(Acts(d)')
                 /\ \A j \in 1..Len(pend'[d]) :
                     /\ pend'[d][j].event.kind = Acts(d)'[j][1]
                     /\ pend'[d][j].event.ref = Acts(d)'[j][2]
                 /\ ~DuplicateInTxn(d)'
      <3>1. Acts(d)' = Acts(d) /\ (DuplicateInTxn(d)' <=> DuplicateInTxn(d))
        BY <1>6, SameActs DEF tables
      <3>2. CASE d # c
        <4>1. pend'[d] = pend[d] BY <1>1, <1>2, <3>2
        <4> QED BY <2>1, <3>1, <4>1 DEF RecordInv, PendFollowsActs
      <3>3. CASE d = c
        <4>1. pend'[c] = Append(pend[c], row) BY <1>1, <1>2
        <4>2. ~DuplicateInTxn(c) /\ n < Len(Acts(c)) BY DEF AppendInTxn
        <4>3. ASSUME NEW j \in 1..(n + 1)
              PROVE  /\ Append(pend[c], row)[j].event.kind = Acts(c)[j][1]
                     /\ Append(pend[c], row)[j].event.ref = Acts(c)[j][2]
          <5>1. CASE j = n + 1 BY <1>3, <1>4, <5>1
          <5>2. CASE j # n + 1
            <6>1. j \in 1..n /\ pend[c] # <<>> BY <1>4, <4>3, <5>2, EmptySeq
            <6> QED BY <1>4, <6>1 DEF RecordInv, PendFollowsActs
          <5> QED BY <5>1, <5>2
        <4> HIDE DEF row, act
        <4>4. Len(pend'[c]) = n + 1 BY <1>4, <4>1
        <4> HIDE DEF n
        <4> QED BY <1>4, <1>5, <3>1, <3>3, <4>1, <4>2, <4>3, <4>4
      <3> QED BY <3>2, <3>3
    <2> QED BY <2>1 DEF PendFollowsActs
  <1>8. Waiting' BY <1>6 DEF RecordInv, Waiting
  <1>9. EventsMatch'
    BY <1>6, SameRecords DEF tables, RecordInv
  <1>10. ReceiptNamesOwnEvent'
    BY <1>6 DEF RecordInv, ReceiptNamesOwnEvent, LastRef
  <1> QED BY <1>7, <1>8, <1>9, <1>10 DEF RecordInv

\* Where the rows of a concatenation come from.
LEMMA ConcatFacts ==
    ASSUME NEW S, NEW s \in Seq(S), NEW t \in Seq(S)
    PROVE  /\ Len(s \o t) = Len(s) + Len(t)
           /\ \A i \in 1..Len(s) : (s \o t)[i] = s[i]
           /\ \A j \in 1..Len(t) : (s \o t)[Len(s) + j] = t[j]
  <1>1. Len(s) \in Nat /\ Len(t) \in Nat BY LenProperties
  <1>2. /\ Len(s \o t) = Len(s) + Len(t)
        /\ \A i \in 1..(Len(s) + Len(t)) :
              (s \o t)[i] = IF i <= Len(s) THEN s[i] ELSE t[i - Len(s)]
    BY ConcatProperties
  <1>3. ASSUME NEW i \in 1..Len(s) PROVE (s \o t)[i] = s[i]
    <2>1. i \in 1..(Len(s) + Len(t)) /\ i <= Len(s) BY <1>1, <1>3
    <2> QED BY <1>2, <2>1
  <1>4. ASSUME NEW j \in 1..Len(t) PROVE (s \o t)[Len(s) + j] = t[j]
    <2>1. /\ Len(s) + j \in 1..(Len(s) + Len(t)) /\ ~(Len(s) + j <= Len(s))
          /\ (Len(s) + j) - Len(s) = j
      BY <1>1, <1>4
    <2> QED BY <1>2, <2>1
  <1> QED BY <1>2, <1>3, <1>4

\* A commit adds to the events about a thing exactly those its call says: none
\* if the call says nothing about it, else the one.
LEMMA CommitEvents ==
    ASSUME RecordInv, NEW c \in Callers, Commit(c), NEW kind, NEW ref
    PROVE  /\ ~(\E j \in 1..Len(Acts(c)) : Acts(c)[j] = <<kind, ref>>) =>
                EventsAbout(kind, ref)' = EventsAbout(kind, ref) \cup {}
           /\ \A j \in 1..Len(Acts(c)) :
                Acts(c)[j] = <<kind, ref>> =>
                    EventsAbout(kind, ref)' = EventsAbout(kind, ref) \cup {Len(ledger) + j}
  <1> DEFINE m == Len(ledger)
             n == Len(pend[c])
  <1>1. /\ ledger \in Seq(RowType) /\ pend[c] \in Seq(RowType) /\ m \in Nat /\ n \in Nat
        /\ pend[c] # <<>> /\ n = Len(Acts(c)) /\ ledger' = ledger \o pend[c]
    BY LenProperties DEF RecordInv, LedgerInv, TypeOK, Commit, Appended
  <1>2. /\ Len(ledger') = m + n
        /\ \A i \in 1..m : ledger'[i] = ledger[i]
        /\ \A j \in 1..n : ledger'[m + j] = pend[c][j]
    <2>1. \A s, t \in Seq(RowType) :
            /\ Len(s \o t) = Len(s) + Len(t)
            /\ \A i \in 1..Len(s) : (s \o t)[i] = s[i]
            /\ \A j \in 1..Len(t) : (s \o t)[Len(s) + j] = t[j]
      BY ConcatFacts
    <2> QED BY <1>1, <2>1
  <1>3. call[c] \in Items /\ TypeOK
    BY DEF RecordInv, LedgerInv, InCall, Commit, Appended
  <1>4. /\ Acts(c) \in Seq(Kinds \X Refs)
        /\ \A j \in 1..n : Acts(c)[j] \in Kinds \X Refs
        /\ \A j \in 1..n : Acts(c)[j] = <<kind, ref>> <=>
                pend[c][j].event.kind = kind /\ pend[c][j].event.ref = ref
    <2>1. Acts(c) \in Seq(Kinds \X Refs) BY <1>3, ActsTyped
    <2>2. \A j \in 1..n : Acts(c)[j] \in Kinds \X Refs BY <1>1, <2>1, ElementOfSeq
    <2>3. \A j \in 1..n : /\ pend[c][j].event.kind = Acts(c)[j][1]
                          /\ pend[c][j].event.ref = Acts(c)[j][2]
      BY <1>1 DEF RecordInv, PendFollowsActs
    <2>4. \A a \in Kinds \X Refs : a = <<kind, ref>> <=> a[1] = kind /\ a[2] = ref OBVIOUS
    <2> QED BY <2>1, <2>2, <2>3, <2>4
  <1>5. \A i \in 1..(m + n) : i \in 1..m \/ (i - m \in 1..n /\ i = m + (i - m)) BY <1>1
  <1>6. \A i \in 1..m : i \in 1..(m + n) BY <1>1
  <1>7. \A j \in 1..n : m + j \in 1..(m + n) /\ m + j \notin 1..m BY <1>1
  <1>8. EventsAbout(kind, ref)' =
            {i \in 1..(m + n) : ledger'[i].event.kind = kind /\ ledger'[i].event.ref = ref}
    BY <1>2 DEF EventsAbout
  <1>9. EventsAbout(kind, ref) = {i \in 1..m : ledger[i].event.kind = kind /\ ledger[i].event.ref = ref}
    BY DEF EventsAbout
  <1>10. \A i : i \in EventsAbout(kind, ref)' <=>
            \/ i \in EventsAbout(kind, ref)
            \/ \E j \in 1..n : i = m + j /\ Acts(c)[j] = <<kind, ref>>
    <2> HIDE DEF m, n
    <2> QED BY <1>2, <1>4, <1>5, <1>6, <1>7, <1>8, <1>9
  <1>11. CASE \A j \in 1..n : Acts(c)[j] # <<kind, ref>> BY <1>1, <1>10, <1>11
  <1>12. ASSUME NEW j \in 1..n, Acts(c)[j] = <<kind, ref>>
         PROVE  EventsAbout(kind, ref)' = EventsAbout(kind, ref) \cup {m + j}
    <2>1. ActsSound(c) BY <1>3, ActsAreSound
    <2>2. \A i \in 1..n : Acts(c)[i] = <<kind, ref>> => i = j
      BY <1>1, <1>12, <2>1 DEF ActsSound
    <2> HIDE DEF m, n
    <2> QED BY <1>10, <1>12, <2>2
  <1> QED BY <1>1, <1>11, <1>12

\* The receipt of a commit names the last event of its own call, and every
\* earlier receipt still names what it named.
LEMMA CommitReceipt ==
    ASSUME RecordInv, NEW c \in Callers, Commit(c)
    PROVE  ReceiptNamesOwnEvent'
  <1> DEFINE m == Len(ledger)
             n == Len(pend[c])
             s == pend[c][n].event.seq
  <1>1. /\ ledger \in Seq(RowType) /\ pend[c] \in Seq(RowType) /\ m \in Nat /\ n \in Nat
        /\ pend[c] # <<>> /\ n # 0 /\ n = Len(Acts(c)) /\ ledger' = ledger \o pend[c]
        /\ reply \in [Callers -> Replies]
    BY LenProperties, EmptySeq DEF RecordInv, LedgerInv, TypeOK, Commit, Appended
  <1>2. /\ Len(ledger') = m + n
        /\ \A i \in 1..m : ledger'[i] = ledger[i]
        /\ ledger'[m + n] = pend[c][n]
    <2>1. /\ Len(ledger') = m + n
          /\ \A i \in 1..m : ledger'[i] = ledger[i]
          /\ \A j \in 1..n : ledger'[m + j] = pend[c][j]
      <3>1. \A x, y \in Seq(RowType) :
              /\ Len(x \o y) = Len(x) + Len(y)
              /\ \A i \in 1..Len(x) : (x \o y)[i] = x[i]
              /\ \A j \in 1..Len(y) : (x \o y)[Len(x) + j] = y[j]
        BY ConcatFacts
      <3> QED BY <1>1, <3>1
    <2>2. n \in 1..n BY <1>1
    <2> HIDE DEF m, n
    <2> QED BY <2>1, <2>2
  <1>3. s = m + n
    <2>1. Linked(ledger') BY <1>1 DEF RecordInv, LedgerInv, ViewsLinked
    <2>2. m + n \in 1..(m + n) BY <1>1
    <2> HIDE DEF m, n
    <2> QED BY <1>2, <2>1, <2>2 DEF Linked
  <1>4. pend[c][n].event.ref = LastRef(c)
    <2>1. call[c] \in Items /\ TypeOK
      BY DEF RecordInv, LedgerInv, InCall, Commit, Appended
    <2>2. Acts(c)[n][2] = LastRef(c) BY <1>1, <2>1, ActsAreSound DEF ActsSound
    <2>3. n \in 1..n BY <1>1
    <2> QED BY <1>1, <2>2, <2>3 DEF RecordInv, PendFollowsActs
  <1>5. reply' = [reply EXCEPT ![c] = Receipt(s)] /\ UNCHANGED <<call, rowId>>
    BY DEF Commit, Return
  <1>6. \A d \in Callers : LastRef(d)' = LastRef(d) BY <1>5 DEF LastRef
  <1>7. ASSUME NEW d \in Callers, reply'[d].st = "ok"
        PROVE  /\ reply'[d].seq \in 1..Len(ledger')
               /\ ledger'[reply'[d].seq].event.ref = LastRef(d)'
    <2>1. CASE d = c
      <3>1. reply'[d].seq = m + n
        <4>1. reply'[d] = Receipt(s) BY <1>1, <1>5, <2>1
        <4>2. Receipt(s).seq = s BY OtherReplies
        <4> QED BY <1>3, <4>1, <4>2
      <3>2. m + n \in 1..(m + n) BY <1>1
      <3> QED BY <1>2, <1>4, <1>6, <2>1, <3>1, <3>2
    <2>2. CASE d # c
      <3>1. reply'[d] = reply[d] BY <1>1, <1>5, <2>2
      <3>2. reply[d].seq \in 1..m /\ ledger[reply[d].seq].event.ref = LastRef(d)
        BY <1>7, <3>1 DEF RecordInv, ReceiptNamesOwnEvent
      <3>3. \A i \in 1..m : i \in 1..(m + n) BY <1>1
      <3> HIDE DEF m, n
      <3> QED BY <1>2, <1>6, <3>1, <3>2, <3>3
    <2> QED BY <2>1, <2>2
  <1> QED BY <1>7 DEF ReceiptNamesOwnEvent

\* A commit keeps each kind of row in step with its events.
LEMMA CommitRecorded ==
    ASSUME RecordInv, LedgerInv', NEW c \in Callers, Commit(c)
    PROVE  RecordInv'
  <1>1. /\ TypeOK /\ TypeOK' /\ call[c] \in Items /\ ActsSound(c)
        /\ pend[c] # <<>> /\ Len(pend[c]) = Len(Acts(c)) /\ Len(Acts(c)) \in Nat
        /\ ~DuplicateInTxn(c)
    <2>1. TypeOK /\ TypeOK' /\ call[c] \in Items
      BY DEF RecordInv, LedgerInv, InCall, Commit, Appended
    <2>2. pend[c] # <<>> /\ Len(pend[c]) = Len(Acts(c)) BY DEF Commit, Appended
    <2>3. pend[c] \in Seq(RowType) BY <2>1 DEF TypeOK
    <2> QED BY <2>1, <2>2, <2>3, ActsAreSound, LenProperties DEF RecordInv, PendFollowsActs
  <1>2. \A j \in 1..Len(Acts(c)) : Acts(c)[j] = <<Acts(c)[j][1], Acts(c)[j][2]>>
    <2>1. Acts(c) \in Seq(Kinds \X Refs) BY <1>1, ActsTyped
    <2>2. \A j \in 1..Len(Acts(c)) : Acts(c)[j] \in Kinds \X Refs BY <2>1, ElementOfSeq
    <2>3. \A a \in Kinds \X Refs : a = <<a[1], a[2]>> OBVIOUS
    <2> QED BY <2>2, <2>3
  <1>3. ASSUME NEW kind, NEW ref
        PROVE  \/ /\ \A j \in 1..Len(Acts(c)) : Acts(c)[j] # <<kind, ref>>
                  /\ EventsAbout(kind, ref)' = EventsAbout(kind, ref)
               \/ \E j \in 1..Len(Acts(c)) :
                   /\ Acts(c)[j] = <<kind, ref>>
                   /\ EventsAbout(kind, ref)' = EventsAbout(kind, ref) \cup {Len(ledger) + j}
    <2>1. \/ \E j \in 1..Len(Acts(c)) : Acts(c)[j] = <<kind, ref>>
          \/ EventsAbout(kind, ref)' = EventsAbout(kind, ref) \cup {}
      BY CommitEvents, ZenonT(60)
    <2>2. ASSUME NEW j \in 1..Len(Acts(c)), Acts(c)[j] = <<kind, ref>>
          PROVE  EventsAbout(kind, ref)' = EventsAbout(kind, ref) \cup {Len(ledger) + j}
      BY <2>2, CommitEvents
    <2> QED BY <2>1, <2>2
  <1>4. PromptsOnce'
    <2>1. ASSUME NEW i \in Prompts
          PROVE  ExactlyOneIf(i \in prompts, "prompt", i)'
      <3>1. prompts' = prompts \cup ({call[c]} \cap Prompts) BY DEF Commit
      <3>2. ExactlyOneIf(i \in prompts, "prompt", i) BY DEF RecordInv, EventsMatch, PromptsOnce
      <3>3. CASE call[c] = i
        <4>1. \E j \in 1..Len(Acts(c)) : Acts(c)[j] = <<"prompt", i>>
          BY <1>1, <3>3 DEF ActsSound
        <4>2. i \notin prompts BY <1>1, <3>3 DEF DuplicateInTxn
        <4>3. EventsAbout("prompt", i) = {} BY <3>2, <4>2 DEF ExactlyOneIf
        <4>4. \E n : EventsAbout("prompt", i)' = {n}
          <5>1. PICK j \in 1..Len(Acts(c)) :
                    EventsAbout("prompt", i)' = EventsAbout("prompt", i) \cup {Len(ledger) + j}
            BY <1>3, <4>1
          <5>2. EventsAbout("prompt", i)' = {Len(ledger) + j} BY <4>3, <5>1
          <5> QED BY <5>2
        <4> QED BY <3>1, <3>3, <4>4 DEF ExactlyOneIf
      <3>4. CASE call[c] # i
        <4>1. \A j \in 1..Len(Acts(c)) : Acts(c)[j] # <<"prompt", i>>
          BY <1>1, <3>4 DEF ActsSound
        <4>2. EventsAbout("prompt", i)' = EventsAbout("prompt", i) BY <1>3, <4>1
        <4>3. i \in prompts' <=> i \in prompts BY <3>1, <3>4
        <4> QED BY <3>2, <4>2, <4>3 DEF ExactlyOneIf
      <3> QED BY <3>3, <3>4
    <2> QED BY <2>1 DEF PromptsOnce
  <1>5. ClaimsOnce'
    <2>1. ASSUME NEW k \in Claims
          PROVE  ExactlyOneIf(k \in claims, "claim", k)'
      <3>1. claims' = claims \cup ({call[c]} \cap Claims) BY DEF Commit
      <3>2. ExactlyOneIf(k \in claims, "claim", k) BY DEF RecordInv, EventsMatch, ClaimsOnce
      <3>3. CASE call[c] = k
        <4>1. \E j \in 1..Len(Acts(c)) : Acts(c)[j] = <<"claim", k>>
          BY <1>1, <3>3 DEF ActsSound
        <4>2. k \notin claims BY <1>1, <3>3 DEF DuplicateInTxn
        <4>3. EventsAbout("claim", k) = {} BY <3>2, <4>2 DEF ExactlyOneIf
        <4>4. \E n : EventsAbout("claim", k)' = {n}
          <5>1. PICK j \in 1..Len(Acts(c)) :
                    EventsAbout("claim", k)' = EventsAbout("claim", k) \cup {Len(ledger) + j}
            BY <1>3, <4>1
          <5>2. EventsAbout("claim", k)' = {Len(ledger) + j} BY <4>3, <5>1
          <5> QED BY <5>2
        <4> QED BY <3>1, <3>3, <4>4 DEF ExactlyOneIf
      <3>4. CASE call[c] # k
        <4>1. \A j \in 1..Len(Acts(c)) : Acts(c)[j] # <<"claim", k>>
          BY <1>1, <3>4 DEF ActsSound
        <4>2. EventsAbout("claim", k)' = EventsAbout("claim", k) BY <1>3, <4>1
        <4>3. k \in claims' <=> k \in claims BY <3>1, <3>4
        <4> QED BY <3>2, <4>2, <4>3 DEF ExactlyOneIf
      <3> QED BY <3>3, <3>4
    <2> QED BY <2>1 DEF ClaimsOnce
  <1>6. RetiresOnce'
    <2>1. ASSUME NEW k \in Claims
          PROVE  ExactlyOneIf(k \in retired, "claim_retired", k)'
      <3>1. k \in retired' <=> k \in retired \/ call[c] \in {Retire(k), Undo(k)} BY DEF Commit
      <3>2. ExactlyOneIf(k \in retired, "claim_retired", k)
        BY DEF RecordInv, EventsMatch, RetiresOnce
      <3>3. CASE call[c] \in {Retire(k), Undo(k)} /\ k \notin retired
        <4>1. k \in claims
          <5>1. Appended(c) BY DEF Commit
          <5> QED BY <3>3, <5>1, RetiredIsRecorded DEF RecordInv
        <4>2. \E j \in 1..Len(Acts(c)) : Acts(c)[j] = <<"claim_retired", k>>
          BY <1>1, <3>3, <4>1 DEF ActsSound
        <4>3. EventsAbout("claim_retired", k) = {} BY <3>2, <3>3 DEF ExactlyOneIf
        <4>4. \E n : EventsAbout("claim_retired", k)' = {n}
          <5>1. PICK j \in 1..Len(Acts(c)) :
                    EventsAbout("claim_retired", k)' = EventsAbout("claim_retired", k) \cup {Len(ledger) + j}
            BY <1>3, <4>2
          <5>2. EventsAbout("claim_retired", k)' = {Len(ledger) + j} BY <4>3, <5>1
          <5> QED BY <5>2
        <4> QED BY <3>1, <3>3, <4>4 DEF ExactlyOneIf
      <3>4. CASE ~(call[c] \in {Retire(k), Undo(k)} /\ k \notin retired)
        <4>1. ASSUME NEW j \in 1..Len(Acts(c)), Acts(c)[j] = <<"claim_retired", k>>
              PROVE  FALSE
          <5>1. Acts(c)[j][1] = "claim_retired" /\ Acts(c)[j][2] = k BY <4>1
          <5> QED BY <1>1, <3>4, <4>1, <5>1 DEF ActsSound
        <4>2. EventsAbout("claim_retired", k)' = EventsAbout("claim_retired", k) BY <1>3, <4>1
        <4>3. k \in retired' <=> k \in retired BY <3>1, <3>4
        <4> QED BY <3>2, <4>2, <4>3 DEF ExactlyOneIf
      <3> QED BY <3>3, <3>4
    <2> QED BY <2>1 DEF RetiresOnce
  <1>7. UndosChained'
    <2>1. ASSUME NEW k \in Claims
          PROVE  k \in reverted' <=> EventsAbout("gardener_revert", Undo(k))' # {}
      <3>1. k \in reverted' <=> k \in reverted \/ call[c] = Undo(k) BY DEF Commit
      <3>2. k \in reverted <=> EventsAbout("gardener_revert", Undo(k)) # {}
        BY DEF RecordInv, EventsMatch, UndosChained
      <3>3. CASE call[c] = Undo(k)
        <4>1. \E j \in 1..Len(Acts(c)) : Acts(c)[j] = <<"gardener_revert", Undo(k)>>
          BY <1>1, <3>3 DEF ActsSound, Undos
        <4> QED BY <1>3, <3>1, <3>3, <4>1
      <3>4. CASE call[c] # Undo(k)
        <4>1. \A j \in 1..Len(Acts(c)) : Acts(c)[j] # <<"gardener_revert", Undo(k)>>
          BY <1>1, <3>4 DEF ActsSound
        <4>2. EventsAbout("gardener_revert", Undo(k))' = EventsAbout("gardener_revert", Undo(k))
          BY <1>3, <4>1
        <4> QED BY <3>1, <3>2, <3>4, <4>2
      <3> QED BY <3>3, <3>4
    <2> QED BY <2>1 DEF UndosChained
  <1>8. EventsMatch' BY <1>4, <1>5, <1>6, <1>7 DEF EventsMatch
  <1>9. \A d \in Callers : pend'[d] = <<>>
    BY <1>1 DEF RecordInv, LedgerInv, LockHeld, OneWriter, Commit, Appended, Discard, TypeOK
  <1>10. PendFollowsActs' BY <1>9 DEF PendFollowsActs
  <1>11. Waiting' BY <1>1 DEF RecordInv, Waiting, Commit, Return, TypeOK
  <1> QED BY <1>8, <1>10, <1>11, CommitReceipt DEF RecordInv

\* Every step keeps the strengthening.
LEMMA RecordInvStep == RecordInv /\ [Next]_vars => RecordInv'
  <1> SUFFICES ASSUME RecordInv, [Next]_vars PROVE RecordInv' OBVIOUS
  <1>1. LedgerInv' BY LedgerInvStep DEF RecordInv
  <1>2. ASSUME NEW c \in Callers, NEW i \in Items, Submit(c, i) PROVE RecordInv'
    BY <1>1, <1>2, UnrecordedSteps
  <1>3. ASSUME NEW c \in Callers, Step(c) PROVE RecordInv'
    <2>1. CASE AppendInTxn(c) BY <1>1, <2>1, AppendRecorded
    <2>2. CASE Commit(c) BY <1>1, <2>2, CommitRecorded
    <2>3. CASE ~AppendInTxn(c) /\ ~Commit(c)
      BY <1>1, <1>3, <2>3, UnrecordedSteps DEF Step
    <2> QED BY <2>1, <2>2, <2>3
  <1>4. ASSUME NEW c \in Callers, Crash(c) PROVE RecordInv'
    BY <1>1, <1>4, UnrecordedSteps
  <1>5. CASE UNCHANGED vars
    <2>1. /\ UNCHANGED <<ledger, prompts, claims, retired, reverted>>
          /\ UNCHANGED <<pend, pc, call, rowId, reply>>
      BY <1>5 DEF vars, tables
    <2>2. Waiting' BY <2>1 DEF RecordInv, Waiting
    <2> QED BY <1>1, <2>1, <2>2, UnrecordedStep
  <1>6. CASE Quiescent BY <1>5, <1>6 DEF Quiescent
  <1> QED BY <1>2, <1>3, <1>4, <1>5, <1>6 DEF Next

\* The strengthening holds in every reachable state.
THEOREM RecordInvariant == Spec => []RecordInv
  <1> QED BY RecordInit, RecordInvStep, PTL DEF Spec

\* A prompt, claim, retirement or revert is in its table exactly when one event
\* of its own is in the chain, whatever crashed, raced or was retried: the row
\* and the event of record_prompt, record_claim, retire_claim and revert_run
\* are committed together or not at all.
THEOREM RowsAlwaysMatchChain == Spec => []RowsMatchChain
  <1>1. RecordInv => RowsMatchChain BY EventsMatchCounts DEF RecordInv
  <1> QED BY <1>1, RecordInvariant, PTL

\* The seq a caller was given names, from then on, the event of its own call.
THEOREM ReceiptsStayTrue == Spec => []ReceiptNamesOwnEvent
  <1>1. RecordInv => ReceiptNamesOwnEvent BY DEF RecordInv
  <1> QED BY <1>1, RecordInvariant, PTL

=============================================================================
