------------------------------- MODULE Ledger -------------------------------
(***************************************************************************)
(* The write side of the memory's hash chain, as polis-store/src/ledger.rs *)
(* and polis-store/src/record.rs implement it over one SQLite file that    *)
(* several processes have open (`polis serve`, `polis mcp`, the CLI, a     *)
(* host application).                                                      *)
(*                                                                         *)
(* A caller is a process that has the file open.  It submits one item at   *)
(* a time, and the item decides which tables are written and which         *)
(* transaction the chain append runs in:                                   *)
(*                                                                         *)
(*   prompt    row + event inside one BEGIN IMMEDIATE        (record.rs)   *)
(*   claim     event, then the claim's row, one transaction  (claims.rs)   *)
(*   retire    row, then event, one transaction              (claims.rs)   *)
(*   undo      refused outside, then two events in one txn   (runs.rs)     *)
(*   page      row in autocommit, then the event on its own  (browse.rs)   *)
(*   decision  looked up, then the event on its own          (record.rs)   *)
(*                                                                         *)
(* Only the last committed state of the file survives a crash; what a      *)
(* caller has written inside an open transaction is in `pend` until then.  *)
(***************************************************************************)
EXTENDS Integers, Sequences, FiniteSets

CONSTANTS
    Callers,      \* processes that hold a store handle
    Prompts,      \* prompt bodies, each captured under a known claude session
    Pages,        \* page contents shown in one browser tab
    Decisions,    \* decision / revision descriptors (their dedup key)
    Claims,       \* claim ids, each the one op of the organizer run recording it
    NoCaller,     \* "nobody holds the file's write lock"
    NoItem,       \* "no call in progress"
    MaxCalls      \* bound on the calls submitted in one behaviour

\* Retiring a claim, and reverting the organizer run that recorded it.
Retire(k) == <<"retire", k>>
Undo(k) == <<"undo", k>>
Retires == {Retire(k) : k \in Claims}
Undos == {Undo(k) : k \in Claims}

Items == Prompts \cup Pages \cup Decisions \cup Claims \cup Retires \cup Undos

ASSUME LedgerAssumptions ==
    /\ Callers # {}
    /\ NoCaller \notin Callers
    /\ NoItem \notin Items
    /\ MaxCalls \in Nat
    /\ Prompts \cap (Pages \cup Decisions \cup Claims \cup Retires \cup Undos) = {}
    /\ Pages \cap (Decisions \cup Claims \cup Retires \cup Undos) = {}
    /\ Decisions \cap (Claims \cup Retires \cup Undos) = {}
    /\ Claims \cap (Retires \cup Undos) = {}

VARIABLES
    ledger,    \* ledger_events: the committed rows, in seq order
    prompts,   \* the prompts table: what has a committed row
    trail,     \* browse_events of the tab, oldest first (the row id is the index)
    claims,    \* claim_records: ids with a committed row
    retired,   \* claims whose row carries retired_at
    reverted,  \* claims whose organizer run has the outcome 'reverted'
    writer,    \* the caller whose transaction holds SQLite's write lock
    pend,      \* pend[c]: chain rows c has inserted but not committed
    pc,        \* pc[c]: where c is in its call
    call,      \* call[c]: the item c last submitted
    rowId,     \* rowId[c]: the browse_events row c's page went into
    reply,     \* reply[c]: what c's last call returned
    calls      \* how many calls were submitted (bounds the model)

tables == <<prompts, trail, claims, retired, reverted>>
vars == <<ledger, tables, writer, pend, pc, call, rowId, reply, calls>>

-----------------------------------------------------------------------------
(* The chain.                                                              *)

\* Injective stand-in for sha256(prev || canonical(event)): the hash of a row
\* is the sequence of all events it commits to.
Genesis == <<>>
EntryHashOfEventOnly(prev, event) == <<event>>                     \* mutant
EntryHash(prev, event) == Append(prev, event)

\* A row of browse_events, as an event references it.
PageRow(id) == <<"browse_event", id>>
Refs == Items \cup ({"browse_event"} \X Nat)

Kinds == {"prompt", "browse_event", "decision", "claim", "claim_retired", "gardener_revert"}

\* A canonical event names its seq and the row it is about.
Event(seq, kind, ref) == [seq |-> seq, kind |-> kind, ref |-> ref]

HeadHash(view) == IF view = <<>> THEN Genesis ELSE view[Len(view)].entry

\* Mutant of NextRow: the head is read in ascending order.
NextRowAfterOldest(view, kind, ref) ==
    LET e == Event(Len(view) + 1, kind, ref)
        prev == IF view = <<>> THEN Genesis ELSE view[1].entry
    IN  [event |-> e, prev |-> prev, entry |-> EntryHash(prev, e)]

\* append_in_txn: read the head the connection sees and build its successor.
NextRow(view, kind, ref) ==
    LET e == Event(Len(view) + 1, kind, ref)
    IN  [event |-> e, prev |-> HeadHash(view), entry |-> EntryHash(HeadHash(view), e)]

\* The claim a retire or an undo is about.
Subject(item) == item[2]

\* Mutant of RetireActs: the UPDATE without `AND retired_at IS NULL`.
RetireActsAgain(k) == IF k \in claims THEN << <<"claim_retired", k>> >> ELSE <<>>

\* retire_claim_locked appends only when it found a live row to retire.
RetireActs(k) == IF k \in claims \ retired THEN << <<"claim_retired", k>> >> ELSE <<>>

\* What the events of a call say, in the order the call appends them.
Acts(c) ==
    CASE call[c] \in Prompts   -> << <<"prompt", call[c]>> >>
      [] call[c] \in Pages     -> << <<"browse_event", PageRow(rowId[c])>> >>
      [] call[c] \in Decisions -> << <<"decision", call[c]>> >>
      [] call[c] \in Claims    -> << <<"claim", call[c]>> >>
      [] call[c] \in Retires   -> RetireActs(Subject(call[c]))
      [] call[c] \in Undos     -> Append(RetireActs(Subject(call[c])), <<"gardener_revert", call[c]>>)

\* The rows of `ledger` about one thing.
EventsAbout(kind, ref) ==
    {n \in 1..Len(ledger) : ledger[n].event.kind = kind /\ ledger[n].event.ref = ref}

-----------------------------------------------------------------------------
Pending == [st |-> "pending", seq |-> 0]
ReceiptOfHead(n) == [st |-> "ok", seq |-> n - 1]                  \* mutant
Receipt(n) == [st |-> "ok", seq |-> n]
Nothing == [st |-> "none", seq |-> 0]         \* Ok(None): a duplicate
Failed(why) == [st |-> why, seq |-> 0]

Init ==
    /\ ledger = <<>>
    /\ prompts = {}
    /\ trail = <<>>
    /\ claims = {}
    /\ retired = {}
    /\ reverted = {}
    /\ writer = NoCaller
    /\ pend = [c \in Callers |-> <<>>]
    /\ pc = [c \in Callers |-> "idle"]
    /\ call = [c \in Callers |-> NoItem]
    /\ rowId = [c \in Callers |-> 0]
    /\ reply = [c \in Callers |-> Nothing]
    /\ calls = 0

\* Leave the call with reply r.
Return(c, r) ==
    /\ pc' = [pc EXCEPT ![c] = "idle"]
    /\ reply' = [reply EXCEPT ![c] = r]

Goto(c, l) ==
    /\ pc' = [pc EXCEPT ![c] = l]
    /\ UNCHANGED reply

\* End c's transaction without its writes.
Discard(c) ==
    /\ writer' = NoCaller
    /\ pend' = [pend EXCEPT ![c] = <<>>]

\* A caller enters one of the record_* entry points.
Submit(c, i) ==
    /\ pc[c] = "idle"
    /\ calls < MaxCalls
    /\ calls' = calls + 1
    /\ call' = [call EXCEPT ![c] = i]
    /\ reply' = [reply EXCEPT ![c] = Pending]
    /\ pc' = [pc EXCEPT ![c] =
                CASE i \in Pages -> "lookup"
                  [] i \in Decisions \cup Undos -> "check"
                  [] OTHER -> "begin"]
    /\ UNCHANGED <<ledger, tables, writer, pend, rowId>>

\* insert_browse_event, first statement: the tab's newest content hash.
PageLookup(c) ==
    /\ pc[c] = "lookup"
    /\ IF trail # <<>> /\ trail[Len(trail)] = call[c]
       THEN Return(c, Nothing)
       ELSE Goto(c, "insert")
    /\ UNCHANGED <<ledger, tables, writer, pend, call, rowId, calls>>

\* insert_browse_event, second statement: its own autocommit transaction.
PageInsert(c) ==
    /\ pc[c] = "insert"
    /\ writer = NoCaller
    /\ trail' = Append(trail, call[c])
    /\ rowId' = [rowId EXCEPT ![c] = Len(trail) + 1]
    /\ Goto(c, "begin")
    /\ UNCHANGED <<ledger, prompts, claims, retired, reverted, writer, pend, call, calls>>

\* Mutant of AlreadyRecorded: a run need not exist to be reverted.
AlreadyRevertedOnly(c) ==
    \/ call[c] \in Decisions /\ EventsAbout("decision", call[c]) # {}
    \/ call[c] \in Undos /\ Subject(call[c]) \in reverted

\* decision_event_exists / revision_event_exists, and revert_run's refusals
\* (no such run, already reverted): read before the transaction that appends.
\* revert_run also refuses past its horizon or below a later run.
AlreadyRecorded(c) ==
    \/ call[c] \in Decisions /\ EventsAbout("decision", call[c]) # {}
    \/ call[c] \in Undos /\ Subject(call[c]) \notin claims \ reverted

Check(c) ==
    /\ pc[c] = "check"
    /\ \/ AlreadyRecorded(c) /\ Return(c, Nothing)
       \/ call[c] \in Undos /\ Return(c, Nothing)
       \/ ~AlreadyRecorded(c) /\ Goto(c, "begin")
    /\ UNCHANGED <<ledger, tables, writer, pend, call, rowId, calls>>

MayBeginDeferred == TRUE                                          \* mutant

\* BEGIN IMMEDIATE succeeds: the write lock is taken before the head is read.
MayBegin == writer = NoCaller

Begin(c) ==
    /\ pc[c] = "begin"
    /\ MayBegin
    /\ writer' = c
    /\ Goto(c, "txn")
    /\ UNCHANGED <<ledger, tables, pend, call, rowId, calls>>

\* The lock stayed taken for all of busy_timeout and BUSY_ATTEMPTS.
GiveUp(c) ==
    /\ pc[c] \in {"begin", "insert"}
    /\ writer # NoCaller
    /\ Return(c, Failed("busy"))
    /\ UNCHANGED <<ledger, tables, writer, pend, call, rowId, calls>>

\* The dedup checks made under the lock: insert_prompt_scoped_locked's
\* NOT EXISTS, write_claim's return of the claim it finds, and a retire that
\* changed no row.
DuplicateInTxn(c) ==
    \/ call[c] \in Prompts /\ call[c] \in prompts
    \/ call[c] \in Claims /\ call[c] \in claims
    \/ call[c] \in Retires /\ Acts(c) = <<>>

\* Mutant of ReturnExisting: the transaction is left open.
ReturnExistingInTxn(c) ==
    /\ pc[c] = "txn"
    /\ pend[c] = <<>>
    /\ DuplicateInTxn(c)
    /\ Return(c, Nothing)
    /\ UNCHANGED <<ledger, tables, writer, pend, call, rowId, calls>>

ReturnExisting(c) ==
    /\ pc[c] = "txn"
    /\ pend[c] = <<>>
    /\ DuplicateInTxn(c)
    /\ Discard(c)
    /\ Return(c, Nothing)
    /\ UNCHANGED <<ledger, tables, call, rowId, calls>>

\* append_in_txn on the connection's view: the committed chain followed by
\* what this transaction has already appended.
AppendInTxn(c) ==
    /\ pc[c] = "txn"
    /\ ~DuplicateInTxn(c)
    /\ Len(pend[c]) < Len(Acts(c))
    /\ LET act == Acts(c)[Len(pend[c]) + 1]
       IN  pend' = [pend EXCEPT ![c] =
                        Append(@, NextRow(ledger \o @, act[1], act[2]))]
    /\ UNCHANGED <<ledger, tables, writer, pc, call, rowId, reply, calls>>

Appended(c) ==
    /\ pc[c] = "txn"
    /\ pend[c] # <<>>
    /\ Len(pend[c]) = Len(Acts(c))

\* seq is the table's primary key: a row another transaction has meanwhile
\* committed under the same seq makes the insert fail.
SeqTaken(c) == pend[c][1].event.seq <= Len(ledger)

\* COMMIT: rows and events become durable together.
Commit(c) ==
    /\ Appended(c)
    /\ ~SeqTaken(c)
    /\ ledger' = ledger \o pend[c]
    /\ prompts' = prompts \cup ({call[c]} \cap Prompts)
    /\ claims' = claims \cup ({call[c]} \cap Claims)
    /\ retired' = retired \cup {k \in Claims : call[c] \in {Retire(k), Undo(k)}}
    /\ reverted' = reverted \cup {k \in Claims : call[c] = Undo(k)}
    /\ Discard(c)
    /\ Return(c, Receipt(pend[c][Len(pend[c])].event.seq))
    /\ UNCHANGED <<trail, call, rowId, calls>>

\* A statement of the transaction fails - a refused insert, an op that cannot
\* be inverted, a full disk: ROLLBACK, and the error goes to the caller.
Rollback(c) ==
    /\ pc[c] = "txn"
    /\ Return(c, Failed(IF Appended(c) /\ SeqTaken(c) THEN "constraint" ELSE "error"))
    /\ Discard(c)
    /\ UNCHANGED <<ledger, tables, call, rowId, calls>>

\* The caller's process dies: SQLite drops its open transaction.
Crash(c) ==
    /\ pc[c] # "idle"
    /\ writer' = IF writer = c THEN NoCaller ELSE writer
    /\ pend' = [pend EXCEPT ![c] = <<>>]
    /\ Return(c, Failed("crashed"))
    /\ UNCHANGED <<ledger, tables, call, rowId, calls>>

Step(c) ==
    \/ PageLookup(c)
    \/ PageInsert(c)
    \/ Check(c)
    \/ Begin(c)
    \/ GiveUp(c)
    \/ ReturnExisting(c)
    \/ AppendInTxn(c)
    \/ Commit(c)
    \/ Rollback(c)

\* The bound is used up and every call has returned.
Quiescent ==
    /\ calls = MaxCalls
    /\ \A c \in Callers : pc[c] = "idle"
    /\ UNCHANGED vars

Next ==
    \/ \E c \in Callers :
        \/ \E i \in Items : Submit(c, i)
        \/ Step(c)
        \/ Crash(c)
    \/ Quiescent

Spec == Init /\ [][Next]_vars

\* A caller inside a call keeps executing it (it is straight-line code with
\* bounded retries); callers need not submit anything, and may crash.
FairSpec == Spec /\ \A c \in Callers : WF_vars(Step(c))

-----------------------------------------------------------------------------
(* Properties.                                                             *)

EventType == [seq : Nat, kind : Kinds, ref : Refs]
RowType == [event : EventType, prev : Seq(EventType), entry : Seq(EventType)]

Replies == [st : {"pending", "ok", "none", "busy", "constraint", "error", "crashed"}, seq : Nat]

\* Every variable has the shape its table, lock or local variable has.
TypeOK ==
    /\ ledger \in Seq(RowType)
    /\ prompts \subseteq Prompts
    /\ trail \in Seq(Pages)
    /\ claims \subseteq Claims
    /\ retired \subseteq claims
    /\ reverted \subseteq retired
    /\ writer \in Callers \cup {NoCaller}
    /\ pend \in [Callers -> Seq(RowType)]
    /\ pc \in [Callers -> {"idle", "lookup", "insert", "check", "begin", "txn"}]
    /\ call \in [Callers -> Items \cup {NoItem}]
    /\ rowId \in [Callers -> Nat]
    /\ reply \in [Callers -> Replies]
    /\ calls \in 0..MaxCalls

\* The committed chain verifies: seqs are 1, 2, 3, ..., each row names its
\* predecessor's hash, and its own hash commits to that and to its event
\* (what verify_ledger_chain recomputes; two writers never fork the chain).
Linked(s) ==
    \A n \in 1..Len(s) :
        /\ s[n].event.seq = n
        /\ s[n].prev = IF n = 1 THEN Genesis ELSE s[n - 1].entry
        /\ s[n].entry = EntryHash(s[n].prev, s[n].event)

ChainIntact == Linked(ledger)

\* Only the holder of the write lock has uncommitted chain rows.
OneWriter == \A c \in Callers : pend[c] # <<>> => writer = c

\* A memory row and the event that commits to it exist together, whatever
\* crashed, was rolled back, raced or was retried: exactly one event per row
\* and none without one - also when a retire and a revert reach one claim.
OneEventIff(present, kind, ref) ==
    Cardinality(EventsAbout(kind, ref)) = IF present THEN 1 ELSE 0
PromptsChained == \A i \in Prompts : OneEventIff(i \in prompts, "prompt", i)
ClaimsChained == \A k \in Claims : OneEventIff(k \in claims, "claim", k)
RetiresChained == \A k \in Claims : OneEventIff(k \in retired, "claim_retired", k)
UndosChained == \A k \in Claims : k \in reverted <=> EventsAbout("gardener_revert", Undo(k)) # {}
RowsMatchChain == PromptsChained /\ ClaimsChained /\ RetiresChained /\ UndosChained

\* What the last event of c's call is about.
LastRef(c) ==
    CASE call[c] \in Pages   -> PageRow(rowId[c])
      [] call[c] \in Retires -> Subject(call[c])
      [] OTHER               -> call[c]

\* A receipt is honest for ever: the seq a caller was given names the event of
\* its own call, although a rolled back transaction's seqs are used again.
ReceiptNamesOwnEvent ==
    \A c \in Callers : reply[c].st = "ok" =>
        /\ reply[c].seq \in 1..Len(ledger)
        /\ ledger[reply[c].seq].event.ref = LastRef(c)

\* Taking the write lock before reading the head means no append is ever lost
\* to another writer's row: contention shows as `busy`, never as a constraint.
NoAppendLost == \A c \in Callers : reply[c].st # "constraint"

\* What makes the two inductive: the lock is held exactly inside a
\* transaction, and a transaction sees a chain that links - the committed rows
\* and then its own.  An undo in progress is about a recorded claim.
LockHeld == \A c \in Callers : writer = c <=> pc[c] = "txn"
InCall ==
    \A c \in Callers : pc[c] # "idle" =>
        /\ call[c] \in Items
        /\ pc[c] \in {"lookup", "insert"} => call[c] \in Pages
        /\ pc[c] \in {"begin", "txn"} /\ call[c] \in Undos => Subject(call[c]) \in claims
ViewsLinked == \A c \in Callers : Linked(ledger \o pend[c])
LedgerInv ==
    /\ TypeOK
    /\ LockHeld
    /\ OneWriter
    /\ InCall
    /\ ViewsLinked
    /\ NoAppendLost

\* The chain implements the abstract history: the head hash commits to exactly
\* the events there are, and they are only ever added to.
Log == INSTANCE ChainLog WITH log <- HeadHash(ledger)
ImplementsChainLog == Log!Spec

\* Nobody keeps the file locked: every transaction ends.
LockReleased == \A c \in Callers : writer = c ~> writer # c

\* record_decision's promise, "Idempotent per (kind, ref_kind, ref_id,
\* payload_hash)": one event per descriptor, however often it is recorded.
DecisionRecordedOnce ==
    \A i \in Decisions : Cardinality(EventsAbout("decision", i)) <= 1

\* revert_run's promise to refuse "when it was already reverted".
RevertedOnce ==
    \A k \in Claims : Cardinality(EventsAbout("gardener_revert", Undo(k))) <= 1

\* record_browse_event's promise to store the page "and emit a browse_event
\* ledger event referencing it": no page row is left without its event once
\* every call has returned.
PagesChained ==
    (\A c \in Callers : pc[c] = "idle") =>
        \A k \in 1..Len(trail) : EventsAbout("browse_event", PageRow(k)) # {}
=============================================================================
