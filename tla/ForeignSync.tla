----------------------------- MODULE ForeignSync ----------------------------
(***************************************************************************)
(* One peer's chain on its way to another device: the peer publishes       *)
(* signed segments of its ledger (polis-memory/src/sync.rs, envelope.rs,   *)
(* transport.rs), and several processes of the receiving device - `polis   *)
(* sync`, `polis import`, the handlers of an org node - import them into   *)
(* one store (sharing.rs, polis-store/src/foreign.rs).                     *)
(*                                                                         *)
(* An import reads the chain's row, compares, and writes in a transaction  *)
(* of its own; other imports, a purge and a cleared fork come in between.  *)
(* The peer may be restored from a backup and then write another history.  *)
(* What a user forgets at the peer travels as a redaction event.           *)
(*                                                                         *)
(* A history is a sequence of entries and stands for the hash of its last  *)
(* one.  An entry carries the era it was written in (its timestamp in the  *)
(* code), so what is written after a restore hashes differently.  Every    *)
(* segment is signed by a trusted key and passes `verify`; the policy      *)
(* ships every body.                                                       *)
(***************************************************************************)
EXTENDS Naturals, Sequences, FiniteSets, SequencesExt

CONSTANTS
    Importers,   \* imports that can be in progress at a time
    NoSegment,   \* no file is being imported, or built
    MaxSeq,      \* bound on the length of the peer's chain
    MaxFiles,    \* bound on the segments published
    MaxUpsets    \* bound on the restores of the peer's store and the purges
                 \* at the receiver, together

\* No file is not a file: it is no segment of a history of events.
ASSUME ForeignSyncAssumptions ==
    /\ {MaxSeq, MaxFiles, MaxUpsets} \subseteq Nat
    /\ NoSegment \notin
        [from : Nat, texts : SUBSET Nat,
         hist : Seq([kind : {"prompt", "compaction", "redaction"}, ref : Nat, era : Nat])]

VARIABLES
    chain,      \* the peer's ledger
    forgotten,  \* seqs of the peer's prompts whose body was purged there
    era,        \* how often the peer's store was restored
    published,  \* the peer's mark of how far the transport has its chain
    acked,      \* the peer's foreign_acks: how far the receiver says it is
    draft,      \* the segment the peer is building, and
    stage,      \* where it is in building and publishing it
    files,      \* the transport: segment files, never rewritten
    row,        \* foreign_chains: the receiver's row of the chain
    events,     \* foreign_events: the hash it holds for a seq
    bodies,     \* foreign_prompts: what it holds of a prompt's body
    markers,    \* seqs under polis.foreignForgotten, which outlive a purge
    pc, seg,    \* where an import is, and the segment it is about
    seen,       \* the chain's row as the import read it
    purges,     \* purges so far
    stale,      \* imports under which the chain was written since they read it
    raced       \* such an import has written itself (history, with stale)

peer == <<chain, forgotten, era, published, acked>>
pub == <<draft, stage, files>>
store == <<row, events, bodies, markers>>
calls == <<pc, seg, seen, stale>>
vars == <<peer, pub, store, calls, raced, purges>>

Entry(kind, ref) == [kind |-> kind, ref |-> ref, era |-> era]
Prefix(h, n) == SubSeq(h, 1, n)
Segment(from, hist, texts) == [from |-> from, hist |-> hist, texts |-> texts]
To(s) == Len(s.hist)
PrevHash(s) == Prefix(s.hist, s.from - 1)

\* No row of the chain is like a row at genesis.
NoRow == [head |-> 0, hash |-> <<>>, forked |-> FALSE]

Init ==
    /\ chain = <<>> /\ forgotten = {} /\ era = 0 /\ published = 0 /\ acked = 0
    /\ draft = NoSegment /\ stage = "idle" /\ files = {}
    /\ row = NoRow /\ events = <<>> /\ bodies = <<>> /\ markers = {}
    /\ pc = [i \in Importers |-> "idle"]
    /\ seg = [i \in Importers |-> NoSegment]
    /\ seen = [i \in Importers |-> NoRow]
    /\ purges = 0 /\ stale = {} /\ raced = FALSE

-----------------------------------------------------------------------------
(* The peer's store.                                                       *)

PromptSeqs(h) == {n \in DOMAIN h : h[n].kind = "prompt"}
Targets(h, kind) == {h[n].ref : n \in {m \in DOMAIN h : h[m].kind = kind}}

Write(es) ==
    /\ Len(chain) + Len(es) <= MaxSeq
    /\ chain' = chain \o es

\* record_prompt.
Capture ==
    /\ Write(<<Entry("prompt", 0)>>)
    /\ UNCHANGED <<forgotten, era, published, acked, pub, store, calls, raced, purges>>

\* compact_prompt_body with reason `forget`: the body, its compaction event
\* and the redaction outbox in one transaction.
Forget(s) ==
    /\ s \in PromptSeqs(chain) \ forgotten
    /\ Write(<<Entry("compaction", s)>>)
    /\ forgotten' = forgotten \cup {s}
    /\ UNCHANGED <<era, published, acked, pub, store, calls, raced, purges>>

\* The redaction outbox: forgotten, and no event names it yet.
Outbox == forgotten \ Targets(chain, "redaction")

\* append_redaction, by the forgetting call or by a later flush_redactions.
AppendRedaction(s) ==
    /\ s \in Outbox
    /\ Write(<<Entry("redaction", s)>>)
    /\ UNCHANGED <<forgotten, era, published, acked, pub, store, calls, raced, purges>>

\* What a mark was when the chain was n long.
Earlier(mark, n) == {m \in {0} \cup {To(f) : f \in files} : m <= mark /\ m <= n}

\* backup::restore of a snapshot of length n.  What the forget registry knows
\* and the snapshot does not is forgotten again before the file goes live.
Restore(n) ==
    /\ era + purges < MaxUpsets
    /\ stage = "idle"
    /\ era' = era + 1
    /\ LET known == Prefix(chain, n)
           again == SetToSeq({s \in forgotten : s <= n} \ Targets(known, "compaction"))
       IN  chain' = known \o [k \in DOMAIN again |->
                        [kind |-> "compaction", ref |-> again[k], era |-> era + 1]]
    /\ forgotten' = {s \in forgotten : s <= n}
    /\ published' \in Earlier(published, n)
    /\ acked' \in Earlier(acked, n)
    /\ UNCHANGED <<pub, store, calls, raced, purges>>

-----------------------------------------------------------------------------
(* Publishing.                                                             *)

\* Mutant of Build: the event at the mark is taken along.
BuildFromMark ==
    /\ stage = "idle"
    /\ Len(chain) > published
    /\ Cardinality(files) < MaxFiles
    /\ draft' = Segment(published, chain, {})
    /\ stage' = "bodies"
    /\ UNCHANGED <<peer, files, store, calls, raced, purges>>

\* The events are read from the mark on.
Build ==
    /\ stage = "idle"
    /\ Len(chain) > published
    /\ Cardinality(files) < MaxFiles
    /\ draft' = Segment(published + 1, chain, {})
    /\ stage' = "bodies"
    /\ UNCHANGED <<peer, files, store, calls, raced, purges>>

\* Then the bodies there are by now.
AddBodies ==
    /\ stage = "bodies"
    /\ draft' = [draft EXCEPT !.texts = {n \in PromptSeqs(draft.hist) : n >= draft.from} \ forgotten]
    /\ stage' = "write"
    /\ UNCHANGED <<peer, files, store, calls, raced, purges>>

\* publish_to: a file of that name holds other bytes (at least another
\* exportedAt) and is not rewritten.
Taken(d) == \E f \in files : f.from = d.from /\ To(f) = To(d)

Put ==
    /\ stage = "write"
    /\ IF Taken(draft)
       THEN stage' = "idle" /\ draft' = NoSegment /\ UNCHANGED files
       ELSE stage' = "mark" /\ files' = files \cup {draft} /\ UNCHANGED draft
    /\ UNCHANGED <<peer, store, calls, raced, purges>>

Mark ==
    /\ stage = "mark"
    /\ published' = To(draft)
    /\ stage' = "idle"
    /\ draft' = NoSegment
    /\ UNCHANGED <<chain, forgotten, era, acked, files, store, calls, raced, purges>>

\* The publishing process dies, or a step of it fails.
PublishFails ==
    /\ stage # "idle"
    /\ stage' = "idle"
    /\ draft' = NoSegment
    /\ UNCHANGED <<peer, files, store, calls, raced, purges>>

-----------------------------------------------------------------------------
(* Importing.                                                              *)

\* The imports that have read the row.
HaveRead == {i \in Importers : pc[i] # "idle"}

Goto(i, l) == pc' = [pc EXCEPT ![i] = l]
Leave(i) ==
    /\ Goto(i, "idle")
    /\ seg' = [seg EXCEPT ![i] = NoSegment]
    /\ seen' = [seen EXCEPT ![i] = NoRow]

\* import of a fetched segment - any there is: again, late, out of order.  It
\* reads the chain's row, and refuses a chain that is forked and a gap.
ReadRow(i, f) ==
    /\ pc[i] = "idle"
    /\ ~row.forked /\ f.from <= row.head + 1
    /\ seg' = [seg EXCEPT ![i] = f]
    /\ seen' = [seen EXCEPT ![i] = row]
    /\ Goto(i, "compare")
    /\ UNCHANGED <<peer, pub, store, stale, raced, purges>>

\* Mutant of Disagrees: only the link at the end is looked at.
DisagreesAtHead(i) ==
    seg[i].from = seen[i].head + 1 /\ PrevHash(seg[i]) # seen[i].hash

\* Mutant of Disagrees: the link is looked at wherever the segment starts.
DisagreesAnywhere(i) == PrevHash(seg[i]) # seen[i].hash

\* A seq we hold has another hash in the segment, or it does not link.
Disagrees(i) ==
    \/ \E n \in seg[i].from..To(seg[i]) :
        n <= seen[i].head /\ n \in DOMAIN events /\ events[n] # Prefix(seg[i].hist, n)
    \/ seg[i].from = seen[i].head + 1 /\ PrevHash(seg[i]) # seen[i].hash

Compare(i) ==
    /\ pc[i] = "compare"
    /\ Goto(i, IF Disagrees(i) THEN "fork" ELSE "write")
    /\ UNCHANGED <<peer, pub, store, seg, seen, stale, raced, purges>>

\* mark_foreign_forked, if there still is a row.
MarkForked(i) ==
    /\ pc[i] = "fork"
    /\ row' = [row EXCEPT !.forked = row.head > 0]
    /\ stale' = stale \ {i}
    /\ Leave(i)
    /\ UNCHANGED <<peer, pub, events, bodies, markers, raced, purges>>

\* The events that are new to the row that was read.
NewSeqs(i) == {n \in seg[i].from..To(seg[i]) : n > seen[i].head}

Kept(f, g) == [n \in DOMAIN f \cup DOMAIN g |-> IF n \in DOMAIN f THEN f[n] ELSE g[n]]

\* The redactions a segment carries.
Redacted(s) == {s.hist[n].ref : n \in {m \in s.from..To(s) : s.hist[m].kind = "redaction"}}

\* Mutant of Tombstones: what an earlier import redacted is not looked up.
TombstonesOfSegment(s) == Redacted(s)
Tombstones(s) == markers \cup Redacted(s)

\* Mutant of Upsert: the segment's end becomes the head.
UpsertLatest(r, s) == [head |-> To(s), hash |-> s.hist, forked |-> r.forked]

\* ON CONFLICT: the head does not move back and a fork mark stays.
Upsert(r, s) ==
    IF To(s) >= r.head THEN [head |-> To(s), hash |-> s.hist, forked |-> r.forked] ELSE r

\* import_foreign_segment: rows that exist are left alone, a redaction turns a
\* body into a tombstone now or when it arrives.
ImportSegment(i) ==
    /\ pc[i] = "write"
    /\ LET s == seg[i]
           new == [n \in NewSeqs(i) |-> Prefix(s.hist, n)]
           sent == [n \in {m \in PromptSeqs(s.hist) : m >= s.from} |->
                       IF n \in s.texts THEN "text" ELSE "stub"]
           held == Kept(bodies, sent)
       IN  /\ events' = Kept(events, new)
           /\ bodies' = [n \in DOMAIN held |-> IF n \in Tombstones(s) THEN "gone" ELSE held[n]]
           /\ markers' = markers \cup Redacted(s)
           /\ row' = Upsert(row, s)
    /\ stale' = HaveRead \ {i}
    /\ raced' = (raced \/ (i \in stale /\ (era > 0 \/ purges > 0)))
    /\ Leave(i)
    /\ UNCHANGED <<peer, pub, purges>>

\* The importing process dies; a transaction not committed leaves nothing.
Crash(i) ==
    /\ pc[i] # "idle"
    /\ stale' = stale \ {i}
    /\ Leave(i)
    /\ UNCHANGED <<peer, pub, store, raced, purges>>

\* Mutant of Purge: the local suppression markers go as well.
PurgeMarkers ==
    /\ era + purges < MaxUpsets
    /\ row.head > 0
    /\ row' = NoRow /\ events' = <<>> /\ bodies' = <<>> /\ markers' = {}
    /\ purges' = purges + 1
    /\ stale' = HaveRead
    /\ UNCHANGED <<peer, pub, pc, seg, seen, raced>>

\* forget_foreign_chain (`polis subscribe rm --purge`).
Purge ==
    /\ era + purges < MaxUpsets
    /\ row.head > 0
    /\ row' = NoRow /\ events' = <<>> /\ bodies' = <<>>
    /\ purges' = purges + 1
    /\ stale' = HaveRead
    /\ UNCHANGED <<peer, pub, markers, pc, seg, seen, raced>>

\* clear_foreign_fork, by an operator.
ClearFork ==
    /\ row.forked
    /\ row' = [row EXCEPT !.forked = FALSE]
    /\ UNCHANGED <<peer, pub, events, bodies, markers, calls, raced, purges>>

\* The receiver tells how far it holds the chain; set_foreign_ack keeps the
\* largest it hears, so late and repeated reports change nothing.
Ack ==
    /\ row.head > acked
    /\ acked' = row.head
    /\ UNCHANGED <<chain, forgotten, era, published, pub, store, calls, raced, purges>>

Publish == Build \/ AddBodies \/ Put \/ Mark
Import(i) == Compare(i) \/ MarkForked(i) \/ ImportSegment(i)

Next ==
    \/ Capture \/ Ack \/ Purge \/ ClearFork \/ Publish \/ PublishFails
    \/ \E s \in 1..MaxSeq : Forget(s) \/ AppendRedaction(s)
    \/ \E n \in 0..(Len(chain) - 1) : Restore(n)
    \/ \E i \in Importers : (\E f \in files : ReadRow(i, f)) \/ Import(i) \/ Crash(i)

Spec == Init /\ [][Next]_vars

-----------------------------------------------------------------------------
(* Properties.                                                             *)

\* The shape of the state: histories are sequences of entries, marks are
\* lengths, an import that is under way has a published file in hand.
Entries == [kind : {"prompt", "compaction", "redaction"}, ref : 0..MaxSeq, era : 0..MaxUpsets]
IsHistory(h) == \A n \in DOMAIN h : h[n] \in Entries
TypeOK ==
    /\ IsHistory(chain) /\ Len(chain) <= MaxSeq
    /\ forgotten \subseteq PromptSeqs(chain)
    /\ {published, acked} \subseteq 0..MaxSeq
    /\ stage \in {"idle", "bodies", "write", "mark"}
    /\ (stage = "idle") <=> (draft = NoSegment)
    /\ \A f \in files : f.from \in 1..To(f) /\ f.texts \subseteq PromptSeqs(f.hist)
    /\ row.head = Len(row.hash) /\ row.forked \in BOOLEAN
    /\ \A n \in DOMAIN events : IsHistory(events[n])
    /\ \A n \in DOMAIN bodies : bodies[n] \in {"text", "stub", "gone"}
    /\ markers \subseteq 1..MaxSeq
    /\ \A i \in Importers :
        /\ pc[i] \in {"idle", "compare", "fork", "write"}
        /\ IF pc[i] = "idle" THEN seg[i] = NoSegment ELSE seg[i] \in files
    /\ stale \subseteq HaveRead

\* The events held are those up to the head, each continues the one before,
\* and the head's hash is that of the last.
IsChain ==
    /\ DOMAIN events = 1..row.head
    /\ \A n \in 1..row.head : Len(events[n]) = n
    /\ \A n \in 2..row.head : Prefix(events[n], n - 1) = events[n - 1]
    /\ row.hash = IF row.head = 0 THEN <<>> ELSE events[row.head]

\* What is held of a peer's chain is a chain: always, if the peer keeps one
\* history and nothing is purged meanwhile, and otherwise as long as no import
\* wrote under a row it had not read.
HeldIsChain == (era = 0 /\ purges = 0) \/ ~raced => IsChain

\* A peer that keeps one history is never taken to have forked, in whatever
\* order, how often and how concurrently its segments are imported.
NoFalseFork == era = 0 => ~row.forked

\* A redaction the peer may count as acknowledged has been carried out here,
\* and what it names never comes back - not from an older segment that still
\* carries the body, and not after the chain was purged and fetched again.
AckMeansApplied ==
    era = 0 => \A n \in 1..Len(chain) :
        n <= acked /\ chain[n].kind = "redaction" /\ chain[n].ref \in DOMAIN bodies
            => bodies[chain[n].ref] = "gone"

\* "Nothing newer from that chain lands until an operator clears the mark."
ForkedIsFrozen == [][row.forked /\ row'.forked => UNCHANGED <<events, row>>]_vars

=============================================================================
