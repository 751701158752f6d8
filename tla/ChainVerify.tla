----------------------------- MODULE ChainVerify ----------------------------
(***************************************************************************)
(* polis-store/src/chain.rs: verify_ledger_chain_incremental, the cheap    *)
(* check of the hash chain, and the full walk it falls back on.            *)
(*                                                                         *)
(* A call reads the head seq, the two halves of the stored anchor and the  *)
(* anchor's row, walks, and writes the two halves of the new anchor - each *)
(* under a lock of its own, so that appends (Ledger: one transaction each) *)
(* and other calls come in between, any read or write may fail and the     *)
(* process may die.  The halves of the stored pair may therefore come from *)
(* different calls; what makes that harmless is that a pair is believed    *)
(* only if the row it names still has the hash it names.                   *)
(*                                                                         *)
(* A hash is the sequence of what it commits to, oldest first: equal only  *)
(* if equal all the way down.                                              *)
(***************************************************************************)
EXTENDS Naturals, Sequences

CONSTANTS
    Calls,      \* calls that can be in progress at a time, in any process
    Events,     \* what a row can record
    Other,      \* what a row altered from outside holds instead
    None,       \* an anchor half not stored, or not read
    MaxRows,    \* bound on the length of the chain
    MaxAlters,  \* bound on the alterations of stored rows from outside
    MaxFaults   \* bound on failing statements and deaths

ASSUME ChainVerifyAssumptions ==
    /\ Other \notin Events
    /\ None \notin Nat
    /\ None \notin Seq(Events \cup {Other})
    /\ {MaxRows, MaxAlters, MaxFaults} \subseteq Nat

VARIABLES
    rows,      \* ledger_events, by seq
    meta,      \* the stored anchor: VERIFY_LAST_SEQ and VERIFY_HEAD_HASH
    pc,
    head,      \* head[c]: head_seq
    anchor,    \* anchor[c]: the anchor c read, later the one it writes
    verdict,   \* verdict[c]: of c's last walk; ok with a count, or broken
    walked,    \* the rows that a walk found in order (history)
    alters, faults

locals == <<pc, head, anchor, verdict>>
vars == <<rows, meta, pc, head, anchor, verdict, walked, alters, faults>>

Genesis == <<>>
EntryHash(prev, body) == Append(prev, body)
HeadHash == IF rows = <<>> THEN Genesis ELSE rows[Len(rows)].hash

Anchor(seq, hash) == [seq |-> seq, hash |-> hash]
Verdict(ok, n) == [ok |-> ok, checked |-> n]
NoVerdict == Verdict(TRUE, None)

Init ==
    /\ rows = <<>>
    /\ meta = Anchor(None, None)
    /\ pc = [c \in Calls |-> "idle"]
    /\ head = [c \in Calls |-> 0]
    /\ anchor = [c \in Calls |-> Anchor(None, None)]
    /\ verdict = [c \in Calls |-> NoVerdict]
    /\ walked = {}
    /\ alters = 0
    /\ faults = 0

-----------------------------------------------------------------------------
(* The rest of the store, and the outside.                                 *)

\* append_event: the row links to the head's stored hash.
AppendRow(e) ==
    /\ Len(rows) < MaxRows
    /\ rows' = Append(rows, [prev |-> HeadHash, body |-> e, hash |-> EntryHash(HeadHash, e)])
    /\ UNCHANGED <<meta, locals, walked, alters, faults>>

\* A stored row is changed behind the store's back, in any of its columns.
Alter(i) ==
    /\ alters < MaxAlters
    /\ \E r \in {[rows[i] EXCEPT !.body = Other],
                 [rows[i] EXCEPT !.prev = Append(@, Other)],
                 [rows[i] EXCEPT !.hash = Append(@, Other)]} :
         rows' = [rows EXCEPT ![i] = r]
    /\ alters' = alters + 1
    /\ UNCHANGED <<meta, locals, walked, faults>>

-----------------------------------------------------------------------------
(* Walking.                                                                *)

\* Row i is in order after prev.
InOrder(i, prev) ==
    /\ rows[i].prev = prev
    /\ rows[i].hash = EntryHash(rows[i].prev, rows[i].body)

\* The rows after `from`, whose hash is taken to be `hash`, are in order.
CleanFrom(from, hash) ==
    \A i \in (from + 1)..Len(rows) :
        InOrder(i, IF i = from + 1 THEN hash ELSE rows[i - 1].hash)

\* The hash a clean walk from there ends with.
EndHash(from, hash) == IF Len(rows) > from THEN rows[Len(rows)].hash ELSE hash

\* The anchor row still has the recorded hash; seq 0 stands for genesis.
AnchorOk(a) ==
    \/ a.seq = 0 /\ a.hash = Genesis
    \/ a.seq \in 1..Len(rows) /\ rows[a.seq].hash = a.hash

\* Mutant of Incomplete: only the seq is looked at.
IncompleteBySeq(a) == a.seq = None
Incomplete(a) == a.seq = None \/ a.hash = None

\* Mutants of NewAnchor: the hash is read again, too; the row after the head.
NewAnchorReread(seq, hash) == Anchor(seq, IF seq = Len(rows) THEN HeadHash ELSE hash)
NewAnchorPastHead(seq, hash) == Anchor(seq + 1, hash)

\* What is recorded after a clean walk that ended with hash.
NewAnchor(seq, hash) == Anchor(seq, hash)

\* Mutant of SuffixFrom: the suffix starts after the head that was read.
SuffixFromHead(c) == head[c]
SuffixFrom(c) == anchor[c].seq

-----------------------------------------------------------------------------
(* A call.                                                                 *)

Goto(c, l) == pc' = [pc EXCEPT ![c] = l]
Decide(c, v) == verdict' = [verdict EXCEPT ![c] = v]

\* A statement fails, if it still may.
Fault == faults < MaxFaults /\ faults' = faults + 1
NoFault == UNCHANGED faults

\* head_seq = max_ledger_seq(), whose failure ends the call.
ReadHead(c) ==
    /\ pc[c] = "idle"
    /\ head' = [head EXCEPT ![c] = Len(rows)]
    /\ Decide(c, NoVerdict)
    /\ Goto(c, "seq")
    /\ UNCHANGED <<rows, meta, anchor, walked, alters, faults>>

\* The half of the anchor that is read: as stored, or None on a failure.
ReadSeq(c) ==
    /\ pc[c] = "seq"
    /\ \/ anchor' = [anchor EXCEPT ![c] = Anchor(meta.seq, None)] /\ NoFault
       \/ anchor' = [anchor EXCEPT ![c] = Anchor(None, None)] /\ Fault
    /\ Goto(c, "hash")
    /\ UNCHANGED <<rows, meta, head, verdict, walked, alters>>

\* The other half; without both, or with a seq past head_seq, the walk is full.
ReadHash(c) ==
    /\ pc[c] = "hash"
    /\ \/ anchor' = [anchor EXCEPT ![c].hash = meta.hash] /\ NoFault
       \/ UNCHANGED anchor /\ Fault
    /\ LET a == anchor'[c]
       IN  Goto(c, IF Incomplete(a) THEN "full"
                   ELSE IF a.seq > head[c] THEN "full" ELSE "check")
    /\ UNCHANGED <<rows, meta, head, verdict, walked, alters>>

\* The anchor row: a mismatch means a full walk, and nothing new no walk.
CheckAnchor(c) ==
    /\ pc[c] = "check"
    /\ LET fresh == head[c] = anchor[c].seq
       IN  \/ ~AnchorOk(anchor[c]) /\ Goto(c, "full") /\ UNCHANGED verdict
           \/ AnchorOk(anchor[c]) /\ fresh /\ Goto(c, "idle") /\ Decide(c, Verdict(TRUE, head[c]))
           \/ AnchorOk(anchor[c]) /\ ~fresh /\ Goto(c, "suffix") /\ UNCHANGED verdict
    /\ UNCHANGED <<rows, meta, head, anchor, walked, alters, faults>>

\* The walk of the suffix.  The new anchor pairs the head_seq read first with
\* the hash of the last row there is now.
WalkSuffix(c) ==
    /\ pc[c] = "suffix"
    /\ LET from == SuffixFrom(c)
           hash == anchor[c].hash
       IN  \/ /\ CleanFrom(from, hash)
              /\ Decide(c, Verdict(TRUE, IF Len(rows) > from THEN Len(rows) ELSE from))
              /\ walked' = walked \cup ((from + 1)..Len(rows))
              /\ anchor' = [anchor EXCEPT ![c] = Anchor(head[c], EndHash(from, hash))]
              /\ Goto(c, "write seq")
           \/ /\ ~CleanFrom(from, hash)
              /\ Decide(c, Verdict(FALSE, 0))
              /\ Goto(c, "idle")
              /\ UNCHANGED <<walked, anchor>>
    /\ UNCHANGED <<rows, meta, head, alters, faults>>

\* verify_ledger_chain: the walk of everything.
WalkAll(c) ==
    /\ pc[c] = "full"
    /\ \/ /\ CleanFrom(0, Genesis)
          /\ Decide(c, Verdict(TRUE, Len(rows)))
          /\ walked' = walked \cup 1..Len(rows)
          /\ anchor' = [anchor EXCEPT ![c] = Anchor(None, EndHash(0, Genesis))]
          /\ Goto(c, "reanchor")
       \/ /\ ~CleanFrom(0, Genesis)
          /\ Decide(c, Verdict(FALSE, 0))
          /\ Goto(c, "idle")
          /\ UNCHANGED <<walked, anchor>>
    /\ UNCHANGED <<rows, meta, head, alters, faults>>

\* The head seq is read again after the full walk, or is 0 on a failure.
Reanchor(c) ==
    /\ pc[c] = "reanchor"
    /\ \/ anchor' = [anchor EXCEPT ![c] = NewAnchor(Len(rows), @.hash)] /\ NoFault
       \/ anchor' = [anchor EXCEPT ![c] = NewAnchor(0, @.hash)] /\ Fault
    /\ Goto(c, "write seq")
    /\ UNCHANGED <<rows, meta, head, verdict, walked, alters>>

\* set_meta, twice; errors are ignored.
WriteSeq(c) ==
    /\ pc[c] = "write seq"
    /\ \/ meta' = [meta EXCEPT !.seq = anchor[c].seq] /\ NoFault
       \/ UNCHANGED meta /\ Fault
    /\ Goto(c, "write hash")
    /\ UNCHANGED <<rows, head, anchor, verdict, walked, alters>>

WriteHash(c) ==
    /\ pc[c] = "write hash"
    /\ \/ meta' = [meta EXCEPT !.hash = anchor[c].hash] /\ NoFault
       \/ UNCHANGED meta /\ Fault
    /\ Goto(c, "idle")
    /\ UNCHANGED <<rows, head, anchor, verdict, walked, alters>>

\* The process dies, or a read whose failure ends the call fails.
Stop(c) ==
    /\ pc[c] # "idle"
    /\ Fault
    /\ Goto(c, "idle")
    /\ Decide(c, NoVerdict)
    /\ UNCHANGED <<rows, meta, head, anchor, walked, alters>>

Step(c) ==
    \/ ReadHead(c) \/ ReadSeq(c) \/ ReadHash(c) \/ CheckAnchor(c)
    \/ WalkSuffix(c) \/ WalkAll(c) \/ Reanchor(c) \/ WriteSeq(c) \/ WriteHash(c)

Next ==
    \/ \E e \in Events : AppendRow(e)
    \/ \E i \in DOMAIN rows : Alter(i)
    \/ \E c \in Calls : Step(c) \/ Stop(c)

Spec == Init /\ [][Next]_vars

\* A poll is repeated, and a call's code keeps running.
FairSpec == Spec /\ \A c \in Calls : WF_vars(Step(c))

-----------------------------------------------------------------------------
(* Properties.                                                             *)

Hashes == Seq(Events \cup {Other})
AnchorType == [seq : Nat \cup {None}, hash : Hashes \cup {None}]

\* Rows and locals have the shape of their columns and types; a call has both
\* halves of an anchor whenever it uses them.
TypeOK ==
    /\ rows \in Seq([prev : Hashes, body : Events \cup {Other}, hash : Hashes])
    /\ meta \in AnchorType
    /\ pc \in [Calls -> {"idle", "seq", "hash", "check", "suffix", "full", "reanchor",
                         "write seq", "write hash"}]
    /\ head \in [Calls -> Nat]
    /\ anchor \in [Calls -> AnchorType]
    /\ \A c \in Calls :
        pc[c] \in {"check", "suffix", "write seq", "write hash"} => anchor[c] \in [seq : Nat, hash : Hashes]
    /\ verdict \in [Calls -> [ok : BOOLEAN, checked : Nat \cup {None}]]
    /\ walked \subseteq DOMAIN rows
    /\ alters \in 0..MaxAlters
    /\ faults \in 0..MaxFaults

\* Whatever calls raced and failed, an anchor that would be believed names a
\* row up to which every row has been walked and found in order.
AnchorIsEarned == meta.seq \in Nat /\ AnchorOk(meta) => 1..meta.seq \subseteq walked

\* "The chain is ok, n rows" is only said of rows that were walked: an
\* alteration made before any walk passed the row is never vouched for.
VerdictIsEarned ==
    [][\A c \in Calls :
        verdict'[c] \notin {verdict[c], NoVerdict} /\ verdict'[c].ok
            => 1..verdict'[c].checked \subseteq walked']_vars

\* A chain nobody altered is never reported as broken, whatever is appended
\* while it is walked.
NoFalseAlarm == \A c \in Calls : ~verdict[c].ok => alters > 0

\* "It falls back to the full walk and re-anchors": once appends pause, the
\* anchor of an unaltered chain comes to name the head, and stays there.
Reanchors == <>[](alters = 0 => meta = Anchor(Len(rows), HeadHash))
=============================================================================
