-------------------------- MODULE ForeignSyncProofs -------------------------
(***************************************************************************)
(* Proofs about ForeignSync, for any number of imports, files and restores *)
(* and chains of any length: what is held of a peer is a chain, a peer     *)
(* with one history is never taken to have forked, and a redaction that    *)
(* counts as acknowledged has been carried out.                            *)
(*                                                                         *)
(* There are two arguments that what is held is a chain.  While the peer   *)
(* keeps one history everything that travels is a prefix of its chain      *)
(* (OneHistory), so it does not matter what an import had read.  And an    *)
(* import whose row nobody wrote since it read it continues just the chain *)
(* it compared itself with (ReadingsHold).                                 *)
(***************************************************************************)
EXTENDS ForeignSync, TLAPS, SequenceTheorems, FiniteSetTheorems

-----------------------------------------------------------------------------
(* The strengthening.                                                      *)

History(h) ==
    /\ h \in Seq(Entries) /\ Len(h) <= MaxSeq
    /\ \A n \in DOMAIN h : h[n].kind = "redaction" => h[n].ref # 0

IsSegment(s) ==
    /\ s \in [from : Nat, hist : Seq(Entries), texts : SUBSET Nat]
    /\ History(s.hist)
    /\ s.from # 0 /\ s.from <= Len(s.hist)
    /\ s.texts \subseteq PromptSeqs(s.hist)

RowType == [head : Nat, hash : Seq(Entries), forked : BOOLEAN]
IsRow(r) == r \in RowType /\ History(r.hash) /\ r.head = Len(r.hash)

PeerShapes ==
    /\ History(chain)
    /\ forgotten \subseteq PromptSeqs(chain) \cap Targets(chain, "compaction")
    /\ era \in Nat /\ purges \in Nat /\ era + purges <= MaxUpsets
    /\ published \in 0..MaxSeq /\ acked \in 0..MaxSeq
FileShapes ==
    /\ stage \in {"idle", "bodies", "write", "mark"}
    /\ IF stage = "idle" THEN draft = NoSegment ELSE IsSegment(draft)
    /\ \A f \in files : IsSegment(f)
StoreShapes ==
    /\ IsRow(row)
    /\ \A n \in DOMAIN events : n \in Nat /\ n # 0 /\ History(events[n])
    /\ \A n \in DOMAIN bodies : bodies[n] \in {"text", "stub", "gone"}
    /\ markers \subseteq 1..MaxSeq
CallShapes ==
    /\ pc \in [Importers -> {"idle", "compare", "fork", "write"}]
    /\ seg \in [Importers -> files \cup {NoSegment}]
    /\ \A i \in Importers : IF pc[i] = "idle" THEN seg[i] = NoSegment ELSE seg[i] \in files
    /\ seen \in [Importers -> RowType] /\ \A i \in Importers : IsRow(seen[i])
    /\ stale \subseteq HaveRead
Shapes == PeerShapes /\ FileShapes /\ StoreShapes /\ CallShapes

\* A body whose redaction was seen is gone.
MarkersKept == \A n \in DOMAIN bodies : n \in markers => bodies[n] = "gone"

\* What an import read was so, and if nobody wrote since, it is so.
ReadingHolds(i) ==
    pc[i] # "idle" =>
        /\ seg[i].from <= seen[i].head + 1
        /\ purges = 0 => seen[i].head <= row.head
        /\ i \notin stale =>
            /\ seen[i].head = row.head /\ seen[i].hash = row.hash
            /\ pc[i] = "write" => ~Disagrees(i)
ReadingsHold == \A i \in Importers : ReadingHolds(i)

\* A part of a history, from its beginning.
PartOf(h, c) == Len(h) <= Len(c) /\ h = Prefix(c, Len(h))

\* While the peer keeps one history.
FilesAreOfChain ==
    /\ stage # "idle" => PartOf(draft.hist, chain)
    /\ \A f \in files : PartOf(f.hist, chain)
StoreIsOfChain ==
    /\ PartOf(row.hash, chain) /\ ~row.forked
    /\ \A n \in DOMAIN events : n <= Len(chain) /\ events[n] = Prefix(chain, n)
CallsAreOfChain == \A i \in Importers : PartOf(seen[i].hash, chain) /\ pc[i] # "fork"

\* How far somebody holds the chain, or is said to, and the redactions up to
\* there.
Reached(n) == n <= acked \/ n <= row.head \/ \E i \in Importers : n <= seen[i].head
RedactionsCarried ==
    /\ acked <= Len(chain)
    /\ \A n \in 1..Len(chain) :
        Reached(n) /\ chain[n].kind = "redaction" => chain[n].ref \in markers
OneHistory ==
    era = 0 => FilesAreOfChain /\ StoreIsOfChain /\ CallsAreOfChain /\ RedactionsCarried

SyncInv == Shapes /\ MarkersKept /\ ReadingsHold /\ OneHistory /\ HeldIsChain

-----------------------------------------------------------------------------
(* Histories and their beginnings.                                         *)

LEMMA PrefixFacts ==
    ASSUME NEW S, NEW h \in Seq(S), NEW n \in Nat, n <= Len(h)
    PROVE  /\ Prefix(h, n) \in Seq(S) /\ Len(Prefix(h, n)) = n
           /\ \A k \in 1..n : Prefix(h, n)[k] = h[k]
  <1>1. 1 \in Int /\ n \in Int /\ Len(h) \in Nat BY LenProperties
  <1>2. \A k \in 1..n : h[k] \in S
    <2>1. \A k \in 1..n : k \in 1..Len(h) BY <1>1
    <2> QED BY <2>1, ElementOfSeq
  <1>3. /\ SubSeq(h, 1, n) \in Seq(S)
        /\ Len(SubSeq(h, 1, n)) = IF 1 <= n THEN n - 1 + 1 ELSE 0
        /\ \A k \in 1..(n - 1 + 1) : SubSeq(h, 1, n)[k] = h[1 + k - 1]
    BY <1>1, <1>2, SubSeqProperties
  <1>4. Len(SubSeq(h, 1, n)) = n BY <1>3
  <1>5. \A k \in 1..n : SubSeq(h, 1, n)[k] = h[k]
    <2>1. \A k \in 1..n : k \in 1..(n - 1 + 1) /\ 1 + k - 1 = k OBVIOUS
    <2> QED BY <1>3, <2>1
  <1> QED BY <1>3, <1>4, <1>5 DEF Prefix

LEMMA PrefixWhole ==
    ASSUME NEW S, NEW h \in Seq(S) PROVE Prefix(h, Len(h)) = h
  BY SubSeqFull DEF Prefix

LEMMA PrefixOfPrefix ==
    ASSUME NEW S, NEW h \in Seq(S), NEW n \in Nat, n <= Len(h), NEW m \in Nat, m <= n
    PROVE  Prefix(Prefix(h, n), m) = Prefix(h, m)
  <1> DEFINE p == Prefix(h, n)
             a == Prefix(p, m)
             b == Prefix(h, m)
  <1>1. Len(h) \in Nat /\ m <= Len(h) BY LenProperties
  <1>2. p \in Seq(S) /\ Len(p) = n /\ \A k \in 1..n : p[k] = h[k] BY PrefixFacts
  <1>3. b \in Seq(S) /\ Len(b) = m /\ \A k \in 1..m : b[k] = h[k] BY <1>1, PrefixFacts
  <1> HIDE DEF p, b
  <1>4. a \in Seq(S) /\ Len(a) = m /\ \A k \in 1..m : a[k] = p[k] BY <1>2, PrefixFacts
  <1> HIDE DEF a
  <1>5. \A k \in 1..m : a[k] = b[k]
    <2>1. \A k \in 1..m : k \in 1..n OBVIOUS
    <2> QED BY <1>2, <1>3, <1>4, <2>1
  <1>6. a = b BY <1>3, <1>4, <1>5, SeqEqual
  <1> QED BY <1>6 DEF a, b, p

LEMMA PrefixOfLonger ==
    ASSUME NEW S, NEW h \in Seq(S), NEW t \in Seq(S), NEW n \in Nat, n <= Len(h)
    PROVE  Prefix(h \o t, n) = Prefix(h, n)
  <1> DEFINE c == h \o t
             a == Prefix(c, n)
             b == Prefix(h, n)
  <1>1. Len(h) \in Nat /\ Len(t) \in Nat BY LenProperties
  <1>2. /\ c \in Seq(S) /\ Len(c) = Len(h) + Len(t)
        /\ \A k \in 1..(Len(h) + Len(t)) : c[k] = IF k <= Len(h) THEN h[k] ELSE t[k - Len(h)]
    BY ConcatProperties
  <1>3. b \in Seq(S) /\ Len(b) = n /\ \A k \in 1..n : b[k] = h[k] BY PrefixFacts
  <1> HIDE DEF c, b
  <1>4. n <= Len(c) BY <1>1, <1>2
  <1>5. a \in Seq(S) /\ Len(a) = n /\ \A k \in 1..n : a[k] = c[k] BY <1>2, <1>4, PrefixFacts
  <1> HIDE DEF a
  <1>6. \A k \in 1..n : a[k] = b[k]
    <2>1. \A k \in 1..n : k \in 1..(Len(h) + Len(t)) /\ k <= Len(h) BY <1>1
    <2> QED BY <1>2, <1>3, <1>5, <2>1
  <1>7. a = b BY <1>3, <1>5, <1>6, SeqEqual
  <1> QED BY <1>7 DEF a, b, c

LEMMA HistoryFacts ==
    ASSUME NEW h, History(h)
    PROVE  /\ h \in Seq(Entries) /\ Len(h) \in Nat /\ Len(h) <= MaxSeq /\ MaxSeq \in Nat
           /\ DOMAIN h = 1..Len(h)
           /\ \A n \in 1..Len(h) : h[n] \in Entries
           /\ \A n \in 1..Len(h) : h[n].kind = "redaction" => h[n].ref \in 1..MaxSeq
           /\ Prefix(h, Len(h)) = h
  <1>1. /\ h \in Seq(Entries) /\ Len(h) \in Nat /\ Len(h) <= MaxSeq /\ MaxSeq \in Nat
        /\ DOMAIN h = 1..Len(h)
    BY ForeignSyncAssumptions, LenProperties DEF History
  <1>2. \A n \in 1..Len(h) : h[n] \in Entries BY <1>1, ElementOfSeq
  <1>3. ASSUME NEW n \in 1..Len(h), h[n].kind = "redaction" PROVE h[n].ref \in 1..MaxSeq
    <2>1. h[n].ref # 0 BY <1>1, <1>3 DEF History
    <2>2. h[n].ref \in 0..MaxSeq BY <1>2 DEF Entries
    <2> QED BY <1>1, <2>1, <2>2
  <1> QED BY <1>1, <1>2, <1>3, PrefixWhole

LEMMA HistoryPrefix ==
    ASSUME NEW h, History(h), NEW n \in Nat, n <= Len(h)
    PROVE  /\ History(Prefix(h, n)) /\ Len(Prefix(h, n)) = n
           /\ \A k \in 1..n : Prefix(h, n)[k] = h[k]
  <1>1. /\ h \in Seq(Entries) /\ Len(h) \in Nat /\ Len(h) <= MaxSeq /\ MaxSeq \in Nat
        /\ \A k \in 1..Len(h) : h[k].kind = "redaction" => h[k].ref \in 1..MaxSeq
    BY HistoryFacts
  <1> DEFINE p == Prefix(h, n)
  <1>2. p \in Seq(Entries) /\ Len(p) = n /\ \A k \in 1..n : p[k] = h[k] BY <1>1, PrefixFacts
  <1> HIDE DEF p
  <1>3. DOMAIN p = 1..n BY <1>2, LenProperties
  <1>4. \A k \in 1..n : p[k].kind = "redaction" => p[k].ref # 0
    <2>1. \A k \in 1..n : k \in 1..Len(h) BY <1>1
    <2>2. \A k \in 1..MaxSeq : k # 0 BY <1>1
    <2> QED BY <1>1, <1>2, <2>1, <2>2
  <1> QED BY <1>1, <1>2, <1>3, <1>4 DEF History, p

\* What is part of a chain stays so when it grows, and two parts agree.
LEMMA PartGrows ==
    ASSUME NEW c, History(c), NEW es \in Seq(Entries), NEW h, PartOf(h, c), Len(h) \in Nat
    PROVE  PartOf(h, c \o es)
  <1>1. c \in Seq(Entries) /\ Len(c) \in Nat /\ Len(es) \in Nat BY HistoryFacts, LenProperties
  <1>2. Len(c \o es) = Len(c) + Len(es) BY <1>1, ConcatProperties
  <1>3. Prefix(c \o es, Len(h)) = Prefix(c, Len(h)) BY <1>1, PrefixOfLonger DEF PartOf
  <1>4. Len(h) <= Len(c \o es) BY <1>1, <1>2 DEF PartOf
  <1> QED BY <1>3, <1>4 DEF PartOf

LEMMA PartPrefix ==
    ASSUME NEW c, History(c), NEW h, PartOf(h, c), NEW n \in Nat, Len(h) \in Nat, n <= Len(h)
    PROVE  /\ Prefix(h, n) = Prefix(c, n) /\ n <= Len(c) /\ PartOf(Prefix(h, n), c)
           /\ \A k \in 1..n : h[k] = c[k]
  <1>1. c \in Seq(Entries) /\ Len(c) \in Nat /\ n <= Len(c) BY HistoryFacts DEF PartOf
  <1>2. Prefix(h, n) = Prefix(c, n) BY <1>1, PrefixOfPrefix DEF PartOf
  <1>3. Len(Prefix(c, n)) = n BY <1>1, PrefixFacts
  <1>4. \A k \in 1..n : h[k] = c[k]
    <2>1. \A k \in 1..Len(h) : Prefix(c, Len(h))[k] = c[k] BY <1>1, PrefixFacts DEF PartOf
    <2>2. \A k \in 1..n : k \in 1..Len(h) OBVIOUS
    <2> QED BY <2>1, <2>2 DEF PartOf
  <1> QED BY <1>1, <1>2, <1>3, <1>4 DEF PartOf

LEMMA PartOfItself == ASSUME NEW c, History(c) PROVE PartOf(c, c) /\ PartOf(<<>>, c)
  <1>1. c \in Seq(Entries) /\ Len(c) \in Nat /\ Prefix(c, Len(c)) = c BY HistoryFacts
  <1>2. Len(<<>>) = 0 /\ Prefix(c, 0) = <<>> BY <1>1, SubSeqEmpty DEF Prefix
  <1> QED BY <1>1, <1>2 DEF PartOf

LEMMA EmptyHistory == History(<<>>) /\ Len(<<>>) = 0
  BY ForeignSyncAssumptions, EmptySeq DEF History

LEMMA EraEntries == Entries \subseteq
    [kind : {"prompt", "compaction", "redaction"}, ref : Nat, era : Nat]
  BY ForeignSyncAssumptions DEF Entries

\* No segment is NoSegment.
LEMMA SegmentFacts ==
    ASSUME NEW s, IsSegment(s)
    PROVE  /\ s # NoSegment /\ s.from \in Nat /\ s.from # 0 /\ s.from <= To(s)
           /\ To(s) \in Nat /\ To(s) <= MaxSeq /\ History(s.hist)
  <1>1. s.hist \in Seq(Entries) /\ s \in [from : Nat, hist : Seq(Entries), texts : SUBSET Nat]
    BY DEF IsSegment
  <1>2. s.hist \in Seq([kind : {"prompt", "compaction", "redaction"}, ref : Nat, era : Nat])
    BY <1>1, EraEntries, SeqMonotonic
  <1>3. s # NoSegment BY <1>1, <1>2, ForeignSyncAssumptions
  <1> QED BY <1>3, HistoryFacts DEF IsSegment, To

-----------------------------------------------------------------------------
(* What a step leaves alone.                                               *)

LEMMA SameReadings ==
    ASSUME ReadingsHold, UNCHANGED <<pc, seg, seen, stale, events, purges>>,
           UNCHANGED <<row.head, row.hash>>
    PROVE  ReadingsHold'
  <1>1. ASSUME NEW i \in Importers PROVE ReadingHolds(i)'
    BY DEF ReadingsHold, ReadingHolds, Disagrees
  <1> QED BY <1>1 DEF ReadingsHold

LEMMA SameHeld ==
    ASSUME HeldIsChain, UNCHANGED <<row.head, row.hash, events, raced, purges>>, era' = 0 => era = 0
    PROVE  HeldIsChain'
  BY DEF HeldIsChain, IsChain

LEMMA SameStore ==
    ASSUME SyncInv, UNCHANGED store
    PROVE  StoreShapes' /\ MarkersKept'
  BY DEF SyncInv, Shapes, StoreShapes, MarkersKept, store

LEMMA SameCalls ==
    ASSUME SyncInv, UNCHANGED calls, files \subseteq files'
    PROVE  CallShapes'
  BY DEF SyncInv, Shapes, CallShapes, HaveRead, calls

-----------------------------------------------------------------------------
(* The peer writes.                                                        *)

LEMMA Entered ==
    ASSUME NEW c, History(c), NEW e \in Entries, e.kind = "redaction" => e.ref # 0,
           Len(c) + 1 <= MaxSeq
    PROVE  LET d == c \o <<e>>
           IN  /\ History(d) /\ Len(d) = Len(c) + 1 /\ d[Len(c) + 1] = e
               /\ \A k \in 1..Len(c) : d[k] = c[k]
               /\ DOMAIN c \subseteq DOMAIN d /\ Len(c) + 1 \in DOMAIN d
  <1> DEFINE d == c \o <<e>>
  <1>1. /\ c \in Seq(Entries) /\ Len(c) \in Nat /\ DOMAIN c = 1..Len(c) /\ MaxSeq \in Nat
        /\ \A n \in 1..Len(c) : c[n].kind = "redaction" => c[n].ref \in 1..MaxSeq
    BY HistoryFacts
  <1>2. <<e>> \in Seq(Entries) /\ Len(<<e>>) = 1 /\ <<e>>[1] = e OBVIOUS
  <1>3. /\ d \in Seq(Entries) /\ Len(d) = Len(c) + Len(<<e>>)
        /\ \A k \in 1..(Len(c) + Len(<<e>>)) : d[k] = IF k <= Len(c) THEN c[k] ELSE <<e>>[k - Len(c)]
    BY <1>1, <1>2, ConcatProperties
  <1>4. /\ Len(d) = Len(c) + 1 /\ d[Len(c) + 1] = e /\ \A k \in 1..Len(c) : d[k] = c[k]
        /\ DOMAIN d = 1..(Len(c) + 1)
    <2> HIDE DEF d
    <2>1. Len(d) = Len(c) + 1 BY <1>2, <1>3
    <2>2. Len(c) + 1 \in 1..(Len(c) + Len(<<e>>)) /\ Len(c) + 1 - Len(c) = 1
          /\ ~(Len(c) + 1 <= Len(c))
      BY <1>1, <1>2
    <2>3. d[Len(c) + 1] = e BY <1>2, <1>3, <2>2
    <2>4. \A k \in 1..Len(c) : k \in 1..(Len(c) + Len(<<e>>)) /\ k <= Len(c) BY <1>1, <1>2
    <2>5. \A k \in 1..Len(c) : d[k] = c[k] BY <1>3, <2>4
    <2>6. DOMAIN d = 1..Len(d) BY <1>3, LenProperties
    <2> QED BY <2>1, <2>3, <2>5, <2>6
  <1> HIDE DEF d
  <1>5. \A k \in DOMAIN d : d[k].kind = "redaction" => d[k].ref # 0
    <2>1. ASSUME NEW k \in DOMAIN d, d[k].kind = "redaction" PROVE d[k].ref # 0
      <3>1. k \in 1..Len(c) \/ k = Len(c) + 1 BY <1>1, <1>4, <2>1
      <3>2. CASE k \in 1..Len(c)
        <4>1. d[k].ref \in 1..MaxSeq BY <1>1, <1>4, <2>1, <3>2
        <4> QED BY <1>1, <4>1
      <3>3. CASE k = Len(c) + 1 BY <1>4, <2>1, <3>3
      <3> QED BY <3>1, <3>2, <3>3
    <2> QED BY <2>1
  <1>6. \A k \in 1..Len(c) : k \in 1..(Len(c) + 1) BY <1>1
  <1>7. Len(c) + 1 \in 1..(Len(c) + 1) BY <1>1
  <1> QED BY <1>1, <1>3, <1>4, <1>5, <1>6, <1>7 DEF History, d

\* An event of the peer's store, and what it forgets with it.
LEMMA GrowStep ==
    ASSUME SyncInv, NEW e \in Entries, e.kind = "redaction" => e.ref # 0, Write(<<e>>),
           \A s \in forgotten' : s \in forgotten \/ (s \in PromptSeqs(chain) /\ e.kind = "compaction"
                                                      /\ e.ref = s),
           UNCHANGED <<era, published, acked, pub, store, calls, raced, purges>>
    PROVE  SyncInv'
  <1>1. chain' = chain \o <<e>> /\ Len(chain) + 1 <= MaxSeq
    BY DEF Write
  <1>2. History(chain) BY DEF SyncInv, Shapes, PeerShapes
  <1>3. /\ chain \in Seq(Entries) /\ Len(chain) \in Nat /\ DOMAIN chain = 1..Len(chain)
    BY <1>2, HistoryFacts
  <1>4. /\ History(chain') /\ Len(chain') = Len(chain) + 1 /\ chain'[Len(chain) + 1] = e
        /\ \A k \in 1..Len(chain) : chain'[k] = chain[k]
        /\ DOMAIN chain \subseteq DOMAIN chain' /\ Len(chain) + 1 \in DOMAIN chain'
    BY <1>1, <1>2, Entered
  <1>5. PeerShapes'
    <2>1. ASSUME NEW s \in forgotten' PROVE s \in PromptSeqs(chain') /\ s \in Targets(chain', "compaction")
      <3>1. s \in PromptSeqs(chain) BY <2>1 DEF SyncInv, Shapes, PeerShapes
      <3>2. s \in PromptSeqs(chain') BY <1>3, <1>4, <3>1 DEF PromptSeqs
      <3>3. CASE s \in forgotten
        <4>1. PICK n \in DOMAIN chain : chain[n].kind = "compaction" /\ chain[n].ref = s
          BY <3>3 DEF SyncInv, Shapes, PeerShapes, Targets
        <4>2. n \in DOMAIN chain' /\ chain'[n] = chain[n] BY <1>3, <1>4
        <4> QED BY <3>2, <4>1, <4>2 DEF Targets
      <3>4. CASE e.kind = "compaction" /\ e.ref = s BY <1>4, <3>2, <3>4 DEF Targets
      <3> QED BY <2>1, <3>3, <3>4
    <2> QED BY <1>4, <2>1 DEF SyncInv, Shapes, PeerShapes
  <1>6. FileShapes' BY DEF SyncInv, Shapes, FileShapes, pub
  <1>7. StoreShapes' /\ MarkersKept' BY SameStore
  <1>8. CallShapes' BY SameCalls DEF pub
  <1>9. ReadingsHold' /\ HeldIsChain'
    BY SameReadings, SameHeld DEF SyncInv, calls, store
  <1>10. OneHistory'
    <2> SUFFICES ASSUME era = 0
                 PROVE  FilesAreOfChain' /\ StoreIsOfChain' /\ CallsAreOfChain' /\ RedactionsCarried'
      BY DEF OneHistory
    <2>1. FilesAreOfChain /\ StoreIsOfChain /\ CallsAreOfChain /\ RedactionsCarried
      BY DEF SyncInv, OneHistory
    <2>2. <<e>> \in Seq(Entries) OBVIOUS
    <2>3. ASSUME NEW h, History(h), PartOf(h, chain) PROVE PartOf(h, chain')
      <3>1. Len(h) \in Nat BY <2>3, HistoryFacts
      <3> QED BY <1>1, <1>2, <2>2, <2>3, <3>1, PartGrows
    <2>4. FilesAreOfChain'
      <3>1. stage # "idle" => History(draft.hist) BY SegmentFacts DEF SyncInv, Shapes, FileShapes
      <3>2. \A f \in files : History(f.hist) BY SegmentFacts DEF SyncInv, Shapes, FileShapes
      <3> QED BY <2>1, <2>3, <3>1, <3>2 DEF FilesAreOfChain, pub
    <2>5. StoreIsOfChain'
      <3>1. PartOf(row.hash, chain') BY <2>1, <2>3
        DEF SyncInv, Shapes, StoreShapes, IsRow, StoreIsOfChain
      <3>2. ASSUME NEW n \in DOMAIN events PROVE n <= Len(chain') /\ events[n] = Prefix(chain', n)
        <4>1. n \in Nat /\ n <= Len(chain) /\ events[n] = Prefix(chain, n)
          BY <2>1 DEF SyncInv, Shapes, StoreShapes, StoreIsOfChain
        <4>2. Prefix(chain', n) = Prefix(chain, n) BY <1>1, <1>3, <2>2, <4>1, PrefixOfLonger
        <4> QED BY <1>3, <1>4, <4>1, <4>2
      <3> QED BY <2>1, <3>1, <3>2 DEF StoreIsOfChain, store
    <2>6. CallsAreOfChain'
      BY <2>1, <2>3 DEF SyncInv, Shapes, CallShapes, IsRow, CallsAreOfChain, calls
    <2>7. RedactionsCarried'
      <3>1. ASSUME NEW n \in 1..Len(chain'), Reached(n)', chain'[n].kind = "redaction"
            PROVE  chain'[n].ref \in markers
        <4>1. Reached(n) BY <3>1 DEF Reached, calls, store
        <4>2. n \in 1..Len(chain)
          <5>1. n <= Len(chain)
            <6>1. acked \in Nat /\ acked <= Len(chain) /\ n \in Nat
              BY <1>4, <2>1, <1>3 DEF RedactionsCarried, SyncInv, Shapes, PeerShapes
            <6>2. row.head \in Nat /\ row.head <= Len(chain)
              BY <2>1 DEF StoreIsOfChain, PartOf, SyncInv, Shapes, StoreShapes, IsRow, RowType
            <6>3. \A i \in Importers : seen[i].head \in Nat /\ seen[i].head <= Len(chain)
              BY <2>1 DEF CallsAreOfChain, PartOf, SyncInv, Shapes, CallShapes, IsRow, RowType
            <6> QED BY <1>3, <4>1, <6>1, <6>2, <6>3 DEF Reached
          <5> QED BY <1>3, <1>4, <5>1
        <4> QED BY <1>4, <2>1, <3>1, <4>1, <4>2 DEF RedactionsCarried
      <3>2. acked <= Len(chain')
        <4>1. acked \in Nat /\ acked <= Len(chain)
          BY <2>1 DEF RedactionsCarried, SyncInv, Shapes, PeerShapes
        <4> QED BY <1>3, <1>4, <4>1
      <3> QED BY <3>1, <3>2 DEF RedactionsCarried, store
    <2> QED BY <2>4, <2>5, <2>6, <2>7
  <1> QED BY <1>5, <1>6, <1>7, <1>8, <1>9, <1>10 DEF SyncInv, Shapes

LEMMA WriteStep ==
    ASSUME SyncInv, Capture \/ \E s \in 1..MaxSeq : Forget(s) \/ AppendRedaction(s)
    PROVE  SyncInv'
  <1>1. era \in 0..MaxUpsets /\ MaxUpsets \in Nat /\ MaxSeq \in Nat
    BY ForeignSyncAssumptions DEF SyncInv, Shapes, PeerShapes
  <1>2. \A kind \in {"prompt", "compaction", "redaction"}, ref \in 0..MaxSeq :
            /\ Entry(kind, ref) \in Entries
            /\ Entry(kind, ref).kind = kind /\ Entry(kind, ref).ref = ref
    BY <1>1 DEF Entry, Entries
  <1>3. 0 \in 0..MaxSeq /\ \A s \in 1..MaxSeq : s \in 0..MaxSeq /\ s # 0 BY <1>1
  <1>4. CASE Capture
    <2> DEFINE e == Entry("prompt", 0)
    <2>1. e \in Entries /\ e.kind = "prompt" BY <1>2, <1>3
    <2>2. Write(<<e>>) /\ UNCHANGED <<forgotten, era, published, acked, pub, store, calls, raced, purges>>
      BY <1>4 DEF Capture
    <2> HIDE DEF e
    <2> QED BY <2>1, <2>2, GrowStep
  <1>5. ASSUME NEW s \in 1..MaxSeq, Forget(s) PROVE SyncInv'
    <2> DEFINE e == Entry("compaction", s)
    <2>1. e \in Entries /\ e.kind = "compaction" /\ e.ref = s BY <1>2, <1>3
    <2>2. /\ Write(<<e>>) /\ forgotten' = forgotten \cup {s} /\ s \in PromptSeqs(chain)
          /\ UNCHANGED <<era, published, acked, pub, store, calls, raced, purges>>
      BY <1>5 DEF Forget
    <2> HIDE DEF e
    <2> QED BY <2>1, <2>2, GrowStep
  <1>6. ASSUME NEW s \in 1..MaxSeq, AppendRedaction(s) PROVE SyncInv'
    <2> DEFINE e == Entry("redaction", s)
    <2>1. e \in Entries /\ e.kind = "redaction" /\ e.ref = s /\ s # 0 BY <1>2, <1>3
    <2>2. /\ Write(<<e>>)
          /\ UNCHANGED <<forgotten, era, published, acked, pub, store, calls, raced, purges>>
      BY <1>6 DEF AppendRedaction
    <2> HIDE DEF e
    <2> QED BY <2>1, <2>2, GrowStep
  <1> QED BY <1>4, <1>5, <1>6

-----------------------------------------------------------------------------
(* The peer's store is restored.                                           *)

\* A finite set, put in some order.
LEMMA SetToSeqFacts ==
    ASSUME NEW S, IsFiniteSet(S)
    PROVE  /\ Cardinality(S) \in Nat /\ SetToSeq(S) \in [1..Cardinality(S) -> S]
           /\ \A x \in S : \E k \in 1..Cardinality(S) : SetToSeq(S)[k] = x
  <1> DEFINE n == Cardinality(S)
             f == SetToSeq(S)
  <1>1. n \in Nat /\ ExistsBijection(1..n, S) BY FS_CardinalityType
  <1>2. \E g \in [1..n -> S] : IsInjective(g)
    BY <1>1 DEF ExistsBijection, Bijection, Injection
  <1>3. f \in [1..n -> S] /\ IsInjective(f) BY <1>2 DEF SetToSeq
  <1>4. f \in Injection(1..n, S) BY <1>3 DEF Injection
  <1>5. Cardinality(1..n) = n BY <1>1, FS_Interval
  <1> HIDE DEF n, f
  <1>6. f \in Surjection(1..n, S)
    <2>1. Cardinality(1..n) = Cardinality(S) BY <1>5 DEF n
    <2> QED BY <1>4, <2>1, FS_Injection
  <1>7. \A x \in S : \E k \in 1..n : f[k] = x BY <1>6 DEF Surjection
  <1> QED BY <1>1, <1>3, <1>7 DEF n, f

\* What the snapshot does not know to be forgotten was forgotten after it, each
\* with an event of its own.
LEMMA ForgottenSince ==
    ASSUME SyncInv, NEW n \in Nat, n <= Len(chain)
    PROVE  LET since == {s \in forgotten : s <= n} \ Targets(Prefix(chain, n), "compaction")
           IN  /\ IsFiniteSet(since) /\ Cardinality(since) \in Nat
               /\ Cardinality(since) <= Len(chain) - n
  <1> DEFINE known == Prefix(chain, n)
             since == {s \in forgotten : s <= n} \ Targets(known, "compaction")
             later == (n + 1)..Len(chain)
             event == [s \in since |-> CHOOSE m \in later : chain[m].ref = s]
  <1>1. /\ Len(chain) \in Nat /\ DOMAIN chain = 1..Len(chain)
        /\ Len(known) = n /\ DOMAIN known = 1..n /\ \A k \in 1..n : known[k] = chain[k]
    <2>1. History(chain) BY DEF SyncInv, Shapes, PeerShapes
    <2>2. History(known) /\ Len(known) = n /\ \A k \in 1..n : known[k] = chain[k]
      BY <2>1, HistoryPrefix
    <2> QED BY <2>1, <2>2, HistoryFacts
  <1>2. ASSUME NEW s \in since PROVE \E m \in later : chain[m].ref = s
    <2>1. s \in forgotten /\ s \notin Targets(known, "compaction") OBVIOUS
    <2>2. PICK m \in DOMAIN chain : chain[m].kind = "compaction" /\ chain[m].ref = s
      BY <2>1 DEF SyncInv, Shapes, PeerShapes, Targets
    <2>3. m \notin DOMAIN known
      <3>1. ASSUME m \in DOMAIN known PROVE FALSE
        <4>1. known[m].kind = "compaction" /\ known[m].ref = s BY <1>1, <2>2, <3>1
        <4> QED BY <2>1, <3>1, <4>1 DEF Targets
      <3> QED BY <3>1
    <2>4. m \in later BY <1>1, <2>2, <2>3
    <2> QED BY <2>2, <2>4
  <1> HIDE DEF since, known
  <1>3. event \in Injection(since, later)
    <2>1. \A s \in since : event[s] \in later /\ chain[event[s]].ref = s BY <1>2
    <2>2. event \in [since -> later] BY <2>1
    <2>3. \A s, t \in since : event[s] = event[t] => s = t BY <2>1
    <2> HIDE DEF event
    <2> QED BY <2>2, <2>3 DEF Injection, IsInjective
  <1>4. IsFiniteSet(later) /\ Cardinality(later) = Len(chain) - n
    <2>1. n + 1 \in Int /\ Len(chain) \in Int BY <1>1
    <2>2. /\ IsFiniteSet(later)
          /\ Cardinality(later) = IF n + 1 > Len(chain) THEN 0 ELSE Len(chain) - (n + 1) + 1
      BY <2>1, FS_Interval
    <2> QED BY <1>1, <2>2
  <1> HIDE DEF later, event
  <1>5. IsFiniteSet(since) /\ Cardinality(since) <= Cardinality(later)
    BY <1>3, <1>4, FS_Injection
  <1>6. Cardinality(since) \in Nat BY <1>5, FS_CardinalityType
  <1> QED BY <1>4, <1>5, <1>6 DEF since, known

LEMMA RestoredChain ==
    ASSUME SyncInv, NEW n \in 0..(Len(chain) - 1), Restore(n)
    PROVE  /\ History(chain')
           /\ forgotten' \subseteq PromptSeqs(chain') \cap Targets(chain', "compaction")
  <1> DEFINE known == Prefix(chain, n)
             since == {s \in forgotten : s <= n} \ Targets(known, "compaction")
             again == SetToSeq(since)
             Again(k) == [kind |-> "compaction", ref |-> again[k], era |-> era + 1]
             tail == [k \in DOMAIN again |-> Again(k)]
             c == Cardinality(since)
  <1>0. chain' = known \o tail BY DEF Restore
  <1>1. /\ History(chain) /\ Len(chain) \in Nat /\ Len(chain) <= MaxSeq /\ MaxSeq \in Nat
        /\ DOMAIN chain = 1..Len(chain)
    <2>1. History(chain) BY DEF SyncInv, Shapes, PeerShapes
    <2> QED BY <2>1, HistoryFacts
  <1>2. n \in Nat /\ n <= Len(chain) BY <1>1
  <1>3. /\ History(known) /\ Len(known) = n /\ known \in Seq(Entries) /\ DOMAIN known = 1..n
        /\ \A k \in 1..n : known[k] = chain[k]
        /\ \A k \in 1..n : known[k].kind = "redaction" => known[k].ref \in 1..MaxSeq
    <2>1. /\ History(known) /\ Len(known) = n /\ \A k \in 1..n : known[k] = chain[k]
      BY <1>1, <1>2, HistoryPrefix
    <2> HIDE DEF known
    <2> QED BY <2>1, HistoryFacts
  <1>4. /\ c \in Nat /\ c <= Len(chain) - n /\ again \in [1..c -> since]
        /\ \A s \in since : \E k \in 1..c : again[k] = s
    <2>1. IsFiniteSet(since) /\ c \in Nat /\ c <= Len(chain) - n BY <1>2, ForgottenSince
    <2> HIDE DEF since
    <2> QED BY <2>1, SetToSeqFacts
  <1>5. \A s \in forgotten : s \in 1..Len(chain) /\ chain[s].kind = "prompt"
    BY <1>1 DEF SyncInv, Shapes, PeerShapes, PromptSeqs
  <1>6. \A s \in since : s \in 0..MaxSeq
    <2>1. \A s \in 1..Len(chain) : s \in 0..MaxSeq BY <1>1
    <2> QED BY <1>5, <2>1
  <1>7. era + 1 \in 0..MaxUpsets
    BY ForeignSyncAssumptions DEF Restore, SyncInv, Shapes, PeerShapes
  <1>8. /\ tail \in Seq(Entries) /\ Len(tail) = c
        /\ \A k \in 1..c : tail[k].kind = "compaction" /\ tail[k].ref = again[k]
    <2> HIDE DEF since, again, c
    <2>1. DOMAIN again = 1..c BY <1>4
    <2>2. ASSUME NEW k \in 1..c PROVE Again(k) \in Entries
      <3>1. again[k] \in 0..MaxSeq BY <1>4, <1>6
      <3> QED BY <1>7, <3>1 DEF Entries
    <2>3. tail \in [1..c -> Entries] BY <2>1, <2>2
    <2>4. \A k \in 1..c : tail[k] = Again(k) BY <2>1
    <2>5. tail \in Seq(Entries) /\ Len(tail) = c
      <3> HIDE DEF tail
      <3>1. tail \in Seq(Entries) BY <1>4, <2>3, SeqDef
      <3>2. DOMAIN tail = 1..c BY <2>3
      <3> QED BY <1>4, <3>1, <3>2
    <2> QED BY <2>4, <2>5
  <1> HIDE DEF known, since, again, tail, c
  <1>9. /\ chain' \in Seq(Entries) /\ Len(chain') = n + c /\ DOMAIN chain' = 1..(n + c)
        /\ \A k \in 1..n : chain'[k] = known[k] /\ k \in 1..(n + c)
        /\ \A k \in 1..c : chain'[n + k] = tail[k] /\ n + k \in 1..(n + c)
    <2>1. /\ chain' \in Seq(Entries) /\ Len(chain') = Len(known) + Len(tail)
          /\ \A k \in 1..(Len(known) + Len(tail)) :
                chain'[k] = IF k <= Len(known) THEN known[k] ELSE tail[k - Len(known)]
      BY <1>0, <1>3, <1>8, ConcatProperties
    <2>2. Len(chain') = n + c BY <1>3, <1>8, <2>1
    <2>3. \A k \in 1..(n + c) : chain'[k] = IF k <= n THEN known[k] ELSE tail[k - n]
      BY <1>3, <1>8, <2>1
    <2>4. \A k \in 1..n : k \in 1..(n + c) /\ k <= n BY <1>2, <1>4
    <2>5. \A k \in 1..c : n + k \in 1..(n + c) /\ ~(n + k <= n) /\ n + k - n = k BY <1>2, <1>4
    <2>6. DOMAIN chain' = 1..(n + c) BY <2>1, <2>2, LenProperties
    <2> QED BY <2>1, <2>2, <2>3, <2>4, <2>5, <2>6
  <1>10. \A k \in 1..(n + c) : k \in 1..n \/ \E j \in 1..c : k = n + j
    <2>1. ASSUME NEW k \in 1..(n + c), k \notin 1..n PROVE k - n \in 1..c /\ k = n + (k - n)
      BY <1>2, <1>4, <2>1
    <2> QED BY <2>1
  <1>11. History(chain')
    <2>1. ASSUME NEW k \in DOMAIN chain', chain'[k].kind = "redaction" PROVE chain'[k].ref # 0
      <3>1. k \in 1..n \/ \E j \in 1..c : k = n + j BY <1>9, <1>10
      <3>2. CASE k \in 1..n
        <4>1. chain'[k].ref \in 1..MaxSeq BY <1>3, <1>9, <2>1, <3>2
        <4> QED BY <1>1, <4>1
      <3>3. CASE \E j \in 1..c : k = n + j
        <4>1. chain'[k].kind = "compaction" BY <1>8, <1>9, <3>3
        <4> QED BY <2>1, <4>1
      <3> QED BY <3>1, <3>2, <3>3
    <2>2. Len(chain') <= MaxSeq BY <1>1, <1>2, <1>4, <1>9
    <2> QED BY <1>9, <2>1, <2>2 DEF History
  <1>12. ASSUME NEW s \in forgotten'
         PROVE  s \in PromptSeqs(chain') /\ s \in Targets(chain', "compaction")
    <2>1. s \in forgotten /\ s <= n BY <1>12 DEF Restore
    <2>2. s \in 1..n /\ chain[s].kind = "prompt" BY <1>2, <1>5, <2>1
    <2>3. s \in PromptSeqs(chain') BY <1>3, <1>9, <2>2 DEF PromptSeqs
    <2>4. CASE s \in since
      <3>1. PICK k \in 1..c : again[k] = s BY <1>4, <2>4
      <3>2. chain'[n + k].kind = "compaction" /\ chain'[n + k].ref = s /\ n + k \in DOMAIN chain'
        BY <1>8, <1>9, <3>1
      <3> QED BY <2>3, <3>2 DEF Targets
    <2>5. CASE s \notin since
      <3>1. s \in Targets(known, "compaction") BY <2>1, <2>5 DEF since
      <3>2. PICK k \in 1..n : known[k].kind = "compaction" /\ known[k].ref = s
        BY <1>3, <3>1 DEF Targets
      <3>3. k \in DOMAIN chain' /\ chain'[k] = known[k] BY <1>9
      <3> QED BY <2>3, <3>2, <3>3 DEF Targets
    <2> QED BY <2>4, <2>5
  <1> QED BY <1>11, <1>12

LEMMA RestoreStep ==
    ASSUME SyncInv, NEW n \in 0..(Len(chain) - 1), Restore(n)
    PROVE  SyncInv'
  <1>1. /\ era' = era + 1 /\ era + purges < MaxUpsets
        /\ published' \in Earlier(published, n) /\ acked' \in Earlier(acked, n)
        /\ UNCHANGED <<pub, store, calls, raced, purges>>
    BY DEF Restore
  <1>2. era \in Nat /\ purges \in Nat /\ MaxUpsets \in Nat /\ MaxSeq \in Nat
    BY ForeignSyncAssumptions DEF SyncInv, Shapes, PeerShapes
  <1>3. \A mark : \A m \in Earlier(mark, n) : m \in 0..MaxSeq
    <2>1. \A f \in files : To(f) \in Nat /\ To(f) <= MaxSeq
      BY SegmentFacts DEF SyncInv, Shapes, FileShapes
    <2> QED BY <1>2, <2>1 DEF Earlier
  <1>4. PeerShapes'
    BY <1>1, <1>2, <1>3, RestoredChain DEF PeerShapes
  <1>5. FileShapes' BY <1>1 DEF SyncInv, Shapes, FileShapes, pub
  <1>6. StoreShapes' /\ MarkersKept' BY <1>1, SameStore
  <1>7. CallShapes' BY <1>1, SameCalls DEF pub
  <1>8. era' # 0 BY <1>1, <1>2
  <1>9. ReadingsHold' /\ HeldIsChain'
    BY <1>1, <1>8, SameReadings, SameHeld DEF SyncInv, calls, store
  <1> QED BY <1>4, <1>5, <1>6, <1>7, <1>8, <1>9 DEF SyncInv, Shapes, OneHistory

-----------------------------------------------------------------------------
(* Publishing.                                                             *)

\* A step of the publishing process.
LEMMA PublishingStep ==
    ASSUME SyncInv, FileShapes', era = 0 => FilesAreOfChain', files \subseteq files',
           published' \in 0..MaxSeq,
           UNCHANGED <<chain, forgotten, era, acked, store, calls, raced, purges>>
    PROVE  SyncInv'
  <1>1. PeerShapes' BY DEF SyncInv, Shapes, PeerShapes
  <1>2. StoreShapes' /\ MarkersKept' BY SameStore
  <1>3. CallShapes' BY SameCalls
  <1>4. ReadingsHold' BY SameReadings DEF SyncInv, calls, store
  <1>5. HeldIsChain' BY SameHeld DEF SyncInv, calls, store
  <1>6. OneHistory'
    <2> SUFFICES ASSUME era' = 0
                 PROVE  (FilesAreOfChain /\ StoreIsOfChain /\ CallsAreOfChain /\ RedactionsCarried)'
      BY DEF OneHistory
    <2>1. StoreIsOfChain /\ CallsAreOfChain /\ RedactionsCarried /\ FilesAreOfChain'
      BY DEF SyncInv, OneHistory
    <2>2. StoreIsOfChain' BY <2>1 DEF StoreIsOfChain, store
    <2>3. CallsAreOfChain' BY <2>1 DEF CallsAreOfChain, calls
    <2>4. RedactionsCarried' BY <2>1 DEF RedactionsCarried, Reached, calls, store
    <2> QED BY <2>1, <2>2, <2>3, <2>4
  <1> QED BY <1>1, <1>2, <1>3, <1>4, <1>5, <1>6 DEF SyncInv, Shapes

LEMMA PublishStep ==
    ASSUME SyncInv, Publish \/ PublishFails PROVE SyncInv'
  <1>1. /\ FileShapes /\ History(chain) /\ published \in 0..MaxSeq /\ MaxSeq \in Nat
        /\ era = 0 => FilesAreOfChain
    BY ForeignSyncAssumptions DEF SyncInv, Shapes, PeerShapes, OneHistory
  <1>2. chain \in Seq(Entries) /\ Len(chain) \in Nat BY <1>1, HistoryFacts
  <1>3. CASE Build
    <2>1. /\ stage' = "bodies" /\ draft' = Segment(published + 1, chain, {}) /\ Len(chain) > published
          /\ UNCHANGED <<peer, files, store, calls, raced, purges>>
      BY <1>3 DEF Build
    <2>2. IsSegment(draft') /\ draft'.hist = chain
      BY <1>1, <1>2, <2>1 DEF IsSegment, Segment
    <2>3. FileShapes' BY <1>1, <2>1, <2>2 DEF FileShapes
    <2>4. era = 0 => FilesAreOfChain'
      BY <1>1, <2>1, <2>2, PartOfItself DEF FilesAreOfChain, peer
    <2> QED BY <1>1, <2>1, <2>3, <2>4, PublishingStep DEF peer
  <1>4. CASE AddBodies
    <2> DEFINE texts == {n \in PromptSeqs(draft.hist) : n >= draft.from} \ forgotten
    <2>1. /\ stage = "bodies" /\ stage' = "write" /\ draft' = [draft EXCEPT !.texts = texts]
          /\ UNCHANGED <<peer, files, store, calls, raced, purges>>
      BY <1>4 DEF AddBodies
    <2>2. IsSegment(draft) BY <1>1, <2>1 DEF FileShapes
    <2>3. texts \subseteq PromptSeqs(draft.hist) /\ PromptSeqs(draft.hist) \subseteq Nat
      BY <2>2, HistoryFacts DEF IsSegment, PromptSeqs
    <2> HIDE DEF texts
    <2>4. IsSegment(draft') /\ draft'.hist = draft.hist
      BY <2>1, <2>2, <2>3 DEF IsSegment
    <2>5. FileShapes' BY <1>1, <2>1, <2>4 DEF FileShapes
    <2>6. era = 0 => FilesAreOfChain' BY <1>1, <2>1, <2>4 DEF FilesAreOfChain, peer
    <2> QED BY <1>1, <2>1, <2>5, <2>6, PublishingStep DEF peer
  <1>5. CASE Put
    <2>1. stage = "write" /\ UNCHANGED <<peer, store, calls, raced, purges>> BY <1>5 DEF Put
    <2>2. IsSegment(draft) BY <1>1, <2>1 DEF FileShapes
    <2>3. \/ stage' = "idle" /\ draft' = NoSegment /\ files' = files
          \/ stage' = "mark" /\ files' = files \cup {draft} /\ draft' = draft
      BY <1>5 DEF Put
    <2>4. FileShapes' BY <1>1, <2>2, <2>3 DEF FileShapes
    <2>5. era = 0 => FilesAreOfChain' BY <1>1, <2>1, <2>3 DEF FilesAreOfChain, peer
    <2>6. files \subseteq files' BY <2>3
    <2> QED BY <1>1, <2>1, <2>4, <2>5, <2>6, PublishingStep DEF peer
  <1>6. CASE Mark
    <2>1. /\ stage = "mark" /\ published' = To(draft) /\ stage' = "idle" /\ draft' = NoSegment
          /\ UNCHANGED <<chain, forgotten, era, acked, files, store, calls, raced, purges>>
      BY <1>6 DEF Mark
    <2>2. published' \in 0..MaxSeq BY <1>1, <2>1, SegmentFacts DEF FileShapes
    <2>3. FileShapes' BY <1>1, <2>1 DEF FileShapes
    <2>4. era = 0 => FilesAreOfChain' BY <1>1, <2>1 DEF FilesAreOfChain
    <2> QED BY <1>1, <2>1, <2>2, <2>3, <2>4, PublishingStep
  <1>7. CASE PublishFails
    <2>1. /\ stage' = "idle" /\ draft' = NoSegment
          /\ UNCHANGED <<peer, files, store, calls, raced, purges>>
      BY <1>7 DEF PublishFails
    <2>2. FileShapes' BY <1>1, <2>1 DEF FileShapes
    <2>3. era = 0 => FilesAreOfChain' BY <1>1, <2>1 DEF FilesAreOfChain, peer
    <2> QED BY <1>1, <2>1, <2>2, <2>3, PublishingStep DEF peer
  <1> QED BY <1>3, <1>4, <1>5, <1>6, <1>7 DEF Publish

-----------------------------------------------------------------------------
(* An import reads, compares, gives up.                                    *)

LEMMA NoRowFacts == IsRow(NoRow) /\ NoRow.hash = <<>> /\ NoRow.head = 0
  BY EmptyHistory DEF NoRow, IsRow, RowType, History

\* A step of one import that does not write what is held.
LEMMA CallStep ==
    ASSUME SyncInv, NEW i \in Importers, NEW p, NEW s, NEW r,
           pc' = [pc EXCEPT ![i] = p], seg' = [seg EXCEPT ![i] = s], seen' = [seen EXCEPT ![i] = r],
           p \in {"idle", "compare", "fork", "write"}, IsRow(r),
           p = "idle" => s = NoSegment, p # "idle" => s \in files,
           stale' \subseteq HaveRead', \A j \in stale : j # i => j \in stale',
           ReadingHolds(i)',
           IsRow(row'), row'.head = row.head, row'.hash = row.hash, era = 0 => row' = row,
           era = 0 => /\ PartOf(r.hash, chain) /\ p # "fork"
                      /\ \A n \in 1..Len(chain) : n <= r.head => Reached(n),
           UNCHANGED <<peer, pub, events, bodies, markers, raced, purges>>
    PROVE  SyncInv'
  <1>1. PeerShapes' /\ FileShapes' BY DEF SyncInv, Shapes, PeerShapes, FileShapes, peer, pub
  <1>2. StoreShapes' /\ MarkersKept' BY DEF SyncInv, Shapes, StoreShapes, MarkersKept
  <1>3. /\ pc'[i] = p /\ seg'[i] = s /\ seen'[i] = r
        /\ \A j \in Importers : j # i => pc'[j] = pc[j] /\ seg'[j] = seg[j] /\ seen'[j] = seen[j]
    BY DEF SyncInv, Shapes, CallShapes
  <1>4. CallShapes'
    <2>0. CallShapes /\ files' = files /\ r \in RowType BY DEF SyncInv, Shapes, IsRow, pub
    <2>1. /\ pc' \in [Importers -> {"idle", "compare", "fork", "write"}]
          /\ seg' \in [Importers -> files' \cup {NoSegment}] /\ seen' \in [Importers -> RowType]
      BY <2>0 DEF CallShapes
    <2>2. ASSUME NEW j \in Importers
          PROVE  /\ IF pc'[j] = "idle" THEN seg'[j] = NoSegment ELSE seg'[j] \in files'
                 /\ IsRow(seen'[j])
      BY <1>3, <2>0 DEF CallShapes
    <2> QED BY <2>1, <2>2 DEF CallShapes
  <1>5. ReadingsHold'
    <2>1. ASSUME NEW j \in Importers, j # i PROVE ReadingHolds(j)'
      <3>1. ReadingHolds(j) BY DEF SyncInv, ReadingsHold
      <3>2. pc'[j] = pc[j] /\ seg'[j] = seg[j] /\ seen'[j] = seen[j] /\ (j \notin stale' => j \notin stale)
        BY <1>3, <2>1
      <3> QED BY <3>1, <3>2 DEF ReadingHolds, Disagrees
    <2> QED BY <2>1 DEF ReadingsHold
  <1>6. HeldIsChain' BY SameHeld DEF SyncInv, peer
  <1>7. OneHistory'
    <2> SUFFICES ASSUME era' = 0
                 PROVE  (FilesAreOfChain /\ StoreIsOfChain /\ CallsAreOfChain /\ RedactionsCarried)'
      BY DEF OneHistory
    <2>1. FilesAreOfChain /\ StoreIsOfChain /\ CallsAreOfChain /\ RedactionsCarried /\ row' = row
      BY DEF SyncInv, OneHistory, peer
    <2>2. FilesAreOfChain' /\ StoreIsOfChain'
      BY <2>1 DEF FilesAreOfChain, StoreIsOfChain, peer, pub
    <2>3. CallsAreOfChain' BY <1>3, <2>1 DEF CallsAreOfChain, peer
    <2>4. ASSUME NEW n \in 1..Len(chain), Reached(n)' PROVE Reached(n)
      BY <1>3, <2>1, <2>4 DEF Reached, peer
    <2>5. RedactionsCarried' BY <2>1, <2>4 DEF RedactionsCarried, peer
    <2> QED BY <2>1, <2>2, <2>3, <2>5
  <1> QED BY <1>1, <1>2, <1>4, <1>5, <1>6, <1>7 DEF SyncInv, Shapes

LEMMA ReadRowStep ==
    ASSUME SyncInv, NEW i \in Importers, NEW f \in files, ReadRow(i, f) PROVE SyncInv'
  <1>1. /\ pc[i] = "idle" /\ f.from <= row.head + 1
        /\ pc' = [pc EXCEPT ![i] = "compare"] /\ seg' = [seg EXCEPT ![i] = f]
        /\ seen' = [seen EXCEPT ![i] = row]
        /\ UNCHANGED <<peer, pub, store, stale, raced, purges>>
    BY DEF ReadRow, Goto
  <1>2. /\ IsRow(row) /\ stale \subseteq HaveRead /\ row.head \in Nat
        /\ pc \in [Importers -> {"idle", "compare", "fork", "write"}]
        /\ DOMAIN seg = Importers /\ DOMAIN seen = Importers
    BY DEF SyncInv, Shapes, StoreShapes, CallShapes, IsRow, RowType
  <1>3. HaveRead \subseteq HaveRead' BY <1>1, <1>2 DEF HaveRead
  <1>4. ReadingHolds(i)'
    <2>1. pc'[i] = "compare" /\ seg'[i] = f /\ seen'[i] = row /\ row' = row BY <1>1, <1>2 DEF store
    <2> QED BY <1>1, <1>2, <2>1 DEF ReadingHolds
  <1>5. era = 0 => /\ PartOf(row.hash, chain)
                   /\ \A n \in 1..Len(chain) : n <= row.head => Reached(n)
    BY DEF SyncInv, OneHistory, StoreIsOfChain, Reached
  <1>6. stale' \subseteq HaveRead' /\ \A j \in stale : j # i => j \in stale' BY <1>1, <1>2, <1>3
  <1> QED BY <1>1, <1>2, <1>4, <1>5, <1>6, CallStep DEF store

\* With one history there is nothing to disagree about.
LEMMA NothingToDisagree ==
    ASSUME SyncInv, NEW i \in Importers, pc[i] # "idle", era = 0 PROVE ~Disagrees(i)
  <1> DEFINE s == seg[i]
  <1>1. /\ IsSegment(s) /\ PartOf(s.hist, chain) /\ History(chain)
        /\ PartOf(seen[i].hash, chain) /\ IsRow(seen[i])
        /\ \A n \in DOMAIN events : events[n] = Prefix(chain, n)
    BY DEF SyncInv, Shapes, PeerShapes, FileShapes, CallShapes, OneHistory, FilesAreOfChain,
           StoreIsOfChain, CallsAreOfChain
  <1>2. /\ s.from \in Nat /\ s.from # 0 /\ s.from <= To(s) /\ To(s) \in Nat
        /\ Len(s.hist) \in Nat /\ To(s) = Len(s.hist) /\ seen[i].head \in Nat
        /\ Len(seen[i].hash) = seen[i].head
    BY <1>1, SegmentFacts, HistoryFacts DEF To, IsRow, RowType
  <1> HIDE DEF s
  <1>3. ASSUME NEW n \in Nat, n <= To(s) PROVE Prefix(s.hist, n) = Prefix(chain, n)
    BY <1>1, <1>2, <1>3, PartPrefix
  <1>4. ASSUME NEW n \in s.from..To(s), n \in DOMAIN events PROVE events[n] = Prefix(s.hist, n)
    <2>1. n \in Nat /\ n <= To(s) BY <1>2
    <2> QED BY <1>1, <1>3, <1>4, <2>1
  <1>5. ASSUME s.from = seen[i].head + 1 PROVE PrevHash(s) = seen[i].hash
    <2>1. s.from - 1 = seen[i].head /\ seen[i].head <= To(s) BY <1>2, <1>5
    <2>2. PrevHash(s) = Prefix(chain, seen[i].head) BY <1>2, <1>3, <2>1 DEF PrevHash
    <2> QED BY <1>1, <1>2, <2>2 DEF PartOf
  <1> QED BY <1>4, <1>5 DEF Disagrees, s

LEMMA CompareStep ==
    ASSUME SyncInv, NEW i \in Importers, Compare(i) PROVE SyncInv'
  <1> DEFINE p == IF Disagrees(i) THEN "fork" ELSE "write"
  <1>1. /\ pc[i] = "compare" /\ pc' = [pc EXCEPT ![i] = p]
        /\ UNCHANGED <<peer, pub, store, seg, seen, stale, raced, purges>>
    BY DEF Compare, Goto
  <1>2. /\ IsRow(row) /\ stale \subseteq HaveRead /\ i \in Importers
        /\ pc \in [Importers -> {"idle", "compare", "fork", "write"}]
        /\ seg[i] \in files /\ IsRow(seen[i]) /\ DOMAIN seg = Importers /\ DOMAIN seen = Importers
    BY <1>1 DEF SyncInv, Shapes, StoreShapes, CallShapes
  <1>3. seg' = [seg EXCEPT ![i] = seg[i]] /\ seen' = [seen EXCEPT ![i] = seen[i]]
    <2>1. seg \in [Importers -> files \cup {NoSegment}] /\ seen \in [Importers -> RowType]
      BY DEF SyncInv, Shapes, CallShapes
    <2> QED BY <1>1, <2>1
  <1>4. /\ p \in {"fork", "write"} /\ (era = 0 => p = "write") /\ (p = "write" => ~Disagrees(i))
    BY <1>1, NothingToDisagree
  <1> HIDE DEF p
  <1>5. pc'[i] = p /\ HaveRead \subseteq HaveRead' BY <1>1, <1>2, <1>4 DEF HaveRead
  <1>6. ReadingHolds(i)'
    <2>1. ReadingHolds(i) BY DEF SyncInv, ReadingsHold
    <2> QED BY <1>1, <1>4, <1>5, <2>1 DEF ReadingHolds, Disagrees, store
  <1>7. era = 0 => /\ PartOf(seen[i].hash, chain)
                   /\ \A n \in 1..Len(chain) : n <= seen[i].head => Reached(n)
    BY DEF SyncInv, OneHistory, CallsAreOfChain, Reached
  <1>8. stale' \subseteq HaveRead' /\ \A j \in stale : j # i => j \in stale' BY <1>1, <1>2, <1>5
  <1> QED BY <1>1, <1>2, <1>3, <1>4, <1>6, <1>7, <1>8, CallStep DEF store

\* An import that ends without having written what is held.
LEMMA LeaveStep ==
    ASSUME SyncInv, NEW i \in Importers, Crash(i) \/ MarkForked(i) PROVE SyncInv'
  <1>1. /\ pc[i] # "idle" /\ stale' = stale \ {i}
        /\ pc' = [pc EXCEPT ![i] = "idle"] /\ seg' = [seg EXCEPT ![i] = NoSegment]
        /\ seen' = [seen EXCEPT ![i] = NoRow]
        /\ row' = row \/ (pc[i] = "fork" /\ row' = [row EXCEPT !.forked = row.head > 0])
        /\ UNCHANGED <<peer, pub, events, bodies, markers, raced, purges>>
    BY DEF Crash, MarkForked, Leave, Goto, store
  <1>2. /\ IsRow(row) /\ stale \subseteq HaveRead
        /\ pc \in [Importers -> {"idle", "compare", "fork", "write"}]
        /\ DOMAIN seg = Importers /\ DOMAIN seen = Importers /\ History(chain)
    BY DEF SyncInv, Shapes, PeerShapes, StoreShapes, CallShapes
  <1>3. era = 0 => row' = row
    BY <1>1 DEF SyncInv, OneHistory, CallsAreOfChain
  <1>4. IsRow(row') /\ row'.head = row.head /\ row'.hash = row.hash
    <2>1. CASE row' = row BY <1>2, <2>1
    <2>2. CASE row' = [row EXCEPT !.forked = row.head > 0]
      <3>1. row \in RowType /\ (row.head > 0) \in BOOLEAN BY <1>2 DEF IsRow
      <3>2. row' \in RowType /\ row'.head = row.head /\ row'.hash = row.hash
        BY <2>2, <3>1 DEF RowType
      <3> QED BY <1>2, <3>2 DEF IsRow
    <2> QED BY <1>1, <2>1, <2>2
  <1>5. pc'[i] = "idle" /\ \A j \in HaveRead : j # i => j \in HaveRead'
    BY <1>1, <1>2 DEF HaveRead
  <1>6. ReadingHolds(i)' BY <1>5 DEF ReadingHolds
  <1>7. era = 0 => /\ PartOf(NoRow.hash, chain)
                   /\ \A n \in 1..Len(chain) : n <= NoRow.head => Reached(n)
    <2>1. PartOf(NoRow.hash, chain) BY <1>2, NoRowFacts, PartOfItself
    <2>2. \A n \in 1..Len(chain) : ~(n <= NoRow.head) BY <1>2, NoRowFacts, HistoryFacts
    <2> QED BY <2>1, <2>2
  <1>8. stale' \subseteq HaveRead' /\ \A j \in stale : j # i => j \in stale' BY <1>1, <1>2, <1>5
  <1>9. IsRow(NoRow) BY NoRowFacts
  <1> HIDE DEF NoRow
  <1> QED BY <1>1, <1>3, <1>4, <1>6, <1>7, <1>8, <1>9, CallStep

-----------------------------------------------------------------------------
(* A report to the peer, a purge, a cleared fork.                          *)

LEMMA AckStep == ASSUME SyncInv, Ack PROVE SyncInv'
  <1>1. /\ acked' = row.head
        /\ UNCHANGED <<chain, forgotten, era, published, pub, store, calls, raced, purges>>
    BY DEF Ack
  <1>2. row.head \in 0..MaxSeq
    <2>1. IsRow(row) /\ MaxSeq \in Nat BY ForeignSyncAssumptions DEF SyncInv, Shapes, StoreShapes
    <2> QED BY <2>1 DEF IsRow, RowType, History
  <1>3. PeerShapes' BY <1>1, <1>2 DEF SyncInv, Shapes, PeerShapes
  <1>4. FileShapes' /\ StoreShapes' /\ MarkersKept'
    BY <1>1, SameStore DEF SyncInv, Shapes, FileShapes, pub
  <1>5. CallShapes' /\ ReadingsHold' /\ HeldIsChain'
    BY <1>1, SameCalls, SameReadings, SameHeld DEF SyncInv, calls, store, pub
  <1>6. OneHistory'
    <2> SUFFICES ASSUME era' = 0
                 PROVE  (FilesAreOfChain /\ StoreIsOfChain /\ CallsAreOfChain /\ RedactionsCarried)'
      BY DEF OneHistory
    <2>1. FilesAreOfChain /\ StoreIsOfChain /\ CallsAreOfChain /\ RedactionsCarried
      BY <1>1 DEF SyncInv, OneHistory
    <2>2. FilesAreOfChain' /\ StoreIsOfChain' /\ CallsAreOfChain'
      BY <1>1, <2>1 DEF FilesAreOfChain, StoreIsOfChain, CallsAreOfChain, store, calls, pub
    <2>3. \A n : Reached(n)' => Reached(n) BY <1>1 DEF Reached, store, calls
    <2>4. acked' <= Len(chain)
      BY <1>1, <2>1 DEF StoreIsOfChain, PartOf, SyncInv, Shapes, StoreShapes, IsRow
    <2>5. RedactionsCarried' BY <1>1, <2>1, <2>3, <2>4 DEF RedactionsCarried, store
    <2> QED BY <2>2, <2>5
  <1> QED BY <1>3, <1>4, <1>5, <1>6 DEF SyncInv, Shapes

LEMMA ClearForkStep == ASSUME SyncInv, ClearFork PROVE SyncInv'
  <1>1. /\ row.forked /\ row' = [row EXCEPT !.forked = FALSE]
        /\ UNCHANGED <<peer, pub, events, bodies, markers, calls, raced, purges>>
    BY DEF ClearFork
  <1>2. row \in RowType /\ IsRow(row) BY DEF SyncInv, Shapes, StoreShapes, IsRow
  <1>3. row' \in RowType /\ row'.head = row.head /\ row'.hash = row.hash
    BY <1>1, <1>2 DEF RowType
  <1>4. IsRow(row') BY <1>2, <1>3 DEF IsRow
  <1>5. PeerShapes' /\ FileShapes' BY <1>1 DEF SyncInv, Shapes, PeerShapes, FileShapes, peer, pub
  <1>6. StoreShapes' /\ MarkersKept'
    BY <1>1, <1>4 DEF SyncInv, Shapes, StoreShapes, MarkersKept
  <1>7. CallShapes' /\ ReadingsHold' /\ HeldIsChain'
    BY <1>1, <1>3, SameCalls, SameReadings, SameHeld DEF SyncInv, calls, pub, peer
  <1>8. OneHistory' BY <1>1 DEF SyncInv, OneHistory, StoreIsOfChain, peer
  <1> QED BY <1>5, <1>6, <1>7, <1>8 DEF SyncInv, Shapes

LEMMA PurgeStep == ASSUME SyncInv, Purge PROVE SyncInv'
  <1>1. /\ era + purges < MaxUpsets /\ purges' = purges + 1 /\ stale' = HaveRead
        /\ row' = NoRow /\ events' = <<>> /\ bodies' = <<>>
        /\ UNCHANGED <<peer, pub, markers, pc, seg, seen, raced>>
    BY DEF Purge
  <1>2. era \in Nat /\ purges \in Nat /\ MaxUpsets \in Nat /\ History(chain)
    BY ForeignSyncAssumptions DEF SyncInv, Shapes, PeerShapes
  <1>3. IsRow(row') /\ row'.head = 0 /\ row'.hash = <<>> /\ ~row'.forked
    BY <1>1, NoRowFacts DEF NoRow
  <1>4. DOMAIN events' = {} /\ DOMAIN bodies' = {} BY <1>1
  <1>5. PeerShapes' /\ FileShapes'
    BY <1>1, <1>2 DEF SyncInv, Shapes, PeerShapes, FileShapes, peer, pub
  <1>6. StoreShapes' /\ MarkersKept'
    BY <1>1, <1>3, <1>4 DEF SyncInv, Shapes, StoreShapes, MarkersKept
  <1>7. CallShapes' BY <1>1 DEF SyncInv, Shapes, CallShapes, HaveRead, pub
  <1>8. ReadingsHold'
    <2>1. ASSUME NEW i \in Importers PROVE ReadingHolds(i)'
      <3>1. ReadingHolds(i) BY DEF SyncInv, ReadingsHold
      <3>2. pc'[i] # "idle" => i \in stale' BY <1>1 DEF HaveRead
      <3> QED BY <1>1, <1>2, <3>1, <3>2 DEF ReadingHolds
    <2> QED BY <2>1 DEF ReadingsHold
  <1>9. HeldIsChain'
    <2>1. 1..0 = {} /\ 2..0 = {} OBVIOUS
    <2>2. IsChain' BY <1>3, <1>4, <2>1 DEF IsChain
    <2> QED BY <2>2 DEF HeldIsChain
  <1>10. OneHistory'
    <2> SUFFICES ASSUME era' = 0
                 PROVE  (FilesAreOfChain /\ StoreIsOfChain /\ CallsAreOfChain /\ RedactionsCarried)'
      BY DEF OneHistory
    <2>1. FilesAreOfChain /\ CallsAreOfChain /\ RedactionsCarried
      BY <1>1 DEF SyncInv, OneHistory, peer
    <2>2. FilesAreOfChain' /\ CallsAreOfChain'
      BY <1>1, <2>1 DEF FilesAreOfChain, CallsAreOfChain, peer, pub
    <2>3. StoreIsOfChain'
      <3>1. PartOf(row'.hash, chain) BY <1>2, <1>3, PartOfItself
      <3> QED BY <1>1, <1>3, <1>4, <3>1 DEF StoreIsOfChain, peer
    <2>4. \A n \in 1..Len(chain) : Reached(n)' => Reached(n)
      BY <1>1, <1>3 DEF Reached, peer
    <2>5. RedactionsCarried' BY <1>1, <2>1, <2>4 DEF RedactionsCarried, peer
    <2> QED BY <2>2, <2>3, <2>5
  <1> QED BY <1>5, <1>6, <1>7, <1>8, <1>9, <1>10 DEF SyncInv, Shapes

-----------------------------------------------------------------------------
(* An import writes.                                                       *)

LEMMA InHand ==
    ASSUME SyncInv, NEW i \in Importers, pc[i] # "idle"
    PROVE  /\ seg[i] \in files /\ IsSegment(seg[i]) /\ History(seg[i].hist)
           /\ seg[i].from \in Nat /\ seg[i].from # 0 /\ seg[i].from <= To(seg[i])
           /\ To(seg[i]) \in Nat /\ To(seg[i]) = Len(seg[i].hist)
           /\ DOMAIN seg[i].hist = 1..To(seg[i])
           /\ seen[i].head \in Nat /\ row.head \in Nat /\ seg[i].from <= seen[i].head + 1
           /\ purges = 0 => seen[i].head <= row.head
  <1>1. /\ seg[i] \in files /\ IsSegment(seg[i]) /\ IsRow(seen[i]) /\ IsRow(row) /\ ReadingHolds(i)
    BY DEF SyncInv, Shapes, FileShapes, StoreShapes, CallShapes, ReadingsHold
  <1>2. seen[i].head \in Nat /\ row.head \in Nat BY <1>1 DEF IsRow, RowType
  <1>3. seg[i].from <= seen[i].head + 1 /\ (purges = 0 => seen[i].head <= row.head)
    BY <1>1 DEF ReadingHolds
  <1>4. To(seg[i]) = Len(seg[i].hist) BY DEF To
  <1> QED BY <1>1, <1>2, <1>3, <1>4, SegmentFacts, HistoryFacts

\* What an import makes of the store.
LEMMA Imported ==
    ASSUME SyncInv, NEW i \in Importers, ImportSegment(i)
    PROVE  /\ pc[i] = "write" /\ UNCHANGED <<peer, pub, purges>>
           /\ DOMAIN events' = DOMAIN events \cup NewSeqs(i)
           /\ \A n \in DOMAIN events : events'[n] = events[n]
           /\ \A n \in NewSeqs(i) : n \notin DOMAIN events => events'[n] = Prefix(seg[i].hist, n)
           /\ markers' = markers \cup Redacted(seg[i])
           /\ row' = Upsert(row, seg[i])
           /\ \A n \in DOMAIN bodies' : bodies'[n] \in {"text", "stub", "gone"}
           /\ MarkersKept'
  <1> DEFINE s == seg[i]
             new == [n \in NewSeqs(i) |-> Prefix(s.hist, n)]
             sent == [n \in {m \in PromptSeqs(s.hist) : m >= s.from} |->
                         IF n \in s.texts THEN "text" ELSE "stub"]
             held == Kept(bodies, sent)
  <1>1. /\ pc[i] = "write" /\ UNCHANGED <<peer, pub, purges>>
        /\ events' = Kept(events, new)
        /\ bodies' = [n \in DOMAIN held |-> IF n \in Tombstones(s) THEN "gone" ELSE held[n]]
        /\ markers' = markers \cup Redacted(s) /\ row' = Upsert(row, s)
    BY DEF ImportSegment
  <1>2. /\ DOMAIN events' = DOMAIN events \cup NewSeqs(i)
        /\ \A n \in DOMAIN events : events'[n] = events[n]
        /\ \A n \in NewSeqs(i) : n \notin DOMAIN events => events'[n] = Prefix(s.hist, n)
    BY <1>1 DEF Kept
  <1>3. \A n \in DOMAIN held : held[n] \in {"text", "stub", "gone"}
    <2>1. \A n \in DOMAIN sent : sent[n] \in {"text", "stub"} OBVIOUS
    <2> HIDE DEF sent
    <2>2. \A n \in DOMAIN bodies : bodies[n] \in {"text", "stub", "gone"}
      BY DEF SyncInv, Shapes, StoreShapes
    <2>3. DOMAIN held = DOMAIN bodies \cup DOMAIN sent BY DEF Kept
    <2>4. ASSUME NEW n \in DOMAIN held PROVE held[n] \in {"text", "stub", "gone"}
      <3>1. held[n] = IF n \in DOMAIN bodies THEN bodies[n] ELSE sent[n] BY <2>3 DEF Kept
      <3>2. n \in DOMAIN bodies \/ n \in DOMAIN sent BY <2>3, <2>4
      <3> QED BY <2>1, <2>2, <3>1, <3>2
    <2> QED BY <2>4
  <1> HIDE DEF held
  <1>4. \A n \in DOMAIN bodies' : bodies'[n] \in {"text", "stub", "gone"}
    BY <1>1, <1>3
  <1>5. MarkersKept'
    <2>1. markers' = Tombstones(s) BY <1>1 DEF Tombstones
    <2> QED BY <1>1, <2>1 DEF MarkersKept
  <1> QED BY <1>1, <1>2, <1>4, <1>5

LEMMA UpsertFacts ==
    ASSUME SyncInv, NEW i \in Importers, pc[i] # "idle", row' = Upsert(row, seg[i])
    PROVE  LET s == seg[i]
           IN  /\ IsRow(row') /\ row'.forked = row.forked /\ row.head <= row'.head
               /\ To(s) >= row.head => row'.head = To(s) /\ row'.hash = s.hist
               /\ ~(To(s) >= row.head) => row' = row
  <1>1. IsRow(row) /\ row \in RowType BY DEF SyncInv, Shapes, StoreShapes, IsRow
  <1>2. CASE To(seg[i]) >= row.head
    <2>1. row' = [head |-> To(seg[i]), hash |-> seg[i].hist, forked |-> row.forked]
      BY <1>2 DEF Upsert
    <2>2. IsRow(row') BY <1>1, <2>1, InHand DEF IsRow, RowType, History
    <2> QED BY <1>2, <2>1, <2>2, InHand
  <1>3. CASE ~(To(seg[i]) >= row.head)
    BY <1>1, <1>3, InHand DEF Upsert
  <1> QED BY <1>2, <1>3

\* It continues the chain that is held, if the chain is a part of its history
\* or goes on beyond it.
LEMMA Continues ==
    ASSUME SyncInv, IsChain, NEW i \in Importers, ImportSegment(i), seen[i].head <= row.head,
           row.head <= To(seg[i]) => row.hash = Prefix(seg[i].hist, row.head)
    PROVE  IsChain'
  <1> DEFINE s == seg[i]
             t == To(s)
             h == row.head
             h1 == row'.head
  <1>1. /\ pc[i] # "idle" /\ row' = Upsert(row, s)
        /\ DOMAIN events' = DOMAIN events \cup NewSeqs(i)
        /\ \A n \in DOMAIN events : events'[n] = events[n]
        /\ \A n \in NewSeqs(i) : n \notin DOMAIN events => events'[n] = Prefix(s.hist, n)
    BY Imported
  <1>2. /\ s.from \in Nat /\ s.from # 0 /\ s.from <= t /\ t \in Nat /\ History(s.hist)
        /\ t = Len(s.hist) /\ h \in Nat /\ seen[i].head \in Nat /\ s.from <= seen[i].head + 1
    BY <1>1, InHand
  <1>3. /\ h <= h1 /\ (t >= h => h1 = t /\ row'.hash = s.hist) /\ (~(t >= h) => row' = row)
    BY <1>1, UpsertFacts
  <1>4. /\ DOMAIN events = 1..h /\ \A n \in 1..h : Len(events[n]) = n
        /\ \A n \in 2..h : Prefix(events[n], n - 1) = events[n - 1]
        /\ row.hash = IF h = 0 THEN <<>> ELSE events[h]
    BY DEF IsChain
  <1>5. h1 \in Nat BY <1>2, <1>3
  <1>6. NewSeqs(i) = {n \in s.from..t : n > seen[i].head} BY DEF NewSeqs
  <1>7. h <= t => row.hash = Prefix(s.hist, h) OBVIOUS
  <1>8. seen[i].head <= h OBVIOUS
  <1>9. /\ s.hist \in Seq(Entries) /\ Prefix(s.hist, t) = s.hist BY <1>2, HistoryFacts
  <1>10. \A n \in Nat : n <= t => Len(Prefix(s.hist, n)) = n BY <1>2, <1>9, PrefixFacts
  <1>11. \A n, m \in Nat : n <= t /\ m <= n => Prefix(Prefix(s.hist, n), m) = Prefix(s.hist, m)
    BY <1>2, <1>9, PrefixOfPrefix
  <1> HIDE DEF s, t, h, h1
  <1>12. DOMAIN events' = 1..h1
    <2>1. ASSUME NEW n \in DOMAIN events' PROVE n \in 1..h1
      <3>1. CASE n \in DOMAIN events BY <1>2, <1>3, <1>4, <1>5, <3>1
      <3>2. CASE n \in NewSeqs(i)
        <4>1. n \in s.from..t BY <1>6, <3>2
        <4>2. n \in Nat /\ n # 0 /\ n <= t BY <1>2, <4>1
        <4>3. t <= h1 BY <1>2, <1>3, <1>5 DEF h1, h
        <4> QED BY <1>2, <1>5, <4>2, <4>3
      <3> QED BY <1>1, <2>1, <3>1, <3>2
    <2>2. ASSUME NEW n \in 1..h1, n \notin 1..h PROVE n \in NewSeqs(i)
      <3>1. n \in Nat /\ n > h /\ n <= h1 BY <1>2, <1>5, <2>2
      <3>2. t >= h /\ h1 = t BY <1>2, <1>3, <1>5, <3>1 DEF h1, h
      <3>3. n > seen[i].head /\ s.from <= n BY <1>2, <1>8, <3>1
      <3> QED BY <1>2, <1>6, <3>1, <3>2, <3>3
    <2> QED BY <1>1, <1>4, <2>1, <2>2
  <1>13. \A n \in 1..h : n \in 1..h1 /\ events'[n] = events[n]
    <2>1. \A n \in 1..h : events'[n] = events[n] BY <1>1, <1>4
    <2>2. \A n \in 1..h : n \in 1..h1 BY ONLY <1>2, <1>3, <1>5
    <2> QED BY ONLY <2>1, <2>2
  <1>14. ASSUME NEW n \in 1..h1, n \notin 1..h
         PROVE  n \in Nat /\ h < n /\ n <= t /\ events'[n] = Prefix(s.hist, n)
    <2>a. n \in Nat /\ h \in Nat /\ 1 <= n /\ n <= h1 BY <1>2, <1>5, <1>14
    <2>1. n \in Nat /\ n > h /\ n <= h1 BY <1>14, <2>a
    <2>2. t >= h /\ h1 = t BY <1>2, <1>3, <1>5, <2>1 DEF h1, h
    <2>3. n \in NewSeqs(i) /\ n \notin DOMAIN events BY <1>1, <1>4, <1>12, <1>14
    <2> QED BY <1>1, <1>2, <2>1, <2>2, <2>3
  <1>15. ASSUME NEW n \in 1..h1 PROVE Len(events'[n]) = n
    BY <1>4, <1>10, <1>13, <1>14, <1>15
  <1>16. ASSUME NEW n \in 2..h1 PROVE Prefix(events'[n], n - 1) = events'[n - 1]
    <2>1. n \in 1..h1 /\ n - 1 \in 1..h1 /\ n \in Nat /\ n - 1 \in Nat /\ n >= 2 BY <1>5, <1>16
    <2>2. CASE n \in 1..h
      <3>1. n \in 2..h /\ n - 1 \in 1..h BY <1>2, <2>1, <2>2
      <3> QED BY <1>4, <1>13, <2>2, <3>1
    <2>3. CASE n \notin 1..h
      <3>1. /\ h < n /\ n <= t /\ events'[n] = Prefix(s.hist, n)
        BY <1>14, <2>1, <2>3
      <3>2. Prefix(events'[n], n - 1) = Prefix(s.hist, n - 1) BY <1>2, <1>11, <2>1, <3>1
      <3>3. CASE n - 1 \in 1..h
        <4>1. n - 1 = h /\ h # 0 /\ h <= t BY <1>2, <2>1, <3>1, <3>3
        <4>2. events'[n - 1] = events[h] /\ row.hash = events[h] BY <1>4, <1>13, <3>3, <4>1
        <4> QED BY <1>7, <3>2, <4>1, <4>2
      <3>4. CASE n - 1 \notin 1..h
        BY <1>14, <2>1, <3>2, <3>4
      <3> QED BY <3>3, <3>4
    <2> QED BY <2>2, <2>3
  <1>17. row'.hash = IF h1 = 0 THEN <<>> ELSE events'[h1]
    <2>1. CASE t >= h /\ h \in 1..h /\ t = h
      <3>1. row'.hash = s.hist /\ h1 = h BY <1>3, <2>1 DEF h1
      <3>2. row.hash = s.hist BY <1>7, <1>9, <1>2, <2>1
      <3>3. row.hash = events[h] /\ events'[h] = events[h] /\ h # 0 BY <1>2, <1>4, <1>13, <2>1
      <3> QED BY <3>1, <3>2, <3>3
    <2>2. CASE t >= h /\ t # h
      <3>1. row'.hash = s.hist /\ h1 = t BY <1>3, <2>2 DEF h1
      <3>2. t \in 1..h1 /\ t \notin 1..h BY <1>2, <2>2, <3>1
      <3>3. events'[t] = Prefix(s.hist, t) BY <1>14, <3>2
      <3> QED BY <1>2, <1>9, <3>1, <3>2, <3>3
    <2>3. CASE ~(t >= h)
      <3>1. row' = row /\ h1 = h BY <1>3, <2>3 DEF h1, h
      <3>2. h # 0 /\ h \in 1..h BY <1>2, <2>3
      <3> QED BY <1>4, <1>13, <3>1, <3>2
    <2>4. t = h => h \in 1..h BY <1>2
    <2> QED BY <1>2, <2>1, <2>2, <2>3, <2>4
  <1> QED BY <1>12, <1>15, <1>16, <1>17 DEF IsChain, h1

\* An import that is not stale was of one history with what is held.
LEMMA NothingRaced ==
    ASSUME SyncInv, NEW i \in Importers, pc[i] = "write", i \notin stale
    PROVE  /\ seen[i].head = row.head
           /\ IsChain /\ row.head <= To(seg[i]) => row.hash = Prefix(seg[i].hist, row.head)
  <1> DEFINE s == seg[i]
             h == row.head
  <1>1. seen[i].head = h /\ seen[i].hash = row.hash /\ ~Disagrees(i)
    BY DEF SyncInv, ReadingsHold, ReadingHolds
  <1>2. /\ s.from \in Nat /\ s.from # 0 /\ To(s) \in Nat /\ h \in Nat /\ s.from <= seen[i].head + 1
    BY InHand
  <1>3. ASSUME IsChain, h <= To(s) PROVE row.hash = Prefix(s.hist, h)
    <2>1. CASE s.from = h + 1
      <3>1. s.from - 1 = h BY <1>2, <2>1
      <3>2. PrevHash(s) = row.hash BY <1>1, <2>1 DEF Disagrees
      <3> QED BY <3>1, <3>2 DEF PrevHash
    <2>2. CASE s.from # h + 1
      <3>1. s.from <= h BY <1>1, <1>2, <2>2
      <3>2. h \in s.from..To(s) /\ h \in 1..h /\ h # 0 BY <1>2, <1>3, <3>1
      <3>3. h \in DOMAIN events /\ row.hash = events[h] BY <1>3, <3>2 DEF IsChain
      <3>4. h <= seen[i].head BY <1>1, <1>2
      <3>5. events[h] = Prefix(s.hist, h) BY <1>1, <3>2, <3>3, <3>4 DEF Disagrees
      <3> QED BY <3>3, <3>5
    <2> QED BY <2>1, <2>2
  <1> QED BY <1>1, <1>3

LEMMA ImportKeepsChain ==
    ASSUME SyncInv, NEW i \in Importers, ImportSegment(i) PROVE HeldIsChain'
  <1>1. /\ raced' = (raced \/ (i \in stale /\ (era > 0 \/ purges > 0)))
        /\ era' = era /\ purges' = purges /\ pc[i] = "write"
    BY DEF ImportSegment, peer
  <1>2. era \in Nat /\ purges \in Nat BY DEF SyncInv, Shapes, PeerShapes
  <1>3. SUFFICES ASSUME (era = 0 /\ purges = 0) \/ ~raced' PROVE IsChain'
    BY <1>1 DEF HeldIsChain
  <1>4. IsChain BY <1>1, <1>3 DEF SyncInv, HeldIsChain
  <1>5. CASE era = 0 /\ purges = 0
    <2>1. /\ PartOf(row.hash, chain) /\ PartOf(seg[i].hist, chain) /\ History(chain)
          /\ row.head = Len(row.hash)
      BY <1>1, <1>5, InHand DEF SyncInv, Shapes, PeerShapes, StoreShapes, IsRow, OneHistory,
         FilesAreOfChain, StoreIsOfChain
    <2>2. ASSUME row.head <= To(seg[i]) PROVE row.hash = Prefix(seg[i].hist, row.head)
      <3>1. row.head \in Nat /\ Len(seg[i].hist) \in Nat /\ row.head <= Len(seg[i].hist)
        BY <1>1, <2>2, InHand
      <3>2. Prefix(seg[i].hist, row.head) = Prefix(chain, row.head) BY <2>1, <3>1, PartPrefix
      <3> QED BY <2>1, <3>2 DEF PartOf
    <2>3. seen[i].head <= row.head BY <1>1, <1>5, InHand
    <2> QED BY <1>4, <2>2, <2>3, Continues
  <1>6. CASE ~(era = 0 /\ purges = 0)
    <2>0. era > 0 \/ purges > 0 BY <1>2, <1>6
    <2>1. i \notin stale BY <1>1, <1>3, <1>6, <2>0, Zenon
    <2>2. seen[i].head <= row.head BY <1>1, <2>1, NothingRaced, InHand
    <2> QED BY <1>1, <1>4, <2>1, <2>2, NothingRaced, Continues
  <1> QED BY <1>5, <1>6

\* What is carried up to the new head: up to the one that was read before, and
\* beyond it by the segment itself.
LEMMA ImportOfOneHistory ==
    ASSUME SyncInv, NEW i \in Importers, ImportSegment(i), era = 0
    PROVE  (FilesAreOfChain /\ StoreIsOfChain /\ CallsAreOfChain /\ RedactionsCarried)'
  <1> DEFINE s == seg[i]
  <1>1. /\ pc[i] = "write" /\ UNCHANGED <<peer, pub, purges>>
        /\ DOMAIN events' = DOMAIN events \cup NewSeqs(i)
        /\ \A n \in DOMAIN events : events'[n] = events[n]
        /\ \A n \in NewSeqs(i) : n \notin DOMAIN events => events'[n] = Prefix(s.hist, n)
        /\ markers' = markers \cup Redacted(s)
    BY Imported
  <1>2. /\ s.from \in Nat /\ s.from # 0 /\ To(s) \in Nat /\ To(s) = Len(s.hist) /\ s \in files
        /\ seen[i].head \in Nat /\ row.head \in Nat /\ s.from <= seen[i].head + 1
        /\ DOMAIN s.hist = 1..To(s)
    BY <1>1, InHand
  <1>3. row' = Upsert(row, s) BY Imported
  <1>4. /\ row'.forked = row.forked
        /\ To(s) >= row.head => row'.head = To(s) /\ row'.hash = s.hist
        /\ ~(To(s) >= row.head) => row' = row
    BY <1>1, <1>3, UpsertFacts
  <1>5. /\ FilesAreOfChain /\ StoreIsOfChain /\ CallsAreOfChain /\ RedactionsCarried
        /\ History(chain) /\ PartOf(s.hist, chain)
    BY <1>2 DEF SyncInv, Shapes, PeerShapes, OneHistory, FilesAreOfChain
  <1>6. Len(chain) \in Nat /\ To(s) <= Len(chain) BY <1>2, <1>5, HistoryFacts DEF PartOf
  <1>7. ASSUME NEW n \in Nat, n <= To(s)
        PROVE  Prefix(s.hist, n) = Prefix(chain, n) /\ (n # 0 => s.hist[n] = chain[n])
    <2>1. n # 0 => n \in 1..n BY <1>7
    <2> QED BY <1>2, <1>5, <1>7, <2>1, PartPrefix
  <1>8. pc'[i] = "idle" /\ seen'[i] = NoRow
        /\ \A j \in Importers : j # i => pc'[j] = pc[j] /\ seen'[j] = seen[j]
    BY DEF ImportSegment, Leave, Goto, SyncInv, Shapes, CallShapes
  <1> HIDE DEF s
  <1>9. FilesAreOfChain' BY <1>1, <1>5 DEF FilesAreOfChain, peer, pub
  <1>10. StoreIsOfChain'
    <2>1. PartOf(row'.hash, chain) BY <1>4, <1>5 DEF StoreIsOfChain
    <2>2. ASSUME NEW n \in DOMAIN events' PROVE n <= Len(chain) /\ events'[n] = Prefix(chain, n)
      <3>1. CASE n \in DOMAIN events BY <1>1, <1>5, <3>1 DEF StoreIsOfChain
      <3>2. CASE n \notin DOMAIN events
        <4>1. n \in NewSeqs(i) BY <1>1, <2>2, <3>2
        <4>2. n \in s.from..To(s) BY <4>1 DEF NewSeqs, s
        <4>3. n \in Nat /\ n <= To(s) BY <1>2, <4>2
        <4> QED BY <1>1, <1>6, <1>2, <1>7, <3>2, <4>1, <4>3
      <3> QED BY <3>1, <3>2
    <2> QED BY <1>1, <1>4, <1>5, <2>1, <2>2 DEF StoreIsOfChain, peer
  <1>11. CallsAreOfChain'
    <2>1. PartOf(NoRow.hash, chain) BY <1>5, NoRowFacts, PartOfItself
    <2> QED BY <1>1, <1>5, <1>8, <2>1 DEF CallsAreOfChain, peer
  <1>12. RedactionsCarried'
    <2>1. ASSUME NEW n \in 1..Len(chain), Reached(n)', chain[n].kind = "redaction"
          PROVE  chain[n].ref \in markers'
      <3>1. CASE Reached(n) BY <1>1, <1>5, <2>1, <3>1 DEF RedactionsCarried
      <3>2. CASE ~Reached(n)
        <4>0. n \in Nat /\ n # 0 BY <1>6
        <4>1. ~(n <= acked) /\ ~(n <= row.head) /\ ~(n <= seen[i].head)
              /\ \A j \in Importers : ~(n <= seen[j].head)
          BY <3>2 DEF Reached
        <4>2. ~(n <= NoRow.head) BY <4>0, NoRowFacts
        <4>3. n <= row'.head BY <1>1, <1>8, <2>1, <4>1, <4>2 DEF Reached, peer
        <4>4. n <= To(s) BY <1>4, <4>1, <4>3
        <4>5. n \in s.from..To(s) BY <1>2, <4>0, <4>1, <4>4
        <4>6. s.hist[n] = chain[n] /\ n \in 1..To(s) BY <1>2, <1>7, <4>0, <4>4
        <4>7. chain[n].ref \in Redacted(s) BY <1>2, <2>1, <4>5, <4>6 DEF Redacted
        <4> QED BY <1>1, <4>7
      <3> QED BY <3>1, <3>2
    <2> QED BY <1>1, <1>5, <2>1 DEF RedactionsCarried, peer
  <1> QED BY <1>9, <1>10, <1>11, <1>12

LEMMA ImportStep ==
    ASSUME SyncInv, NEW i \in Importers, ImportSegment(i) PROVE SyncInv'
  <1>1. /\ pc[i] = "write" /\ UNCHANGED <<peer, pub, purges>>
        /\ DOMAIN events' = DOMAIN events \cup NewSeqs(i)
        /\ \A n \in DOMAIN events : events'[n] = events[n]
        /\ \A n \in NewSeqs(i) : n \notin DOMAIN events => events'[n] = Prefix(seg[i].hist, n)
        /\ markers' = markers \cup Redacted(seg[i])
        /\ row' = Upsert(row, seg[i])
        /\ \A n \in DOMAIN bodies' : bodies'[n] \in {"text", "stub", "gone"}
        /\ MarkersKept'
    BY Imported
  <1>2. /\ IsSegment(seg[i]) /\ History(seg[i].hist) /\ seg[i].from \in Nat /\ seg[i].from # 0
        /\ To(seg[i]) \in Nat /\ To(seg[i]) = Len(seg[i].hist) /\ row.head \in Nat
        /\ DOMAIN seg[i].hist = 1..To(seg[i])
    BY <1>1, InHand
  <1>3. IsRow(row') /\ row.head <= row'.head BY <1>1, UpsertFacts
  <1>4. PeerShapes' /\ FileShapes'
    BY <1>1 DEF SyncInv, Shapes, PeerShapes, FileShapes, peer, pub
  <1>5. StoreShapes'
    <2>1. ASSUME NEW n \in DOMAIN events' PROVE n \in Nat /\ n # 0 /\ History(events'[n])
      <3>1. CASE n \in DOMAIN events BY <1>1, <3>1 DEF SyncInv, Shapes, StoreShapes
      <3>2. CASE n \notin DOMAIN events
        <4>1. n \in NewSeqs(i) BY <1>1, <2>1, <3>2
        <4>2. n \in seg[i].from..To(seg[i]) BY <4>1 DEF NewSeqs
        <4>3. n \in Nat /\ n # 0 /\ n <= Len(seg[i].hist) BY <1>2, <4>2
        <4> QED BY <1>1, <1>2, <3>2, <4>1, <4>3, HistoryPrefix
      <3> QED BY <3>1, <3>2
    <2>2. ASSUME NEW x \in Redacted(seg[i]) PROVE x \in 1..MaxSeq
      <3>1. PICK n \in seg[i].from..To(seg[i]) :
                seg[i].hist[n].kind = "redaction" /\ seg[i].hist[n].ref = x
        BY DEF Redacted
      <3>2. n \in 1..Len(seg[i].hist) BY <1>2
      <3> QED BY <1>2, <3>1, <3>2, HistoryFacts
    <2>3. markers \subseteq 1..MaxSeq BY DEF SyncInv, Shapes, StoreShapes
    <2> QED BY <1>1, <1>3, <2>1, <2>2, <2>3 DEF StoreShapes
  <1>6. /\ pc' = [pc EXCEPT ![i] = "idle"] /\ seg' = [seg EXCEPT ![i] = NoSegment]
        /\ seen' = [seen EXCEPT ![i] = NoRow] /\ stale' = HaveRead \ {i}
    BY DEF ImportSegment, Leave, Goto
  <1>7. /\ pc'[i] = "idle" /\ seg'[i] = NoSegment /\ seen'[i] = NoRow
        /\ \A j \in Importers : j # i => pc'[j] = pc[j] /\ seg'[j] = seg[j] /\ seen'[j] = seen[j]
    BY <1>6 DEF SyncInv, Shapes, CallShapes
  <1>8. CallShapes'
    <2>0. CallShapes /\ files' = files /\ NoRow \in RowType /\ IsRow(NoRow)
      BY <1>1, NoRowFacts DEF SyncInv, Shapes, IsRow, pub
    <2> HIDE DEF NoRow
    <2>1. /\ pc' \in [Importers -> {"idle", "compare", "fork", "write"}]
          /\ seg' \in [Importers -> files' \cup {NoSegment}] /\ seen' \in [Importers -> RowType]
      BY <1>6, <2>0 DEF CallShapes
    <2>2. ASSUME NEW j \in Importers
          PROVE  /\ IF pc'[j] = "idle" THEN seg'[j] = NoSegment ELSE seg'[j] \in files'
                 /\ IsRow(seen'[j])
      BY <1>7, <2>0 DEF CallShapes
    <2>3. stale' \subseteq HaveRead' BY <1>6, <1>7 DEF HaveRead
    <2> QED BY <2>1, <2>2, <2>3 DEF CallShapes
  <1>9. ReadingsHold'
    <2>1. ASSUME NEW j \in Importers, j # i, pc[j] # "idle" PROVE ReadingHolds(j)'
      <3>1. ReadingHolds(j) BY DEF SyncInv, ReadingsHold
      <3>2. pc'[j] = pc[j] /\ seg'[j] = seg[j] /\ seen'[j] = seen[j] /\ j \in stale'
        BY <1>6, <1>7, <2>1 DEF HaveRead
      <3>3. purges = 0 => seen[j].head <= row'.head
        <4>1. seen[j].head \in Nat /\ row'.head \in Nat /\ (purges = 0 => seen[j].head <= row.head)
          BY <1>3, <2>1, InHand DEF IsRow, RowType
        <4> QED BY <1>2, <1>3, <4>1
      <3> QED BY <1>1, <2>1, <3>1, <3>2, <3>3 DEF ReadingHolds
    <2>2. ASSUME NEW j \in Importers, j = i \/ pc[j] = "idle" PROVE ReadingHolds(j)'
      <3>1. pc'[j] = "idle" BY <1>7, <2>2
      <3> QED BY <3>1 DEF ReadingHolds
    <2> QED BY <2>1, <2>2 DEF ReadingsHold
  <1>10. HeldIsChain' BY ImportKeepsChain
  <1>11. OneHistory' BY <1>1, ImportOfOneHistory DEF OneHistory, peer
  <1> QED BY <1>1, <1>4, <1>5, <1>8, <1>9, <1>10, <1>11 DEF SyncInv, Shapes

-----------------------------------------------------------------------------
(* The theorems.                                                           *)

LEMMA SyncInitially == ASSUME Init PROVE SyncInv
  <1>1. /\ chain = <<>> /\ forgotten = {} /\ era = 0 /\ published = 0 /\ acked = 0
        /\ draft = NoSegment /\ stage = "idle" /\ files = {}
        /\ row = NoRow /\ events = <<>> /\ bodies = <<>> /\ markers = {}
        /\ pc = [i \in Importers |-> "idle"] /\ seg = [i \in Importers |-> NoSegment]
        /\ seen = [i \in Importers |-> NoRow] /\ purges = 0 /\ stale = {}
    BY DEF Init
  <1>2. MaxSeq \in Nat /\ MaxUpsets \in Nat /\ History(<<>>) BY ForeignSyncAssumptions, EmptyHistory
  <1>3. NoRow \in RowType /\ IsRow(NoRow) /\ NoRow.hash = <<>> /\ NoRow.head = 0 /\ ~NoRow.forked
    BY NoRowFacts DEF NoRow, IsRow
  <1>4. DOMAIN events = {} /\ DOMAIN bodies = {} BY <1>1
  <1> HIDE DEF NoRow
  <1>5. PeerShapes BY <1>1, <1>2 DEF PeerShapes
  <1>6. FileShapes BY <1>1 DEF FileShapes
  <1>7. StoreShapes BY <1>1, <1>3, <1>4 DEF StoreShapes
  <1>8. CallShapes BY <1>1, <1>3 DEF CallShapes
  <1>9. MarkersKept BY <1>4 DEF MarkersKept
  <1>10. ReadingsHold BY <1>1 DEF ReadingsHold, ReadingHolds
  <1>11. OneHistory
    <2>1. PartOf(<<>>, <<>>) BY <1>2, PartOfItself
    <2>2. FilesAreOfChain BY <1>1 DEF FilesAreOfChain
    <2>3. StoreIsOfChain BY <1>1, <1>3, <1>4, <2>1 DEF StoreIsOfChain
    <2>4. CallsAreOfChain BY <1>1, <1>3, <2>1 DEF CallsAreOfChain
    <2>5. Len(chain) = 0 /\ 1..Len(chain) = {} BY <1>1, EmptyHistory
    <2>6. RedactionsCarried BY <1>1, <2>5 DEF RedactionsCarried
    <2> QED BY <2>2, <2>3, <2>4, <2>6 DEF OneHistory
  <1>12. HeldIsChain
    <2>1. 1..0 = {} /\ 2..0 = {} OBVIOUS
    <2>2. row.head = 0 /\ row.hash = <<>> BY <1>1, <1>3
    <2> QED BY <1>4, <2>1, <2>2 DEF HeldIsChain, IsChain
  <1> QED BY <1>5, <1>6, <1>7, <1>8, <1>9, <1>10, <1>11, <1>12 DEF SyncInv, Shapes

LEMMA SyncStep == ASSUME SyncInv, [Next]_vars PROVE SyncInv'
  <1>1. CASE Capture BY <1>1, WriteStep
  <1>2. CASE Ack BY <1>2, AckStep
  <1>3. CASE Purge BY <1>3, PurgeStep
  <1>4. CASE ClearFork BY <1>4, ClearForkStep
  <1>5. CASE Publish \/ PublishFails BY <1>5, PublishStep
  <1>6. CASE \E s \in 1..MaxSeq : Forget(s) \/ AppendRedaction(s) BY <1>6, WriteStep
  <1>7. CASE \E n \in 0..(Len(chain) - 1) : Restore(n) BY <1>7, RestoreStep
  <1>8. ASSUME NEW i \in Importers, NEW f \in files, ReadRow(i, f) PROVE SyncInv'
    BY <1>8, ReadRowStep
  <1>9. ASSUME NEW i \in Importers, Import(i) \/ Crash(i) PROVE SyncInv'
    BY <1>9, CompareStep, LeaveStep, ImportStep DEF Import
  <1>10. CASE UNCHANGED vars
    <2>1. UNCHANGED <<chain, forgotten, era, acked, published, store, calls, raced, purges>>
          /\ UNCHANGED <<draft, stage, files>>
      BY <1>10 DEF vars, peer, pub
    <2>2. FileShapes' /\ (era = 0 => FilesAreOfChain') /\ published' \in 0..MaxSeq
      BY <2>1 DEF SyncInv, Shapes, PeerShapes, FileShapes, OneHistory, FilesAreOfChain
    <2> QED BY <2>1, <2>2, PublishingStep
  <1> QED BY <1>1, <1>2, <1>3, <1>4, <1>5, <1>6, <1>7, <1>8, <1>9, <1>10 DEF Next

\* The invariant of publishing and importing: what was read was so, what
\* travels of one history is part of it, what is held is a chain.
THEOREM SyncInvariant == Spec => []SyncInv
  <1>1. Init => SyncInv BY SyncInitially
  <1>2. SyncInv /\ [Next]_vars => SyncInv' BY SyncStep
  <1> QED BY <1>1, <1>2, PTL DEF Spec

\* Marks, files, rows and calls keep their shape.
THEOREM SyncTypeCorrect == Spec => []TypeOK
  <1>1. SyncInv => TypeOK
    <2> SUFFICES ASSUME SyncInv PROVE TypeOK OBVIOUS
    <2>0. \A h : History(h) => IsHistory(h) /\ Len(h) <= MaxSeq
      BY HistoryFacts DEF IsHistory
    <2>1. IsHistory(chain) /\ Len(chain) <= MaxSeq /\ forgotten \subseteq PromptSeqs(chain)
          /\ {published, acked} \subseteq 0..MaxSeq
      BY <2>0 DEF SyncInv, Shapes, PeerShapes
    <2>2. /\ stage \in {"idle", "bodies", "write", "mark"}
          /\ (stage = "idle") <=> (draft = NoSegment)
      BY SegmentFacts DEF SyncInv, Shapes, FileShapes
    <2>3. ASSUME NEW f \in files PROVE f.from \in 1..To(f) /\ f.texts \subseteq PromptSeqs(f.hist)
      <3>1. IsSegment(f) BY DEF SyncInv, Shapes, FileShapes
      <3>2. f.from \in Nat /\ f.from # 0 /\ f.from <= To(f) /\ To(f) \in Nat BY <3>1, SegmentFacts
      <3> QED BY <3>1, <3>2 DEF IsSegment
    <2>4. /\ row.head = Len(row.hash) /\ row.forked \in BOOLEAN
          /\ \A n \in DOMAIN events : IsHistory(events[n])
          /\ \A n \in DOMAIN bodies : bodies[n] \in {"text", "stub", "gone"}
          /\ markers \subseteq 1..MaxSeq
      BY <2>0 DEF SyncInv, Shapes, StoreShapes, IsRow, RowType
    <2>5. /\ \A i \in Importers :
                /\ pc[i] \in {"idle", "compare", "fork", "write"}
                /\ IF pc[i] = "idle" THEN seg[i] = NoSegment ELSE seg[i] \in files
          /\ stale \subseteq HaveRead
      BY DEF SyncInv, Shapes, CallShapes
    <2> QED BY <2>1, <2>2, <2>3, <2>4, <2>5 DEF TypeOK
  <1> QED BY <1>1, SyncInvariant, PTL

\* What is held of a peer's chain is a chain, whatever imports run against
\* each other and against purges and restores, unless one of them wrote under
\* a row it had not read.
THEOREM HeldIsAChain == Spec => []HeldIsChain
  <1>1. SyncInv => HeldIsChain BY DEF SyncInv
  <1> QED BY <1>1, SyncInvariant, PTL

\* import_foreign_segment never marks a fork on a peer that keeps one history,
\* however its segments are cut, repeated, delayed and imported at once.
THEOREM NeverFalseFork == Spec => []NoFalseFork
  <1>1. SyncInv => NoFalseFork BY DEF SyncInv, OneHistory, StoreIsOfChain, NoFalseFork
  <1> QED BY <1>1, SyncInvariant, PTL

\* A redaction at or below the acknowledged head has been carried out at the
\* receiver, and what it names does not come back.
THEOREM AcknowledgedIsApplied == Spec => []AckMeansApplied
  <1>1. SyncInv => AckMeansApplied
    <2> SUFFICES ASSUME SyncInv, era = 0, NEW n \in 1..Len(chain), n <= acked,
                        chain[n].kind = "redaction", chain[n].ref \in DOMAIN bodies
                 PROVE  bodies[chain[n].ref] = "gone"
      BY DEF AckMeansApplied
    <2>1. chain[n].ref \in markers BY DEF SyncInv, OneHistory, RedactionsCarried, Reached
    <2> QED BY <2>1 DEF SyncInv, MarkersKept
  <1> QED BY <1>1, SyncInvariant, PTL

=============================================================================
