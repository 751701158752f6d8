-------------------------- MODULE ChainVerifyProofs -------------------------
(***************************************************************************)
(* Proofs about ChainVerify, for every set of calls and every bound on the *)
(* rows, the alterations and the faults.                                   *)
(*                                                                         *)
(* The argument: a hash says which row it is of.  A hash that holds only   *)
(* events is as long as its row's seq (RowsSound), because a hash altered  *)
(* from outside, and every later one linked to it, holds something else.   *)
(* Every hash that a call or the stored anchor carries holds only events   *)
(* and comes from a walk that got as far as it is long (HashesEarned).  So *)
(* when the row with the anchor's seq has the anchor's hash, the seq is    *)
(* the length of the hash, whichever calls wrote the two halves.           *)
(***************************************************************************)
EXTENDS ChainVerify, Induction, SequenceTheorems

\* A hash made of events alone is as long as its row's seq; a row whose prev
\* is made of events alone was hashed over an event.
RowsSound ==
    \A i \in DOMAIN rows :
        /\ rows[i].hash \in Seq(Events) => Len(rows[i].hash) = i
        /\ rows[i].prev \in Seq(Events) =>
            /\ Len(rows[i].prev) < Len(rows[i].hash)
            /\ rows[i].hash[Len(rows[i].prev) + 1] \in Events

\* The hash of a walk that found as many rows in order as it is long.
Earned(h) == h \in Seq(Events) /\ 1..Len(h) \subseteq walked

HashesEarned ==
    /\ meta.hash # None => Earned(meta.hash)
    /\ \A c \in Calls : anchor[c].hash # None => Earned(anchor[c].hash)

\* A suffix starts at the row its hash is of; a full walk has an end hash.
PlaceKept ==
    \A c \in Calls :
        /\ pc[c] = "suffix" => anchor[c].seq = Len(anchor[c].hash)
        /\ pc[c] = "reanchor" => anchor[c].hash # None

\* Without an alteration the chain links, and a checked anchor stays good.
Untouched ==
    alters = 0 =>
        /\ CleanFrom(0, Genesis)
        /\ \A c \in Calls : pc[c] = "suffix" => AnchorOk(anchor[c])

VerifyInv == TypeOK /\ RowsSound /\ HashesEarned /\ PlaceKept /\ Untouched /\ NoFalseAlarm

-----------------------------------------------------------------------------
(* Hashes and walks.                                                       *)

Row == [prev : Hashes, body : Events \cup {Other}, hash : Hashes]

\* What the assumptions say of hashes.
LEMMA HashFacts ==
    /\ Seq(Events) \subseteq Hashes
    /\ Genesis \in Seq(Events) /\ Len(Genesis) = 0
    /\ None \notin Hashes /\ None \notin Seq(Events) /\ None \notin Nat
    /\ Other \notin Events
  <1>1. Seq(Events) \subseteq Hashes BY SeqMonotonic DEF Hashes
  <1> QED BY <1>1, EmptySeq, ChainVerifyAssumptions DEF Hashes, Genesis

\* What appending does to a hash.
LEMMA HashGrows ==
    ASSUME NEW S, NEW h \in Seq(S), NEW x \in S
    PROVE  /\ EntryHash(h, x) \in Seq(S)
           /\ Len(EntryHash(h, x)) = Len(h) + 1
           /\ EntryHash(h, x)[Len(h) + 1] = x
           /\ \A i \in 1..Len(h) : EntryHash(h, x)[i] = h[i]
  BY AppendProperties DEF EntryHash

\* A hash to which Other was appended no longer holds events alone.
LEMMA AlteredHash ==
    ASSUME NEW h \in Hashes
    PROVE  Append(h, Other) \notin Seq(Events) /\ Append(h, Other) \in Hashes
  <1>1. /\ EntryHash(h, Other) \in Hashes
        /\ Len(EntryHash(h, Other)) = Len(h) + 1
        /\ EntryHash(h, Other)[Len(h) + 1] = Other
    BY HashGrows DEF Hashes
  <1>2. Len(h) \in Nat BY DEF Hashes
  <1>3. ASSUME EntryHash(h, Other) \in Seq(Events)
        PROVE  FALSE
    <2>1. EntryHash(h, Other)[Len(h) + 1] \in Events BY <1>1, <1>2, <1>3, ElementOfSeq
    <2> QED BY <1>1, <2>1, HashFacts
  <1> QED BY <1>1, <1>3 DEF EntryHash

\* The chain's rows, by seq.
LEMMA RowFacts ==
    ASSUME TypeOK
    PROVE  /\ rows \in Seq(Row)
           /\ Len(rows) \in Nat
           /\ DOMAIN rows = 1..Len(rows)
           /\ rows = <<>> <=> Len(rows) = 0
           /\ \A i \in 1..Len(rows) :
               /\ rows[i] \in Row
               /\ rows[i].prev \in Hashes /\ rows[i].hash \in Hashes
               /\ rows[i].body \in Events \cup {Other}
  <1>1. rows \in Seq(Row) BY DEF TypeOK, Row
  <1>2. \A i \in 1..Len(rows) : rows[i] \in Row BY <1>1, ElementOfSeq
  <1>3. \A r \in Row : r.prev \in Hashes /\ r.hash \in Hashes /\ r.body \in Events \cup {Other}
    BY DEF Row
  <1> QED BY <1>1, <1>2, <1>3, LenProperties, EmptySeq

\* The head's hash is a hash.
LEMMA HeadHashType ==
    ASSUME TypeOK
    PROVE  HeadHash \in Hashes
  <1>1. CASE rows = <<>> BY <1>1, HashFacts DEF HeadHash
  <1>2. CASE rows # <<>>
    <2>1. Len(rows) \in 1..Len(rows) BY <1>2, RowFacts
    <2> QED BY <1>2, <2>1, RowFacts DEF HeadHash
  <1> QED BY <1>1, <1>2

\* A row in order after a hash of events alone has a hash of events alone.
LEMMA InOrderClean ==
    ASSUME TypeOK, RowsSound, NEW i \in DOMAIN rows, NEW p \in Seq(Events), InOrder(i, p)
    PROVE  rows[i].hash \in Seq(Events)
  <1>1. /\ rows[i].prev = p /\ rows[i].body \in Events \cup {Other}
        /\ rows[i].hash = EntryHash(p, rows[i].body)
        /\ rows[i].hash[Len(p) + 1] \in Events
    BY RowFacts DEF InOrder, RowsSound
  <1>2. p \in Hashes BY HashFacts
  <1>3. EntryHash(p, rows[i].body)[Len(p) + 1] = rows[i].body
    <2>1. PICK S, x : S = Events \cup {Other} /\ x = rows[i].body OBVIOUS
    <2>2. p \in Seq(S) /\ x \in S BY <1>1, <1>2, <2>1 DEF Hashes
    <2>3. EntryHash(p, x)[Len(p) + 1] = x BY ONLY <2>2, HashGrows, SMTT(60)
    <2> QED BY ONLY <2>1, <2>3
  <1>4. rows[i].body \in Events BY <1>1, <1>3
  <1> QED BY <1>1, <1>4, HashGrows

\* A clean walk from the row a hash is of ends with the last row's hash, which
\* is again of events alone and as long as the walk got.
LEMMA WalkEnd ==
    ASSUME TypeOK, RowsSound, NEW h \in Seq(Events), NEW from \in Nat, from = Len(h),
           CleanFrom(from, h)
    PROVE  /\ EndHash(from, h) \in Seq(Events)
           /\ Len(EndHash(from, h)) = IF Len(rows) > from THEN Len(rows) ELSE from
  <1> DEFINE T == {i \in DOMAIN rows : rows[i].hash \in Seq(Events)}
  <1>0. Len(rows) \in Nat /\ DOMAIN rows = 1..Len(rows) BY RowFacts
  <1>1. from + 1 <= Len(rows) => from + 1 \in T
    BY <1>0, InOrderClean DEF CleanFrom
  <1>2. ASSUME NEW k \in (from + 1)..Len(rows), k < Len(rows), k \in T
        PROVE  k + 1 \in T
    <2>1. k + 1 \in (from + 1)..Len(rows) /\ k + 1 # from + 1 /\ (k + 1) - 1 = k
      BY <1>0, <1>2
    <2>2. InOrder(k + 1, rows[k].hash) BY <2>1 DEF CleanFrom
    <2> QED BY <1>0, <1>2, <2>1, <2>2, InOrderClean
  <1>3. (from + 1)..Len(rows) \subseteq T
    <2> HIDE DEF T
    <2>1. \A k \in (from + 1)..Len(rows) : k < Len(rows) /\ k \in T => k + 1 \in T
      BY <1>2
    <2>2. from + 1 \in Int /\ Len(rows) \in Int BY <1>0
    <2> QED BY <1>1, <2>1, <2>2, IntervalInduction
  <1>4. CASE Len(rows) > from
    <2>1. Len(rows) \in T BY <1>0, <1>3, <1>4
    <2> QED BY <1>4, <2>1 DEF EndHash, RowsSound
  <1>5. CASE ~(Len(rows) > from) BY <1>5 DEF EndHash
  <1> QED BY <1>4, <1>5

\* An anchor that would be believed names the row its hash is of.
LEMMA Placed ==
    ASSUME TypeOK, RowsSound, NEW a, Earned(a.hash), AnchorOk(a)
    PROVE  a.seq = Len(a.hash) /\ 1..a.seq \subseteq walked
  <1>1. CASE a.seq = 0 /\ a.hash = Genesis BY <1>1, HashFacts
  <1>2. CASE a.seq \in 1..Len(rows) /\ rows[a.seq].hash = a.hash
    BY <1>2, RowFacts DEF RowsSound, Earned
  <1> QED BY <1>1, <1>2 DEF AnchorOk

-----------------------------------------------------------------------------
(* Each step keeps the invariant.                                          *)

\* Steps that leave the chain alone leave what is said of its rows alone.
LEMMA SameRows ==
    ASSUME RowsSound, UNCHANGED rows
    PROVE  /\ RowsSound'
           /\ \A f, h : CleanFrom(f, h)' <=> CleanFrom(f, h)
           /\ \A a : AnchorOk(a)' <=> AnchorOk(a)
  BY DEF RowsSound, CleanFrom, InOrder, AnchorOk

\* A statement that fails or not keeps the count of faults within its bound.
LEMMA FaultCount ==
    ASSUME TypeOK, Fault \/ NoFault
    PROVE  faults' \in 0..MaxFaults
  <1>1. MaxFaults \in Nat BY ChainVerifyAssumptions
  <1>2. faults \in 0..MaxFaults BY DEF TypeOK
  <1> QED BY <1>1, <1>2 DEF Fault, NoFault

\* Initially nothing is stored, read or walked.
LEMMA InitInv == ASSUME Init PROVE VerifyInv
  <1>1. rows \in Seq([prev : Hashes, body : Events \cup {Other}, hash : Hashes]) /\ Len(rows) = 0
    BY EmptySeq DEF Init
  <1>2. DOMAIN rows = {} BY DEF Init
  <1>3. TypeOK
    BY <1>1, ChainVerifyAssumptions DEF Init, TypeOK, AnchorType, Anchor, NoVerdict, Verdict
  <1>4. RowsSound BY <1>2 DEF RowsSound
  <1>5. HashesEarned BY DEF Init, HashesEarned, Anchor
  <1>6. PlaceKept BY DEF Init, PlaceKept
  <1>7. Untouched BY <1>1 DEF Init, Untouched, CleanFrom
  <1>8. NoFalseAlarm BY DEF Init, NoFalseAlarm, NoVerdict, Verdict
  <1> QED BY <1>3, <1>4, <1>5, <1>6, <1>7, <1>8 DEF VerifyInv

\* The row that is appended.
NewRow(e) == [prev |-> HeadHash, body |-> e, hash |-> EntryHash(HeadHash, e)]

\* An append adds a row that links to the head, and every row before stays.
LEMMA AppendRowStep ==
    ASSUME VerifyInv, NEW e \in Events, AppendRow(e)
    PROVE  VerifyInv'
  <1> DEFINE n == Len(rows)
  <1>1. TypeOK /\ HeadHash \in Hashes BY HeadHashType DEF VerifyInv
  <1>2. /\ NewRow(e) \in Row
        /\ NewRow(e).prev = HeadHash /\ NewRow(e).body = e
        /\ NewRow(e).hash = EntryHash(HeadHash, e)
    BY <1>1, HashGrows DEF NewRow, Row, Hashes
  <1>3. /\ rows' \in Seq(Row) /\ Len(rows') = n + 1
        /\ DOMAIN rows' = 1..(n + 1)
        /\ \A i \in 1..n : rows'[i] = rows[i]
        /\ rows'[n + 1] = NewRow(e)
    BY <1>1, <1>2, RowFacts, AppendProperties DEF AppendRow, NewRow
  <1>4. TypeOK'
    <2>1. rows' \in Seq([prev : Hashes, body : Events \cup {Other}, hash : Hashes])
      BY <1>3 DEF Row
    <2>2. walked' \subseteq DOMAIN rows'
      <3>1. walked \subseteq 1..n BY <1>1, RowFacts DEF TypeOK
      <3> QED BY <1>1, <1>3, <3>1, RowFacts DEF AppendRow
    <2> QED BY <1>1, <2>1, <2>2 DEF TypeOK, AppendRow, locals
  <1>5. RowsSound'
    <2>1. ASSUME NEW i \in 1..n
          PROVE  /\ rows'[i].hash \in Seq(Events) => Len(rows'[i].hash) = i
                 /\ rows'[i].prev \in Seq(Events) =>
                     /\ Len(rows'[i].prev) < Len(rows'[i].hash)
                     /\ rows'[i].hash[Len(rows'[i].prev) + 1] \in Events
      BY <1>1, <1>3, RowFacts DEF VerifyInv, RowsSound
    <2>2. /\ EntryHash(HeadHash, e) \in Hashes
          /\ Len(EntryHash(HeadHash, e)) = Len(HeadHash) + 1
          /\ EntryHash(HeadHash, e)[Len(HeadHash) + 1] = e
          /\ \A i \in 1..Len(HeadHash) : EntryHash(HeadHash, e)[i] = HeadHash[i]
          /\ Len(HeadHash) \in Nat
      <3>1. HeadHash \in Seq(Events \cup {Other}) /\ e \in Events \cup {Other}
        BY <1>1 DEF Hashes
      <3>2. /\ EntryHash(HeadHash, e) \in Seq(Events \cup {Other})
            /\ Len(EntryHash(HeadHash, e)) = Len(HeadHash) + 1
            /\ EntryHash(HeadHash, e)[Len(HeadHash) + 1] = e
            /\ \A i \in 1..Len(HeadHash) : EntryHash(HeadHash, e)[i] = HeadHash[i]
        <4> DEFINE S == Events \cup {Other}
        <4>1. HeadHash \in Seq(S) /\ e \in S BY <3>1
        <4> HIDE DEF S
        <4>2. /\ EntryHash(HeadHash, e) \in Seq(S)
              /\ Len(EntryHash(HeadHash, e)) = Len(HeadHash) + 1
              /\ EntryHash(HeadHash, e)[Len(HeadHash) + 1] = e
              /\ \A i \in 1..Len(HeadHash) : EntryHash(HeadHash, e)[i] = HeadHash[i]
          BY <4>1, HashGrows
        <4> QED BY <4>2 DEF S
      <3> QED BY <3>1, <3>2, LenProperties DEF Hashes
    <2>3. ASSUME EntryHash(HeadHash, e) \in Seq(Events)
          PROVE  HeadHash \in Seq(Events)
      <3>1. \A i \in 1..Len(HeadHash) : HeadHash[i] \in Events
        <4>1. \A i \in 1..Len(HeadHash) : EntryHash(HeadHash, e)[i] \in Events
          BY <2>2, <2>3, ElementOfSeq
        <4> QED BY <2>2, <4>1
      <3>2. HeadHash \in [1..Len(HeadHash) -> Events]
        BY <1>1, <3>1, LenProperties DEF Hashes
      <3> QED BY <2>2, <3>2, IsASeq
    <2>4. HeadHash \in Seq(Events) => Len(HeadHash) = n
      BY <1>1, RowFacts, HashFacts DEF VerifyInv, RowsSound, HeadHash
    <2>5. /\ rows'[n + 1].hash \in Seq(Events) => Len(rows'[n + 1].hash) = n + 1
          /\ rows'[n + 1].prev \in Seq(Events) =>
              /\ Len(rows'[n + 1].prev) < Len(rows'[n + 1].hash)
              /\ rows'[n + 1].hash[Len(rows'[n + 1].prev) + 1] \in Events
      BY <1>2, <1>3, <2>2, <2>3, <2>4
    <2>6. DOMAIN rows' = 1..n \cup {n + 1} BY <1>1, <1>3, RowFacts
    <2> QED BY <2>1, <2>5, <2>6 DEF RowsSound
  <1>6. HashesEarned' BY DEF VerifyInv, HashesEarned, Earned, AppendRow, locals
  <1>7. PlaceKept' BY DEF VerifyInv, PlaceKept, AppendRow, locals
  <1>8. Untouched'
    <2>1. SUFFICES ASSUME alters = 0
                   PROVE  /\ CleanFrom(0, Genesis)'
                          /\ \A c \in Calls : pc[c] = "suffix" => AnchorOk(anchor[c])'
      BY DEF Untouched, AppendRow, locals
    <2>2. CleanFrom(0, Genesis) /\ \A c \in Calls : pc[c] = "suffix" => AnchorOk(anchor[c])
      BY <2>1 DEF VerifyInv, Untouched
    <2>3. ASSUME NEW i \in 1..n
          PROVE  InOrder(i, IF i = 0 + 1 THEN Genesis ELSE rows[i - 1].hash)'
      <3>1. InOrder(i, IF i = 0 + 1 THEN Genesis ELSE rows[i - 1].hash)
        BY <2>2 DEF CleanFrom
      <3>2. i # 1 => i - 1 \in 1..n BY <1>1, RowFacts
      <3> QED BY <1>3, <3>1, <3>2 DEF InOrder
    <2>4. ASSUME NEW i, i = n + 1
          PROVE  InOrder(i, IF i = 0 + 1 THEN Genesis ELSE rows[i - 1].hash)'
      <3>1. HeadHash = IF n + 1 = 0 + 1 THEN Genesis ELSE rows[n].hash
        BY <1>1, RowFacts DEF HeadHash
      <3>2. n # 0 => n \in 1..n /\ (n + 1) - 1 = n BY <1>1, RowFacts
      <3>3. n \in Nat BY <1>1, RowFacts
      <3>4. /\ rows'[i].prev = HeadHash
            /\ rows'[i].hash = EntryHash(rows'[i].prev, rows'[i].body)
        BY <1>2, <1>3, <2>4
      <3>5. n # 0 => rows'[i - 1].hash = rows[n].hash BY <1>3, <2>4, <3>2, <3>3
      <3>6. HeadHash = IF i = 0 + 1 THEN Genesis ELSE rows'[i - 1].hash
        BY <2>4, <3>1, <3>3, <3>5
      <3> QED BY <3>4, <3>6 DEF InOrder, EntryHash
    <2>5. CleanFrom(0, Genesis)'
      <3>1. ASSUME NEW i \in (0 + 1)..Len(rows')
            PROVE  i \in 1..n \/ i = n + 1
        BY <1>1, <1>3, RowFacts
      <3>2. ASSUME NEW i \in (0 + 1)..Len(rows')
            PROVE  InOrder(i, IF i = 0 + 1 THEN Genesis ELSE rows[i - 1].hash)'
        <4>1. CASE i \in 1..n BY <2>3, <4>1
        <4>2. CASE i = n + 1 BY <2>4, <4>2
        <4> QED BY <3>1, <3>2, <4>1, <4>2
      <3> QED BY <3>2 DEF CleanFrom, Genesis
    <2>6. \A c \in Calls : pc[c] = "suffix" => AnchorOk(anchor[c])'
      <3>1. \A a : AnchorOk(a) => AnchorOk(a)' BY <1>1, <1>3, RowFacts DEF AnchorOk
      <3> QED BY <2>2, <3>1 DEF AppendRow, locals, AnchorOk
    <2> QED BY <2>5, <2>6
  <1>9. NoFalseAlarm' BY DEF VerifyInv, NoFalseAlarm, AppendRow, locals
  <1> QED BY <1>4, <1>5, <1>6, <1>7, <1>8, <1>9 DEF VerifyInv

\* What an alteration from outside leaves of a sound row is a sound row.
LEMMA AlteredRow ==
    ASSUME TypeOK, RowsSound, NEW i \in DOMAIN rows,
           NEW r \in {[rows[i] EXCEPT !.body = Other],
                      [rows[i] EXCEPT !.prev = Append(@, Other)],
                      [rows[i] EXCEPT !.hash = Append(@, Other)]}
    PROVE  /\ r \in Row
           /\ r.hash \in Seq(Events) => Len(r.hash) = i
           /\ r.prev \in Seq(Events) =>
               Len(r.prev) < Len(r.hash) /\ r.hash[Len(r.prev) + 1] \in Events
  <1>1. /\ rows[i] \in Row
        /\ rows[i].prev \in Hashes /\ rows[i].hash \in Hashes
        /\ rows[i].body \in Events \cup {Other}
    BY RowFacts
  <1>2. /\ rows[i].hash \in Seq(Events) => Len(rows[i].hash) = i
        /\ rows[i].prev \in Seq(Events) =>
            /\ Len(rows[i].prev) < Len(rows[i].hash)
            /\ rows[i].hash[Len(rows[i].prev) + 1] \in Events
    BY DEF RowsSound
  <1>3. CASE r = [rows[i] EXCEPT !.body = Other]
    <2>1. r.prev = rows[i].prev /\ r.hash = rows[i].hash BY <1>1, <1>3 DEF Row
    <2> QED BY <1>1, <1>2, <1>3, <2>1 DEF Row
  <1>4. CASE r = [rows[i] EXCEPT !.prev = Append(@, Other)]
    <2>1. r.prev = Append(rows[i].prev, Other) /\ r.hash = rows[i].hash BY <1>1, <1>4 DEF Row
    <2>2. r.prev \notin Seq(Events) /\ r.prev \in Hashes BY <1>1, <2>1, AlteredHash
    <2>3. r \in Row BY <1>1, <1>4, <2>1, <2>2 DEF Row
    <2> QED BY <1>2, <2>1, <2>2, <2>3
  <1>5. CASE r = [rows[i] EXCEPT !.hash = Append(@, Other)]
    <2>1. r.hash = Append(rows[i].hash, Other) /\ r.prev = rows[i].prev BY <1>1, <1>5 DEF Row
    <2>2. r.hash \notin Seq(Events) /\ r.hash \in Hashes BY <1>1, <2>1, AlteredHash
    <2>3. r \in Row BY <1>1, <1>5, <2>1, <2>2 DEF Row
    <2>4. /\ Len(r.hash) = Len(rows[i].hash) + 1
          /\ \A k \in 1..Len(rows[i].hash) : r.hash[k] = rows[i].hash[k]
          /\ Len(rows[i].hash) \in Nat
      BY <1>1, <2>1, AppendProperties, LenProperties DEF Hashes
    <2>5. rows[i].prev \in Seq(Events) => Len(rows[i].prev) \in Nat BY LenProperties
    <2>6. rows[i].prev \in Seq(Events) => Len(rows[i].prev) + 1 \in 1..Len(rows[i].hash)
      BY <1>2, <2>4, <2>5
    <2> QED BY <1>2, <2>1, <2>2, <2>3, <2>4, <2>5, <2>6
  <1> QED BY <1>3, <1>4, <1>5

\* An alteration may break the chain but makes no hash look like an earlier one.
LEMMA AlterStep ==
    ASSUME VerifyInv, NEW i \in DOMAIN rows, Alter(i)
    PROVE  VerifyInv'
  <1>1. PICK r \in {[rows[i] EXCEPT !.body = Other],
                    [rows[i] EXCEPT !.prev = Append(@, Other)],
                    [rows[i] EXCEPT !.hash = Append(@, Other)]} :
               rows' = [rows EXCEPT ![i] = r]
    BY DEF Alter
  <1>2. TypeOK /\ RowsSound /\ HashesEarned /\ PlaceKept BY DEF VerifyInv
  <1>3. /\ r \in Row
        /\ r.hash \in Seq(Events) => Len(r.hash) = i
        /\ r.prev \in Seq(Events) =>
            Len(r.prev) < Len(r.hash) /\ r.hash[Len(r.prev) + 1] \in Events
    BY <1>2, AlteredRow
  <1>4. /\ rows' \in Seq(Row) /\ DOMAIN rows' = DOMAIN rows
        /\ \A k \in DOMAIN rows : rows'[k] = IF k = i THEN r ELSE rows[k]
    BY <1>1, <1>2, <1>3, RowFacts, ExceptSeq
  <1>5. alters' \in 0..MaxAlters /\ alters' > 0 /\ alters' # 0
    <2>1. MaxAlters \in Nat /\ alters \in 0..MaxAlters
      BY <1>2, ChainVerifyAssumptions DEF TypeOK
    <2> QED BY <2>1 DEF Alter
  <1>6. TypeOK' BY <1>2, <1>4, <1>5 DEF TypeOK, Alter, locals, Row
  <1>7. RowsSound' BY <1>2, <1>3, <1>4 DEF RowsSound
  <1>8. HashesEarned' BY <1>2 DEF HashesEarned, Earned, Alter, locals
  <1>9. PlaceKept' BY <1>2 DEF PlaceKept, Alter, locals
  <1>10. Untouched' /\ NoFalseAlarm' BY <1>5 DEF Untouched, NoFalseAlarm
  <1> QED BY <1>6, <1>7, <1>8, <1>9, <1>10 DEF VerifyInv

\* A step of a call: c goes to l with h, a and v as its locals, and may add to
\* the walked rows and to the stored anchor.  What it takes to be sound is that
\* the hashes it carries on are earned, that a suffix starts at its anchor, and
\* that a broken chain is only reported of an altered one.
LEMMA CallStep ==
    ASSUME VerifyInv, NEW c \in Calls,
           NEW l \in {"idle", "seq", "hash", "check", "suffix", "full", "reanchor",
                      "write seq", "write hash"},
           NEW h \in Nat, NEW a \in AnchorType, NEW v \in [ok : BOOLEAN, checked : Nat \cup {None}],
           pc' = [pc EXCEPT ![c] = l],
           head' = [head EXCEPT ![c] = h],
           anchor' = [anchor EXCEPT ![c] = a],
           verdict' = [verdict EXCEPT ![c] = v],
           UNCHANGED <<rows, alters>>, Fault \/ NoFault,
           walked \subseteq walked', walked' \subseteq DOMAIN rows,
           meta' \in AnchorType, meta'.hash # None => Earned(meta.hash)',
           l \in {"check", "suffix", "write seq", "write hash"} => a \in [seq : Nat, hash : Hashes],
           a.hash # None => a.hash \in Seq(Events) /\ 1..Len(a.hash) \subseteq walked',
           l = "suffix" => a.seq = Len(a.hash) /\ AnchorOk(a),
           l = "reanchor" => a.hash # None,
           v.ok \/ v = verdict[c] \/ alters > 0
    PROVE  VerifyInv'
  <1>1. TypeOK'
    BY FaultCount DEF VerifyInv, TypeOK
  <1>2. RowsSound' BY SameRows DEF VerifyInv
  <1>3. HashesEarned'
    <2>1. ASSUME NEW d \in Calls, anchor'[d].hash # None
          PROVE  anchor'[d].hash \in Seq(Events) /\ 1..Len(anchor'[d].hash) \subseteq walked'
      <3>1. CASE d = c
        <4>1. anchor'[d] = a BY <3>1 DEF VerifyInv, TypeOK
        <4> QED BY <2>1, <4>1
      <3>2. CASE d # c
        <4>1. anchor'[d] = anchor[d] BY <3>2 DEF VerifyInv, TypeOK
        <4>2. Earned(anchor[d].hash) BY <2>1, <4>1 DEF VerifyInv, HashesEarned
        <4> QED BY <4>1, <4>2 DEF Earned
      <3> QED BY <3>1, <3>2
    <2> QED BY <2>1 DEF HashesEarned, Earned
  <1>4. PlaceKept' BY DEF VerifyInv, PlaceKept, TypeOK
  <1>5. Untouched'
    <2>1. ASSUME alters = 0
          PROVE  CleanFrom(0, Genesis)'
      <3>1. CleanFrom(0, Genesis) BY <2>1 DEF VerifyInv, Untouched
      <3> QED BY <3>1 DEF CleanFrom, InOrder, Genesis
    <2>2. ASSUME alters = 0, NEW d \in Calls, pc'[d] = "suffix"
          PROVE  AnchorOk(anchor[d])'
      <3>1. AnchorOk(anchor'[d])
        BY <2>2 DEF VerifyInv, Untouched, TypeOK
      <3> QED BY <3>1 DEF AnchorOk
    <2> QED BY <2>1, <2>2 DEF Untouched
  <1>6. NoFalseAlarm' BY DEF VerifyInv, NoFalseAlarm, TypeOK
  <1> QED BY <1>1, <1>2, <1>3, <1>4, <1>5, <1>6 DEF VerifyInv

\* What the store and the history are in an invariant state.
LEMMA SharedFacts ==
    ASSUME VerifyInv
    PROVE  /\ TypeOK /\ RowsSound
           /\ Len(rows) \in Nat /\ DOMAIN rows = 1..Len(rows)
           /\ walked \subseteq 1..Len(rows)
           /\ alters \in Nat
           /\ meta \in AnchorType
           /\ meta.seq \in Nat \cup {None} /\ meta.hash \in Hashes \cup {None}
           /\ meta.hash # None => Earned(meta.hash)
           /\ NoVerdict \in [ok : BOOLEAN, checked : Nat \cup {None}] /\ NoVerdict.ok
  <1>1. TypeOK /\ RowsSound /\ HashesEarned BY DEF VerifyInv
  <1>2. Len(rows) \in Nat /\ DOMAIN rows = 1..Len(rows) BY <1>1, RowFacts
  <1>3. walked \subseteq 1..Len(rows) BY <1>1, <1>2 DEF TypeOK
  <1>4. MaxAlters \in Nat BY ChainVerifyAssumptions
  <1>5. alters \in Nat
    <2>1. alters \in 0..MaxAlters BY <1>1 DEF TypeOK
    <2> QED BY <1>4, <2>1
  <1>6. /\ meta \in AnchorType
        /\ meta.seq \in Nat \cup {None} /\ meta.hash \in Hashes \cup {None}
        /\ meta.hash # None => Earned(meta.hash)
    BY <1>1 DEF TypeOK, HashesEarned, AnchorType
  <1>7. NoVerdict \in [ok : BOOLEAN, checked : Nat \cup {None}] /\ NoVerdict.ok
    BY DEF NoVerdict, Verdict
  <1> QED BY <1>1, <1>2, <1>3, <1>5, <1>6, <1>7

\* What a call's locals are in an invariant state.
LEMMA LocalFacts ==
    ASSUME VerifyInv, NEW c \in Calls
    PROVE  /\ pc[c] \in {"idle", "seq", "hash", "check", "suffix", "full", "reanchor",
                         "write seq", "write hash"}
           /\ head[c] \in Nat /\ anchor[c] \in AnchorType
           /\ verdict[c] \in [ok : BOOLEAN, checked : Nat \cup {None}]
           /\ head = [head EXCEPT ![c] = head[c]]
           /\ anchor = [anchor EXCEPT ![c] = anchor[c]]
           /\ verdict = [verdict EXCEPT ![c] = verdict[c]]
           /\ anchor[c].seq \in Nat \cup {None} /\ anchor[c].hash \in Hashes \cup {None}
           /\ anchor[c].hash # None =>
                anchor[c].hash \in Seq(Events) /\ 1..Len(anchor[c].hash) \subseteq walked
           /\ pc[c] \in {"check", "suffix", "write seq", "write hash"} =>
                anchor[c].seq \in Nat /\ anchor[c].hash \in Hashes
  BY DEF VerifyInv, TypeOK, HashesEarned, Earned, AnchorType

\* What is decided.
LEMMA VerdictFacts ==
    /\ \A n \in Nat \cup {None} :
        Verdict(TRUE, n) \in [ok : BOOLEAN, checked : Nat \cup {None}] /\ Verdict(TRUE, n).ok
    /\ Verdict(FALSE, 0) \in [ok : BOOLEAN, checked : Nat \cup {None}]
  BY DEF Verdict

\* An anchor put together of a seq and a hash.
LEMMA AnchorFacts ==
    ASSUME NEW q, NEW h
    PROVE  /\ Anchor(q, h).seq = q /\ Anchor(q, h).hash = h
           /\ NewAnchor(q, h) = Anchor(q, h)
           /\ q \in Nat /\ h \in Hashes => Anchor(q, h) \in [seq : Nat, hash : Hashes]
           /\ q \in Nat \cup {None} /\ h \in Hashes \cup {None} => Anchor(q, h) \in AnchorType
  BY DEF Anchor, NewAnchor, AnchorType

LEMMA ReadHeadStep ==
    ASSUME VerifyInv, NEW c \in Calls, ReadHead(c)
    PROVE  VerifyInv'
  <1>1. /\ pc' = [pc EXCEPT ![c] = "seq"]
        /\ head' = [head EXCEPT ![c] = Len(rows)]
        /\ verdict' = [verdict EXCEPT ![c] = NoVerdict]
        /\ anchor' = [anchor EXCEPT ![c] = anchor[c]]
    BY SharedFacts, LocalFacts DEF ReadHead, Goto, Decide
  <1>2. (meta.hash # None => Earned(meta.hash)) => (meta'.hash # None => Earned(meta.hash)')
    BY DEF ReadHead, Earned
  <1>3. UNCHANGED <<rows, meta, walked, alters>> /\ NoFault BY DEF ReadHead, NoFault
  <1>4. "seq" \notin {"check", "suffix", "write seq", "write hash", "reanchor"} OBVIOUS
  <1> QED BY <1>1, <1>2, <1>3, <1>4, SharedFacts, LocalFacts, CallStep

LEMMA ReadSeqStep ==
    ASSUME VerifyInv, NEW c \in Calls, ReadSeq(c)
    PROVE  VerifyInv'
  <1>1. PICK q \in {meta.seq, None} : anchor' = [anchor EXCEPT ![c] = Anchor(q, None)]
    BY DEF ReadSeq
  <1>2. /\ pc' = [pc EXCEPT ![c] = "hash"]
        /\ head' = [head EXCEPT ![c] = head[c]]
        /\ verdict' = [verdict EXCEPT ![c] = verdict[c]]
        /\ UNCHANGED <<rows, meta, walked, alters>> /\ (Fault \/ NoFault)
    BY SharedFacts, LocalFacts DEF ReadSeq, Goto
  <1>3. Anchor(q, None) \in AnchorType /\ Anchor(q, None).hash = None
    <2>1. q \in Nat \cup {None} BY SharedFacts
    <2> QED BY <2>1, AnchorFacts
  <1>4. (meta.hash # None => Earned(meta.hash)) => (meta'.hash # None => Earned(meta.hash)')
    BY <1>2 DEF Earned
  <1>5. "hash" \notin {"check", "suffix", "write seq", "write hash", "reanchor"} OBVIOUS
  <1> QED BY <1>1, <1>2, <1>3, <1>4, <1>5, SharedFacts, LocalFacts, CallStep

LEMMA ReadHashStep ==
    ASSUME VerifyInv, NEW c \in Calls, ReadHash(c)
    PROVE  VerifyInv'
  <1>1. PICK a \in AnchorType : /\ anchor' = [anchor EXCEPT ![c] = a]
                                /\ a.hash = meta.hash \/ a.hash = anchor[c].hash
    <2>1. CASE anchor' = [anchor EXCEPT ![c].hash = meta.hash]
      <3>1. [anchor[c] EXCEPT !.hash = meta.hash] \in AnchorType
        BY SharedFacts, LocalFacts DEF AnchorType
      <3>2. [anchor[c] EXCEPT !.hash = meta.hash].hash = meta.hash
        BY SharedFacts, LocalFacts DEF AnchorType
      <3> QED BY <2>1, <3>1, <3>2
    <2>2. CASE UNCHANGED anchor BY <2>2, SharedFacts, LocalFacts
    <2> QED BY <2>1, <2>2 DEF ReadHash
  <1>2. anchor'[c] = a BY <1>1 DEF VerifyInv, TypeOK
  <1>3. PICK l \in {"full", "check"} : /\ pc' = [pc EXCEPT ![c] = l]
                                       /\ l = "check" => ~Incomplete(a)
    BY <1>2 DEF ReadHash, Goto
  <1>4. /\ head' = [head EXCEPT ![c] = head[c]]
        /\ verdict' = [verdict EXCEPT ![c] = verdict[c]]
        /\ UNCHANGED <<rows, meta, walked, alters>> /\ (Fault \/ NoFault)
    BY SharedFacts, LocalFacts DEF ReadHash
  <1>5. ~Incomplete(a) => a \in [seq : Nat, hash : Hashes]
    BY DEF Incomplete, AnchorType
  <1>6. a.hash # None => a.hash \in Seq(Events) /\ 1..Len(a.hash) \subseteq walked'
    BY <1>1, <1>4, SharedFacts, LocalFacts DEF Earned
  <1>7. meta'.hash # None => Earned(meta.hash)'
    BY <1>4, SharedFacts, LocalFacts DEF Earned
  <1>8. l \notin {"suffix", "write seq", "write hash", "reanchor"} BY <1>3
  <1> QED BY <1>1, <1>3, <1>4, <1>5, <1>6, <1>7, <1>8, SharedFacts, LocalFacts, CallStep

LEMMA CheckAnchorStep ==
    ASSUME VerifyInv, NEW c \in Calls, CheckAnchor(c)
    PROVE  VerifyInv'
  <1>1. PICK l \in {"full", "idle", "suffix"},
             v \in [ok : BOOLEAN, checked : Nat \cup {None}] :
               /\ pc' = [pc EXCEPT ![c] = l]
               /\ verdict' = [verdict EXCEPT ![c] = v]
               /\ l = "suffix" => AnchorOk(anchor[c])
               /\ v.ok \/ v = verdict[c]
    <2>1. PICK t : t = Verdict(TRUE, head[c]) OBVIOUS
    <2>2. t \in [ok : BOOLEAN, checked : Nat \cup {None}] /\ t.ok
      <3>1. head[c] \in Nat \cup {None} BY LocalFacts
      <3> QED BY ONLY <2>1, <3>1, VerdictFacts
    <2>3. /\ verdict[c] \in [ok : BOOLEAN, checked : Nat \cup {None}]
          /\ verdict = [verdict EXCEPT ![c] = verdict[c]]
      BY ONLY VerifyInv, c \in Calls, LocalFacts
    <2>4. \/ /\ AnchorOk(anchor[c])
             /\ \/ /\ pc' = [pc EXCEPT ![c] = "idle"]
                   /\ verdict' = [verdict EXCEPT ![c] = t]
                \/ /\ pc' = [pc EXCEPT ![c] = "suffix"]
                   /\ verdict' = verdict
          \/ /\ pc' = [pc EXCEPT ![c] = "full"]
             /\ verdict' = verdict
      BY ONLY <2>1, CheckAnchor(c) DEF CheckAnchor, Goto, Decide
    <2> QED BY ONLY <2>2, <2>3, <2>4
  <1>2. /\ head' = [head EXCEPT ![c] = head[c]]
        /\ anchor' = [anchor EXCEPT ![c] = anchor[c]]
        /\ UNCHANGED <<rows, meta, walked, alters>> /\ NoFault
    BY SharedFacts, LocalFacts DEF CheckAnchor, NoFault
  <1>3. meta'.hash # None => Earned(meta.hash)'
    BY <1>2, SharedFacts, LocalFacts DEF Earned
  <1>4. Earned(anchor[c].hash)
    BY SharedFacts, LocalFacts, HashFacts DEF CheckAnchor, Earned
  <1>5. l = "suffix" => anchor[c].seq = Len(anchor[c].hash)
    BY <1>1, <1>4, Placed DEF VerifyInv
  <1>6. anchor[c] \in [seq : Nat, hash : Hashes]
    BY DEF CheckAnchor, VerifyInv, TypeOK
  <1>7. l \notin {"check", "write seq", "write hash", "reanchor"} BY <1>1
  <1> QED BY <1>1, <1>2, <1>3, <1>5, <1>6, <1>7, SharedFacts, LocalFacts, CallStep

\* A clean walk of an unaltered chain is never refused: the suffix after a
\* checked anchor links to it.
LEMMA UnalteredSuffix ==
    ASSUME VerifyInv, NEW c \in Calls, pc[c] = "suffix", alters = 0
    PROVE  CleanFrom(anchor[c].seq, anchor[c].hash)
  <1>1. CleanFrom(0, Genesis) /\ AnchorOk(anchor[c]) BY DEF VerifyInv, Untouched
  <1>2. anchor[c].seq \in Nat BY SharedFacts, LocalFacts
  <1>3. ASSUME NEW i \in (anchor[c].seq + 1)..Len(rows)
        PROVE  InOrder(i, IF i = anchor[c].seq + 1 THEN anchor[c].hash ELSE rows[i - 1].hash)
    <2>1. i \in (0 + 1)..Len(rows) BY <1>2, <1>3, SharedFacts
    <2>2. InOrder(i, IF i = 0 + 1 THEN Genesis ELSE rows[i - 1].hash)
      BY <1>1, <2>1 DEF CleanFrom
    <2>3. i = anchor[c].seq + 1 =>
            anchor[c].hash = IF i = 0 + 1 THEN Genesis ELSE rows[i - 1].hash
      BY <1>1, <1>2 DEF AnchorOk
    <2>4. i # anchor[c].seq + 1 => i # 0 + 1
      <3>1. i \in Int /\ anchor[c].seq + 1 <= i BY <1>2, <1>3, SharedFacts
      <3> QED BY <1>2, <3>1
    <2> QED BY <2>2, <2>3, <2>4
  <1> QED BY <1>3 DEF CleanFrom

LEMMA WalkSuffixStep ==
    ASSUME VerifyInv, NEW c \in Calls, WalkSuffix(c)
    PROVE  VerifyInv'
  <1> DEFINE from == anchor[c].seq
             hash == anchor[c].hash
             end == EndHash(from, hash)
  <1>1. /\ head' = [head EXCEPT ![c] = head[c]]
        /\ UNCHANGED <<rows, meta, alters>> /\ NoFault
        /\ pc[c] = "suffix" /\ from \in Nat /\ hash \in Hashes
    BY SharedFacts, LocalFacts DEF WalkSuffix, NoFault
  <1>2. hash \in Seq(Events) /\ 1..Len(hash) \subseteq walked /\ from = Len(hash)
    BY <1>1, SharedFacts, LocalFacts, HashFacts DEF VerifyInv, PlaceKept
  <1>3. CASE /\ CleanFrom(from, hash)
             /\ Decide(c, Verdict(TRUE, IF Len(rows) > from THEN Len(rows) ELSE from))
             /\ walked' = walked \cup ((from + 1)..Len(rows))
             /\ anchor' = [anchor EXCEPT ![c] = Anchor(head[c], end)]
             /\ Goto(c, "write seq")
    <2>1. end \in Seq(Events) /\ Len(end) = IF Len(rows) > from THEN Len(rows) ELSE from
      BY <1>1, <1>2, <1>3, WalkEnd DEF VerifyInv
    <2>2. 1..Len(end) \subseteq walked'
      <3>1. 1..Len(end) \subseteq 1..from \cup ((from + 1)..Len(rows)) BY <1>1, <2>1, SharedFacts
      <3> QED BY <1>2, <1>3, <3>1
    <2>3. walked' \subseteq DOMAIN rows /\ walked \subseteq walked'
      <3>1. (from + 1)..Len(rows) \subseteq 1..Len(rows) BY <1>1, SharedFacts
      <3> QED BY <1>3, <3>1, SharedFacts
    <2>4. PICK a \in AnchorType : /\ anchor' = [anchor EXCEPT ![c] = a]
                                  /\ a \in [seq : Nat, hash : Hashes]
                                  /\ a.hash = end
      <3>1. head[c] \in Nat /\ end \in Hashes BY <2>1, LocalFacts, HashFacts
      <3> QED BY <1>3, <3>1, AnchorFacts
    <2>5. PICK v \in [ok : BOOLEAN, checked : Nat \cup {None}] :
              verdict' = [verdict EXCEPT ![c] = v] /\ v.ok
      <3>1. PICK n \in Nat : n = IF Len(rows) > from THEN Len(rows) ELSE from
        BY <1>1, SharedFacts
      <3> QED BY <1>3, <3>1, VerdictFacts DEF Decide
    <2>6. pc' = [pc EXCEPT ![c] = "write seq"] BY <1>3 DEF Goto
    <2>7. meta'.hash # None => Earned(meta.hash)'
      BY <1>1, <2>3, SharedFacts, LocalFacts DEF Earned
    <2> HIDE DEF from, hash, end
    <2> QED BY <1>1, <2>1, <2>2, <2>3, <2>4, <2>5, <2>6, <2>7, SharedFacts, LocalFacts, CallStep
  <1>4. CASE /\ ~CleanFrom(from, hash)
             /\ Decide(c, Verdict(FALSE, 0))
             /\ Goto(c, "idle")
             /\ UNCHANGED <<walked, anchor>>
    <2>1. alters > 0
      <3>1. alters # 0 BY <1>1, <1>4, UnalteredSuffix
      <3> QED BY <3>1, SharedFacts
    <2>2. Verdict(FALSE, 0) \in [ok : BOOLEAN, checked : Nat \cup {None}] BY VerdictFacts
    <2>3. /\ verdict' = [verdict EXCEPT ![c] = Verdict(FALSE, 0)]
          /\ pc' = [pc EXCEPT ![c] = "idle"]
          /\ anchor' = [anchor EXCEPT ![c] = anchor[c]]
      BY <1>4, SharedFacts, LocalFacts DEF Decide, Goto
    <2>4. meta'.hash # None => Earned(meta.hash)' BY <1>1, <1>4, SharedFacts, LocalFacts DEF Earned
    <2>5. /\ anchor[c] \in AnchorType
          /\ anchor[c].hash # None =>
               anchor[c].hash \in Seq(Events) /\ 1..Len(anchor[c].hash) \subseteq walked'
          /\ walked \subseteq walked' /\ walked' \subseteq DOMAIN rows /\ meta' \in AnchorType
      BY <1>1, <1>4, SharedFacts, LocalFacts
    <2>6. "idle" \notin {"check", "suffix", "write seq", "write hash", "reanchor"} OBVIOUS
    <2> QED BY <1>1, <2>1, <2>2, <2>3, <2>4, <2>5, <2>6, LocalFacts, CallStep
  <1> QED BY <1>3, <1>4 DEF WalkSuffix, SuffixFrom

LEMMA WalkAllStep ==
    ASSUME VerifyInv, NEW c \in Calls, WalkAll(c)
    PROVE  VerifyInv'
  <1> DEFINE end == EndHash(0, Genesis)
  <1>1. /\ head' = [head EXCEPT ![c] = head[c]]
        /\ UNCHANGED <<rows, meta, alters>> /\ NoFault
    BY SharedFacts, LocalFacts DEF WalkAll, NoFault
  <1>2. CASE /\ CleanFrom(0, Genesis)
             /\ Decide(c, Verdict(TRUE, Len(rows)))
             /\ walked' = walked \cup 1..Len(rows)
             /\ anchor' = [anchor EXCEPT ![c] = Anchor(None, end)]
             /\ Goto(c, "reanchor")
    <2>1. end \in Seq(Events) /\ Len(end) = Len(rows)
      <3>1. end \in Seq(Events) /\ Len(end) = IF Len(rows) > 0 THEN Len(rows) ELSE 0
        <4>1. Genesis \in Seq(Events) /\ 0 = Len(Genesis) /\ 0 \in Nat BY HashFacts
        <4>2. TypeOK /\ RowsSound /\ CleanFrom(0, Genesis) BY <1>2, SharedFacts
        <4> QED BY <4>1, <4>2, WalkEnd
      <3> QED BY <3>1, SharedFacts
    <2>2. 1..Len(end) \subseteq walked' /\ walked \subseteq walked' /\ walked' \subseteq DOMAIN rows
      BY <1>2, <2>1, SharedFacts
    <2>3. PICK a \in AnchorType : /\ anchor' = [anchor EXCEPT ![c] = a]
                                  /\ a.hash = end /\ end # None
      <3>1. end \in Hashes BY <2>1, HashFacts
      <3> QED BY <1>2, <3>1, HashFacts, AnchorFacts
    <2>4. PICK v \in [ok : BOOLEAN, checked : Nat \cup {None}] :
              verdict' = [verdict EXCEPT ![c] = v] /\ v.ok
      BY <1>2, SharedFacts, VerdictFacts DEF Decide
    <2>5. pc' = [pc EXCEPT ![c] = "reanchor"] BY <1>2 DEF Goto
    <2>6. meta'.hash # None => Earned(meta.hash)'
      BY <1>1, <2>2, SharedFacts, LocalFacts DEF Earned
    <2>7. "reanchor" \notin {"check", "suffix", "write seq", "write hash"} OBVIOUS
    <2> HIDE DEF end
    <2> QED BY <1>1, <2>1, <2>2, <2>3, <2>4, <2>5, <2>6, <2>7, SharedFacts, LocalFacts, CallStep
  <1>3. CASE /\ ~CleanFrom(0, Genesis)
             /\ Decide(c, Verdict(FALSE, 0))
             /\ Goto(c, "idle")
             /\ UNCHANGED <<walked, anchor>>
    <2>1. alters > 0 BY <1>3, SharedFacts DEF VerifyInv, Untouched
    <2>2. Verdict(FALSE, 0) \in [ok : BOOLEAN, checked : Nat \cup {None}] BY VerdictFacts
    <2>3. /\ verdict' = [verdict EXCEPT ![c] = Verdict(FALSE, 0)]
          /\ pc' = [pc EXCEPT ![c] = "idle"]
          /\ anchor' = [anchor EXCEPT ![c] = anchor[c]]
      BY <1>3, SharedFacts, LocalFacts DEF Decide, Goto
    <2>4. meta'.hash # None => Earned(meta.hash)' BY <1>1, <1>3, SharedFacts, LocalFacts DEF Earned
    <2>5. /\ anchor[c] \in AnchorType
          /\ anchor[c].hash # None =>
               anchor[c].hash \in Seq(Events) /\ 1..Len(anchor[c].hash) \subseteq walked'
          /\ walked \subseteq walked' /\ walked' \subseteq DOMAIN rows /\ meta' \in AnchorType
      BY <1>1, <1>3, SharedFacts, LocalFacts
    <2>6. "idle" \notin {"check", "suffix", "write seq", "write hash", "reanchor"} OBVIOUS
    <2> QED BY <1>1, <2>1, <2>2, <2>3, <2>4, <2>5, <2>6, LocalFacts, CallStep
  <1> QED BY <1>2, <1>3 DEF WalkAll

LEMMA ReanchorStep ==
    ASSUME VerifyInv, NEW c \in Calls, Reanchor(c)
    PROVE  VerifyInv'
  <1>1. anchor[c].hash # None /\ anchor[c].hash \in Hashes
    BY LocalFacts, HashFacts DEF Reanchor, VerifyInv, PlaceKept
  <1>2. PICK a \in AnchorType : /\ anchor' = [anchor EXCEPT ![c] = a]
                                /\ a \in [seq : Nat, hash : Hashes]
                                /\ a.hash = anchor[c].hash
    <2>1. PICK n \in Nat : anchor' = [anchor EXCEPT ![c] = NewAnchor(n, @.hash)]
      BY SharedFacts DEF Reanchor
    <2>2. anchor' = [anchor EXCEPT ![c] = Anchor(n, anchor[c].hash)]
      BY <2>1, AnchorFacts
    <2>3. /\ Anchor(n, anchor[c].hash) \in AnchorType
          /\ Anchor(n, anchor[c].hash) \in [seq : Nat, hash : Hashes]
          /\ Anchor(n, anchor[c].hash).hash = anchor[c].hash
      BY <1>1, AnchorFacts
    <2> QED BY <2>2, <2>3
  <1>3. /\ pc' = [pc EXCEPT ![c] = "write seq"]
        /\ head' = [head EXCEPT ![c] = head[c]]
        /\ verdict' = [verdict EXCEPT ![c] = verdict[c]]
        /\ UNCHANGED <<rows, meta, walked, alters>> /\ (Fault \/ NoFault)
    BY LocalFacts DEF Reanchor, Goto
  <1>4. meta'.hash # None => Earned(meta.hash)' BY <1>3, SharedFacts DEF Earned
  <1>5. /\ a.hash \in Seq(Events) /\ 1..Len(a.hash) \subseteq walked'
        /\ walked \subseteq walked' /\ walked' \subseteq DOMAIN rows /\ meta' \in AnchorType
    BY <1>1, <1>2, <1>3, SharedFacts, LocalFacts
  <1> QED BY <1>2, <1>3, <1>4, <1>5, LocalFacts, CallStep

\* A half of the stored anchor is replaced, or its write fails; the hash that
\* is stored was the call's.
LEMMA WriteStep ==
    ASSUME VerifyInv, NEW c \in Calls, WriteSeq(c) \/ WriteHash(c)
    PROVE  VerifyInv'
  <1>1. /\ head' = [head EXCEPT ![c] = head[c]]
        /\ anchor' = [anchor EXCEPT ![c] = anchor[c]]
        /\ verdict' = [verdict EXCEPT ![c] = verdict[c]]
        /\ UNCHANGED <<rows, walked, alters>> /\ (Fault \/ NoFault)
        /\ pc[c] \in {"write seq", "write hash"}
    BY LocalFacts DEF WriteSeq, WriteHash
  <1>2. PICK l \in {"write hash", "idle"} : pc' = [pc EXCEPT ![c] = l]
    BY DEF WriteSeq, WriteHash, Goto
  <1>3. anchor[c] \in [seq : Nat, hash : Hashes] /\ anchor[c].hash # None
    <2>1. anchor[c] \in [seq : Nat, hash : Hashes] BY <1>1 DEF VerifyInv, TypeOK
    <2> QED BY <2>1, HashFacts
  <1>4. Earned(anchor[c].hash) BY <1>3, LocalFacts DEF Earned
  <1>5. /\ meta' \in AnchorType
        /\ meta'.hash = meta.hash \/ meta'.hash = anchor[c].hash
    <2>1. CASE meta' = [meta EXCEPT !.seq = anchor[c].seq]
      BY <1>3, <2>1, SharedFacts DEF AnchorType
    <2>2. CASE meta' = [meta EXCEPT !.hash = anchor[c].hash]
      BY <1>3, <2>2, SharedFacts DEF AnchorType
    <2>3. CASE UNCHANGED meta BY <2>3, SharedFacts
    <2> QED BY <2>1, <2>2, <2>3 DEF WriteSeq, WriteHash
  <1>6. meta'.hash # None => Earned(meta.hash)'
    BY <1>1, <1>4, <1>5, SharedFacts DEF Earned
  <1>7. /\ anchor[c].hash # None =>
             anchor[c].hash \in Seq(Events) /\ 1..Len(anchor[c].hash) \subseteq walked'
        /\ walked \subseteq walked' /\ walked' \subseteq DOMAIN rows
    BY <1>1, SharedFacts, LocalFacts
  <1>8. l \notin {"suffix", "reanchor"} BY <1>2
  <1> QED BY <1>1, <1>2, <1>3, <1>5, <1>6, <1>7, <1>8, LocalFacts, CallStep

LEMMA StopStep ==
    ASSUME VerifyInv, NEW c \in Calls, Stop(c)
    PROVE  VerifyInv'
  <1>1. /\ pc' = [pc EXCEPT ![c] = "idle"]
        /\ head' = [head EXCEPT ![c] = head[c]]
        /\ anchor' = [anchor EXCEPT ![c] = anchor[c]]
        /\ verdict' = [verdict EXCEPT ![c] = NoVerdict]
        /\ UNCHANGED <<rows, meta, walked, alters>> /\ (Fault \/ NoFault)
    BY LocalFacts DEF Stop, Goto, Decide
  <1>2. meta'.hash # None => Earned(meta.hash)' BY <1>1, SharedFacts DEF Earned
  <1>3. /\ anchor[c].hash # None =>
             anchor[c].hash \in Seq(Events) /\ 1..Len(anchor[c].hash) \subseteq walked'
        /\ walked \subseteq walked' /\ walked' \subseteq DOMAIN rows /\ meta' \in AnchorType
    BY <1>1, SharedFacts, LocalFacts
  <1>4. "idle" \notin {"check", "suffix", "write seq", "write hash", "reanchor"} OBVIOUS
  <1> QED BY <1>1, <1>2, <1>3, <1>4, SharedFacts, LocalFacts, CallStep

-----------------------------------------------------------------------------
(* The theorems.                                                           *)

\* Every step keeps the invariant.
LEMMA VerifyInvStep == VerifyInv /\ [Next]_vars => VerifyInv'
  <1> SUFFICES ASSUME VerifyInv, [Next]_vars
               PROVE  VerifyInv'
    OBVIOUS
  <1>1. ASSUME NEW e \in Events, AppendRow(e) PROVE VerifyInv' BY <1>1, AppendRowStep
  <1>2. ASSUME NEW i \in DOMAIN rows, Alter(i) PROVE VerifyInv' BY <1>2, AlterStep
  <1>3. ASSUME NEW c \in Calls, Step(c)
        PROVE  VerifyInv'
    <2>1. CASE ReadHead(c) BY <2>1, ReadHeadStep
    <2>2. CASE ReadSeq(c) BY <2>2, ReadSeqStep
    <2>3. CASE ReadHash(c) BY <2>3, ReadHashStep
    <2>4. CASE CheckAnchor(c) BY <2>4, CheckAnchorStep
    <2>5. CASE WalkSuffix(c) BY <2>5, WalkSuffixStep
    <2>6. CASE WalkAll(c) BY <2>6, WalkAllStep
    <2>7. CASE Reanchor(c) BY <2>7, ReanchorStep
    <2>8. CASE WriteSeq(c) \/ WriteHash(c) BY <2>8, WriteStep
    <2> QED BY <1>3, <2>1, <2>2, <2>3, <2>4, <2>5, <2>6, <2>7, <2>8 DEF Step
  <1>4. ASSUME NEW c \in Calls, Stop(c) PROVE VerifyInv' BY <1>4, StopStep
  <1>5. CASE UNCHANGED vars
    BY <1>5 DEF vars, VerifyInv, TypeOK, RowsSound, HashesEarned, Earned, PlaceKept, Untouched,
                NoFalseAlarm, CleanFrom, InOrder, AnchorOk, Genesis
  <1> QED BY <1>1, <1>2, <1>3, <1>4, <1>5 DEF Next

\* The invariant of the incremental verifier, for any number of calls, rows,
\* alterations and faults.
THEOREM VerifyInvariant == Spec => []VerifyInv
  <1>1. Init => VerifyInv BY InitInv
  <1> QED BY <1>1, VerifyInvStep, PTL DEF Spec

\* Rows, anchors and locals keep their shape; a call that uses an anchor has
\* both halves.
THEOREM VerifyTypeCorrect == Spec => []TypeOK
  <1>1. VerifyInv => TypeOK BY DEF VerifyInv
  <1> QED BY <1>1, VerifyInvariant, PTL

\* Whatever calls raced, died or failed half way, the anchor that the next call
\* believes names a row up to which every row was walked and found in order.
THEOREM AnchorAlwaysEarned == Spec => []AnchorIsEarned
  <1>1. VerifyInv => AnchorIsEarned
    <2> SUFFICES ASSUME VerifyInv, meta.seq \in Nat, AnchorOk(meta)
                 PROVE  1..meta.seq \subseteq walked
      BY DEF AnchorIsEarned
    <2>1. meta.hash # None
      <3>1. CASE meta.seq = 0 /\ meta.hash = Genesis BY <3>1, HashFacts
      <3>2. CASE meta.seq \in 1..Len(rows) /\ rows[meta.seq].hash = meta.hash
        BY <3>2, HashFacts, RowFacts DEF VerifyInv
      <3> QED BY <3>1, <3>2 DEF AnchorOk
    <2> QED BY <2>1, Placed DEF VerifyInv, HashesEarned
  <1> QED BY <1>1, VerifyInvariant, PTL

\* A chain that nobody altered is never reported as broken.
THEOREM NeverFalseAlarm == Spec => []NoFalseAlarm
  <1>1. VerifyInv => NoFalseAlarm BY DEF VerifyInv
  <1> QED BY <1>1, VerifyInvariant, PTL

\* "n rows are in order" is only ever said of n rows that were walked.
THEOREM VerdictAlwaysEarned == Spec => VerdictIsEarned
  <1>1. ASSUME VerifyInv, [Next]_vars, NEW c \in Calls,
               verdict'[c] \notin {verdict[c], NoVerdict}, verdict'[c].ok
        PROVE  1..verdict'[c].checked \subseteq walked'
    <2>1. PICK d \in Calls : CheckAnchor(d) \/ WalkSuffix(d) \/ WalkAll(d)
      <3>1. ASSUME NEW d \in Calls, ReadHead(d) \/ Stop(d)
            PROVE  verdict'[c] \in {verdict[c], NoVerdict}
        BY <1>1, <3>1 DEF ReadHead, Stop, Decide, VerifyInv, TypeOK
      <3>2. ASSUME NEW d \in Calls,
                   ReadSeq(d) \/ ReadHash(d) \/ Reanchor(d) \/ WriteSeq(d) \/ WriteHash(d)
            PROVE  verdict'[c] = verdict[c]
        BY <3>2 DEF ReadSeq, ReadHash, Reanchor, WriteSeq, WriteHash
      <3>3. ASSUME NEW e \in Events, AppendRow(e) PROVE verdict'[c] = verdict[c]
        BY <3>3 DEF AppendRow, locals
      <3>4. ASSUME NEW i \in DOMAIN rows, Alter(i) PROVE verdict'[c] = verdict[c]
        BY <3>4 DEF Alter, locals
      <3>5. UNCHANGED vars => verdict'[c] = verdict[c] BY DEF vars
      <3> QED BY <1>1, <3>1, <3>2, <3>3, <3>4, <3>5 DEF Next, Step
    <2>2. d = c /\ verdict'[c] # verdict[c]
      BY <1>1, <2>1 DEF CheckAnchor, WalkSuffix, WalkAll, Decide, VerifyInv, TypeOK
    <2>3. CASE CheckAnchor(c)
      <3>1. /\ AnchorOk(anchor[c]) /\ head[c] = anchor[c].seq
            /\ verdict' = [verdict EXCEPT ![c] = Verdict(TRUE, head[c])]
            /\ walked' = walked
        BY <2>2, <2>3 DEF CheckAnchor, Decide
      <3>2. verdict'[c].checked = head[c] BY <1>1, <3>1 DEF VerifyInv, TypeOK, Verdict
      <3>3. Earned(anchor[c].hash)
        BY <1>1, <2>3, LocalFacts, HashFacts DEF CheckAnchor, Earned
      <3> QED BY <1>1, <3>1, <3>2, <3>3, Placed DEF VerifyInv
    <2>4. CASE WalkSuffix(c)
      <3> DEFINE from == anchor[c].seq
                 n == IF Len(rows) > from THEN Len(rows) ELSE from
      <3>1. verdict' = [verdict EXCEPT ![c] = Verdict(TRUE, n)] /\ walked' = walked \cup ((from + 1)..Len(rows))
        <4>1. ~(verdict' = [verdict EXCEPT ![c] = Verdict(FALSE, 0)])
          <5>1. ~Verdict(FALSE, 0).ok BY DEF Verdict
          <5> QED BY <1>1, <5>1 DEF VerifyInv, TypeOK
        <4> QED BY <2>4, <4>1 DEF WalkSuffix, SuffixFrom, Decide
      <3>2. verdict'[c].checked = n BY <1>1, <3>1 DEF VerifyInv, TypeOK, Verdict
      <3>3. from \in Nat /\ 1..from \subseteq walked
        <4>1. pc[c] = "suffix" BY <2>4 DEF WalkSuffix
        <4>2. from = Len(anchor[c].hash) BY <1>1, <4>1 DEF VerifyInv, PlaceKept
        <4>3. from \in Nat /\ anchor[c].hash # None BY <1>1, <4>1, LocalFacts, HashFacts
        <4> QED BY <1>1, <4>2, <4>3, LocalFacts
      <3>4. 1..n \subseteq 1..from \cup ((from + 1)..Len(rows)) BY <1>1, <3>3, SharedFacts
      <3> QED BY <3>1, <3>2, <3>3, <3>4
    <2>5. CASE WalkAll(c)
      <3>1. verdict' = [verdict EXCEPT ![c] = Verdict(TRUE, Len(rows))] /\ walked' = walked \cup 1..Len(rows)
        <4>1. ~(verdict' = [verdict EXCEPT ![c] = Verdict(FALSE, 0)])
          <5>1. ~Verdict(FALSE, 0).ok BY DEF Verdict
          <5> QED BY <1>1, <5>1 DEF VerifyInv, TypeOK
        <4> QED BY <2>5, <4>1 DEF WalkAll, Decide
      <3>2. verdict'[c].checked = Len(rows) BY <1>1, <3>1 DEF VerifyInv, TypeOK, Verdict
      <3> QED BY <3>1, <3>2
    <2> QED BY <2>1, <2>2, <2>3, <2>4, <2>5
  <1>2. VerifyInv /\ [Next]_vars =>
            [\A c \in Calls :
                verdict'[c] \notin {verdict[c], NoVerdict} /\ verdict'[c].ok
                    => 1..verdict'[c].checked \subseteq walked']_vars
    BY <1>1
  <1> QED BY <1>2, VerifyInvariant, PTL DEF Spec, VerdictIsEarned
=============================================================================
