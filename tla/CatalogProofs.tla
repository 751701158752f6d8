---------------------------- MODULE CatalogProofs ----------------------------
(***************************************************************************)
(* Proofs about Catalog, for any catalog to begin with, any workers and    *)
(* whatever the models propose: the tables keep their shape, the index of  *)
(* the links holds through every operation and inverse, and a proposal is  *)
(* applied at most once.                                                   *)
(*                                                                         *)
(* An operation is described by what it makes of well-shaped rows          *)
(* (ResultOK): rows that are well-shaped again, and an image from which an *)
(* inverse can be made.                                                    *)
(***************************************************************************)
EXTENDS Catalog, TLAPS, SequenceTheorems, FiniteSetTheorems, Induction

-----------------------------------------------------------------------------
(* The strengthening.                                                      *)

IsSeq(s) == s \in Seq(Range(s))

\* The rows c of the catalog: node ids up to K, link ids up to L, marks of
\* runs up to R, links that hang from a row that is or was there, up to nb.
IsNode(x, R) ==
    x = [parent |-> x.parent, title |-> x.title, kind |-> x.kind, by |-> x.by] /\ x.by \in 0..R
IsLink(x, R) == x = [node |-> x.node, item |-> x.item, by |-> x.by] /\ x.by \in 0..R
RowsOK(c, K, L, nb, R) ==
    /\ c = [node |-> c.node, link |-> c.link, sup |-> c.sup]
    /\ \A n \in DOMAIN c.node : n \in 1..K /\ IsNode(c.node[n], R)
    /\ \A l \in DOMAIN c.link :
         l \in 1..L /\ IsLink(c.link[l], R) /\ c.link[l].node \in 1..nb \cup DOMAIN c.node
    /\ LinksUnique(c)

\* An image: marks of runs that were there, links that hung somewhere.
ImageOK(m, nb, R) ==
    /\ m = [made |-> m.made, cites |-> m.cites, drop |-> m.drop, remark |-> m.remark,
            parent |-> m.parent, title |-> m.title, moved |-> m.moved,
            nodes |-> m.nodes, links |-> m.links, sup |-> m.sup]
    /\ \A l \in DOMAIN m.remark : m.remark[l] \in 0..R
    /\ \A l \in DOMAIN m.moved : m.moved[l].from \in 1..nb

ResultOK(res, nb, R) ==
    /\ \E K \in Nat, L \in Nat : RowsOK(res.c, K, L, nb, R)
    /\ ImageOK(res.image, nb, R)

\* The journal.
IsOp(x, nb, R) ==
    /\ x = OpRow(x.op, x.outcome, x.subjects, x.image, x.prop)
    /\ x.outcome \in OpOutcomes /\ ImageOK(x.image, nb, R)
IsRun(x, nb, R) ==
    /\ x = [mode |-> x.mode, outcome |-> x.outcome, ops |-> x.ops]
    /\ x.mode \in Modes /\ x.outcome \in Outcomes
    /\ IsSeq(x.ops) /\ \A i \in DOMAIN x.ops : IsOp(x.ops[i], nb, R)
RunsOK(rs, nb, R) == IsSeq(rs) /\ \A r \in DOMAIN rs : IsRun(rs[r], nb, R)

\* The queue, and what a pass has read of it.
IsProposal(q, n) ==
    /\ q = [id |-> q.id, run |-> q.run, p |-> q.p, attempts |-> q.attempts, after |-> q.after]
    /\ q.id \in 1..n /\ q.attempts \in 0..(MaxAttempts - 1) /\ WellFormed(q.p)
QueueOK(qs, n) ==
    /\ \A q \in qs : IsProposal(q, n)
    /\ \A q, o \in qs : q.id = o.id => q = o
IsPass(x, n, R) ==
    /\ x = [pc |-> x.pc, run |-> x.run, staged |-> x.staged, due |-> x.due, verify |-> x.verify,
            tree |-> x.tree, kept |-> x.kept]
    /\ x.run \in 0..R /\ (x.pc # "idle" => x.run # 0)
    /\ \A q \in x.due \cup x.verify : IsProposal(q, n)

\* An operation that was done for a proposal.
DoneAt(rs, r, i, id) ==
    /\ r \in DOMAIN rs /\ i \in DOMAIN rs[r].ops
    /\ rs[r].ops[i].prop = id /\ rs[r].ops[i].outcome \in {"applied", "reverted"}
OnceIn(rs, qs, n) ==
    \A id \in Nat \ {0} : \A r, i :
        DoneAt(rs, r, i, id) =>
            /\ id <= n /\ \A q \in qs : q.id # id
            /\ \A k, j : DoneAt(rs, k, j, id) => k = r /\ j = i

\* The tables, the passes, and the two together.
TablesOK ==
    /\ newest = [node |-> newest.node, link |-> newest.link, prop |-> newest.prop]
    /\ newest.node \in Nat /\ newest.link \in Nat /\ newest.prop \in Nat
    /\ RowsOK(cat, newest.node, newest.link, newest.node, Len(runs))
    /\ RunsOK(runs, newest.node, Len(runs))
    /\ QueueOK(queue, newest.prop)
    /\ OnceIn(runs, queue, newest.prop)
PassesOK ==
    DOMAIN pass = Workers /\ \A w \in Workers : IsPass(pass[w], newest.prop, Len(runs))
CatInv ==
    /\ TablesOK /\ PassesOK
    /\ menu \in Menus /\ horizon \in 0..Len(runs) /\ slips \subseteq Slips

-----------------------------------------------------------------------------
(* Sequences by their own range, and greatest elements.                    *)

LEMMA SeqOfFunction ==
    ASSUME NEW n \in Nat, NEW f, f = [i \in 1..n |-> f[i]]
    PROVE  IsSeq(f) /\ Len(f) = n /\ DOMAIN f = 1..n
  <1>1. DOMAIN f = 1..n BY ZenonT(20)
  <1>2. f \in [1..n -> Range(f)] BY <1>1 DEF Range
  <1>3. f \in Seq(Range(f)) BY <1>2, SeqDef
  <1>4. Len(f) = n BY <1>1, <1>3, LenProperties
  <1> QED BY <1>1, <1>3, <1>4 DEF IsSeq

LEMMA SeqFacts ==
    ASSUME NEW s, IsSeq(s)
    PROVE  Len(s) \in Nat /\ DOMAIN s = 1..Len(s) /\ s = [i \in 1..Len(s) |-> s[i]]
  BY LenProperties DEF IsSeq

LEMMA AppendFacts ==
    ASSUME NEW s, IsSeq(s), NEW e
    PROVE  /\ IsSeq(Append(s, e)) /\ Len(Append(s, e)) = Len(s) + 1
           /\ DOMAIN Append(s, e) = 1..(Len(s) + 1)
           /\ \A i \in 1..Len(s) : Append(s, e)[i] = s[i]
           /\ Append(s, e)[Len(s) + 1] = e
           /\ Len(s) + 1 \in 1..(Len(s) + 1) /\ Len(s) + 1 \notin 1..Len(s)
           /\ \A i \in 1..(Len(s) + 1) : i \in 1..Len(s) \/ i = Len(s) + 1
           /\ 1..Len(s) \subseteq 1..(Len(s) + 1)
  <1> DEFINE S == Range(s) \cup {e}
             t == Append(s, e)
  <1>1. Len(s) \in Nat /\ DOMAIN s = 1..Len(s) BY SeqFacts
  <1>2. s \in [1..Len(s) -> S] BY <1>1, SeqFacts DEF Range
  <1>3. s \in Seq(S) /\ e \in S BY <1>1, <1>2, SeqDef
  <1> HIDE DEF S
  <1>4. /\ t \in Seq(S) /\ Len(t) = Len(s) + 1
        /\ \A i \in 1..Len(s) : t[i] = s[i]
        /\ t[Len(s) + 1] = e
    BY <1>3, AppendProperties
  <1> HIDE DEF t
  <1>5. DOMAIN t = 1..(Len(s) + 1) /\ t = [i \in 1..(Len(s) + 1) |-> t[i]]
    BY <1>4, LenProperties
  <1>6. IsSeq(t) BY <1>1, <1>5, SeqOfFunction
  <1>7. /\ Len(s) + 1 \in 1..(Len(s) + 1) /\ Len(s) + 1 \notin 1..Len(s)
        /\ \A i \in 1..(Len(s) + 1) : i \in 1..Len(s) \/ i = Len(s) + 1
        /\ 1..Len(s) \subseteq 1..(Len(s) + 1)
    BY <1>1
  <1> QED BY <1>4, <1>5, <1>6, <1>7 DEF t

\* A finite set of naturals has a bound: no finite set is minimal among those
\* that have none.
LEMMA FiniteIsBounded ==
    ASSUME NEW S, S \subseteq Nat, IsFiniteSet(S)
    PROVE  \E k \in Nat : \A x \in S : x <= k
  <1> DEFINE Bounded(U) == \E k \in Nat : \A x \in U : x <= k
             F == {U \in FiniteSubsetsOf(Nat) : ~Bounded(U)}
  <1>1. SUFFICES ASSUME ~Bounded(S) PROVE FALSE OBVIOUS
  <1>2. S \in F BY <1>1 DEF FiniteSubsetsOf
  <1>3. F \subseteq FiniteSubsetsOf(Nat) OBVIOUS
  <1>4. PICK U \in F : \A V \in F : ~(<<V, U>> \in StrictSubsetOrdering(Nat))
    <2> HIDE DEF F
    <2>1. IsWellFoundedOn(StrictSubsetOrdering(Nat), FiniteSubsetsOf(Nat))
      BY FS_StrictSubsetOrderingWellFounded
    <2> QED BY <1>2, <1>3, <2>1, WFMin
  <1>5. U \in FiniteSubsetsOf(Nat) /\ ~Bounded(U) BY <1>4
  <1>6. U \subseteq Nat /\ IsFiniteSet(U) BY <1>5 DEF FiniteSubsetsOf
  <1>7. PICK x \in U : TRUE BY <1>5
  <1>8. x \in Nat BY <1>6, <1>7
  <1> DEFINE V == U \ {x}
  <1>9. V \in FiniteSubsetsOf(Nat)
    <2>1. IsFiniteSet(V) BY <1>6, FS_RemoveElement
    <2> QED BY <1>6, <2>1 DEF FiniteSubsetsOf
  <1>10. <<V, U>> \in StrictSubsetOrdering(Nat)
    BY <1>6, <1>7 DEF StrictSubsetOrdering
  <1>11. V \notin F BY <1>4, <1>10
  <1>12. Bounded(V) BY <1>9, <1>11
  <1>13. PICK k \in Nat : \A y \in V : y <= k BY <1>12
  <1>14. \A y \in U : y <= k + x
    <2>1. ASSUME NEW y \in U PROVE y <= k + x
      <3>1. y \in Nat BY <1>6, <2>1
      <3>2. y = x \/ y <= k BY <1>13, <2>1
      <3> QED BY <1>8, <1>13, <3>1, <3>2
    <2> QED BY <2>1
  <1>15. k + x \in Nat BY <1>8, <1>13
  <1> QED BY <1>5, <1>14, <1>15

LEMMA MaxFacts ==
    ASSUME NEW S, S # {}, S \subseteq Nat, NEW k \in Nat, \A x \in S : x <= k
    PROVE  Max(S) \in S /\ Max(S) \in Nat /\ \A x \in S : x <= Max(S)
  <1> DEFINE T == {k - x : x \in S}
  <1>1. T \subseteq Nat /\ T # {}
    <2>1. \A x \in S : x \in Nat /\ k - x \in Nat OBVIOUS
    <2> QED BY <2>1
  <1>2. PICK m \in T : \A y \in T : m <= y
    <2> HIDE DEF T
    <2> QED BY <1>1, LeastNat
  <1>3. PICK x \in S : m = k - x BY <1>2
  <1>4. \A y \in S : x >= y
    <2>1. ASSUME NEW y \in S PROVE x >= y
      <3>1. x \in Nat /\ y \in Nat /\ k - x <= k - y BY <1>2, <1>3
      <3> QED BY <3>1
    <2> QED BY <2>1
  <1>5. Max(S) \in S /\ \A y \in S : Max(S) >= y BY <1>4 DEF Max
  <1> QED BY <1>5

-----------------------------------------------------------------------------
(* More ids and more runs do no harm.                                      *)

LEMMA Wider ==
    ASSUME NEW nb \in Nat, NEW nb2 \in Nat, nb <= nb2, NEW R \in Nat, NEW R2 \in Nat, R <= R2
    PROVE  /\ \A x : IsNode(x, R) => IsNode(x, R2)
           /\ \A x : IsLink(x, R) => IsLink(x, R2)
           /\ \A m : ImageOK(m, nb, R) => ImageOK(m, nb2, R2)
           /\ \A x : IsOp(x, nb, R) => IsOp(x, nb2, R2)
           /\ \A x : IsRun(x, nb, R) => IsRun(x, nb2, R2)
           /\ \A rs : RunsOK(rs, nb, R) => RunsOK(rs, nb2, R2)
           /\ \A q : IsProposal(q, nb) => IsProposal(q, nb2)
           /\ \A x, n : IsPass(x, n, R) => IsPass(x, n, R2)
           /\ \A x : IsPass(x, nb, R) => IsPass(x, nb2, R)
  <1>1. 0..R \subseteq 0..R2 /\ 1..nb \subseteq 1..nb2 OBVIOUS
  <1>2. \A x : IsNode(x, R) => IsNode(x, R2) BY <1>1 DEF IsNode
  <1>3. \A x : IsLink(x, R) => IsLink(x, R2) BY <1>1 DEF IsLink
  <1>4. \A m : ImageOK(m, nb, R) => ImageOK(m, nb2, R2) BY <1>1, Zenon DEF ImageOK
  <1>5. \A x : IsOp(x, nb, R) => IsOp(x, nb2, R2) BY <1>4 DEF IsOp
  <1>6. \A x : IsRun(x, nb, R) => IsRun(x, nb2, R2) BY <1>5 DEF IsRun
  <1>7. \A rs : RunsOK(rs, nb, R) => RunsOK(rs, nb2, R2) BY <1>6 DEF RunsOK
  <1>8. \A q : IsProposal(q, nb) => IsProposal(q, nb2) BY <1>1 DEF IsProposal
  <1>9. \A x, n : IsPass(x, n, R) => IsPass(x, n, R2) BY <1>1 DEF IsPass
  <1>10. \A x : IsPass(x, nb, R) => IsPass(x, nb2, R) BY <1>8 DEF IsPass
  <1> QED BY <1>2, <1>3, <1>4, <1>5, <1>6, <1>7, <1>8, <1>9, <1>10

LEMMA WiderRows ==
    ASSUME NEW c, NEW K \in Nat, NEW K2 \in Nat, K <= K2, NEW L \in Nat, NEW L2 \in Nat, L <= L2,
           NEW nb \in Nat, NEW nb2 \in Nat, nb <= nb2, NEW R \in Nat, NEW R2 \in Nat, R <= R2,
           RowsOK(c, K, L, nb, R)
    PROVE  RowsOK(c, K2, L2, nb2, R2)
  <1>1. 1..K \subseteq 1..K2 /\ 1..L \subseteq 1..L2 /\ 1..nb \subseteq 1..nb2 OBVIOUS
  <1>2. \A x : (IsNode(x, R) => IsNode(x, R2)) /\ (IsLink(x, R) => IsLink(x, R2)) BY Wider
  <1> QED BY <1>1, <1>2 DEF RowsOK

-----------------------------------------------------------------------------
(* The journal and the queue.                                              *)

LEMMA RunChanged ==
    ASSUME NEW x, x = [mode |-> x.mode, outcome |-> x.outcome, ops |-> x.ops], NEW o
    PROVE  /\ [x EXCEPT !.ops = o] = [mode |-> x.mode, outcome |-> x.outcome, ops |-> o]
           /\ [x EXCEPT !.outcome = o] = [mode |-> x.mode, outcome |-> o, ops |-> x.ops]
  <1>1. PICK m, u, p : x = [mode |-> m, outcome |-> u, ops |-> p] OBVIOUS
  <1> QED BY <1>1

\* An operation is journaled: it is the last one of its run.
LEMMA JournalFacts ==
    ASSUME NEW nb \in Nat, NEW R \in Nat, NEW rs, RunsOK(rs, nb, R),
           NEW r, NEW row, IsOp(row, nb, R)
    PROVE  /\ RunsOK(Journal(rs, r, row), nb, R) /\ Len(Journal(rs, r, row)) = Len(rs)
           /\ DOMAIN Journal(rs, r, row) = DOMAIN rs
           /\ \A k \in DOMAIN rs : /\ Journal(rs, r, row)[k].outcome = rs[k].outcome
                                   /\ Journal(rs, r, row)[k].mode = rs[k].mode
           /\ \A k, i, id : DoneAt(Journal(rs, r, row), k, i, id) =>
                DoneAt(rs, k, i, id) \/ (k = r /\ i = Len(rs[r].ops) + 1 /\ id = row.prop
                                         /\ row.outcome \in {"applied", "reverted"})
  <1> DEFINE js == Journal(rs, r, row)
             more == Append(rs[r].ops, row)
  <1>1. Len(rs) \in Nat /\ DOMAIN rs = 1..Len(rs) /\ \A k \in DOMAIN rs : IsRun(rs[k], nb, R)
    BY SeqFacts DEF RunsOK
  <1>2. /\ DOMAIN js = DOMAIN rs /\ \A k \in DOMAIN rs : k # r => js[k] = rs[k]
        /\ js = [k \in DOMAIN rs |-> js[k]]
        /\ r \in DOMAIN rs => js[r] = [rs[r] EXCEPT !.ops = more]
    BY DEF Journal
  <1> HIDE DEF js
  <1>3. IsSeq(js) /\ Len(js) = Len(rs) BY <1>1, <1>2, SeqOfFunction
  <1>4. ASSUME r \in DOMAIN rs
        PROVE  /\ js[r] = [mode |-> rs[r].mode, outcome |-> rs[r].outcome, ops |-> more]
               /\ IsRun(js[r], nb, R)
               /\ DOMAIN rs[r].ops = 1..Len(rs[r].ops)
               /\ \A i \in DOMAIN more : i \in DOMAIN rs[r].ops \/ i = Len(rs[r].ops) + 1
               /\ \A i \in DOMAIN rs[r].ops : more[i] = rs[r].ops[i]
               /\ more[Len(rs[r].ops) + 1] = row
    <2>0. IsRun(rs[r], nb, R) BY <1>1, <1>4
    <2>1. /\ IsSeq(rs[r].ops) /\ \A i \in DOMAIN rs[r].ops : IsOp(rs[r].ops[i], nb, R)
          /\ rs[r] = [mode |-> rs[r].mode, outcome |-> rs[r].outcome, ops |-> rs[r].ops]
          /\ rs[r].mode \in Modes /\ rs[r].outcome \in Outcomes
      BY <2>0 DEF IsRun
    <2>2. DOMAIN rs[r].ops = 1..Len(rs[r].ops) BY <2>1, SeqFacts
    <2>3. /\ IsSeq(more) /\ DOMAIN more = 1..(Len(rs[r].ops) + 1)
          /\ \A i \in 1..Len(rs[r].ops) : more[i] = rs[r].ops[i]
          /\ more[Len(rs[r].ops) + 1] = row
          /\ \A i \in 1..(Len(rs[r].ops) + 1) : i \in 1..Len(rs[r].ops) \/ i = Len(rs[r].ops) + 1
      BY <2>1, AppendFacts
    <2> HIDE DEF more
    <2>4. js[r] = [mode |-> rs[r].mode, outcome |-> rs[r].outcome, ops |-> more]
      BY <1>2, <1>4, <2>1, RunChanged
    <2>5. \A i \in DOMAIN more : IsOp(more[i], nb, R) BY <2>1, <2>2, <2>3
    <2>6. IsRun(js[r], nb, R)
      <3>1. js[r].mode = rs[r].mode /\ js[r].outcome = rs[r].outcome /\ js[r].ops = more BY <2>4
      <3>2. js[r] = [mode |-> js[r].mode, outcome |-> js[r].outcome, ops |-> js[r].ops]
        BY <2>4, <3>1
      <3>3. IsSeq(js[r].ops) /\ \A i \in DOMAIN js[r].ops : IsOp(js[r].ops[i], nb, R)
        BY <2>3, <2>5, <3>1
      <3> QED BY <2>1, <3>1, <3>2, <3>3 DEF IsRun
    <2> QED BY <2>2, <2>3, <2>4, <2>6
  <1> HIDE DEF more
  <1>5. \A k \in DOMAIN rs : IsRun(js[k], nb, R) BY <1>1, <1>2, <1>4
  <1>6. \A k \in DOMAIN rs : js[k].outcome = rs[k].outcome /\ js[k].mode = rs[k].mode
    BY <1>2, <1>4
  <1>7. ASSUME NEW k, NEW i, NEW id, DoneAt(js, k, i, id), ~DoneAt(rs, k, i, id)
        PROVE  k = r /\ i = Len(rs[r].ops) + 1 /\ id = row.prop /\ row.outcome \in {"applied", "reverted"}
    <2>1. k = r /\ r \in DOMAIN rs BY <1>2, <1>7 DEF DoneAt
    <2>2. i \in DOMAIN more /\ js[r].ops = more BY <1>4, <1>7, <2>1 DEF DoneAt
    <2>3. i \notin DOMAIN rs[r].ops BY <1>4, <1>7, <2>1, <2>2 DEF DoneAt
    <2>4. i = Len(rs[r].ops) + 1 BY <1>4, <2>1, <2>2, <2>3
    <2> QED BY <1>4, <1>7, <2>1, <2>2, <2>4 DEF DoneAt
  <1>8. RunsOK(js, nb, R) BY <1>2, <1>3, <1>5 DEF RunsOK
  <1> QED BY <1>2, <1>3, <1>6, <1>7, <1>8 DEF js

\* Nothing new is done.
LEMMA StillOnce ==
    ASSUME NEW rs, NEW rs2, NEW qs, NEW qs2, NEW n \in Nat, NEW n2 \in Nat, n <= n2,
           OnceIn(rs, qs, n),
           \A r, i, id : DoneAt(rs2, r, i, id) => DoneAt(rs, r, i, id),
           \A q \in qs2 : q.id > n \/ \E o \in qs : q.id = o.id
    PROVE  OnceIn(rs2, qs2, n2)
  <1> SUFFICES ASSUME NEW id \in Nat \ {0}, NEW r, NEW i, DoneAt(rs2, r, i, id)
               PROVE  /\ id <= n2 /\ \A q \in qs2 : q.id # id
                      /\ \A k, j : DoneAt(rs2, k, j, id) => k = r /\ j = i
    BY DEF OnceIn
  <1>1. DoneAt(rs, r, i, id) OBVIOUS
  <1>2. id <= n /\ \A q \in qs : q.id # id BY <1>1 DEF OnceIn
  <1>3. \A k, j : DoneAt(rs2, k, j, id) => k = r /\ j = i BY <1>1 DEF OnceIn
  <1>4. ASSUME NEW q \in qs2 PROVE q.id # id
    <2>1. q.id > n => q.id # id BY <1>2
    <2> QED BY <1>2, <2>1
  <1> QED BY <1>2, <1>3, <1>4

\* One operation is done, for no proposal or for one that leaves the queue.
LEMMA OnceMore ==
    ASSUME NEW rs, NEW rs2, NEW qs, NEW qs2, NEW n \in Nat, OnceIn(rs, qs, n),
           NEW x, NEW r0, NEW i0,
           \A r, i, id : DoneAt(rs2, r, i, id) => DoneAt(rs, r, i, id) \/ (r = r0 /\ i = i0 /\ id = x),
           qs2 \subseteq qs,
           x # 0 => /\ x \in 1..n /\ \E o \in qs : o.id = x
                    /\ \A q \in qs2 : q.id # x
    PROVE  OnceIn(rs2, qs2, n)
  <1> SUFFICES ASSUME NEW id \in Nat \ {0}, NEW r, NEW i, DoneAt(rs2, r, i, id)
               PROVE  /\ id <= n /\ \A q \in qs2 : q.id # id
                      /\ \A k, j : DoneAt(rs2, k, j, id) => k = r /\ j = i
    BY DEF OnceIn
  <1>1. CASE id # x
    <2>1. DoneAt(rs, r, i, id) BY <1>1
    <2>2. id <= n /\ \A q \in qs2 : q.id # id BY <2>1 DEF OnceIn
    <2>3. \A k, j : DoneAt(rs2, k, j, id) => k = r /\ j = i BY <1>1, <2>1 DEF OnceIn
    <2> QED BY <2>2, <2>3
  <1>2. CASE id = x
    <2>1. id <= n /\ \A q \in qs2 : q.id # id BY <1>2
    <2>2. \A k, j : ~DoneAt(rs, k, j, id) BY <1>2 DEF OnceIn
    <2> QED BY <2>1, <2>2
  <1> QED BY <1>1, <1>2

-----------------------------------------------------------------------------
(* What the operations make of the rows.                                   *)

LEMMA Rows ==
    ASSUME NEW N, NEW M, NEW S, NEW K, NEW L, NEW nb, NEW R,
           \A n \in DOMAIN N : n \in 1..K /\ IsNode(N[n], R),
           \A l \in DOMAIN M : l \in 1..L /\ IsLink(M[l], R) /\ M[l].node \in 1..nb \cup DOMAIN N,
           \A l, k \in DOMAIN M : M[l].node = M[k].node /\ M[l].item = M[k].item => l = k
    PROVE  RowsOK([node |-> N, link |-> M, sup |-> S], K, L, nb, R)
  <1> DEFINE c == [node |-> N, link |-> M, sup |-> S]
  <1>1. c.node = N /\ c.link = M /\ c = [node |-> c.node, link |-> c.link, sup |-> c.sup] OBVIOUS
  <1> HIDE DEF c
  <1>2. RowsOK(c, K, L, nb, R) BY <1>1 DEF RowsOK, LinksUnique
  <1> QED BY <1>2 DEF c

LEMMA RowsParts ==
    ASSUME NEW c, NEW K, NEW L, NEW nb, NEW R, RowsOK(c, K, L, nb, R)
    PROVE  /\ c = [node |-> c.node, link |-> c.link, sup |-> c.sup]
           /\ \A n \in DOMAIN c.node : n \in 1..K /\ IsNode(c.node[n], R)
           /\ \A l \in DOMAIN c.link :
                l \in 1..L /\ IsLink(c.link[l], R) /\ c.link[l].node \in 1..nb \cup DOMAIN c.node
           /\ \A l, k \in DOMAIN c.link :
                c.link[l].node = c.link[k].node /\ c.link[l].item = c.link[k].item => l = k
  BY DEF RowsOK, LinksUnique

LEMMA RowFacts ==
    ASSUME NEW R \in Nat
    PROVE  /\ \A parent, title, kind : IsNode(NewNode(parent, title, kind), R)
           /\ \A n, item : /\ IsLink(NewLink(n, item), R)
                           /\ NewLink(n, item).node = n /\ NewLink(n, item).item = item
           /\ \A p, t, k : \A b \in 0..R : IsNode([parent |-> p, title |-> t, kind |-> k, by |-> b], R)
           /\ \A n, i : \A b \in 0..R : IsLink([node |-> n, item |-> i, by |-> b], R)
  BY DEF IsNode, NewNode, IsLink, NewLink

LEMMA NodeChanged ==
    ASSUME NEW R \in Nat, NEW x, IsNode(x, R), NEW y, NEW z
    PROVE  /\ z = [x EXCEPT !.parent = y] => IsNode(z, R)
           /\ z = [x EXCEPT !.by = y] /\ y \in 0..R => IsNode(z, R)
  <1>0. x = [parent |-> x.parent, title |-> x.title, kind |-> x.kind, by |-> x.by] /\ x.by \in 0..R
    BY DEF IsNode
  <1>1. PICK p, t, k, b : x = [parent |-> p, title |-> t, kind |-> k, by |-> b] BY <1>0
  <1>2. /\ [x EXCEPT !.parent = y] = [parent |-> y, title |-> t, kind |-> k, by |-> b]
        /\ [x EXCEPT !.by = y] = [parent |-> p, title |-> t, kind |-> k, by |-> y]
    BY <1>1
  <1>3. b \in 0..R BY <1>0, <1>1
  <1> QED BY <1>2, <1>3 DEF IsNode

LEMMA LinkChanged ==
    ASSUME NEW R \in Nat, NEW x, IsLink(x, R), NEW y, NEW z
    PROVE  /\ z = [x EXCEPT !.node = y] => IsLink(z, R) /\ z.node = y /\ z.item = x.item
           /\ z = [x EXCEPT !.by = y] /\ y \in 0..R =>
                IsLink(z, R) /\ z.node = x.node /\ z.item = x.item
  <1>0. x = [node |-> x.node, item |-> x.item, by |-> x.by] /\ x.by \in 0..R BY DEF IsLink
  <1>1. PICK n, i, b : x = [node |-> n, item |-> i, by |-> b] BY <1>0
  <1>2. /\ [x EXCEPT !.node = y] = [node |-> y, item |-> i, by |-> b]
        /\ [x EXCEPT !.by = y] = [node |-> n, item |-> i, by |-> y]
    BY <1>1
  <1>3. b \in 0..R BY <1>0, <1>1
  <1>4. z = [x EXCEPT !.node = y] => IsLink(z, R) /\ z.node = y /\ z.item = x.item
    BY <1>1, <1>2, <1>3 DEF IsLink
  <1>5. z = [x EXCEPT !.by = y] /\ y \in 0..R => IsLink(z, R) /\ z.node = x.node /\ z.item = x.item
    BY <1>1, <1>2 DEF IsLink
  <1> QED BY <1>4, <1>5

\* The fields an image's shape speaks of, for an image that is filled in.
LEMMA ImageFacts ==
    ASSUME NEW nb, NEW R
    PROVE  /\ ImageOK(NoImage, nb, R)
           /\ \A m, x, y, z, u : ImageOK(m, nb, R) =>
                /\ ImageOK([m EXCEPT !.made = x, !.cites = y, !.nodes = z, !.links = u], nb, R)
                /\ ImageOK([m EXCEPT !.made = x], nb, R) /\ ImageOK([m EXCEPT !.drop = x], nb, R)
                /\ ImageOK([m EXCEPT !.parent = x], nb, R) /\ ImageOK([m EXCEPT !.sup = x], nb, R)
                /\ ImageOK([m EXCEPT !.title = x, !.parent = y], nb, R)
                /\ (\A l \in DOMAIN x : x[l] \in 0..R) => ImageOK([m EXCEPT !.remark = x], nb, R)
                /\ (\A l \in DOMAIN x : x[l].from \in 1..nb) =>
                      /\ ImageOK([m EXCEPT !.moved = x, !.links = y, !.parent = z, !.nodes = u], nb, R)
                      /\ ImageOK([m EXCEPT !.made = y, !.moved = x], nb, R)
  <1>1. ImageOK(NoImage, nb, R)
    <2>1. DOMAIN << >> = {} OBVIOUS
    <2> QED BY <2>1 DEF ImageOK, NoImage
  <1> DEFINE I(a, b, d, e, f, g, h, j, k, o) ==
                [made |-> a, cites |-> b, drop |-> d, remark |-> e, parent |-> f, title |-> g,
                 moved |-> h, nodes |-> j, links |-> k, sup |-> o]
  <1>2. ASSUME NEW m, NEW x, NEW y, NEW z, NEW u, ImageOK(m, nb, R)
        PROVE  /\ ImageOK([m EXCEPT !.made = x, !.cites = y, !.nodes = z, !.links = u], nb, R)
               /\ ImageOK([m EXCEPT !.made = x], nb, R) /\ ImageOK([m EXCEPT !.drop = x], nb, R)
               /\ ImageOK([m EXCEPT !.parent = x], nb, R) /\ ImageOK([m EXCEPT !.sup = x], nb, R)
               /\ ImageOK([m EXCEPT !.title = x, !.parent = y], nb, R)
               /\ (\A l \in DOMAIN x : x[l] \in 0..R) => ImageOK([m EXCEPT !.remark = x], nb, R)
               /\ (\A l \in DOMAIN x : x[l].from \in 1..nb) =>
                     /\ ImageOK([m EXCEPT !.moved = x, !.links = y, !.parent = z, !.nodes = u], nb, R)
                     /\ ImageOK([m EXCEPT !.made = y, !.moved = x], nb, R)
    <2>0. m = [made |-> m.made, cites |-> m.cites, drop |-> m.drop, remark |-> m.remark,
               parent |-> m.parent, title |-> m.title, moved |-> m.moved,
               nodes |-> m.nodes, links |-> m.links, sup |-> m.sup]
      BY <1>2 DEF ImageOK
    <2>1. PICK a, b, d, e, f, g, h, j, k, o : m = I(a, b, d, e, f, g, h, j, k, o)
      BY <2>0
    <2>a. [m EXCEPT !.made = x, !.cites = y, !.nodes = z, !.links = u] = I(x, y, d, e, f, g, h, z, u, o)
      <3> DEFINE m1 == [m EXCEPT !.made = x]
                 m2 == [m1 EXCEPT !.cites = y]
                 m3 == [m2 EXCEPT !.nodes = z]
      <3>1. [m EXCEPT !.made = x, !.cites = y, !.nodes = z, !.links = u] = [m3 EXCEPT !.links = u] OBVIOUS
      <3>2. m1 = I(x, b, d, e, f, g, h, j, k, o) BY <2>1
      <3> HIDE DEF m1
      <3>3. m2 = I(x, y, d, e, f, g, h, j, k, o) BY <3>2
      <3> HIDE DEF m2
      <3>4. m3 = I(x, y, d, e, f, g, h, z, k, o) BY <3>3
      <3> HIDE DEF m3
      <3>5. [m3 EXCEPT !.links = u] = I(x, y, d, e, f, g, h, z, u, o) BY <3>4
      <3> QED BY <3>1, <3>5
    <2>b. [m EXCEPT !.made = x] = I(x, b, d, e, f, g, h, j, k, o) BY <2>1
    <2>c. [m EXCEPT !.drop = x] = I(a, b, x, e, f, g, h, j, k, o) BY <2>1
    <2>d. [m EXCEPT !.parent = x] = I(a, b, d, e, x, g, h, j, k, o) BY <2>1
    <2>e. [m EXCEPT !.sup = x] = I(a, b, d, e, f, g, h, j, k, x) BY <2>1
    <2>f. [m EXCEPT !.title = x, !.parent = y] = I(a, b, d, e, y, x, h, j, k, o)
      <3> DEFINE m1 == [m EXCEPT !.title = x]
      <3>1. [m EXCEPT !.title = x, !.parent = y] = [m1 EXCEPT !.parent = y] OBVIOUS
      <3>2. m1 = I(a, b, d, e, f, x, h, j, k, o) BY <2>1
      <3> HIDE DEF m1
      <3>3. [m1 EXCEPT !.parent = y] = I(a, b, d, e, y, x, h, j, k, o) BY <3>2
      <3> QED BY <3>1, <3>3
    <2>g. [m EXCEPT !.remark = x] = I(a, b, d, x, f, g, h, j, k, o) BY <2>1
    <2>h. [m EXCEPT !.moved = x, !.links = y, !.parent = z, !.nodes = u] = I(a, b, d, e, z, g, x, u, y, o)
      <3> DEFINE m1 == [m EXCEPT !.moved = x]
                 m2 == [m1 EXCEPT !.links = y]
                 m3 == [m2 EXCEPT !.parent = z]
      <3>1. [m EXCEPT !.moved = x, !.links = y, !.parent = z, !.nodes = u] = [m3 EXCEPT !.nodes = u] OBVIOUS
      <3>2. m1 = I(a, b, d, e, f, g, x, j, k, o) BY <2>1
      <3> HIDE DEF m1
      <3>3. m2 = I(a, b, d, e, f, g, x, j, y, o) BY <3>2
      <3> HIDE DEF m2
      <3>4. m3 = I(a, b, d, e, z, g, x, j, y, o) BY <3>3
      <3> HIDE DEF m3
      <3>5. [m3 EXCEPT !.nodes = u] = I(a, b, d, e, z, g, x, u, y, o) BY <3>4
      <3> QED BY <3>1, <3>5
    <2>i. [m EXCEPT !.made = y, !.moved = x] = I(y, b, d, e, f, g, x, j, k, o)
      <3> DEFINE m1 == [m EXCEPT !.made = y]
      <3>1. [m EXCEPT !.made = y, !.moved = x] = [m1 EXCEPT !.moved = x] OBVIOUS
      <3>2. m1 = I(y, b, d, e, f, g, h, j, k, o) BY <2>1
      <3> HIDE DEF m1
      <3>3. [m1 EXCEPT !.moved = x] = I(y, b, d, e, f, g, x, j, k, o) BY <3>2
      <3> QED BY <3>1, <3>3
    <2>3. \A a2, b2, d2, e2, f2, g2, h2, j2, k2, o2 :
            (/\ \A l \in DOMAIN e2 : e2[l] \in 0..R
             /\ \A l \in DOMAIN h2 : h2[l].from \in 1..nb)
            => ImageOK(I(a2, b2, d2, e2, f2, g2, h2, j2, k2, o2), nb, R)
      BY DEF ImageOK
    <2>4. /\ \A l \in DOMAIN e : e[l] \in 0..R
          /\ \A l \in DOMAIN h : h[l].from \in 1..nb
      BY <1>2, <2>1 DEF ImageOK
    <2> HIDE DEF I
    <2> QED BY <2>3, <2>4, <2>a, <2>b, <2>c, <2>d, <2>e, <2>f, <2>g, <2>h, <2>i
  <1> QED BY <1>1, <1>2

LEMMA Tables ==
    /\ \A t, i, row : /\ DOMAIN Put(t, i, row) = DOMAIN t \cup {i} /\ Put(t, i, row)[i] = row
                      /\ \A k \in DOMAIN t : k # i => Put(t, i, row)[k] = t[k]
    /\ \A s, t : /\ DOMAIN Over(s, t) = DOMAIN s \cup DOMAIN t
                 /\ \A k \in DOMAIN s : Over(s, t)[k] = s[k]
                 /\ \A k \in DOMAIN t : k \notin DOMAIN s => Over(s, t)[k] = t[k]
  BY DEF Put, Over

LEMMA CatChanged ==
    ASSUME NEW c, c = [node |-> c.node, link |-> c.link, sup |-> c.sup], NEW x, NEW y
    PROVE  /\ [c EXCEPT !.node = x] = [node |-> x, link |-> c.link, sup |-> c.sup]
           /\ [c EXCEPT !.link = y] = [node |-> c.node, link |-> y, sup |-> c.sup]
           /\ [c EXCEPT !.sup = x] = [node |-> c.node, link |-> c.link, sup |-> x]
           /\ [c EXCEPT !.node = x, !.link = y] = [node |-> x, link |-> y, sup |-> c.sup]
           /\ [c EXCEPT !.link = y, !.node = x] = [node |-> x, link |-> y, sup |-> c.sup]
  <1>1. PICK a, b, d : c = [node |-> a, link |-> b, sup |-> d] OBVIOUS
  <1>2. /\ [c EXCEPT !.node = x] = [node |-> x, link |-> b, sup |-> d]
        /\ [c EXCEPT !.link = y] = [node |-> a, link |-> y, sup |-> d]
        /\ [c EXCEPT !.sup = x] = [node |-> a, link |-> b, sup |-> x]
    BY <1>1
  <1> DEFINE n == [c EXCEPT !.node = x]
             l == [c EXCEPT !.link = y]
  <1>3. [c EXCEPT !.node = x, !.link = y] = [n EXCEPT !.link = y] OBVIOUS
  <1>4. [c EXCEPT !.link = y, !.node = x] = [l EXCEPT !.node = x] OBVIOUS
  <1>5. n = [node |-> x, link |-> b, sup |-> d] /\ l = [node |-> a, link |-> y, sup |-> d] BY <1>2
  <1> HIDE DEF n, l
  <1>6. [n EXCEPT !.link = y] = [node |-> x, link |-> y, sup |-> d] BY <1>5
  <1>7. [l EXCEPT !.node = x] = [node |-> x, link |-> y, sup |-> d] BY <1>5
  <1> QED BY <1>1, <1>2, <1>3, <1>4, <1>6, <1>7

LEMMA CreateFacts ==
    ASSUME NEW nb \in Nat, NEW K \in Nat, NEW L \in Nat, NEW R \in Nat,
           NEW c, RowsOK(c, K, L, nb, R), NEW parent, NEW title, NEW id \in Nat \ {0}
    PROVE  LET res == Create(c, id, parent, title)
           IN  /\ RowsOK(res.c, K + id, L, nb, R) /\ ImageOK(res.image, nb, R)
               /\ DOMAIN res.c.node = DOMAIN c.node \cup {id}
               /\ res.c.link = c.link /\ res.c.sup = c.sup
  <1> DEFINE N == Put(c.node, id, NewNode(parent, title, "node"))
             res == Create(c, id, parent, title)
  <1>1. res.c = [c EXCEPT !.node = N] /\ res.image = [NoImage EXCEPT !.made = {id}]
    BY DEF Create, Result
  <1>2. /\ c = [node |-> c.node, link |-> c.link, sup |-> c.sup]
        /\ \A n \in DOMAIN c.node : n \in 1..K /\ IsNode(c.node[n], R)
        /\ \A l \in DOMAIN c.link :
             l \in 1..L /\ IsLink(c.link[l], R) /\ c.link[l].node \in 1..nb \cup DOMAIN c.node
        /\ \A l, k \in DOMAIN c.link :
             c.link[l].node = c.link[k].node /\ c.link[l].item = c.link[k].item => l = k
    BY RowsParts
  <1>3. DOMAIN N = DOMAIN c.node \cup {id} BY Tables
  <1>4. \A n \in DOMAIN N : n \in 1..(K + id) /\ IsNode(N[n], R)
    <2>1. IsNode(NewNode(parent, title, "node"), R) BY RowFacts
    <2>2. ASSUME NEW n \in DOMAIN N PROVE n \in 1..(K + id) /\ IsNode(N[n], R)
      <3>1. CASE n = id BY <2>1, <3>1, Tables
      <3>2. CASE n # id /\ n \in DOMAIN c.node
        <4>1. n \in 1..K /\ IsNode(c.node[n], R) BY <1>2, <3>2
        <4>2. N[n] = c.node[n] BY <3>2, Tables
        <4>3. n \in 1..(K + id) BY <4>1
        <4> QED BY <4>1, <4>2, <4>3
      <3> QED BY <1>3, <2>2, <3>1, <3>2
    <2> QED BY <2>2
  <1> HIDE DEF N
  <1>5. res.c = [node |-> N, link |-> c.link, sup |-> c.sup] BY <1>1, <1>2, CatChanged
  <1>6. \A l \in DOMAIN c.link :
          l \in 1..L /\ IsLink(c.link[l], R) /\ c.link[l].node \in 1..nb \cup DOMAIN N
    BY <1>2, <1>3
  <1>7. RowsOK([node |-> N, link |-> c.link, sup |-> c.sup], K + id, L, nb, R)
    BY <1>2, <1>4, <1>6, Rows
  <1>8. ImageOK(res.image, nb, R)
    <2>1. ImageOK(NoImage, nb, R) BY ImageFacts
    <2>2. ImageOK([NoImage EXCEPT !.made = {id}], nb, R) BY <2>1, ImageFacts
    <2> QED BY <1>1, <2>2
  <1> QED BY <1>3, <1>5, <1>7, <1>8

\* Links that change their marks only, some of them deleted.
LEMMA Remarked ==
    ASSUME NEW c, NEW K, NEW L, NEW nb, NEW R, RowsOK(c, K, L, nb, R),
           NEW N, NEW K2, NEW R2, \A n \in DOMAIN N : n \in 1..K2 /\ IsNode(N[n], R2),
           DOMAIN c.node \subseteq 1..nb \cup DOMAIN N,
           NEW M, DOMAIN M \subseteq DOMAIN c.link,
           \A l \in DOMAIN M : /\ IsLink(M[l], R2)
                               /\ M[l].node = c.link[l].node /\ M[l].item = c.link[l].item,
           NEW S
    PROVE  RowsOK([node |-> N, link |-> M, sup |-> S], K2, L, nb, R2)
  <1>1. /\ \A l \in DOMAIN c.link :
             l \in 1..L /\ IsLink(c.link[l], R) /\ c.link[l].node \in 1..nb \cup DOMAIN c.node
        /\ \A l, k \in DOMAIN c.link :
             c.link[l].node = c.link[k].node /\ c.link[l].item = c.link[k].item => l = k
    BY RowsParts
  <1>2. \A l \in DOMAIN M : l \in 1..L /\ IsLink(M[l], R2) /\ M[l].node \in 1..nb \cup DOMAIN N
    BY <1>1
  <1>3. \A l, k \in DOMAIN M : M[l].node = M[k].node /\ M[l].item = M[k].item => l = k
    <2> SUFFICES ASSUME NEW l \in DOMAIN M, NEW k \in DOMAIN M,
                        M[l].node = M[k].node, M[l].item = M[k].item
                 PROVE  l = k
      OBVIOUS
    <2>1. l \in DOMAIN c.link /\ k \in DOMAIN c.link OBVIOUS
    <2>2. c.link[l].node = c.link[k].node /\ c.link[l].item = c.link[k].item OBVIOUS
    <2> QED BY <1>1, <2>1, <2>2
  <1> QED BY <1>2, <1>3, Rows

LEMMA FileFacts ==
    ASSUME NEW nb \in Nat, NEW K \in Nat, NEW L \in Nat, NEW R \in Nat,
           NEW c, RowsOK(c, K, L, nb, R), NEW id \in Nat \ {0}, NEW n \in DOMAIN c.node, NEW item
    PROVE  LET res == File(c, id, n, item)
           IN  /\ RowsOK(res.c, K, L + id, nb, R) /\ ImageOK(res.image, nb, R)
               /\ res.c.node = c.node /\ res.c.sup = c.sup
  <1> DEFINE res == File(c, id, n, item)
  <1>1. /\ c = [node |-> c.node, link |-> c.link, sup |-> c.sup]
        /\ \A m \in DOMAIN c.node : m \in 1..K /\ IsNode(c.node[m], R)
        /\ \A l \in DOMAIN c.link :
             l \in 1..L /\ IsLink(c.link[l], R) /\ c.link[l].node \in 1..nb \cup DOMAIN c.node
        /\ \A l, k \in DOMAIN c.link :
             c.link[l].node = c.link[k].node /\ c.link[l].item = c.link[k].item => l = k
    BY RowsParts
  <1>2. ImageOK(NoImage, nb, R) BY ImageFacts
  <1>3. 1..L \subseteq 1..(L + id) /\ id \in 1..(L + id) OBVIOUS
  <1>4. CASE Held(c, n, item) = {}
    <2> DEFINE M == Put(c.link, id, NewLink(n, item))
    <2>1. res.c = [c EXCEPT !.link = M] /\ res.image = [NoImage EXCEPT !.drop = {id}]
      BY <1>4 DEF File, Result
    <2>2. ImageOK([NoImage EXCEPT !.drop = {id}], nb, R) BY <1>2, ImageFacts
    <2>3. /\ DOMAIN M = DOMAIN c.link \cup {id} /\ M[id] = NewLink(n, item)
          /\ \A k \in DOMAIN c.link : k # id => M[k] = c.link[k]
      BY DEF Put
    <2>4. IsLink(NewLink(n, item), R) /\ NewLink(n, item).node = n /\ NewLink(n, item).item = item
      BY RowFacts
    <2> HIDE DEF M
    <2>5. \A l \in DOMAIN M : l \in 1..(L + id) /\ IsLink(M[l], R) /\ M[l].node \in 1..nb \cup DOMAIN c.node
      BY <1>1, <1>3, <2>3, <2>4
    <2>6. \A k \in DOMAIN c.link : ~(c.link[k].node = n /\ c.link[k].item = item)
      BY <1>4 DEF Held
    <2>7. \A l, k \in DOMAIN M : M[l].node = M[k].node /\ M[l].item = M[k].item => l = k
      <3> SUFFICES ASSUME NEW l \in DOMAIN M, NEW k \in DOMAIN M,
                          M[l].node = M[k].node, M[l].item = M[k].item
                   PROVE  l = k
        OBVIOUS
      <3>1. CASE l = id /\ k # id BY <2>3, <2>4, <2>6, <3>1
      <3>2. CASE l # id /\ k = id BY <2>3, <2>4, <2>6, <3>2
      <3>3. CASE l # id /\ k # id BY <1>1, <2>3, <3>3
      <3> QED BY <3>1, <3>2, <3>3
    <2>8. res.c = [node |-> c.node, link |-> M, sup |-> c.sup] BY <1>1, <2>1, CatChanged
    <2>9. RowsOK([node |-> c.node, link |-> M, sup |-> c.sup], K, L + id, nb, R)
      BY <1>1, <2>5, <2>7, Rows
    <2> HIDE DEF res
    <2> QED BY <2>1, <2>2, <2>8, <2>9 DEF res
  <1>5. CASE Held(c, n, item) # {}
    <2> DEFINE l == CHOOSE l \in Held(c, n, item) : TRUE
               M == [c.link EXCEPT ![l] = [@ EXCEPT !.by = 0]]
               old == [k \in {l} |-> c.link[l].by]
    <2>1. l \in DOMAIN c.link BY <1>5 DEF Held
    <2>2. /\ res.c = [c EXCEPT !.link[l].by = 0] /\ res.image = [NoImage EXCEPT !.remark = old]
      BY <1>5 DEF File, Result
    <2>3. [c EXCEPT !.link[l].by = 0] = [c EXCEPT !.link = M] OBVIOUS
    <2>4. \A k \in DOMAIN old : old[k] \in 0..R BY <1>1, <2>1 DEF IsLink
    <2>5. DOMAIN M = DOMAIN c.link /\ \A k \in DOMAIN c.link :
             M[k] = IF k = l THEN [c.link[l] EXCEPT !.by = 0] ELSE c.link[k]
      BY <2>1
    <2> HIDE DEF M, l, old
    <2>6. ImageOK([NoImage EXCEPT !.remark = old], nb, R) BY <1>2, <2>4, ImageFacts
    <2>7. \A k \in DOMAIN M : /\ IsLink(M[k], R)
                              /\ M[k].node = c.link[k].node /\ M[k].item = c.link[k].item
      <3>1. 0 \in 0..R /\ IsLink(c.link[l], R) BY <1>1, <2>1
      <3>2. M[l] = [c.link[l] EXCEPT !.by = 0] BY <2>1, <2>5
      <3>3. IsLink(M[l], R) /\ M[l].node = c.link[l].node /\ M[l].item = c.link[l].item
        BY <3>1, <3>2, LinkChanged
      <3> QED BY <1>1, <2>5, <3>3
    <2>8. res.c = [node |-> c.node, link |-> M, sup |-> c.sup] BY <1>1, <2>2, <2>3, CatChanged
    <2>9. RowsOK([node |-> c.node, link |-> M, sup |-> c.sup], K, L, nb, R)
      BY <1>1, <2>5, <2>7, Remarked
    <2>10. RowsOK([node |-> c.node, link |-> M, sup |-> c.sup], K, L + id, nb, R)
      <3>1. L + id \in Nat /\ L <= L + id OBVIOUS
      <3> QED BY <2>9, <3>1, WiderRows
    <2> HIDE DEF res
    <2> QED BY <2>2, <2>6, <2>8, <2>10 DEF res
  <1> QED BY <1>4, <1>5

LEMMA SupersedeFacts ==
    ASSUME NEW nb \in Nat, NEW K \in Nat, NEW L \in Nat, NEW R \in Nat,
           NEW c, RowsOK(c, K, L, nb, R), NEW p
    PROVE  ResultOK(Supersede(c, p), nb, R)
  <1> DEFINE old == ChainHead(c.sup, p.old)
             S == Put(c.sup, old, p.new)
             res == Supersede(c, p)
  <1>1. res.c = [c EXCEPT !.sup = S] /\ res.image = [NoImage EXCEPT !.sup = {old}]
    BY DEF Supersede, Result
  <1>2. ImageOK(NoImage, nb, R) BY ImageFacts
  <1> HIDE DEF S, old
  <1>3. ImageOK([NoImage EXCEPT !.sup = {old}], nb, R) BY <1>2, ImageFacts
  <1>4. c = [node |-> c.node, link |-> c.link, sup |-> c.sup] BY RowsParts
  <1>5. res.c = [node |-> c.node, link |-> c.link, sup |-> S] BY <1>1, <1>4, CatChanged
  <1>6. RowsOK([node |-> c.node, link |-> c.link, sup |-> S], K, L, nb, R)
    BY RowsParts, Rows
  <1> HIDE DEF res
  <1> QED BY <1>1, <1>3, <1>5, <1>6 DEF ResultOK, res

LEMMA PromoteFacts ==
    ASSUME NEW nb \in Nat, NEW K \in Nat, NEW L \in Nat, NEW R \in Nat,
           NEW c, RowsOK(c, K, L, nb, R), NEW p
    PROVE  ResultOK(Promote(c, p), nb, R)
  <1> DEFINE known == {p.node} \cap DOMAIN c.node
             hung == [n \in known |-> [c.node[n] EXCEPT !.parent = p.to]]
             N == Over(hung, c.node)
             was == [n \in known |-> c.node[n].parent]
             res == Promote(c, p)
  <1>1. res.c = [c EXCEPT !.node = N] /\ res.image = [NoImage EXCEPT !.parent = was]
    BY DEF Promote, Result
  <1>2. ImageOK(NoImage, nb, R) BY ImageFacts
  <1>3. /\ c = [node |-> c.node, link |-> c.link, sup |-> c.sup]
        /\ \A n \in DOMAIN c.node : n \in 1..K /\ IsNode(c.node[n], R)
    BY RowsParts
  <1>4. /\ DOMAIN N = DOMAIN c.node
        /\ \A n \in DOMAIN c.node : N[n] = IF n \in known THEN hung[n] ELSE c.node[n]
    BY DEF Over
  <1>5. \A n \in known : n \in DOMAIN c.node /\ hung[n] = [c.node[n] EXCEPT !.parent = p.to] OBVIOUS
  <1> HIDE DEF known, hung, N, was
  <1>6. ASSUME NEW n \in DOMAIN N PROVE n \in 1..K /\ IsNode(N[n], R)
    <2>1. n \in 1..K /\ IsNode(c.node[n], R) BY <1>3, <1>4, <1>6
    <2>2. N[n] = c.node[n] \/ N[n] = [c.node[n] EXCEPT !.parent = p.to] BY <1>4, <1>5, <1>6
    <2> QED BY <2>1, <2>2, NodeChanged
  <1>7. ImageOK([NoImage EXCEPT !.parent = was], nb, R) BY <1>2, ImageFacts
  <1>8. res.c = [node |-> N, link |-> c.link, sup |-> c.sup] BY <1>1, <1>3, CatChanged
  <1>9. RowsOK([node |-> N, link |-> c.link, sup |-> c.sup], K, L, nb, R)
    <2>1. \A n \in DOMAIN N : n \in 1..K /\ IsNode(N[n], R) BY <1>6
    <2> QED BY <1>4, <2>1, RowsParts, Rows
  <1> HIDE DEF res
  <1> QED BY <1>1, <1>7, <1>8, <1>9 DEF ResultOK, res

\* The digest is a node no link hangs from, and its citations cite once.
LEMMA CollapseFacts ==
    ASSUME NEW nb \in Nat, NEW L \in Nat, NEW R \in Nat, NEW r \in 0..R,
           NEW c, RowsOK(c, nb, L, nb, R), NEW p, IsSeq(p.cites)
    PROVE  ResultOK(Collapse(c, p, r, nb, L), nb, R)
  <1> DEFINE digest == nb + 1
             first == {k \in 1..Len(p.cites) : \A j \in 1..(k - 1) : p.cites[j] # p.cites[k]}
             made == [l \in {L + k : k \in first} |-> NewLink(digest, p.cites[l - L])]
             gone == Subtree(c, p.node)
             links == LinksUnder(c, p.node)
             mark(t, ids) == [i \in DOMAIN t |-> IF i \in ids /\ t[i].by = 0 THEN [t[i] EXCEPT !.by = r] ELSE t[i]]
             node == NewNode(c.node[p.node].parent, DigestTitle, "digest")
             oldN == mark(c.node, gone)
             oldM == mark(c.link, links)
             N == Put(oldN, digest, node)
             M == Over(made, oldM)
             res == Collapse(c, p, r, nb, L)
             cites == DOMAIN made
  <1>1. /\ res.c = [node |-> N, link |-> M, sup |-> c.sup]
        /\ res.image = [NoImage EXCEPT !.made = {digest}, !.cites = cites, !.nodes = gone, !.links = links]
    BY DEF Collapse, Result
  <1>2. ImageOK(NoImage, nb, R) BY ImageFacts
  <1>3. /\ \A n \in DOMAIN c.node : n \in 1..nb /\ IsNode(c.node[n], R)
        /\ \A l \in DOMAIN c.link :
             l \in 1..L /\ IsLink(c.link[l], R) /\ c.link[l].node \in 1..nb \cup DOMAIN c.node
        /\ \A l, k \in DOMAIN c.link :
             c.link[l].node = c.link[k].node /\ c.link[l].item = c.link[k].item => l = k
    BY RowsParts
  <1>4. Len(p.cites) \in Nat BY SeqFacts
  <1>5. /\ \A n \in DOMAIN oldN : n \in 1..nb /\ IsNode(oldN[n], R)
        /\ DOMAIN oldN = DOMAIN c.node
    <2>1. DOMAIN oldN = DOMAIN c.node OBVIOUS
    <2>2. \A n \in DOMAIN c.node : oldN[n] = c.node[n] \/ oldN[n] = [c.node[n] EXCEPT !.by = r] OBVIOUS
    <2> HIDE DEF oldN
    <2>3. ASSUME NEW n \in DOMAIN c.node PROVE n \in 1..nb /\ IsNode(oldN[n], R)
      <3>1. n \in 1..nb /\ IsNode(c.node[n], R) BY <1>3, <2>3
      <3> QED BY <2>2, <2>3, <3>1, NodeChanged
    <2> QED BY <2>1, <2>3
  <1>6. /\ DOMAIN oldM = DOMAIN c.link
        /\ \A l \in DOMAIN c.link : /\ l \in 1..L /\ IsLink(oldM[l], R)
                                    /\ oldM[l].node \in 1..nb
                                    /\ oldM[l].node = c.link[l].node /\ oldM[l].item = c.link[l].item
    <2>1. DOMAIN oldM = DOMAIN c.link OBVIOUS
    <2>2. \A l \in DOMAIN c.link : oldM[l] = c.link[l] \/ oldM[l] = [c.link[l] EXCEPT !.by = r] OBVIOUS
    <2> HIDE DEF oldM
    <2>3. ASSUME NEW l \in DOMAIN c.link
          PROVE  /\ l \in 1..L /\ IsLink(oldM[l], R) /\ oldM[l].node \in 1..nb
                 /\ oldM[l].node = c.link[l].node /\ oldM[l].item = c.link[l].item
      <3>1. l \in 1..L /\ IsLink(c.link[l], R) /\ c.link[l].node \in 1..nb BY <1>3, <2>3
      <3>3. CASE oldM[l] = c.link[l] BY <3>1, <3>3
      <3>4. CASE oldM[l] = [c.link[l] EXCEPT !.by = r]
        <4>1. IsLink(oldM[l], R) /\ oldM[l].node = c.link[l].node /\ oldM[l].item = c.link[l].item
          BY <3>1, <3>4, LinkChanged
        <4> QED BY <3>1, <4>1
      <3> QED BY <2>2, <2>3, <3>3, <3>4
    <2> QED BY <2>1, <2>3
  <1>7. \A l \in DOMAIN made : /\ l - L \in 1..Len(p.cites) /\ l \in Nat
                               /\ l = L + (l - L) /\ l - L \in first
                               /\ made[l] = NewLink(digest, p.cites[l - L])
    <2>1. ASSUME NEW l \in DOMAIN made
          PROVE  l - L \in first /\ l - L \in Nat /\ l \in Nat /\ l = L + (l - L)
      <3>1. PICK k \in first : l = L + k BY <2>1
      <3>2. k \in Nat BY <1>4, <3>1
      <3>3. l - L = k BY <3>1, <3>2
      <3> QED BY <3>1, <3>2, <3>3
    <2>2. \A l \in DOMAIN made : made[l] = NewLink(digest, p.cites[l - L]) OBVIOUS
    <2> HIDE DEF made
    <2> QED BY <2>1, <2>2
  <1>8. \A l, k \in DOMAIN made : p.cites[l - L] = p.cites[k - L] => l = k
    <2> HIDE DEF made
    <2> SUFFICES ASSUME NEW l \in DOMAIN made, NEW k \in DOMAIN made, p.cites[l - L] = p.cites[k - L]
                 PROVE  l = k
      OBVIOUS
    <2>0. PICK a, b : a = l - L /\ b = k - L OBVIOUS
    <2>1. /\ a \in 1..Len(p.cites) /\ b \in 1..Len(p.cites) /\ l = L + a /\ k = L + b
          /\ a \in first /\ b \in first
      BY <1>7, <2>0
    <2>2. ~(a < b)
      <3>1. a < b => a \in 1..(b - 1) BY <1>4, <2>1
      <3> QED BY <2>0, <2>1, <3>1
    <2>3. ~(b < a)
      <3>1. b < a => b \in 1..(a - 1) BY <1>4, <2>1
      <3> QED BY <2>0, <2>1, <3>1
    <2>4. a \in Int /\ b \in Int BY <1>4, <2>1
    <2>5. a = b BY <2>2, <2>3, <2>4
    <2> QED BY <2>1, <2>5
  <1>9. /\ DOMAIN N = DOMAIN oldN \cup {digest} /\ N[digest] = node
        /\ \A n \in DOMAIN oldN : n # digest => N[n] = oldN[n]
    <2> HIDE DEF oldN, node
    <2> QED BY DEF Put
  <1>10. /\ DOMAIN M = DOMAIN made \cup DOMAIN oldM /\ \A l \in DOMAIN made : M[l] = made[l]
         /\ \A l \in DOMAIN oldM : l \notin DOMAIN made => M[l] = oldM[l]
    <2> HIDE DEF oldM, made
    <2> QED BY DEF Over
  <1>11. IsNode(node, R) BY RowFacts
  <1>12. \A x : IsLink(NewLink(digest, x), R) /\ NewLink(digest, x).node = digest /\ NewLink(digest, x).item = x
    BY RowFacts
  <1> HIDE DEF N, M, oldN, oldM, made, node, gone, links, first, cites
  <1>13. \A n \in DOMAIN N : n \in 1..(nb + 1) /\ IsNode(N[n], R)
    <2>1. digest \in 1..(nb + 1) /\ 1..nb \subseteq 1..(nb + 1) OBVIOUS
    <2> QED BY <1>5, <1>9, <1>11, <2>1
  <1>14. \A l \in DOMAIN made : /\ l \in 1..(L + Len(p.cites)) /\ IsLink(M[l], R)
                                /\ M[l].node = digest /\ M[l].item = p.cites[l - L]
    BY <1>4, <1>7, <1>10, <1>12
  <1>15. \A l \in DOMAIN M \ DOMAIN made :
            /\ l \in 1..L /\ IsLink(M[l], R) /\ M[l].node \in 1..nb
            /\ l \in DOMAIN c.link /\ M[l].node = c.link[l].node /\ M[l].item = c.link[l].item
    BY <1>6, <1>10
  <1>16. \A l \in DOMAIN M : /\ l \in 1..(L + Len(p.cites)) /\ IsLink(M[l], R)
                             /\ M[l].node \in 1..nb \cup DOMAIN N
    <2>1. 1..L \subseteq 1..(L + Len(p.cites)) BY <1>4
    <2> QED BY <1>9, <1>14, <1>15, <2>1
  <1>17. \A l, k \in DOMAIN M : M[l].node = M[k].node /\ M[l].item = M[k].item => l = k
    <2> SUFFICES ASSUME NEW l \in DOMAIN M, NEW k \in DOMAIN M,
                        M[l].node = M[k].node, M[l].item = M[k].item
                 PROVE  l = k
      OBVIOUS
    <2>1. digest \notin 1..nb OBVIOUS
    <2>2. l \in DOMAIN made <=> k \in DOMAIN made
      <3> HIDE DEF digest
      <3> QED BY <1>14, <1>15, <2>1
    <2>3. CASE l \in DOMAIN made BY <1>8, <1>14, <2>2, <2>3
    <2>4. CASE l \notin DOMAIN made BY <1>3, <1>15, <2>2, <2>4
    <2> QED BY <2>3, <2>4
  <1>18. RowsOK([node |-> N, link |-> M, sup |-> c.sup], nb + 1, L + Len(p.cites), nb, R)
    <2> HIDE DEF digest
    <2> QED BY <1>13, <1>16, <1>17, Rows
  <1>19. ImageOK([NoImage EXCEPT !.made = {digest}, !.cites = cites, !.nodes = gone, !.links = links], nb, R)
    BY <1>2, ImageFacts
  <1>20. nb + 1 \in Nat /\ L + Len(p.cites) \in Nat BY <1>4
  <1> HIDE DEF res
  <1> QED BY <1>1, <1>18, <1>19, <1>20 DEF ResultOK, res

\* The parts are nodes no link hangs from, and what moves hung from one node.
LEMMA SplitFacts ==
    ASSUME NEW nb \in Nat, NEW L \in Nat, NEW R \in Nat,
           NEW c, RowsOK(c, nb, L, nb, R), NEW p, IsSeq(p.parts), p.node \in DOMAIN c.node
    PROVE  ResultOK(Split(c, p, nb), nb, R)
  <1> DEFINE part(k) == {l \in p.parts[k].links \cap LiveRows(c.link) : c.link[l].node = p.node}
             home == [l \in UNION {part(k) : k \in 1..Len(p.parts)} |->
                        nb + (CHOOSE k \in 1..Len(p.parts) : l \in part(k))]
             made == [n \in {nb + k : k \in 1..Len(p.parts)} |->
                        NewNode(c.node[p.node].parent, p.parts[n - nb].title, "node")]
             N == Over(made, c.node)
             M == [l \in DOMAIN c.link |-> IF l \in DOMAIN home
                                           THEN [c.link[l] EXCEPT !.node = home[l]] ELSE c.link[l]]
             moved == [l \in DOMAIN home |-> [from |-> p.node, at |-> home[l]]]
             res == Split(c, p, nb)
             parts == DOMAIN made
  <1>1. /\ res.c = [c EXCEPT !.node = N, !.link = M]
        /\ res.image = [NoImage EXCEPT !.made = parts, !.moved = moved]
    BY DEF Split, Result
  <1>2. ImageOK(NoImage, nb, R) BY ImageFacts
  <1>3. /\ c = [node |-> c.node, link |-> c.link, sup |-> c.sup]
        /\ \A n \in DOMAIN c.node : n \in 1..nb /\ IsNode(c.node[n], R)
        /\ \A l \in DOMAIN c.link :
             l \in 1..L /\ IsLink(c.link[l], R) /\ c.link[l].node \in 1..nb \cup DOMAIN c.node
        /\ \A l, k \in DOMAIN c.link :
             c.link[l].node = c.link[k].node /\ c.link[l].item = c.link[k].item => l = k
    BY RowsParts
  <1>4. Len(p.parts) \in Nat BY SeqFacts
  <1>5. \A l \in DOMAIN home : /\ l \in DOMAIN c.link /\ c.link[l].node = p.node
                               /\ home[l] \in {nb + k : k \in 1..Len(p.parts)}
    <2> SUFFICES ASSUME NEW l \in DOMAIN home
                 PROVE  /\ l \in DOMAIN c.link /\ c.link[l].node = p.node
                        /\ home[l] \in {nb + k : k \in 1..Len(p.parts)}
      OBVIOUS
    <2>1. PICK k \in 1..Len(p.parts) : l \in part(k) OBVIOUS
    <2>2. (CHOOSE j \in 1..Len(p.parts) : l \in part(j)) \in 1..Len(p.parts)
      <3> HIDE DEF part
      <3> QED BY <2>1
    <2>3. home[l] = nb + (CHOOSE j \in 1..Len(p.parts) : l \in part(j))
      <3> HIDE DEF part
      <3> QED OBVIOUS
    <2>4. l \in DOMAIN c.link /\ c.link[l].node = p.node BY <2>1 DEF LiveRows
    <2> HIDE DEF home, part
    <2> QED BY <2>2, <2>3, <2>4
  <1>6. \A n \in DOMAIN made : n \in 1..(nb + Len(p.parts)) /\ n \notin 1..nb /\ IsNode(made[n], R)
    <2> SUFFICES ASSUME NEW n \in DOMAIN made
                 PROVE  n \in 1..(nb + Len(p.parts)) /\ n \notin 1..nb /\ IsNode(made[n], R)
      OBVIOUS
    <2>1. PICK k \in 1..Len(p.parts) : n = nb + k OBVIOUS
    <2>2. PICK x, y : made[n] = NewNode(x, y, "node") OBVIOUS
    <2> HIDE DEF made
    <2>3. IsNode(made[n], R) BY <2>2, RowFacts
    <2>4. n \in 1..(nb + Len(p.parts)) /\ n \notin 1..nb BY <1>4, <2>1
    <2> QED BY <2>3, <2>4
  <1>7. DOMAIN made = {nb + k : k \in 1..Len(p.parts)} OBVIOUS
  <1>8. /\ DOMAIN N = DOMAIN made \cup DOMAIN c.node
        /\ \A n \in DOMAIN made : N[n] = made[n]
        /\ \A n \in DOMAIN c.node : n \notin DOMAIN made => N[n] = c.node[n]
    <2> HIDE DEF made
    <2> QED BY DEF Over
  <1>9. /\ DOMAIN M = DOMAIN c.link
        /\ \A l \in DOMAIN c.link : l \notin DOMAIN home => M[l] = c.link[l]
        /\ \A l \in DOMAIN c.link : l \in DOMAIN home => M[l] = [c.link[l] EXCEPT !.node = home[l]]
    <2> HIDE DEF home
    <2> QED OBVIOUS
  <1>10. \A l \in DOMAIN moved : moved[l].from = p.node
    <2> HIDE DEF home
    <2> QED OBVIOUS
  <1> HIDE DEF N, M, made, home, moved, part, parts
  <1>11. \A n \in DOMAIN N : n \in 1..(nb + Len(p.parts)) /\ IsNode(N[n], R)
    <2>1. 1..nb \subseteq 1..(nb + Len(p.parts)) BY <1>4
    <2> QED BY <1>3, <1>6, <1>8, <2>1
  <1>12. \A l \in DOMAIN M \ DOMAIN home : M[l] = c.link[l] /\ l \in DOMAIN c.link /\ M[l].node \in 1..nb
    BY <1>3, <1>9
  <1>13. \A l \in DOMAIN M \cap DOMAIN home :
            /\ l \in DOMAIN c.link /\ c.link[l].node = p.node
            /\ IsLink(M[l], R) /\ M[l].node \in DOMAIN made /\ M[l].item = c.link[l].item
    <2> SUFFICES ASSUME NEW l \in DOMAIN M \cap DOMAIN home
                 PROVE  /\ l \in DOMAIN c.link /\ c.link[l].node = p.node
                        /\ IsLink(M[l], R) /\ M[l].node \in DOMAIN made /\ M[l].item = c.link[l].item
      OBVIOUS
    <2>1. l \in DOMAIN c.link /\ c.link[l].node = p.node /\ home[l] \in DOMAIN made BY <1>5, <1>7
    <2>2. M[l] = [c.link[l] EXCEPT !.node = home[l]] BY <1>9, <2>1
    <2>3. IsLink(c.link[l], R) BY <1>3, <2>1
    <2>4. IsLink(M[l], R) /\ M[l].node = home[l] /\ M[l].item = c.link[l].item
      BY <2>2, <2>3, LinkChanged
    <2> QED BY <2>1, <2>4
  <1>14. \A l \in DOMAIN M : l \in 1..L /\ IsLink(M[l], R) /\ M[l].node \in 1..nb \cup DOMAIN N
    BY <1>3, <1>8, <1>9, <1>12, <1>13
  <1>15. \A l, k \in DOMAIN M : M[l].node = M[k].node /\ M[l].item = M[k].item => l = k
    <2> SUFFICES ASSUME NEW l \in DOMAIN M, NEW k \in DOMAIN M,
                        M[l].node = M[k].node, M[l].item = M[k].item
                 PROVE  l = k
      OBVIOUS
    <2>1. l \in DOMAIN home <=> k \in DOMAIN home BY <1>6, <1>12, <1>13
    <2>2. CASE l \in DOMAIN home BY <1>3, <1>13, <2>1, <2>2
    <2>3. CASE l \notin DOMAIN home BY <1>3, <1>12, <2>1, <2>3
    <2> QED BY <2>2, <2>3
  <1>16. ImageOK([NoImage EXCEPT !.made = parts, !.moved = moved], nb, R)
    <2>1. \A l \in DOMAIN moved : moved[l].from \in 1..nb BY <1>3, <1>10
    <2> QED BY <1>2, <2>1, ImageFacts
  <1>17. RowsOK([node |-> N, link |-> M, sup |-> c.sup], nb + Len(p.parts), L, nb, R)
    BY <1>11, <1>14, <1>15, Rows
  <1>18. res.c = [node |-> N, link |-> M, sup |-> c.sup] BY <1>1, <1>3, CatChanged
  <1>19. nb + Len(p.parts) \in Nat BY <1>4
  <1> HIDE DEF res
  <1> QED BY <1>1, <1>16, <1>17, <1>18, <1>19 DEF ResultOK, res

\* What a merge has made of the rows when some nodes are absorbed.
MergedOK(s, target, L, nb, R) ==
    /\ RowsOK(s.c, nb, L, nb, R) /\ ImageOK(s.image, nb, R) /\ target \in DOMAIN s.c.node

\* A link moves to the target only where the target has none to the item.
LEMMA AbsorbFacts ==
    ASSUME NEW nb \in Nat, NEW L \in Nat, NEW R \in Nat, NEW r \in 0..R,
           NEW s, NEW target, MergedOK(s, target, L, nb, R), NEW other
    PROVE  MergedOK(Absorb(s, target, other, r), target, L, nb, R)
  <1> DEFINE c == s.c
             links == LinksAt(c, other)
             left == Twins(c, target, links)
             moved == links \ left
             kids == Children(c, other)
             hung == [n \in DOMAIN c.node |-> IF n \in kids THEN [c.node[n] EXCEPT !.parent = target]
                                                            ELSE c.node[n]]
             M == [l \in DOMAIN c.link |-> IF l \in left THEN [c.link[l] EXCEPT !.by = r]
                                           ELSE IF l \in moved THEN [c.link[l] EXCEPT !.node = target]
                                           ELSE c.link[l]]
             N == [hung EXCEPT ![other].by = r]
             away == Over([l \in moved |-> [from |-> other, at |-> 0]], s.image.moved)
             marks == s.image.links \cup left
             rehung == Over([k \in kids |-> other], s.image.parent)
             gone == s.image.nodes \cup {other}
             res == Absorb(s, target, other, r)
  <1>1. CASE other \notin LiveNodes(c)
    <2>1. res = s BY <1>1 DEF Absorb
    <2> QED BY <2>1
  <1>2. CASE other \in LiveNodes(c)
    <2>1. /\ res.c = [c EXCEPT !.link = M, !.node = N]
          /\ res.image = [s.image EXCEPT !.moved = away, !.links = marks, !.parent = rehung, !.nodes = gone]
      BY <1>2 DEF Absorb, Result
    <2>2. /\ c = [node |-> c.node, link |-> c.link, sup |-> c.sup]
          /\ \A n \in DOMAIN c.node : n \in 1..nb /\ IsNode(c.node[n], R)
          /\ \A l \in DOMAIN c.link :
               l \in 1..L /\ IsLink(c.link[l], R) /\ c.link[l].node \in 1..nb \cup DOMAIN c.node
          /\ \A l, k \in DOMAIN c.link :
               c.link[l].node = c.link[k].node /\ c.link[l].item = c.link[k].item => l = k
      BY RowsParts DEF MergedOK
    <2>3. target \in DOMAIN c.node /\ ImageOK(s.image, nb, R) BY DEF MergedOK
    <2>4. other \in DOMAIN c.node BY <1>2 DEF LiveNodes, LiveRows
    <2>5. \A l \in links : l \in DOMAIN c.link /\ c.link[l].node = other BY DEF LinksAt, LiveRows
    <2>6. \A l \in moved : l \in links /\ l \notin left
                           /\ \A k \in DOMAIN c.link :
                                c.link[k].node = target /\ c.link[k].item = c.link[l].item => k = l
      BY DEF Twins, Held
    <2>7. left \subseteq links BY DEF Twins
    <2>8. /\ DOMAIN M = DOMAIN c.link
          /\ \A l \in DOMAIN c.link : l \in left => M[l] = [c.link[l] EXCEPT !.by = r]
          /\ \A l \in DOMAIN c.link : l \in moved /\ l \notin left => M[l] = [c.link[l] EXCEPT !.node = target]
          /\ \A l \in DOMAIN c.link : l \notin left /\ l \notin moved => M[l] = c.link[l]
      <3> HIDE DEF left, moved, links
      <3> QED OBVIOUS
    <2>9. /\ DOMAIN hung = DOMAIN c.node
          /\ \A n \in DOMAIN c.node : hung[n] = c.node[n] \/ hung[n] = [c.node[n] EXCEPT !.parent = target]
      <3> HIDE DEF kids
      <3> QED OBVIOUS
    <2>10. /\ DOMAIN N = DOMAIN hung
           /\ \A n \in DOMAIN hung : N[n] = hung[n] \/ N[n] = [hung[n] EXCEPT !.by = r]
      <3> HIDE DEF hung
      <3> QED OBVIOUS
    <2>11. \A l \in DOMAIN away : away[l].from = other
                                  \/ (l \in DOMAIN s.image.moved /\ away[l] = s.image.moved[l])
      <3> HIDE DEF moved
      <3> QED BY DEF Over
    <2> HIDE DEF M, N, hung, away, marks, rehung, gone, moved, left, links, kids, res
    <2>12. \A n \in DOMAIN N : n \in 1..nb /\ IsNode(N[n], R)
      <3> SUFFICES ASSUME NEW n \in DOMAIN N PROVE n \in 1..nb /\ IsNode(N[n], R) OBVIOUS
      <3>1. n \in 1..nb /\ IsNode(c.node[n], R) /\ n \in DOMAIN hung BY <2>2, <2>9, <2>10
      <3>2. IsNode(hung[n], R) BY <2>9, <3>1, NodeChanged
      <3>3. IsNode(N[n], R) BY <2>10, <3>1, <3>2, NodeChanged
      <3> QED BY <3>1, <3>3
    <2>13. \A l \in DOMAIN c.link :
             /\ IsLink(M[l], R) /\ M[l].item = c.link[l].item
             /\ l \in moved => M[l].node = target
             /\ l \notin moved => M[l].node = c.link[l].node
      <3> SUFFICES ASSUME NEW l \in DOMAIN c.link
                   PROVE  /\ IsLink(M[l], R) /\ M[l].item = c.link[l].item
                          /\ l \in moved => M[l].node = target
                          /\ l \notin moved => M[l].node = c.link[l].node
        OBVIOUS
      <3>1. IsLink(c.link[l], R) BY <2>2
      <3>2. CASE l \in left
        <4>1. M[l] = [c.link[l] EXCEPT !.by = r] /\ l \notin moved BY <2>6, <2>8, <3>2
        <4>2. IsLink(M[l], R) /\ M[l].node = c.link[l].node /\ M[l].item = c.link[l].item
          BY <3>1, <4>1, LinkChanged
        <4> QED BY <4>1, <4>2
      <3>3. CASE l \notin left /\ l \in moved
        <4>1. M[l] = [c.link[l] EXCEPT !.node = target] BY <2>8, <3>3
        <4>2. IsLink(M[l], R) /\ M[l].node = target /\ M[l].item = c.link[l].item
          BY <3>1, <4>1, LinkChanged
        <4> QED BY <3>3, <4>2
      <3>4. CASE l \notin left /\ l \notin moved BY <2>8, <3>1, <3>4
      <3> QED BY <3>2, <3>3, <3>4
    <2>14. \A l \in DOMAIN M : l \in 1..L /\ IsLink(M[l], R) /\ M[l].node \in 1..nb \cup DOMAIN N
      BY <2>2, <2>3, <2>8, <2>9, <2>10, <2>13
    <2>15. \A l, k \in DOMAIN M : M[l].node = M[k].node /\ M[l].item = M[k].item => l = k
      <3> SUFFICES ASSUME NEW l \in DOMAIN M, NEW k \in DOMAIN M,
                          M[l].node = M[k].node, M[l].item = M[k].item
                   PROVE  l = k
        OBVIOUS
      <3>1. /\ l \in DOMAIN c.link /\ k \in DOMAIN c.link /\ c.link[l].item = c.link[k].item
        BY <2>8, <2>13
      <3>2. CASE l \in moved /\ k \in moved
        <4>1. c.link[l].node = other /\ c.link[k].node = other BY <2>5, <2>6, <3>2
        <4> QED BY <2>2, <3>1, <4>1
      <3>3. CASE l \in moved /\ k \notin moved
        <4>1. c.link[k].node = target BY <2>13, <3>1, <3>3
        <4> QED BY <2>6, <3>1, <3>3, <4>1
      <3>4. CASE l \notin moved /\ k \in moved
        <4>1. c.link[l].node = target BY <2>13, <3>1, <3>4
        <4> QED BY <2>6, <3>1, <3>4, <4>1
      <3>5. CASE l \notin moved /\ k \notin moved
        <4>1. c.link[l].node = c.link[k].node BY <2>13, <3>1, <3>5
        <4> QED BY <2>2, <3>1, <4>1
      <3> QED BY <3>2, <3>3, <3>4, <3>5
    <2>16. RowsOK([node |-> N, link |-> M, sup |-> c.sup], nb, L, nb, R)
      BY <2>12, <2>14, <2>15, Rows
    <2>17. res.c = [node |-> N, link |-> M, sup |-> c.sup] BY <2>1, <2>2, CatChanged
    <2>18. ImageOK(res.image, nb, R)
      <3>1. \A l \in DOMAIN s.image.moved : s.image.moved[l].from \in 1..nb BY <2>3 DEF ImageOK
      <3>2. \A l \in DOMAIN away : away[l].from \in 1..nb BY <2>2, <2>4, <2>11, <3>1
      <3>3. PICK m : m = s.image OBVIOUS
      <3>4. ImageOK(m, nb, R) BY <2>3, <3>3
      <3>5. ImageOK([m EXCEPT !.moved = away, !.links = marks, !.parent = rehung, !.nodes = gone], nb, R)
        BY <3>2, <3>4, ImageFacts
      <3> QED BY <2>1, <3>3, <3>5
    <2>19. DOMAIN res.c.node = DOMAIN c.node BY <2>9, <2>10, <2>17
    <2>20. RowsOK(res.c, nb, L, nb, R) BY <2>16, <2>17
    <2>21. MergedOK(res, target, L, nb, R) BY <2>3, <2>18, <2>19, <2>20 DEF MergedOK
    <2> QED BY <2>21 DEF res
  <1> QED BY <1>1, <1>2

\* The nodes are absorbed one after the other.
\* A merge before it absorbs, and after each node that it has absorbed.
MergeStart(c, p) ==
    LET target == Head(p.ids)
        old == c.node[target]
        named == [old EXCEPT !.title = IF p.title = "" THEN @ ELSE p.title,
                             !.parent = IF p.to = 0 THEN @ ELSE p.to]
    IN  Result([c EXCEPT !.node[target] = named],
               [NoImage EXCEPT !.title = [n \in {target} |-> old.title],
                               !.parent = [n \in {target} |-> old.parent]],
               {Node(target)})
Merging(f, c, p, r, m) ==
    f = [k \in 1..m |-> IF k = 1 THEN MergeStart(c, p) ELSE Absorb(f[k - 1], Head(p.ids), p.ids[k], r)]

LEMMA MergeSteps ==
    ASSUME NEW c, NEW p, IsSeq(p.ids), p.ids # << >>, NEW r
    PROVE  /\ Len(p.ids) \in Nat /\ 1 <= Len(p.ids)
           /\ \E f : Merging(f, c, p, r, Len(p.ids)) /\ Merge(c, p, r) = f[Len(p.ids)]
  <1> DEFINE target == Head(p.ids)
             start == MergeStart(c, p)
             n == Len(p.ids)
             T == {m \in Nat : \E f : Merging(f, c, p, r, m)}
  <1>1. n \in Nat /\ 1 <= n
    <2>1. p.ids \in Seq(Range(p.ids)) BY DEF IsSeq
    <2> QED BY <2>1, EmptySeq, LenProperties
  <1>2. \E f : Merging(f, c, p, r, n)
    <2>1. 0 \in T
      <3>1. [k \in {} |-> 0] = [k \in 1..0 |-> IF k = 1 THEN start ELSE Absorb([j \in {} |-> 0][k - 1], target, p.ids[k], r)]
        OBVIOUS
      <3>2. Merging([k \in {} |-> 0], c, p, r, 0) BY <3>1 DEF Merging
      <3> QED BY <3>2
    <2>2. ASSUME NEW m \in 0..n, m \in T PROVE m + 1 \in T
      <3>1. PICK f : Merging(f, c, p, r, m) BY <2>2
      <3> DEFINE g == [k \in 1..(m + 1) |-> IF k = m + 1 THEN (IF k = 1 THEN start ELSE Absorb(f[m], target, p.ids[k], r))
                                            ELSE f[k]]
      <3> HIDE DEF start, target
      <3>2. m \in Nat /\ m + 1 \in Nat BY <1>1
      <3>3. ASSUME NEW k \in 1..(m + 1)
            PROVE  g[k] = IF k = 1 THEN start ELSE Absorb(g[k - 1], target, p.ids[k], r)
        <4>1. CASE k = m + 1 /\ k = 1 BY <4>1
        <4>2. CASE k = m + 1 /\ k # 1
          <5>1. k - 1 = m /\ m \in 1..(m + 1) /\ m # m + 1 BY <3>2, <4>2
          <5>2. g[k - 1] = f[m] BY <5>1
          <5> QED BY <4>2, <5>2
        <4>3. CASE k # m + 1
          <5>1. k \in 1..m BY <3>2, <4>3
          <5>2. g[k] = f[k] BY <4>3
          <5>3. f[k] = IF k = 1 THEN start ELSE Absorb(f[k - 1], target, p.ids[k], r)
            BY <3>1, <5>1 DEF Merging, start, target
          <5>4. k # 1 => k - 1 \in 1..(m + 1) /\ k - 1 # m + 1 BY <3>2, <5>1
          <5>5. k # 1 => g[k - 1] = f[k - 1] BY <5>4
          <5> QED BY <5>2, <5>3, <5>5
        <4> QED BY <4>1, <4>2, <4>3
      <3>4. Merging(g, c, p, r, m + 1)
        <4>1. g = [k \in 1..(m + 1) |-> g[k]] OBVIOUS
        <4> HIDE DEF g
        <4>2. g = [k \in 1..(m + 1) |-> IF k = 1 THEN start ELSE Absorb(g[k - 1], target, p.ids[k], r)]
          BY <3>3, <4>1
        <4> QED BY <4>2 DEF Merging, start, target
      <3> HIDE DEF g
      <3> QED BY <3>2, <3>4
    <2>3. 0..n \subseteq T
      <3> HIDE DEF T
      <3>1. 0 \in Int /\ n \in Int BY <1>1
      <3>2. \A m \in 0..n : m < n /\ m \in T => m + 1 \in T BY <2>2
      <3> QED BY <2>1, <3>1, <3>2, IntervalInduction
    <2>4. n \in 0..n BY <1>1
    <2> QED BY <2>3, <2>4
  <1>3. \E f : Merging(f, c, p, r, n) /\ Merge(c, p, r) = f[n]
    BY <1>2 DEF Merge, Merging, MergeStart
  <1> QED BY <1>1, <1>3

LEMMA StartImage ==
    ASSUME NEW nb, NEW R, NEW x, NEW y
    PROVE  ImageOK([NoImage EXCEPT !.title = x, !.parent = y], nb, R)
  <1>1. ImageOK(NoImage, nb, R) BY ImageFacts
  <1> QED BY <1>1, ImageFacts

LEMMA MergeStartFacts ==
    ASSUME NEW nb \in Nat, NEW L \in Nat, NEW R \in Nat,
           NEW c, RowsOK(c, nb, L, nb, R), NEW p, Head(p.ids) \in DOMAIN c.node
    PROVE  MergedOK(MergeStart(c, p), Head(p.ids), L, nb, R)
  <1> DEFINE target == Head(p.ids)
             old == c.node[target]
             title == IF p.title = "" THEN old.title ELSE p.title
             parent == IF p.to = 0 THEN old.parent ELSE p.to
             named == [old EXCEPT !.title = title, !.parent = parent]
             wasT == [n \in {target} |-> old.title]
             wasP == [n \in {target} |-> old.parent]
             start == MergeStart(c, p)
             N == [c.node EXCEPT ![target] = named]
             image == [NoImage EXCEPT !.title = wasT, !.parent = wasP]
  <1>1. /\ c = [node |-> c.node, link |-> c.link, sup |-> c.sup]
        /\ \A m \in DOMAIN c.node : m \in 1..nb /\ IsNode(c.node[m], R)
    BY RowsParts
  <1>2. start.c = [c EXCEPT !.node[target] = named] /\ start.image = image BY DEF MergeStart, Result
  <1>3. [c EXCEPT !.node[target] = named] = [c EXCEPT !.node = N]
    <2> HIDE DEF named, target
    <2> QED OBVIOUS
  <1>4. DOMAIN N = DOMAIN c.node /\ \A m \in DOMAIN c.node : N[m] = IF m = target THEN named ELSE c.node[m]
    <2> HIDE DEF named, target
    <2> QED OBVIOUS
  <1>5. IsNode(named, R)
    <2> HIDE DEF N, image, start, title, parent, wasT, wasP
    <2>0. old = [parent |-> old.parent, title |-> old.title, kind |-> old.kind, by |-> old.by] /\ old.by \in 0..R
      BY <1>1 DEF IsNode
    <2> HIDE DEF old
    <2>1. PICK a, t, k, b : old = [parent |-> a, title |-> t, kind |-> k, by |-> b] BY <2>0
    <2>2. b \in 0..R BY <2>0, <2>1
    <2> DEFINE mid == [old EXCEPT !.title = title]
    <2>3. named = [mid EXCEPT !.parent = parent] OBVIOUS
    <2>4. mid = [parent |-> a, title |-> title, kind |-> k, by |-> b] BY <2>1
    <2> HIDE DEF mid
    <2>5. [mid EXCEPT !.parent = parent] = [parent |-> parent, title |-> title, kind |-> k, by |-> b]
      BY <2>4
    <2> QED BY <2>2, <2>3, <2>5 DEF IsNode
  <1> HIDE DEF wasT, wasP
  <1>6. ImageOK(image, nb, R) BY StartImage
  <1> HIDE DEF N, named, image, target, start, old, title, parent
  <1>7. start.c = [node |-> N, link |-> c.link, sup |-> c.sup] BY <1>1, <1>2, <1>3, CatChanged
  <1>8. \A m \in DOMAIN N : m \in 1..nb /\ IsNode(N[m], R) BY <1>1, <1>4, <1>5
  <1>9. RowsOK([node |-> N, link |-> c.link, sup |-> c.sup], nb, L, nb, R)
    BY <1>4, <1>8, RowsParts, Rows
  <1>10. RowsOK(start.c, nb, L, nb, R) BY <1>7, <1>9
  <1>11. target \in DOMAIN start.c.node BY <1>4, <1>7 DEF target
  <1> QED BY <1>2, <1>6, <1>10, <1>11 DEF MergedOK, start, target

LEMMA MergingFacts ==
    ASSUME NEW nb \in Nat, NEW L \in Nat, NEW R \in Nat, NEW r \in 0..R,
           NEW c, RowsOK(c, nb, L, nb, R), NEW p, IsSeq(p.ids), p.ids # << >>,
           Head(p.ids) \in DOMAIN c.node, NEW f, Merging(f, c, p, r, Len(p.ids))
    PROVE  \A k \in 1..Len(p.ids) : MergedOK(f[k], Head(p.ids), L, nb, R)
  <1> DEFINE target == Head(p.ids)
             n == Len(p.ids)
             G == {k \in 1..n : MergedOK(f[k], target, L, nb, R)}
  <1>1. n \in Nat /\ 1 <= n BY MergeSteps
  <1>2. \A k \in 1..n : f[k] = IF k = 1 THEN MergeStart(c, p) ELSE Absorb(f[k - 1], target, p.ids[k], r)
    BY DEF Merging
  <1>3. 1 \in G
    <2>1. 1 \in 1..n BY <1>1
    <2>2. f[1] = MergeStart(c, p) BY <1>2, <2>1
    <2>3. MergedOK(f[1], target, L, nb, R) BY <2>2, MergeStartFacts
    <2> QED BY <2>1, <2>3
  <1> HIDE DEF target
  <1>4. ASSUME NEW k \in 1..n, k < n, k \in G PROVE k + 1 \in G
    <2>1. k + 1 \in 1..n /\ k + 1 # 1 /\ (k + 1) - 1 = k BY <1>1, <1>4
    <2>2. f[k + 1] = Absorb(f[k], target, p.ids[k + 1], r) BY <1>2, <2>1
    <2>3. MergedOK(f[k], target, L, nb, R) BY <1>4
    <2>4. MergedOK(f[k + 1], target, L, nb, R) BY <2>2, <2>3, AbsorbFacts
    <2> QED BY <2>1, <2>4
  <1>5. 1..n \subseteq G
    <2> HIDE DEF G
    <2>1. \A k \in 1..n : k < n /\ k \in G => k + 1 \in G BY <1>4
    <2>2. 1 \in Int /\ n \in Int BY <1>1
    <2> QED BY <1>3, <2>1, <2>2, IntervalInduction
  <1> QED BY <1>5 DEF target

LEMMA MergeFacts ==
    ASSUME NEW nb \in Nat, NEW L \in Nat, NEW R \in Nat, NEW r \in 0..R,
           NEW c, RowsOK(c, nb, L, nb, R), NEW p, IsSeq(p.ids), p.ids # << >>,
           Head(p.ids) \in DOMAIN c.node
    PROVE  ResultOK(Merge(c, p, r), nb, R)
  <1>1. PICK f : Merging(f, c, p, r, Len(p.ids)) /\ Merge(c, p, r) = f[Len(p.ids)] BY MergeSteps
  <1>2. Len(p.ids) \in 1..Len(p.ids) BY MergeSteps
  <1>3. MergedOK(f[Len(p.ids)], Head(p.ids), L, nb, R) BY <1>1, <1>2, MergingFacts
  <1> QED BY <1>1, <1>3 DEF MergedOK, ResultOK

LEMMA NodeUndone ==
    ASSUME NEW R \in Nat, NEW x, IsNode(x, R), NEW y, NEW t, NEW b \in 0..R,
           NEW z, z = [x EXCEPT !.parent = y, !.title = t, !.by = b]
    PROVE  IsNode(z, R)
  <1>1. x = [parent |-> x.parent, title |-> x.title, kind |-> x.kind, by |-> x.by]
    BY DEF IsNode
  <1>2. PICK p, q, k, d : x = [parent |-> p, title |-> q, kind |-> k, by |-> d] BY <1>1
  <1> DEFINE m1 == [x EXCEPT !.parent = y]
             m2 == [m1 EXCEPT !.title = t]
  <1>3. z = [m2 EXCEPT !.by = b] OBVIOUS
  <1>4. m1 = [parent |-> y, title |-> q, kind |-> k, by |-> d] BY <1>2
  <1> HIDE DEF m1
  <1>5. m2 = [parent |-> y, title |-> t, kind |-> k, by |-> d] BY <1>4
  <1> HIDE DEF m2
  <1>6. z = [parent |-> y, title |-> t, kind |-> k, by |-> b] BY <1>3, <1>5
  <1> QED BY <1>6 DEF IsNode

\* Whether the index still holds is what the revert looks at.
LEMMA UndoFacts ==
    ASSUME NEW nb \in Nat, NEW L \in Nat, NEW R \in Nat, NEW r, NEW by \in 0..R,
           NEW c, RowsOK(c, nb, L, nb, R), NEW image, ImageOK(image, nb, R),
           LinksUnique(Undo(c, image, r, by))
    PROVE  RowsOK(Undo(c, image, r, by), nb, L, nb, R)
  <1> DEFINE P(n) == IF n \in DOMAIN image.parent THEN image.parent[n] ELSE c.node[n].parent
             Q(n) == IF n \in DOMAIN image.title THEN image.title[n] ELSE c.node[n].title
             B(n) == IF n \in image.made /\ c.node[n].by = 0 THEN by
                     ELSE IF n \in image.nodes /\ c.node[n].by = r THEN 0 ELSE c.node[n].by
             O(l) == IF l \in DOMAIN image.moved /\ image.moved[l].at \in {0, c.link[l].node}
                     THEN image.moved[l].from ELSE c.link[l].node
             D(l) == IF l \in DOMAIN image.remark THEN image.remark[l]
                     ELSE IF l \in image.cites /\ c.link[l].by = 0 THEN by
                     ELSE IF l \in image.links /\ c.link[l].by = r THEN 0 ELSE c.link[l].by
             N == [n \in DOMAIN c.node |-> [c.node[n] EXCEPT !.parent = P(n), !.title = Q(n), !.by = B(n)]]
             M == [l \in DOMAIN c.link \ image.drop |-> [c.link[l] EXCEPT !.node = O(l), !.by = D(l)]]
             S == [s \in DOMAIN c.sup \ image.sup |-> c.sup[s]]
             u == Undo(c, image, r, by)
  <1>1. u = [node |-> N, link |-> M, sup |-> S] BY DEF Undo
  <1>2. /\ \A n \in DOMAIN c.node : n \in 1..nb /\ IsNode(c.node[n], R)
        /\ \A l \in DOMAIN c.link :
             l \in 1..L /\ IsLink(c.link[l], R) /\ c.link[l].node \in 1..nb \cup DOMAIN c.node
    BY RowsParts
  <1>3. /\ \A l \in DOMAIN image.remark : image.remark[l] \in 0..R
        /\ \A l \in DOMAIN image.moved : image.moved[l].from \in 1..nb
    BY DEF ImageOK
  <1>4. ASSUME NEW n \in DOMAIN c.node PROVE B(n) \in 0..R
    <2>0. IsNode(c.node[n], R) BY <1>2, <1>4
    <2>1. c.node[n].by \in 0..R BY <2>0 DEF IsNode
    <2>2. 0 \in 0..R OBVIOUS
    <2> QED BY <2>1, <2>2
  <1>5. ASSUME NEW l \in DOMAIN c.link PROVE D(l) \in 0..R /\ O(l) \in 1..nb \cup DOMAIN c.node
    <2>0. IsLink(c.link[l], R) BY <1>2, <1>5
    <2>1. c.link[l].by \in 0..R BY <2>0 DEF IsLink
    <2>a. 0 \in 0..R OBVIOUS
    <2>2. D(l) \in 0..R BY <1>3, <2>1, <2>a
    <2>3. O(l) \in 1..nb \cup DOMAIN c.node BY <1>2, <1>3, <1>5
    <2> QED BY <2>2, <2>3
  <1>6. /\ DOMAIN N = DOMAIN c.node
        /\ \A n \in DOMAIN c.node : N[n] = [c.node[n] EXCEPT !.parent = P(n), !.title = Q(n), !.by = B(n)]
    <2> HIDE DEF P, Q, B
    <2> QED OBVIOUS
  <1>7. /\ DOMAIN M \subseteq DOMAIN c.link
        /\ \A l \in DOMAIN M : M[l] = [c.link[l] EXCEPT !.node = O(l), !.by = D(l)]
    <2> HIDE DEF O, D
    <2> QED OBVIOUS
  <1> HIDE DEF P, Q, B, O, D, N, M, S, u
  <1>8. ASSUME NEW n \in DOMAIN N PROVE n \in 1..nb /\ IsNode(N[n], R)
    <2>1. n \in DOMAIN c.node BY <1>6, <1>8
    <2>2. PICK x, y, t, b, z : x = c.node[n] /\ y = P(n) /\ t = Q(n) /\ b = B(n) /\ z = N[n] OBVIOUS
    <2>3. IsNode(x, R) /\ b \in 0..R BY <1>2, <1>4, <2>1, <2>2
    <2>4. z = [x EXCEPT !.parent = y, !.title = t, !.by = b] BY <1>6, <2>1, <2>2
    <2>5. IsNode(z, R) BY <2>3, <2>4, NodeUndone
    <2> QED BY <1>2, <2>1, <2>2, <2>5
  <1>9. ASSUME NEW l \in DOMAIN M
        PROVE  l \in 1..L /\ IsLink(M[l], R) /\ M[l].node \in 1..nb \cup DOMAIN N
    <2>1. l \in DOMAIN c.link BY <1>7, <1>9
    <2>2. PICK x, y, b, z : x = c.link[l] /\ y = O(l) /\ b = D(l) /\ z = M[l] OBVIOUS
    <2>3. IsLink(x, R) /\ b \in 0..R BY <1>2, <1>5, <2>1, <2>2
    <2>4. z = [x EXCEPT !.node = y, !.by = b] BY <1>7, <1>9, <2>2
    <2>5. IsLink(z, R) /\ z.node = y
      <3>1. x = [node |-> x.node, item |-> x.item, by |-> x.by] BY <2>3 DEF IsLink
      <3>2. PICK n, i, d : x = [node |-> n, item |-> i, by |-> d] BY <3>1
      <3> DEFINE m1 == [x EXCEPT !.node = y]
      <3>3. z = [m1 EXCEPT !.by = b] BY <2>4
      <3>4. m1 = [node |-> y, item |-> i, by |-> d] BY <3>2
      <3> HIDE DEF m1
      <3>5. z = [node |-> y, item |-> i, by |-> b] BY <3>3, <3>4
      <3>6. z.node = y /\ z.item = i /\ z.by = b BY <3>5
      <3>7. z = [node |-> z.node, item |-> z.item, by |-> z.by] BY <3>5, <3>6
      <3> QED BY <2>3, <3>6, <3>7 DEF IsLink
    <2> QED BY <1>2, <1>5, <1>6, <2>1, <2>2, <2>5, ZenonT(60)
  <1>10. \A l, k \in DOMAIN M : M[l].node = M[k].node /\ M[l].item = M[k].item => l = k
    <2>1. LinksUnique(u) BY DEF u
    <2>2. u.link = M BY <1>1
    <2> QED BY <2>1, <2>2 DEF LinksUnique
  <1>11. RowsOK([node |-> N, link |-> M, sup |-> S], nb, L, nb, R) BY <1>8, <1>9, <1>10, Rows
  <1>12. RowsOK(u, nb, L, nb, R) BY <1>1, <1>11
  <1> QED BY <1>12 DEF u

LEMMA VacuumFacts ==
    ASSUME NEW nb \in Nat, NEW L \in Nat, NEW R \in Nat, NEW c, RowsOK(c, nb, L, nb, R), NEW h
    PROVE  RowsOK(Vacuumed(c, h), nb, L, nb, R)
  <1> DEFINE N == Swept(c.node, h)
             M == Swept(c.link, h)
  <1>1. /\ c = [node |-> c.node, link |-> c.link, sup |-> c.sup]
        /\ \A n \in DOMAIN c.node : n \in 1..nb /\ IsNode(c.node[n], R)
        /\ \A l \in DOMAIN c.link : IsLink(c.link[l], R)
    BY RowsParts
  <1>2. Vacuumed(c, h) = [c EXCEPT !.node = N, !.link = M] BY DEF Vacuumed
  <1>3. /\ DOMAIN N \subseteq DOMAIN c.node /\ \A n \in DOMAIN N : N[n] = c.node[n]
        /\ DOMAIN M \subseteq DOMAIN c.link /\ \A l \in DOMAIN M : M[l] = c.link[l]
    BY DEF Swept
  <1> HIDE DEF N, M
  <1>4. Vacuumed(c, h) = [node |-> N, link |-> M, sup |-> c.sup] BY <1>1, <1>2, CatChanged
  <1>5. DOMAIN c.node \subseteq 1..nb \cup DOMAIN N BY <1>1
  <1>6. RowsOK([node |-> N, link |-> M, sup |-> c.sup], nb, L, nb, R)
    BY <1>1, <1>3, <1>5, Remarked
  <1> QED BY <1>4, <1>6

\* The inverses of a run, newest operation first: unless one of them breaks
\* the index, the rows they leave are well-shaped.
LEMMA UndoneFacts ==
    ASSUME NEW nb \in Nat, NEW L \in Nat, NEW R \in Nat, RowsOK(cat, nb, L, nb, R),
           RunsOK(runs, nb, R), NEW r \in DOMAIN runs, NEW by \in 0..R, Undone(r, by).ok
    PROVE  RowsOK(Undone(r, by).c, nb, L, nb, R)
  <1> DEFINE n == Len(runs[r].ops)
             start == [c |-> cat, ok |-> TRUE]
             image(i) == runs[r].ops[i].image
             back(s, i) == Undo(s.c, runs[r].ops[i].image, r, by)
             step(s, i) == IF ~s.ok \/ i \notin Applied(r) THEN s
                           ELSE LET c == Undo(s.c, runs[r].ops[i].image, r, by) IN [c |-> c, ok |-> LinksUnique(c)]
             Steps(f, m) == f = [k \in 0..m |-> IF k = 0 THEN start ELSE step(f[k - 1], n + 1 - k)]
             T == {m \in Nat : \E f : Steps(f, m)}
  <1>1. IsRun(runs[r], nb, R) BY DEF RunsOK
  <1>2. n \in Nat /\ \A i \in DOMAIN runs[r].ops : IsOp(runs[r].ops[i], nb, R)
    BY <1>1, SeqFacts DEF IsRun
  <1>3. \E f : Steps(f, n)
    <2>1. 0 \in T
      <3>1. Steps([k \in {0} |-> start], 0)
        <4> HIDE DEF start, step
        <4>1. 0..0 = {0} OBVIOUS
        <4> QED BY <4>1
      <3> QED BY <3>1
    <2>2. ASSUME NEW m \in 0..n, m \in T PROVE m + 1 \in T
      <3>1. PICK f : Steps(f, m) BY <2>2
      <3> DEFINE g == [k \in 0..(m + 1) |-> IF k = m + 1 THEN step(f[m], n + 1 - k) ELSE f[k]]
      <3> HIDE DEF start, step
      <3>2. m \in Nat /\ m + 1 \in Nat BY <1>2
      <3>3. ASSUME NEW k \in 0..(m + 1)
            PROVE  g[k] = IF k = 0 THEN start ELSE step(g[k - 1], n + 1 - k)
        <4>1. CASE k = m + 1
          <5>1. k - 1 = m /\ m \in 0..(m + 1) /\ m # m + 1 /\ k # 0 BY <3>2, <4>1
          <5>2. g[m] = f[m] BY <5>1
          <5>3. g[k] = step(f[m], n + 1 - k) BY <4>1
          <5> QED BY <5>1, <5>2, <5>3
        <4>2. CASE k # m + 1
          <5>1. k \in 0..m BY <3>2, <4>2
          <5>2. g[k] = f[k] BY <4>2
          <5>3. f[k] = IF k = 0 THEN start ELSE step(f[k - 1], n + 1 - k) BY <3>1, <5>1
          <5>4. k # 0 => k - 1 \in 0..(m + 1) /\ k - 1 # m + 1 BY <3>2, <5>1
          <5>5. k # 0 => g[k - 1] = f[k - 1] BY <5>4
          <5> QED BY <5>2, <5>3, <5>5
        <4> QED BY <4>1, <4>2
      <3>4. Steps(g, m + 1)
        <4>1. g = [k \in 0..(m + 1) |-> g[k]] OBVIOUS
        <4> HIDE DEF g
        <4> QED BY <3>3, <4>1
      <3> HIDE DEF g, Steps
      <3> QED BY <3>2, <3>4
    <2>3. 0..n \subseteq T
      <3> HIDE DEF T
      <3>1. 0 \in Int /\ n \in Int BY <1>2
      <3>2. \A m \in 0..n : m < n /\ m \in T => m + 1 \in T BY <2>2
      <3> QED BY <2>1, <3>1, <3>2, IntervalInduction
    <2>4. n \in 0..n BY <1>2
    <2> QED BY <2>3, <2>4
  <1>4. PICK f : Steps(f, n) /\ Undone(r, by) = f[n]
    BY <1>3 DEF Undone
  <1> DEFINE Good(s) == s.ok => RowsOK(s.c, nb, L, nb, R)
             G == {k \in 0..n : Good(f[k])}
  <1>5. ASSUME NEW s, NEW i, Good(s) PROVE Good(step(s, i))
    <2>1. CASE ~s.ok \/ i \notin Applied(r) BY <1>5, <2>1
    <2>2. CASE s.ok /\ i \in Applied(r)
      <3>1. step(s, i).c = back(s, i) /\ step(s, i).ok = LinksUnique(back(s, i)) BY <2>2
      <3>2. ImageOK(image(i), nb, R) BY <1>2, <2>2 DEF Applied, IsOp
      <3>3. RowsOK(s.c, nb, L, nb, R) BY <1>5, <2>2
      <3> HIDE DEF step
      <3>4. LinksUnique(back(s, i)) => RowsOK(back(s, i), nb, L, nb, R) BY <3>2, <3>3, UndoFacts
      <3> QED BY <3>1, <3>4
    <2> QED BY <2>1, <2>2
  <1> HIDE DEF step
  <1>6. 0..n \subseteq G
    <2>1. 0 \in G
      <3>1. 0 \in 0..n BY <1>2
      <3>2. f[0] = start BY <1>4, <3>1
      <3> QED BY <3>1, <3>2
    <2>2. ASSUME NEW k \in 0..n, k < n, k \in G PROVE k + 1 \in G
      <3>1. k + 1 \in 0..n /\ k + 1 # 0 /\ (k + 1) - 1 = k BY <1>2, <2>2
      <3>2. f[k + 1] = step(f[k], n + 1 - (k + 1)) BY <1>4, <3>1
      <3>3. Good(f[k]) BY <2>2
      <3>4. Good(f[k + 1])
        <4> HIDE DEF Good
        <4> QED BY <1>5, <3>2, <3>3
      <3> QED BY <3>1, <3>4
    <2> HIDE DEF G
    <2>3. \A k \in 0..n : k < n /\ k \in G => k + 1 \in G BY <2>2
    <2>4. 0 \in Int /\ n \in Int BY <1>2
    <2> QED BY <2>1, <2>3, <2>4, IntervalInduction
  <1>7. Good(f[n]) BY <1>2, <1>6
  <1> QED BY <1>4, <1>7

-----------------------------------------------------------------------------
(* What the steps share.                                                   *)

LEMMA TablesParts ==
    ASSUME TablesOK
    PROVE  /\ newest = [node |-> newest.node, link |-> newest.link, prop |-> newest.prop]
           /\ newest.node \in Nat /\ newest.link \in Nat /\ newest.prop \in Nat
           /\ Len(runs) \in Nat /\ DOMAIN runs = 1..Len(runs) /\ IsSeq(runs)
           /\ \A r \in DOMAIN runs : IsRun(runs[r], newest.node, Len(runs))
           /\ RowsOK(cat, newest.node, newest.link, newest.node, Len(runs))
           /\ RunsOK(runs, newest.node, Len(runs))
           /\ QueueOK(queue, newest.prop) /\ OnceIn(runs, queue, newest.prop)
  BY SeqFacts DEF TablesOK, RunsOK

LEMMA SameTables ==
    ASSUME TablesOK, UNCHANGED <<cat, newest, runs, queue>>
    PROVE  TablesOK'
  BY DEF TablesOK

LEMMA SamePasses ==
    ASSUME TablesOK, TablesOK', PassesOK, UNCHANGED pass,
           newest.prop <= newest'.prop, Len(runs) <= Len(runs')
    PROVE  PassesOK'
  <1>1. /\ newest.prop \in Nat /\ newest'.prop \in Nat /\ Len(runs) \in Nat /\ Len(runs') \in Nat
    <2>1. newest.prop \in Nat /\ Len(runs) \in Nat BY TablesParts
    <2>2. IsSeq(runs)' /\ (newest.prop \in Nat)' BY DEF TablesOK, RunsOK
    <2>3. Len(runs') \in Nat BY <2>2, LenProperties DEF IsSeq
    <2> QED BY <2>1, <2>2, <2>3
  <1>2. ASSUME NEW w \in Workers PROVE IsPass(pass[w], newest'.prop, Len(runs'))
    <2>1. IsPass(pass[w], newest.prop, Len(runs)) BY DEF PassesOK
    <2>2. IsPass(pass[w], newest.prop, Len(runs')) BY <1>1, <2>1, Wider
    <2> QED BY <1>1, <2>2, Wider
  <1> QED BY <1>2 DEF PassesOK, Workers

LEMMA PassChanged ==
    ASSUME TablesOK, TablesOK', PassesOK, newest.prop <= newest'.prop, Len(runs) <= Len(runs'),
           NEW w \in Workers, NEW x, pass' = [pass EXCEPT ![w] = x],
           IsPass(x, newest'.prop, Len(runs'))
    PROVE  PassesOK'
  <1>1. /\ newest.prop \in Nat /\ newest'.prop \in Nat /\ Len(runs) \in Nat /\ Len(runs') \in Nat
    <2>1. newest.prop \in Nat /\ Len(runs) \in Nat BY TablesParts
    <2>2. IsSeq(runs)' /\ (newest.prop \in Nat)' BY DEF TablesOK, RunsOK
    <2>3. Len(runs') \in Nat BY <2>2, LenProperties DEF IsSeq
    <2> QED BY <2>1, <2>2, <2>3
  <1>2. DOMAIN pass' = Workers BY DEF PassesOK
  <1>3. ASSUME NEW v \in Workers PROVE IsPass(pass'[v], newest'.prop, Len(runs'))
    <2>1. IsPass(pass[v], newest.prop, Len(runs)) BY DEF PassesOK
    <2>2. IsPass(pass[v], newest.prop, Len(runs')) BY <1>1, <2>1, Wider
    <2>3. IsPass(pass[v], newest'.prop, Len(runs')) BY <1>1, <2>2, Wider
    <2>4. pass'[v] = x \/ pass'[v] = pass[v] BY DEF PassesOK
    <2> QED BY <2>3, <2>4
  <1> QED BY <1>2, <1>3 DEF PassesOK, Workers

\* Ids only grow, and no row has an id that was not given.
LEMMA NewIdsFacts ==
    ASSUME TablesOK, NEW c, NEW K \in Nat, NEW L \in Nat, NEW R \in Nat,
           RowsOK(c, K, L, newest.node, R), NEW props \in Nat, NewIds(c, props)
    PROVE  /\ newest' = [node |-> newest'.node, link |-> newest'.link, prop |-> newest'.prop]
           /\ newest'.node \in Nat /\ newest'.link \in Nat /\ newest'.prop = newest.prop + props
           /\ newest.node <= newest'.node /\ newest.link <= newest'.link
           /\ RowsOK(c, newest'.node, newest'.link, newest'.node, R)
  <1> DEFINE N == {newest.node} \cup DOMAIN c.node
             M == {newest.link} \cup DOMAIN c.link
  <1>1. newest' = [node |-> Max(N), link |-> Max(M), prop |-> newest.prop + props] BY DEF NewIds
  <1>2. newest.node \in Nat /\ newest.link \in Nat BY TablesParts
  <1>3. /\ \A n \in DOMAIN c.node : n \in 1..K /\ IsNode(c.node[n], R)
        /\ \A l \in DOMAIN c.link :
             l \in 1..L /\ IsLink(c.link[l], R) /\ c.link[l].node \in 1..newest.node \cup DOMAIN c.node
    BY RowsParts
  <1>4. N \subseteq Nat /\ \A n \in N : n <= K + newest.node
    <2>1. \A n \in 1..K : n \in Nat /\ n <= K + newest.node BY <1>2
    <2>2. newest.node <= K + newest.node BY <1>2
    <2> QED BY <1>2, <1>3, <2>1, <2>2
  <1>5. M \subseteq Nat /\ \A l \in M : l <= L + newest.link
    <2>1. \A n \in 1..L : n \in Nat /\ n <= L + newest.link BY <1>2
    <2>2. newest.link <= L + newest.link BY <1>2
    <2> QED BY <1>2, <1>3, <2>1, <2>2
  <1>6. Max(N) \in Nat /\ \A n \in N : n <= Max(N)
    <2>1. K + newest.node \in Nat /\ N # {} BY <1>2
    <2> HIDE DEF N
    <2> QED BY <1>4, <2>1, MaxFacts
  <1>7. Max(M) \in Nat /\ \A l \in M : l <= Max(M)
    <2>1. L + newest.link \in Nat /\ M # {} BY <1>2
    <2> HIDE DEF M
    <2> QED BY <1>5, <2>1, MaxFacts
  <1>8. /\ newest'.node = Max(N) /\ newest'.link = Max(M) /\ newest'.prop = newest.prop + props
        /\ newest' = [node |-> newest'.node, link |-> newest'.link, prop |-> newest'.prop]
    <2> HIDE DEF N, M
    <2> QED BY <1>1
  <1>9. newest.node <= Max(N) /\ newest.link <= Max(M) BY <1>6, <1>7
  <1>10. \A n \in DOMAIN c.node : n \in 1..Max(N)
    <2> SUFFICES ASSUME NEW n \in DOMAIN c.node PROVE n \in 1..Max(N) OBVIOUS
    <2>1. n \in 1..K /\ n <= Max(N) BY <1>3, <1>6
    <2> QED BY <1>6, <2>1
  <1>11. \A l \in DOMAIN c.link : l \in 1..Max(M)
    <2> SUFFICES ASSUME NEW l \in DOMAIN c.link PROVE l \in 1..Max(M) OBVIOUS
    <2>1. l \in 1..L /\ l <= Max(M) BY <1>3, <1>7
    <2> QED BY <1>7, <2>1
  <1>12. 1..newest.node \subseteq 1..Max(N) BY <1>2, <1>6, <1>9
  <1> HIDE DEF N, M
  <1>13. RowsOK(c, Max(N), Max(M), Max(N), R)
    BY <1>3, <1>10, <1>11, <1>12 DEF RowsOK
  <1> QED BY <1>6, <1>7, <1>8, <1>9, <1>13

\* One operation is committed, for no proposal or for one that leaves the queue.
LEMMA Committed ==
    ASSUME TablesOK, NEW r, NEW op, NEW res, NEW id,
           ResultOK(res, newest.node, Len(runs)),
           Commit(r, op, res, id), NewIds(cat', 0), queue' \subseteq queue,
           id # 0 => (\E o \in queue : o.id = id) /\ \A q \in queue' : q.id # id
    PROVE  TablesOK' /\ Len(runs') = Len(runs) /\ newest'.prop = newest.prop
  <1> DEFINE row == Row(op, res, id)
             nb == newest.node
             R == Len(runs)
  <1>1. /\ newest.node \in Nat /\ newest.link \in Nat /\ newest.prop \in Nat /\ R \in Nat
        /\ RunsOK(runs, nb, R) /\ QueueOK(queue, newest.prop) /\ OnceIn(runs, queue, newest.prop)
    BY TablesParts
  <1>2. cat' = res.c /\ runs' = Journal(runs, r, row) BY DEF Commit
  <1>3. PICK K \in Nat, L \in Nat : RowsOK(res.c, K, L, nb, R) BY DEF ResultOK
  <1>4. IsOp(row, nb, R) /\ row.prop = id
    <2>1. ImageOK(res.image, nb, R) BY DEF ResultOK
    <2> QED BY <2>1 DEF IsOp, Row, OpRow, OpOutcomes
  <1> HIDE DEF row
  <1>5. /\ RunsOK(runs', nb, R) /\ Len(runs') = R
        /\ \A k, i, x : DoneAt(runs', k, i, x) =>
             DoneAt(runs, k, i, x) \/ (k = r /\ i = Len(runs[r].ops) + 1 /\ x = id)
    BY <1>1, <1>2, <1>4, JournalFacts
  <1>6. /\ newest' = [node |-> newest'.node, link |-> newest'.link, prop |-> newest'.prop]
        /\ newest'.node \in Nat /\ newest'.link \in Nat /\ newest'.prop = newest.prop + 0
        /\ nb <= newest'.node
        /\ RowsOK(cat', newest'.node, newest'.link, newest'.node, R)
    <2>1. PICK c : c = cat' OBVIOUS
    <2>2. RowsOK(c, K, L, nb, R) /\ NewIds(c, 0) /\ 0 \in Nat BY <1>2, <1>3, <2>1
    <2> QED BY <1>1, <2>1, <2>2, NewIdsFacts
  <1>7. newest'.prop = newest.prop BY <1>1, <1>6
  <1>8. RunsOK(runs', newest'.node, R) BY <1>1, <1>5, <1>6, Wider
  <1>9. QueueOK(queue', newest.prop) BY <1>1 DEF QueueOK
  <1>10. OnceIn(runs', queue', newest.prop)
    <2>1. id # 0 => id \in 1..newest.prop BY <1>1 DEF QueueOK, IsProposal
    <2>2. PICK i0 : i0 = Len(runs[r].ops) + 1 OBVIOUS
    <2>3. \A k, i, x : DoneAt(runs', k, i, x) => DoneAt(runs, k, i, x) \/ (k = r /\ i = i0 /\ x = id)
      BY <1>5, <2>2
    <2>4. id # 0 => id \in 1..newest.prop /\ (\E o \in queue : o.id = id) /\ \A q \in queue' : q.id # id
      BY <2>1
    <2>5. PICK rs, rs2, qs, qs2, n : rs = runs /\ rs2 = runs' /\ qs = queue /\ qs2 = queue' /\ n = newest.prop
      OBVIOUS
    <2>6. /\ n \in Nat /\ OnceIn(rs, qs, n) /\ qs2 \subseteq qs
          /\ id # 0 => id \in 1..n /\ (\E o \in qs : o.id = id) /\ \A q \in qs2 : q.id # id
          /\ \A k, i, x : DoneAt(rs2, k, i, x) => DoneAt(rs, k, i, x) \/ (k = r /\ i = i0 /\ x = id)
      BY <1>1, <2>3, <2>4, <2>5
    <2>7. OnceIn(rs2, qs2, n) BY <2>6, OnceMore
    <2> QED BY <2>5, <2>7
  <1>11. TablesOK' BY <1>1, <1>5, <1>6, <1>7, <1>8, <1>9, <1>10 DEF TablesOK
  <1> QED BY <1>5, <1>7, <1>11

LEMMA Settled ==
    ASSUME TablesOK, NEW r, NEW q, NEW outcome \in {"expired", "refused"}, Settle(r, q, outcome)
    PROVE  TablesOK' /\ Len(runs') = Len(runs) /\ newest'.prop = newest.prop /\ slips' = slips
  <1> DEFINE row == OpRow(q.p.op, outcome, Subjects(q.p), NoImage, q.id)
             nb == newest.node
             R == Len(runs)
  <1>1. /\ newest.node \in Nat /\ newest.prop \in Nat /\ R \in Nat
        /\ RunsOK(runs, nb, R) /\ QueueOK(queue, newest.prop) /\ OnceIn(runs, queue, newest.prop)
    BY TablesParts
  <1>2. /\ runs' = Journal(runs, r, row) /\ queue' \subseteq queue
        /\ UNCHANGED <<cat, newest, slips>>
    BY DEF Settle, Without
  <1>3. IsOp(row, nb, R) /\ row.outcome \notin {"applied", "reverted"}
    <2>1. ImageOK(NoImage, nb, R) BY ImageFacts
    <2> QED BY <2>1 DEF IsOp, OpRow, OpOutcomes
  <1> HIDE DEF row
  <1>4. /\ RunsOK(runs', nb, R) /\ Len(runs') = R
        /\ \A k, i, x : DoneAt(runs', k, i, x) => DoneAt(runs, k, i, x)
    BY <1>1, <1>2, <1>3, JournalFacts
  <1>5. QueueOK(queue', newest.prop) BY <1>1, <1>2 DEF QueueOK
  <1>6. OnceIn(runs', queue', newest.prop)
    <2>1. newest.prop <= newest.prop /\ \A o \in queue' : o.id > newest.prop \/ \E z \in queue : o.id = z.id
      BY <1>1, <1>2
    <2> QED BY <1>1, <1>4, <2>1, StillOnce
  <1>7. TablesOK' BY <1>2, <1>4, <1>5, <1>6 DEF TablesOK
  <1> QED BY <1>2, <1>4, <1>7

LEMMA Waited ==
    ASSUME TablesOK, NEW q, NEW attempts \in 0..(MaxAttempts - 1), NEW after, Wait(q, attempts, after)
    PROVE  TablesOK' /\ Len(runs') = Len(runs) /\ newest'.prop = newest.prop /\ slips' = slips
  <1> DEFINE n == newest.prop
             again(o) == [o EXCEPT !.attempts = attempts, !.after = after]
  <1>1. n \in Nat /\ QueueOK(queue, n) /\ OnceIn(runs, queue, n) BY TablesParts
  <1>2. /\ queue' = Without(q.id) \cup {again(o) : o \in ById(q.id)}
        /\ UNCHANGED <<cat, newest, runs, slips>>
    BY DEF Wait
  <1>3. ASSUME NEW o \in queue PROVE IsProposal(again(o), n) /\ again(o).id = o.id
    <2>1. IsProposal(o, n) BY <1>1, <1>3 DEF QueueOK
    <2>2. o = [id |-> o.id, run |-> o.run, p |-> o.p, attempts |-> o.attempts, after |-> o.after]
          /\ o.id \in 1..n /\ WellFormed(o.p)
      BY <2>1 DEF IsProposal
    <2>3. PICK i, u, p, a, f : o = [id |-> i, run |-> u, p |-> p, attempts |-> a, after |-> f] BY <2>2
    <2> DEFINE m1 == [o EXCEPT !.attempts = attempts]
    <2>4. again(o) = [m1 EXCEPT !.after = after] OBVIOUS
    <2>5. m1 = [id |-> i, run |-> u, p |-> p, attempts |-> attempts, after |-> f] BY <2>3
    <2> HIDE DEF m1
    <2>6. again(o) = [id |-> i, run |-> u, p |-> p, attempts |-> attempts, after |-> after]
      BY <2>4, <2>5
    <2>7. i \in 1..n /\ WellFormed(p) BY <2>2, <2>3
    <2> HIDE DEF again
    <2>8. IsProposal(again(o), n) BY <2>6, <2>7 DEF IsProposal
    <2> QED BY <2>3, <2>6, <2>8
  <1> HIDE DEF again
  <1>4. \A o \in queue' : \/ o \in queue /\ o.id # q.id
                          \/ \E z \in queue : z.id = q.id /\ o = again(z) /\ o.id = z.id
    BY <1>2, <1>3 DEF Without, ById
  <1>5. QueueOK(queue', n)
    <2>1. ASSUME NEW o \in queue' PROVE IsProposal(o, n)
      BY <1>1, <1>3, <1>4 DEF QueueOK
    <2>2. ASSUME NEW o \in queue', NEW z \in queue', o.id = z.id PROVE o = z
      <3>1. CASE o.id = q.id
        <4>1. PICK a \in queue : a.id = q.id /\ o = again(a) BY <1>4, <3>1
        <4>2. PICK b \in queue : b.id = q.id /\ z = again(b) BY <1>4, <2>2, <3>1
        <4>3. a = b BY <1>1, <4>1, <4>2 DEF QueueOK
        <4> QED BY <4>1, <4>2, <4>3
      <3>2. CASE o.id # q.id
        <4>1. o \in queue /\ z \in queue BY <1>4, <2>2, <3>2
        <4> QED BY <1>1, <2>2, <4>1 DEF QueueOK
      <3> QED BY <3>1, <3>2
    <2> QED BY <2>1, <2>2 DEF QueueOK
  <1>6. OnceIn(runs', queue', n)
    <2>1. n <= n /\ \A o \in queue' : o.id > n \/ \E z \in queue : o.id = z.id BY <1>1, <1>4
    <2>2. \A r, i, id : DoneAt(runs', r, i, id) => DoneAt(runs, r, i, id) BY <1>2
    <2> QED BY <1>1, <2>1, <2>2, StillOnce
  <1>7. TablesOK' BY <1>2, <1>5, <1>6 DEF TablesOK
  <1> QED BY <1>2, <1>7

LEMMA EffectFacts ==
    ASSUME TablesOK, NEW p, WellFormed(p), Readable(p), NEW r \in 0..Len(runs)
    PROVE  ResultOK(Effect(p, r), newest.node, Len(runs))
  <1> DEFINE nb == newest.node
             L == newest.link
             R == Len(runs)
  <1>1. nb \in Nat /\ L \in Nat /\ R \in Nat /\ RowsOK(cat, nb, L, nb, R) BY TablesParts
  <1>2. p.op \in {"promote", "merge", "split", "collapse", "supersede"} BY DEF WellFormed
  <1>3. CASE p.op = "promote"
    <2>1. Effect(p, r) = Promote(cat, p) BY <1>3 DEF Effect
    <2>2. ResultOK(Promote(cat, p), nb, R) BY <1>1, PromoteFacts
    <2> QED BY <2>1, <2>2
  <1>4. CASE p.op = "merge"
    <2>1. Effect(p, r) = Merge(cat, p, r) BY <1>4 DEF Effect
    <2>2. IsSeq(p.ids) /\ p.ids # << >> /\ Head(p.ids) \in DOMAIN cat.node
      BY <1>4 DEF WellFormed, Readable, IsSeq
    <2>3. ResultOK(Merge(cat, p, r), nb, R) BY <1>1, <2>2, MergeFacts
    <2> QED BY <2>1, <2>3
  <1>5. CASE p.op = "split"
    <2>1. Effect(p, r) = Split(cat, p, nb) BY <1>5 DEF Effect
    <2>2. IsSeq(p.parts) /\ p.node \in DOMAIN cat.node
      BY <1>5 DEF WellFormed, Readable, IsSeq
    <2>3. ResultOK(Split(cat, p, nb), nb, R) BY <1>1, <2>2, SplitFacts
    <2> QED BY <2>1, <2>3
  <1>6. CASE p.op = "collapse"
    <2>1. Effect(p, r) = Collapse(cat, p, r, nb, L) BY <1>6 DEF Effect
    <2>2. IsSeq(p.cites) BY <1>6 DEF WellFormed, IsSeq
    <2>3. ResultOK(Collapse(cat, p, r, nb, L), nb, R) BY <1>1, <2>2, CollapseFacts
    <2> QED BY <2>1, <2>3
  <1>7. CASE p.op = "supersede"
    <2>1. Effect(p, r) = Supersede(cat, p) BY <1>7 DEF Effect
    <2>2. ResultOK(Supersede(cat, p), nb, R) BY <1>1, SupersedeFacts
    <2> QED BY <2>1, <2>2
  <1> QED BY <1>2, <1>3, <1>4, <1>5, <1>6, <1>7

LEMMA ApplyStep ==
    ASSUME TablesOK, PassesOK, slips \subseteq Slips, NEW w \in Workers,
           NEW q, IsProposal(q, newest.prop), NEW t, Apply(w, q, t)
    PROVE  TablesOK' /\ Len(runs') = Len(runs) /\ newest'.prop = newest.prop /\ slips' \subseteq Slips
  <1> DEFINE r == pass[w].run
  <1>1. CASE ById(q.id) = {} \/ ~Readable(q.p)
    <2>1. UNCHANGED <<cat, newest, runs, queue, undo, slips>> BY <1>1 DEF Apply
    <2> QED BY <2>1, SameTables
  <1>2. CASE ~(ById(q.id) = {} \/ ~Readable(q.p)) /\ q.p.op = "supersede" /\ ~Supersedable(cat, q.p)
    <2>1. queue' = Without(q.id) /\ UNCHANGED <<cat, newest, runs, undo, slips>> BY <1>2 DEF Apply
    <2>2. queue' \subseteq queue BY <2>1 DEF Without
    <2>3. newest.prop \in Nat /\ QueueOK(queue, newest.prop) /\ OnceIn(runs, queue, newest.prop)
      BY TablesParts
    <2>4. QueueOK(queue', newest.prop) BY <2>2, <2>3 DEF QueueOK
    <2>5. OnceIn(runs, queue', newest.prop)
      <3>1. newest.prop <= newest.prop /\ \A o \in queue' : o.id > newest.prop \/ \E z \in queue : o.id = z.id
        BY <2>2, <2>3
      <3> QED BY <2>3, <3>1, StillOnce
    <2> QED BY <2>1, <2>4, <2>5 DEF TablesOK
  <1>3. CASE ~(ById(q.id) = {} \/ ~Readable(q.p)) /\ ~(q.p.op = "supersede" /\ ~Supersedable(cat, q.p))
    <2> DEFINE res == Effect(q.p, r)
    <2>1. /\ Commit(r, q.p.op, res, q.id) /\ queue' = Without(q.id) /\ NewIds(cat', 0)
          /\ slips' = slips \cup Disorder(r)
                       \cup (IF t = View(cat).node THEN {} ELSE {"stale"})
                       \cup (IF Nested(q.p) THEN {"nested"} ELSE {})
                       \cup (IF Tangled(q.p) THEN {"tangled"} ELSE {})
      BY <1>3 DEF Apply
    <2>2. r \in 0..Len(runs) BY DEF PassesOK, IsPass
    <2>3. WellFormed(q.p) BY DEF IsProposal
    <2>4. ResultOK(res, newest.node, Len(runs)) BY <1>3, <2>2, <2>3, EffectFacts
    <2>5. queue' \subseteq queue /\ (\E o \in queue : o.id = q.id) /\ \A o \in queue' : o.id # q.id
      BY <1>3, <2>1 DEF Without, ById
    <2>6. slips' \subseteq Slips
      <3>1. Disorder(r) \subseteq {"disorder"} BY DEF Disorder
      <3> QED BY <2>1, <3>1 DEF Slips
    <2> HIDE DEF res, r
    <2>7. TablesOK' /\ Len(runs') = Len(runs) /\ newest'.prop = newest.prop
      <3>1. PICK id, op : id = q.id /\ op = q.p.op OBVIOUS
      <3>2. Commit(r, op, res, id) /\ (\E o \in queue : o.id = id) /\ \A o \in queue' : o.id # id
        BY <2>1, <2>5, <3>1
      <3> QED BY <2>1, <2>4, <2>5, <3>2, Committed
    <2> QED BY <2>6, <2>7
  <1> QED BY <1>1, <1>2, <1>3

LEMMA DeferStep ==
    ASSUME TablesOK, NEW r, NEW q, IsProposal(q, newest.prop), Defer(r, q)
    PROVE  TablesOK' /\ Len(runs') = Len(runs) /\ newest'.prop = newest.prop /\ slips' = slips
  <1>1. q.attempts \in 0..(MaxAttempts - 1) /\ MaxAttempts \in Nat \ {0}
    BY CatalogAssumptions DEF IsProposal
  <1>2. CASE q.attempts + 1 >= MaxAttempts
    <2>1. Settle(r, q, "expired") BY <1>2 DEF Defer
    <2> QED BY <2>1, Settled
  <1>3. CASE ~(q.attempts + 1 >= MaxAttempts)
    <2>1. PICK a, b : a = q.attempts + 1 /\ b = r + BackoffRuns(q.attempts + 1) OBVIOUS
    <2>2. Wait(q, a, b) BY <1>3, <2>1 DEF Defer
    <2>3. a \in 0..(MaxAttempts - 1) BY <1>1, <1>3, <2>1
    <2> QED BY <2>2, <2>3, Waited
  <1> QED BY <1>2, <1>3

-----------------------------------------------------------------------------
(* The passes.                                                             *)

\* Of some proposals there is an oldest.
LEMMA OldestFacts ==
    ASSUME NEW n, NEW qs, qs # {}, \A q \in qs : IsProposal(q, n)
    PROVE  Oldest(qs) \in qs
  <1> DEFINE ids == {q.id : q \in qs}
  <1>1. ids # {} /\ ids \subseteq Nat BY DEF IsProposal
  <1>2. PICK x \in ids : \A y \in ids : x <= y
    <2> HIDE DEF ids
    <2> QED BY <1>1, LeastNat
  <1>3. PICK q \in qs : x = q.id BY <1>2
  <1>4. \A o \in qs : q.id <= o.id BY <1>2, <1>3
  <1> QED BY <1>4 DEF Oldest

LEMMA NextAskedFacts ==
    ASSUME NEW n, NEW qs, qs # {}, \A q \in qs : IsProposal(q, n)
    PROVE  NextAsked(qs) \in qs
  <1> DEFINE first == {q \in qs : q.p.op = "supersede"}
             some == IF first = {} THEN qs ELSE first
  <1>1. some # {} /\ some \subseteq qs /\ \A q \in some : IsProposal(q, n) OBVIOUS
  <1>2. NextAsked(qs) = Oldest(some) BY DEF NextAsked
  <1> HIDE DEF some
  <1> QED BY <1>1, <1>2, OldestFacts

LEMMA Passes ==
    ASSUME CatInv, NEW w \in Workers
    PROVE  /\ TablesOK /\ PassesOK /\ slips \subseteq Slips /\ horizon \in 0..Len(runs)
           /\ newest.prop \in Nat /\ Len(runs) \in Nat /\ IsPass(pass[w], newest.prop, Len(runs))
           /\ \A q \in pass[w].due \cup pass[w].verify : IsProposal(q, newest.prop)
           /\ pass[w].run \in 0..Len(runs)
  BY TablesParts DEF CatInv, PassesOK, IsPass

LEMMA PassFacts ==
    ASSUME NEW n, NEW R \in Nat
    PROVE  /\ IsPass(Idle, n, R)
           /\ \A x : IsPass(x, n, R) =>
                /\ \A qs : qs \subseteq x.due => IsPass([x EXCEPT !.due = qs], n, R)
                /\ \A qs : qs \subseteq x.verify => IsPass([x EXCEPT !.verify = qs], n, R)
                /\ \A k : IsPass([x EXCEPT !.staged = k], n, R)
  <1>1. IsPass(Idle, n, R) BY DEF IsPass, Idle
  <1>2. ASSUME NEW x, IsPass(x, n, R), NEW k, NEW z
        PROVE  /\ z = [x EXCEPT !.due = k] /\ k \subseteq x.due => IsPass(z, n, R)
               /\ z = [x EXCEPT !.verify = k] /\ k \subseteq x.verify => IsPass(z, n, R)
               /\ z = [x EXCEPT !.staged = k] => IsPass(z, n, R)
    <2>1. x = [pc |-> x.pc, run |-> x.run, staged |-> x.staged, due |-> x.due, verify |-> x.verify,
               tree |-> x.tree, kept |-> x.kept]
      BY <1>2 DEF IsPass
    <2>2. PICK a, r, s, d, v, t, p : x = [pc |-> a, run |-> r, staged |-> s, due |-> d, verify |-> v,
                                         tree |-> t, kept |-> p]
      BY <2>1
    <2>3. r \in 0..R /\ (a # "idle" => r # 0) /\ \A q \in d \cup v : IsProposal(q, n)
      BY <1>2, <2>2 DEF IsPass
    <2>4. /\ [x EXCEPT !.due = k] = [pc |-> a, run |-> r, staged |-> s, due |-> k, verify |-> v,
                                     tree |-> t, kept |-> p]
          /\ [x EXCEPT !.verify = k] = [pc |-> a, run |-> r, staged |-> s, due |-> d, verify |-> k,
                                     tree |-> t, kept |-> p]
          /\ [x EXCEPT !.staged = k] = [pc |-> a, run |-> r, staged |-> k, due |-> d, verify |-> v,
                                     tree |-> t, kept |-> p]
      BY <2>2
    <2>5. x.due = d /\ x.verify = v BY <2>2
    <2>6. z = [x EXCEPT !.due = k] /\ k \subseteq x.due => IsPass(z, n, R)
      BY <2>3, <2>4, <2>5 DEF IsPass
    <2>7. z = [x EXCEPT !.verify = k] /\ k \subseteq x.verify => IsPass(z, n, R)
      BY <2>3, <2>4, <2>5 DEF IsPass
    <2>8. z = [x EXCEPT !.staged = k] => IsPass(z, n, R) BY <2>3, <2>4 DEF IsPass
    <2> QED BY <2>6, <2>7, <2>8
  <1> QED BY <1>1, <1>2

LEMMA StartedFacts ==
    ASSUME NEW n, NEW R \in Nat, NEW k, NEW r \in 1..R
    PROVE  IsPass([Idle EXCEPT !.pc = k, !.run = r], n, R)
  <1> DEFINE x == [Idle EXCEPT !.pc = k, !.run = r]
  <1>1. PICK e, none : e = << >> /\ none = {} OBVIOUS
  <1>2. PICK y : y = Idle OBVIOUS
  <1>3. y = [pc |-> "idle", run |-> 0, staged |-> 0, due |-> none, verify |-> none,
             tree |-> e, kept |-> none]
    BY <1>1, <1>2 DEF Idle
  <1> DEFINE m1 == [y EXCEPT !.pc = k]
  <1>4. x = [m1 EXCEPT !.run = r] BY <1>2
  <1> HIDE DEF x
  <1>5. m1 = [pc |-> k, run |-> 0, staged |-> 0, due |-> none, verify |-> none,
              tree |-> e, kept |-> none]
    BY <1>3
  <1> HIDE DEF m1
  <1>6. x = [pc |-> k, run |-> r, staged |-> 0, due |-> none, verify |-> none,
             tree |-> e, kept |-> none]
    BY <1>4, <1>5
  <1>7. IsPass(x, n, R) BY <1>1, <1>6 DEF IsPass
  <1> QED BY <1>7 DEF x

\* A step of w in which no run begins and nothing is queued.
LEMMA WorkerStep ==
    ASSUME CatInv, NEW w \in Workers, TablesOK', Len(runs') = Len(runs), newest'.prop = newest.prop,
           slips' \subseteq Slips, UNCHANGED <<menu, horizon>>,
           NEW x, pass' = [pass EXCEPT ![w] = x], IsPass(x, newest.prop, Len(runs))
    PROVE  CatInv'
  <1>1. TablesOK /\ PassesOK /\ newest.prop \in Nat /\ Len(runs) \in Nat BY Passes
  <1>2. newest.prop <= newest'.prop /\ Len(runs) <= Len(runs') BY <1>1
  <1>3. IsPass(x, newest'.prop, Len(runs')) OBVIOUS
  <1>4. PassesOK' BY <1>1, <1>2, <1>3, PassChanged
  <1> QED BY <1>4 DEF CatInv

LEMMA LeavesStep ==
    ASSUME CatInv, NEW w \in Workers, Crash(w) \/ CanaryHolds(w)
    PROVE  CatInv'
  <1>1. /\ pass' = [pass EXCEPT ![w] = Idle]
        /\ UNCHANGED <<cat, newest, runs, queue, horizon, kept, menu, undo, slips>>
    BY DEF Crash, CanaryHolds
  <1>2. TablesOK /\ slips \subseteq Slips /\ Len(runs) \in Nat BY Passes
  <1>3. TablesOK' BY <1>1, <1>2, SameTables
  <1>4. IsPass(Idle, newest.prop, Len(runs)) BY <1>2, PassFacts
  <1> QED BY <1>1, <1>2, <1>3, <1>4, WorkerStep

LEMMA LoadQueueStep ==
    ASSUME CatInv, NEW w \in Workers, LoadQueue(w)
    PROVE  CatInv'
  <1> DEFINE x == [pass[w] EXCEPT !.pc = "queue",
                                  !.due = {q \in queue : q.after <= pass[w].run},
                                  !.tree = View(cat).node,
                                  !.kept = {n \in DOMAIN kept : kept[n] > pass[w].run}]
  <1>1. /\ pass[w].pc = "open" /\ pass' = [pass EXCEPT ![w] = x]
        /\ UNCHANGED <<cat, newest, runs, queue, horizon, kept, menu, undo, slips>>
    BY DEF LoadQueue
  <1>2. /\ TablesOK /\ slips \subseteq Slips /\ Len(runs) \in Nat
        /\ IsPass(pass[w], newest.prop, Len(runs))
    BY Passes
  <1>3. TablesOK' BY <1>1, <1>2, SameTables
  <1>4. IsPass(x, newest.prop, Len(runs))
    <2> DEFINE d2 == {q \in queue : q.after <= pass[w].run}
               t2 == View(cat).node
               k2 == {n \in DOMAIN kept : kept[n] > pass[w].run}
    <2>0. pass[w] = [pc |-> pass[w].pc, run |-> pass[w].run, staged |-> pass[w].staged,
                     due |-> pass[w].due, verify |-> pass[w].verify,
                     tree |-> pass[w].tree, kept |-> pass[w].kept]
      BY <1>2 DEF IsPass
    <2>1. PICK y, a, r, s, d, v, t, p :
             y = pass[w] /\ y = [pc |-> a, run |-> r, staged |-> s, due |-> d, verify |-> v, tree |-> t, kept |-> p]
      BY <2>0
    <2>2. r \in 0..Len(runs) /\ (a # "idle" => r # 0) /\ a = "open"
          /\ \A q \in v : IsProposal(q, newest.prop)
      BY <1>1, <1>2, <2>1 DEF IsPass
    <2>3. \A q \in d2 : IsProposal(q, newest.prop) BY <1>2, TablesParts DEF QueueOK
    <2>4. x = [y EXCEPT !.pc = "queue", !.due = d2, !.tree = t2, !.kept = k2] BY <2>1
    <2> HIDE DEF x, d2, t2, k2
    <2> DEFINE m1 == [y EXCEPT !.pc = "queue"]
               m2 == [m1 EXCEPT !.due = d2]
               m3 == [m2 EXCEPT !.tree = t2]
    <2>5. x = [m3 EXCEPT !.kept = k2] BY <2>4
    <2>6. m1 = [pc |-> "queue", run |-> r, staged |-> s, due |-> d, verify |-> v, tree |-> t, kept |-> p]
      BY <2>1
    <2> HIDE DEF m1
    <2>7. m2 = [pc |-> "queue", run |-> r, staged |-> s, due |-> d2, verify |-> v, tree |-> t, kept |-> p]
      BY <2>6
    <2> HIDE DEF m2
    <2>8. m3 = [pc |-> "queue", run |-> r, staged |-> s, due |-> d2, verify |-> v, tree |-> t2, kept |-> p]
      BY <2>7
    <2> HIDE DEF m3
    <2>9. x = [pc |-> "queue", run |-> r, staged |-> s, due |-> d2, verify |-> v, tree |-> t2, kept |-> k2]
      BY <2>5, <2>8
    <2> QED BY <2>2, <2>3, <2>9 DEF IsPass
  <1> HIDE DEF x
  <1> QED BY <1>1, <1>2, <1>3, <1>4, WorkerStep

LEMMA AdjudicateStep ==
    ASSUME CatInv, NEW w \in Workers, Adjudicate(w)
    PROVE  CatInv'
  <1> DEFINE q == Oldest(pass[w].due)
             r == pass[w].run
             next == [pass[w] EXCEPT !.due = @ \ {q}]
             asked == [next EXCEPT !.verify = @ \cup {q}]
             t == pass[w].tree
  <1>1. /\ TablesOK /\ PassesOK /\ slips \subseteq Slips /\ newest.prop \in Nat /\ Len(runs) \in Nat
        /\ IsPass(pass[w], newest.prop, Len(runs))
        /\ \A o \in pass[w].due \cup pass[w].verify : IsProposal(o, newest.prop)
    BY Passes
  <1>2. q \in pass[w].due
    <2>1. pass[w].due # {} BY DEF Adjudicate
    <2> QED BY <1>1, <2>1, OldestFacts
  <1>3. IsProposal(q, newest.prop) BY <1>1, <1>2
  <1>4. IsPass(next, newest.prop, Len(runs)) /\ IsPass(asked, newest.prop, Len(runs))
    <2>1. PICK x, o : x = pass[w] /\ o = q OBVIOUS
    <2>2. IsPass(x, newest.prop, Len(runs)) /\ IsProposal(o, newest.prop) BY <1>1, <1>3, <2>1
    <2>3. x = [pc |-> x.pc, run |-> x.run, staged |-> x.staged, due |-> x.due, verify |-> x.verify,
               tree |-> x.tree, kept |-> x.kept]
      BY <2>2 DEF IsPass
    <2>4. PICK a, b, s, d, v, u, p : x = [pc |-> a, run |-> b, staged |-> s, due |-> d, verify |-> v,
                                         tree |-> u, kept |-> p]
      BY <2>3
    <2>5. /\ b \in 0..Len(runs) /\ (a # "idle" => b # 0)
          /\ \A z \in d \cup v : IsProposal(z, newest.prop)
      BY <2>2, <2>4 DEF IsPass
    <2>6. next = [x EXCEPT !.due = d \ {o}] BY <2>1, <2>4
    <2> HIDE DEF q
    <2>7. next = [pc |-> a, run |-> b, staged |-> s, due |-> d \ {o}, verify |-> v, tree |-> u, kept |-> p]
      BY <2>4, <2>6
    <2>8. asked = [next EXCEPT !.verify = v \cup {o}] BY <2>1, <2>7
    <2> HIDE DEF next
    <2>9. asked = [pc |-> a, run |-> b, staged |-> s, due |-> d \ {o}, verify |-> v \cup {o}, tree |-> u, kept |-> p]
      BY <2>7, <2>8
    <2> HIDE DEF asked
    <2>10. IsPass(next, newest.prop, Len(runs)) BY <2>5, <2>7 DEF IsPass
    <2>11. IsPass(asked, newest.prop, Len(runs)) BY <2>2, <2>5, <2>9 DEF IsPass
    <2> QED BY <2>10, <2>11
  <1>5. /\ \/ Settle(r, q, "expired") /\ pass' = [pass EXCEPT ![w] = next]
           \/ Wait(q, q.attempts, r + 1) /\ pass' = [pass EXCEPT ![w] = next]
           \/ Apply(w, q, t) /\ pass' = [pass EXCEPT ![w] = next]
           \/ Settle(r, q, "refused") /\ pass' = [pass EXCEPT ![w] = next]
           \/ pass' = [pass EXCEPT ![w] = asked] /\ UNCHANGED <<cat, newest, runs, queue, undo, slips>>
        /\ UNCHANGED <<horizon, kept, menu>>
    BY Zenon DEF Adjudicate
  <1> HIDE DEF q, r, next, asked, t
  <1>6. /\ TablesOK' /\ Len(runs') = Len(runs) /\ newest'.prop = newest.prop
        /\ slips' \subseteq Slips
        /\ pass' = [pass EXCEPT ![w] = next] \/ pass' = [pass EXCEPT ![w] = asked]
    <2>1. CASE Settle(r, q, "expired") /\ pass' = [pass EXCEPT ![w] = next]
      BY <1>1, <2>1, Settled
    <2>2. CASE Wait(q, q.attempts, r + 1) /\ pass' = [pass EXCEPT ![w] = next]
      <3>1. PICK a, b : a = q.attempts /\ b = r + 1 OBVIOUS
      <3>2. a \in 0..(MaxAttempts - 1) /\ Wait(q, a, b) BY <1>3, <2>2, <3>1 DEF IsProposal
      <3> QED BY <1>1, <2>2, <3>2, Waited
    <2>3. CASE Apply(w, q, t) /\ pass' = [pass EXCEPT ![w] = next]
      BY <1>1, <1>3, <2>3, ApplyStep
    <2>4. CASE Settle(r, q, "refused") /\ pass' = [pass EXCEPT ![w] = next]
      BY <1>1, <2>4, Settled
    <2>5. CASE pass' = [pass EXCEPT ![w] = asked] /\ UNCHANGED <<cat, newest, runs, queue, undo, slips>>
      BY <1>1, <2>5, SameTables
    <2> QED BY <1>5, <2>1, <2>2, <2>3, <2>4, <2>5
  <1>7. CASE pass' = [pass EXCEPT ![w] = next] BY <1>4, <1>5, <1>6, <1>7, WorkerStep
  <1>8. CASE pass' = [pass EXCEPT ![w] = asked] BY <1>4, <1>5, <1>6, <1>8, WorkerStep
  <1> QED BY <1>6, <1>7, <1>8

LEMMA VerifiedStep ==
    ASSUME CatInv, NEW w \in Workers, Verified(w)
    PROVE  CatInv'
  <1> DEFINE q == NextAsked(pass[w].verify)
             r == pass[w].run
             t == pass[w].tree
             x == [pass[w] EXCEPT !.verify = @ \ {q}]
  <1>1. /\ TablesOK /\ PassesOK /\ slips \subseteq Slips /\ newest.prop \in Nat /\ Len(runs) \in Nat
        /\ IsPass(pass[w], newest.prop, Len(runs))
        /\ \A o \in pass[w].due \cup pass[w].verify : IsProposal(o, newest.prop)
    BY Passes
  <1>2. q \in pass[w].verify
    <2>1. pass[w].verify # {} BY DEF Verified
    <2> QED BY <1>1, <2>1, NextAskedFacts
  <1>3. IsProposal(q, newest.prop) BY <1>1, <1>2
  <1>4. IsPass(x, newest.prop, Len(runs))
    <2>1. PICK y, k : y = pass[w] /\ k = pass[w].verify \ {q} OBVIOUS
    <2>2. IsPass(y, newest.prop, Len(runs)) /\ k \subseteq y.verify BY <1>1, <2>1
    <2>3. IsPass([y EXCEPT !.verify = k], newest.prop, Len(runs)) BY <1>1, <2>2, PassFacts
    <2> HIDE DEF q
    <2> QED BY <2>1, <2>3
  <1>5. /\ \/ Apply(w, q, t) \/ Settle(r, q, "refused") \/ Defer(r, q)
        /\ pass' = [pass EXCEPT ![w].verify = @ \ {q}]
        /\ UNCHANGED <<horizon, kept, menu>>
    BY DEF Verified
  <1>6. pass' = [pass EXCEPT ![w] = x]
    <2> HIDE DEF q
    <2> QED BY <1>5
  <1> HIDE DEF q, r, t, x
  <1>7. /\ TablesOK' /\ Len(runs') = Len(runs) /\ newest'.prop = newest.prop
        /\ slips' \subseteq Slips
    <2>1. CASE Apply(w, q, t) BY <1>1, <1>3, <2>1, ApplyStep
    <2>2. CASE Settle(r, q, "refused") BY <1>1, <2>2, Settled
    <2>3. CASE Defer(r, q) BY <1>1, <1>3, <2>3, DeferStep
    <2> QED BY <1>5, <2>1, <2>2, <2>3
  <1> QED BY <1>4, <1>5, <1>6, <1>7, WorkerStep

\* Only outcomes of runs change.
LEMMA OutcomesChanged ==
    ASSUME TablesOK, NEW rs, IsSeq(rs), Len(rs) = Len(runs),
           \A r \in DOMAIN runs :
              \/ rs[r] = runs[r]
              \/ \E o \in Outcomes : rs[r] = [mode |-> runs[r].mode, outcome |-> o, ops |-> runs[r].ops]
    PROVE  /\ RunsOK(rs, newest.node, Len(runs))
           /\ \A r, i, id : DoneAt(rs, r, i, id) => DoneAt(runs, r, i, id)
  <1>1. DOMAIN rs = DOMAIN runs BY SeqFacts, TablesParts
  <1>2. ASSUME NEW r \in DOMAIN runs
        PROVE  IsRun(rs[r], newest.node, Len(runs)) /\ rs[r].ops = runs[r].ops
    <2>1. IsRun(runs[r], newest.node, Len(runs)) BY <1>2, TablesParts
    <2>2. ASSUME NEW o \in Outcomes, rs[r] = [mode |-> runs[r].mode, outcome |-> o, ops |-> runs[r].ops]
          PROVE  IsRun(rs[r], newest.node, Len(runs)) /\ rs[r].ops = runs[r].ops
      <3>1. rs[r].mode = runs[r].mode /\ rs[r].outcome = o /\ rs[r].ops = runs[r].ops BY <2>2
      <3>2. rs[r] = [mode |-> rs[r].mode, outcome |-> rs[r].outcome, ops |-> rs[r].ops] BY <2>2, <3>1
      <3> QED BY <2>1, <3>1, <3>2 DEF IsRun
    <2> QED BY <1>2, <2>1, <2>2
  <1>3. RunsOK(rs, newest.node, Len(runs)) BY <1>1, <1>2 DEF RunsOK
  <1>4. \A r, i, id : DoneAt(rs, r, i, id) => DoneAt(runs, r, i, id) BY <1>1, <1>2 DEF DoneAt
  <1> QED BY <1>3, <1>4

LEMMA FinishStep ==
    ASSUME CatInv, NEW w \in Workers, Finish(w)
    PROVE  CatInv'
  <1> DEFINE r == pass[w].run
             canary == [Idle EXCEPT !.pc = "canary", !.run = r]
             x == IF w \in Organizers /\ menu.canary THEN canary ELSE Idle
  <1>1. /\ TablesOK /\ PassesOK /\ slips \subseteq Slips /\ newest.prop \in Nat /\ Len(runs) \in Nat
        /\ IsPass(pass[w], newest.prop, Len(runs))
    BY Passes
  <1>2. pass[w].pc # "idle" /\ runs' = [runs EXCEPT ![r].outcome = "done"]
        /\ pass' = [pass EXCEPT ![w] = x]
        /\ UNCHANGED <<cat, newest, queue, horizon, kept, menu, undo, slips>>
    BY DEF Finish
  <1>3. r \in 1..Len(runs) BY <1>1, <1>2 DEF IsPass
  <1>4. /\ DOMAIN runs = 1..Len(runs) /\ IsSeq(runs) /\ IsRun(runs[r], newest.node, Len(runs))
        /\ OnceIn(runs, queue, newest.prop) /\ QueueOK(queue, newest.prop)
    BY <1>1, <1>3, TablesParts
  <1>5. /\ runs' = [k \in 1..Len(runs) |-> runs'[k]]
        /\ \A k \in 1..Len(runs) : runs'[k] = IF k = r THEN [runs[r] EXCEPT !.outcome = "done"] ELSE runs[k]
    BY <1>2, <1>3, <1>4
  <1>6. IsPass(x, newest.prop, Len(runs))
    <2>1. PICK a : a = r OBVIOUS
    <2>2. IsPass([Idle EXCEPT !.pc = "canary", !.run = a], newest.prop, Len(runs))
      BY <1>1, <1>3, <2>1, StartedFacts
    <2>3. IsPass(canary, newest.prop, Len(runs)) BY <2>1, <2>2
    <2> HIDE DEF canary
    <2> QED BY <1>1, <2>3, PassFacts
  <1>7. IsSeq(runs') /\ Len(runs') = Len(runs) BY <1>1, <1>5, SeqOfFunction
  <1>8. RunsOK(runs', newest.node, Len(runs)) /\ \A k, i, id : DoneAt(runs', k, i, id) => DoneAt(runs, k, i, id)
    <2>1. [runs[r] EXCEPT !.outcome = "done"] = [mode |-> runs[r].mode, outcome |-> "done", ops |-> runs[r].ops]
      <3>1. PICK y : y = runs[r] OBVIOUS
      <3>2. y = [mode |-> y.mode, outcome |-> y.outcome, ops |-> y.ops] BY <1>4, <3>1 DEF IsRun
      <3>3. [y EXCEPT !.outcome = "done"] = [mode |-> y.mode, outcome |-> "done", ops |-> y.ops]
        BY <3>2, RunChanged
      <3> QED BY <3>1, <3>3
    <2>2. "done" \in Outcomes BY DEF Outcomes
    <2>3. \A k \in DOMAIN runs :
             \/ runs'[k] = runs[k]
             \/ \E o \in Outcomes : runs'[k] = [mode |-> runs[k].mode, outcome |-> o, ops |-> runs[k].ops]
      BY <1>4, <1>5, <2>1, <2>2
    <2> HIDE DEF x, r
    <2> QED BY <1>1, <1>7, <2>3, OutcomesChanged
  <1>9. OnceIn(runs', queue, newest.prop)
    <2>1. newest.prop <= newest.prop /\ \A o \in queue : o.id > newest.prop \/ \E z \in queue : o.id = z.id
      BY <1>1
    <2> QED BY <1>1, <1>4, <1>8, <2>1, StillOnce
  <1>10. TablesOK' BY <1>1, <1>2, <1>7, <1>8, <1>9 DEF TablesOK
  <1> HIDE DEF x, r
  <1> QED BY <1>1, <1>2, <1>6, <1>7, <1>10, WorkerStep

LEMMA StartRunStep ==
    ASSUME CatInv, NEW w \in Workers, StartRun(w)
    PROVE  CatInv'
  <1> DEFINE mode == IF w \in Organizers THEN "organize" ELSE "basic_filing"
             cut == Interrupted(w)
             new == [mode |-> mode, outcome |-> "open", ops |-> << >>]
             R == Len(runs)
             x == [Idle EXCEPT !.pc = "open", !.run = R + 1]
  <1>1. /\ TablesOK /\ PassesOK /\ slips \subseteq Slips /\ newest.prop \in Nat /\ R \in Nat
        /\ newest.node \in Nat /\ newest.link \in Nat
    BY Passes, TablesParts
  <1>2. /\ runs' = Append(cut, new) /\ pass' = [pass EXCEPT ![w] = x]
        /\ UNCHANGED <<cat, newest, queue, horizon, kept, menu, undo, slips>>
    BY DEF StartRun
  <1>3. /\ DOMAIN runs = 1..R /\ IsSeq(runs) /\ \A k \in DOMAIN runs : IsRun(runs[k], newest.node, R)
        /\ OnceIn(runs, queue, newest.prop) /\ QueueOK(queue, newest.prop)
        /\ RowsOK(cat, newest.node, newest.link, newest.node, R)
    BY <1>1, TablesParts
  <1>4. /\ cut = [k \in 1..R |-> cut[k]]
        /\ \A k \in DOMAIN runs : cut[k] = runs[k] \/ cut[k] = [runs[k] EXCEPT !.outcome = "interrupted"]
    BY <1>3 DEF Interrupted
  <1> HIDE DEF cut
  <1>5. IsSeq(cut) /\ Len(cut) = R BY <1>1, <1>4, SeqOfFunction
  <1>6. RunsOK(cut, newest.node, R) /\ \A k, i, id : DoneAt(cut, k, i, id) => DoneAt(runs, k, i, id)
    <2>1. ASSUME NEW k \in DOMAIN runs
          PROVE  \/ cut[k] = runs[k]
                 \/ \E o \in Outcomes : cut[k] = [mode |-> runs[k].mode, outcome |-> o, ops |-> runs[k].ops]
      <3>1. PICK y : y = runs[k] OBVIOUS
      <3>2. y = [mode |-> y.mode, outcome |-> y.outcome, ops |-> y.ops] BY <1>3, <2>1, <3>1 DEF IsRun
      <3>3. [y EXCEPT !.outcome = "interrupted"] = [mode |-> y.mode, outcome |-> "interrupted", ops |-> y.ops]
        BY <3>2, RunChanged
      <3>4. "interrupted" \in Outcomes BY DEF Outcomes
      <3> QED BY <1>4, <2>1, <3>1, <3>3, <3>4
    <2> QED BY <1>1, <1>5, <2>1, OutcomesChanged
  <1>7. IsRun(new, newest.node, R + 1)
    <2>1. mode \in Modes /\ "open" \in Outcomes BY DEF Modes, Outcomes
    <2>2. IsSeq(<< >>) /\ DOMAIN << >> = {}
      <3>1. << >> \in Seq(Range(<< >>)) OBVIOUS
      <3>2. DOMAIN << >> = {} OBVIOUS
      <3> QED BY <3>1, <3>2 DEF IsSeq
    <2> HIDE DEF mode
    <2> QED BY <2>1, <2>2 DEF IsRun
  <1>8. /\ IsSeq(runs') /\ Len(runs') = R + 1 /\ DOMAIN runs' = 1..(R + 1)
        /\ \A k \in 1..R : runs'[k] = cut[k]
        /\ runs'[R + 1] = new
        /\ \A k \in 1..(R + 1) : k \in 1..R \/ k = R + 1
    <2> HIDE DEF new
    <2> QED BY <1>2, <1>5, AppendFacts
  <1>9. R + 1 \in Nat /\ R <= R + 1 /\ newest.node <= newest.node /\ newest.link <= newest.link
        /\ newest.prop <= newest.prop
    BY <1>1
  <1>10. DOMAIN cut = 1..R BY <1>5, SeqFacts
  <1>11. RunsOK(runs', newest.node, R + 1)
    <2>1. \A k \in 1..R : IsRun(cut[k], newest.node, R + 1)
      <3>1. RunsOK(cut, newest.node, R + 1) BY <1>1, <1>6, <1>9, Wider
      <3> QED BY <1>10, <3>1 DEF RunsOK
    <2> HIDE DEF new
    <2> QED BY <1>7, <1>8, <2>1 DEF RunsOK
  <1>12. \A k, i, id : DoneAt(runs', k, i, id) => DoneAt(runs, k, i, id)
    <2> SUFFICES ASSUME NEW k, NEW i, NEW id, DoneAt(runs', k, i, id) PROVE DoneAt(runs, k, i, id)
      OBVIOUS
    <2>1. k \in 1..R
      <3>1. CASE k = R + 1
        <4>1. runs'[k].ops = << >> BY <1>8, <3>1
        <4>2. i \in DOMAIN << >> BY <4>1 DEF DoneAt
        <4> QED BY <4>2
      <3> QED BY <1>8, <3>1 DEF DoneAt
    <2>2. DoneAt(cut, k, i, id) BY <1>8, <1>10, <2>1 DEF DoneAt
    <2> QED BY <1>6, <2>2
  <1>13. OnceIn(runs', queue, newest.prop)
    <2>1. \A o \in queue : o.id > newest.prop \/ \E z \in queue : o.id = z.id OBVIOUS
    <2> QED BY <1>1, <1>3, <1>9, <1>12, <2>1, StillOnce
  <1>14. RowsOK(cat, newest.node, newest.link, newest.node, R + 1)
    BY <1>1, <1>3, <1>9, WiderRows
  <1>15. TablesOK' BY <1>1, <1>2, <1>3, <1>8, <1>11, <1>13, <1>14 DEF TablesOK
  <1>16. IsPass(x, newest.prop, R + 1)
    <2>1. R + 1 \in Nat /\ R + 1 \in 1..(R + 1) BY <1>1
    <2>2. PICK a : a = R + 1 OBVIOUS
    <2>3. IsPass([Idle EXCEPT !.pc = "open", !.run = a], newest.prop, a) BY <2>1, <2>2, StartedFacts
    <2> QED BY <2>2, <2>3
  <1> HIDE DEF x
  <1>17. PassesOK'
    <2>1. newest.prop <= newest'.prop /\ Len(runs) <= Len(runs') /\ IsPass(x, newest'.prop, Len(runs'))
      BY <1>2, <1>8, <1>9, <1>16
    <2> QED BY <1>1, <1>2, <1>15, <2>1, PassChanged
  <1>18. horizon' \in 0..Len(runs')
    <2>1. horizon \in 0..R BY Passes
    <2> QED BY <1>1, <1>2, <1>8, <2>1
  <1> QED BY <1>2, <1>15, <1>17, <1>18 DEF CatInv

-----------------------------------------------------------------------------
(* Staging.                                                                *)

LEMMA StagedStep ==
    ASSUME CatInv, NEW w \in Workers, TablesOK', Len(runs') = Len(runs),
           newest.prop <= newest'.prop, newest'.prop \in Nat,
           slips' \subseteq Slips, UNCHANGED <<menu, horizon>>, Staged(w)
    PROVE  CatInv'
  <1> DEFINE x == [pass[w] EXCEPT !.staged = @ + 1]
  <1>1. /\ TablesOK /\ PassesOK /\ newest.prop \in Nat /\ Len(runs) \in Nat
        /\ IsPass(pass[w], newest.prop, Len(runs))
    BY Passes
  <1>2. pass' = [pass EXCEPT ![w] = x] BY DEF Staged
  <1>3. IsPass(x, newest'.prop, Len(runs'))
    <2>1. PICK y, k : y = pass[w] /\ k = pass[w].staged + 1 OBVIOUS
    <2>2. IsPass(y, newest.prop, Len(runs)) BY <1>1, <2>1
    <2>3. IsPass(y, newest'.prop, Len(runs)) BY <1>1, <2>2, Wider
    <2>4. IsPass([y EXCEPT !.staged = k], newest'.prop, Len(runs)) BY <1>1, <2>3, PassFacts
    <2> QED BY <2>1, <2>4
  <1>4. Len(runs) <= Len(runs') BY <1>1
  <1> HIDE DEF x
  <1>5. PassesOK' BY <1>1, <1>2, <1>3, <1>4, PassChanged
  <1> QED BY <1>5 DEF CatInv

LEMMA Enqueued ==
    ASSUME TablesOK, NEW p, WellFormed(p), NEW run,
           queue' = queue \cup {Queued(newest.prop + 1, run, p)},
           NewIds(cat, 1), UNCHANGED <<cat, runs>>
    PROVE  TablesOK' /\ newest'.prop = newest.prop + 1 /\ newest.prop <= newest'.prop /\ newest'.prop \in Nat
  <1> DEFINE n == newest.prop
             nb == newest.node
             R == Len(runs)
             new == Queued(n + 1, run, p)
  <1>1. /\ nb \in Nat /\ newest.link \in Nat /\ n \in Nat /\ R \in Nat
        /\ RunsOK(runs, nb, R) /\ QueueOK(queue, n) /\ OnceIn(runs, queue, n)
        /\ RowsOK(cat, nb, newest.link, nb, R)
    BY TablesParts
  <1>2. /\ newest' = [node |-> newest'.node, link |-> newest'.link, prop |-> newest'.prop]
        /\ newest'.node \in Nat /\ newest'.link \in Nat /\ newest'.prop = n + 1
        /\ nb <= newest'.node
        /\ RowsOK(cat, newest'.node, newest'.link, newest'.node, R)
    <2>1. 1 \in Nat OBVIOUS
    <2> QED BY <1>1, <2>1, NewIdsFacts
  <1>3. n + 1 \in Nat /\ n <= n + 1 BY <1>1
  <1>4. IsProposal(new, n + 1) /\ new.id = n + 1
    <2>1. 0 \in 0..(MaxAttempts - 1) BY CatalogAssumptions
    <2>2. n + 1 \in 1..(n + 1) BY <1>1
    <2>3. /\ new.id = n + 1 /\ new.attempts = 0 /\ new.p = p
          /\ new = [id |-> new.id, run |-> new.run, p |-> new.p, attempts |-> new.attempts, after |-> new.after]
      BY DEF Queued
    <2> HIDE DEF new
    <2> QED BY <2>1, <2>2, <2>3 DEF IsProposal
  <1> HIDE DEF new
  <1>5. QueueOK(queue', n + 1)
    <2>1. \A q \in queue : IsProposal(q, n + 1) /\ q.id # n + 1
      <3>1. \A q \in queue : IsProposal(q, n) BY <1>1 DEF QueueOK
      <3>2. \A q \in queue : IsProposal(q, n + 1) BY <1>1, <1>3, <3>1, Wider
      <3>3. \A q \in queue : q.id \in 1..n BY <3>1 DEF IsProposal
      <3>4. n + 1 \notin 1..n BY <1>1
      <3> QED BY <3>2, <3>3, <3>4
    <2>2. queue' = queue \cup {new} BY DEF new
    <2>3. \A q, o \in queue : q.id = o.id => q = o BY <1>1 DEF QueueOK
    <2> QED BY <1>4, <2>1, <2>2, <2>3 DEF QueueOK
  <1>6. OnceIn(runs', queue', n + 1)
    <2>1. \A o \in queue' : o.id > n \/ \E z \in queue : o.id = z.id
      <3>1. queue' = queue \cup {new} BY DEF new
      <3>2. n + 1 > n BY <1>1
      <3> QED BY <1>4, <3>1, <3>2
    <2>2. \A r, i, id : DoneAt(runs', r, i, id) => DoneAt(runs, r, i, id) OBVIOUS
    <2> QED BY <1>1, <1>3, <2>1, <2>2, StillOnce
  <1>7. RunsOK(runs, newest'.node, R) BY <1>1, <1>2, Wider
  <1>8. TablesOK' BY <1>1, <1>2, <1>3, <1>5, <1>6, <1>7 DEF TablesOK
  <1> QED BY <1>2, <1>3, <1>8

LEMMA StageStructuralStep ==
    ASSUME CatInv, NEW w \in Workers, NEW p \in menu.proposals, StageStructural(w, p)
    PROVE  CatInv'
  <1>1. TablesOK /\ slips \subseteq Slips BY Passes
  <1>2. /\ queue' = queue \cup {Queued(newest.prop + 1, pass[w].run, p)}
        /\ NewIds(cat, 1) /\ Staged(w)
        /\ UNCHANGED <<cat, runs, horizon, kept, menu, undo, slips>>
    BY DEF StageStructural
  <1>3. WellFormed(p) BY CatalogAssumptions DEF CatInv
  <1>4. TablesOK' /\ newest.prop <= newest'.prop /\ newest'.prop \in Nat
    <2>1. PICK run : run = pass[w].run OBVIOUS
    <2>2. queue' = queue \cup {Queued(newest.prop + 1, run, p)} BY <1>2, <2>1
    <2> QED BY <1>1, <1>2, <1>3, <2>2, Enqueued
  <1> QED BY <1>1, <1>2, <1>4, StagedStep

LEMMA StageCreateStep ==
    ASSUME CatInv, NEW w \in Workers, NEW a, StageCreate(w, a)
    PROVE  CatInv'
  <1> DEFINE twins == Siblings(cat, a.parent, a.title)
             classes == {n \in twins : cat.node[n].kind = "node"}
             r == pass[w].run
             ids == InOrder(classes)
             merge == [op |-> "merge", node |-> 0, ids |-> ids, title |-> a.title, to |-> 0]
             id == newest.node + 1
             res == Create(cat, id, a.parent, a.title)
  <1>1. /\ TablesOK /\ slips \subseteq Slips /\ newest.prop \in Nat
        /\ newest.node \in Nat /\ newest.link \in Nat /\ Len(runs) \in Nat
        /\ RowsOK(cat, newest.node, newest.link, newest.node, Len(runs))
    BY Passes, TablesParts
  <1>2. /\ \/ /\ Commit(r, "create", res, 0) /\ NewIds(cat', 0)
              /\ slips' = slips \cup Disorder(r) /\ queue' = queue
           \/ /\ Cardinality(classes) > 1
              /\ queue' = queue \cup {Queued(newest.prop + 1, r, merge)}
              /\ NewIds(cat, 1) /\ UNCHANGED <<cat, runs, undo, slips>>
        /\ Staged(w) /\ UNCHANGED <<horizon, kept, menu>>
    BY DEF StageCreate
  <1>3. CASE /\ Commit(r, "create", res, 0) /\ NewIds(cat', 0)
             /\ slips' = slips \cup Disorder(r) /\ queue' = queue
    <2>1. id \in Nat \ {0} /\ newest.node + id \in Nat BY <1>1
    <2>2. ResultOK(res, newest.node, Len(runs))
      <3>1. PICK i, p, t : i = id /\ p = a.parent /\ t = a.title OBVIOUS
      <3>2. /\ RowsOK(Create(cat, i, p, t).c, newest.node + i, newest.link, newest.node, Len(runs))
            /\ ImageOK(Create(cat, i, p, t).image, newest.node, Len(runs))
        BY <1>1, <2>1, <3>1, CreateFacts
      <3> QED BY <1>1, <2>1, <3>1, <3>2 DEF ResultOK
    <2> HIDE DEF res, r
    <2>3. TablesOK' /\ Len(runs') = Len(runs) /\ newest'.prop = newest.prop
      <3>1. PICK zero, op : zero = 0 /\ op = "create" OBVIOUS
      <3>2. Commit(r, op, res, zero) /\ queue' \subseteq queue /\ zero = 0 BY <1>3, <3>1
      <3> QED BY <1>1, <1>3, <2>2, <3>2, Committed
    <2>4. slips' \subseteq Slips
      <3>1. Disorder(r) \subseteq {"disorder"} BY DEF Disorder
      <3> QED BY <1>1, <1>3, <3>1 DEF Slips
    <2>5. newest.prop <= newest'.prop /\ newest'.prop \in Nat BY <1>1, <2>3
    <2> QED BY <1>2, <2>3, <2>4, <2>5, StagedStep
  <1>4. CASE /\ Cardinality(classes) > 1
             /\ queue' = queue \cup {Queued(newest.prop + 1, r, merge)}
             /\ NewIds(cat, 1) /\ UNCHANGED <<cat, runs, undo, slips>>
    <2>1. WellFormed(merge)
      <3>1. classes \subseteq 1..newest.node
        <4>1. \A n \in DOMAIN cat.node : n \in 1..newest.node BY <1>1, RowsParts
        <4> QED BY <4>1 DEF Siblings, Children, LiveNodes, LiveRows
      <3> HIDE DEF classes
      <3>2. IsFiniteSet(1..newest.node)
        <4>1. 1 \in Int /\ newest.node \in Int BY <1>1
        <4> QED BY <4>1, FS_Interval
      <3>3. IsFiniteSet(classes) BY <3>1, <3>2, FS_Subset
      <3>4. Cardinality(classes) \in Nat BY <3>3, FS_CardinalityType
      <3>5. ids = [k \in 1..Cardinality(classes) |-> ids[k]] BY DEF InOrder
      <3> HIDE DEF ids
      <3>6. IsSeq(ids) /\ Len(ids) = Cardinality(classes) BY <3>4, <3>5, SeqOfFunction
      <3>7. ids # << >>
        <4>1. Len(<< >>) = 0 OBVIOUS
        <4> QED BY <1>4, <3>4, <3>6, <4>1
      <3>8. merge.op = "merge" /\ merge.ids = ids OBVIOUS
      <3> HIDE DEF merge
      <3> QED BY <3>6, <3>7, <3>8 DEF WellFormed, IsSeq
    <2> HIDE DEF merge, r, classes
    <2>2. TablesOK' /\ newest.prop <= newest'.prop /\ newest'.prop \in Nat
      BY <1>1, <1>4, <2>1, Enqueued
    <2> QED BY <1>1, <1>2, <1>4, <2>2, StagedStep
  <1> QED BY <1>2, <1>3, <1>4

\* The class an item is filed under is there, or made.
LEMMA FiledUnder ==
    ASSUME TablesOK, NEW a, Alive(a.parent)
    PROVE  LET subs == IF a.sub = "" THEN {a.parent} ELSE Siblings(cat, a.parent, a.sub)
           IN  subs # {} => Min(subs) \in LiveNodes(cat)
  <1> DEFINE subs == IF a.sub = "" THEN {a.parent} ELSE Siblings(cat, a.parent, a.sub)
  <1>0. LiveNodes(cat) \subseteq DOMAIN cat.node BY DEF LiveNodes, LiveRows
  <1>1. \A n \in DOMAIN cat.node : n \in 1..newest.node BY TablesParts, RowsParts
  <1>2. subs \subseteq LiveNodes(cat) BY DEF Alive, Siblings, Children
  <1>3. newest.node \in Nat BY TablesParts
  <1> HIDE DEF subs
  <1>4. subs \subseteq Nat
    <2>1. ASSUME NEW n \in subs PROVE n \in Nat
      <3>1. n \in 1..newest.node BY <1>0, <1>1, <1>2, <2>1
      <3> QED BY <1>3, <3>1
    <2> QED BY <2>1
  <1>5. ASSUME subs # {} PROVE Min(subs) \in subs
    <2>1. PICK x \in subs : \A y \in subs : x <= y BY <1>4, <1>5, LeastNat
    <2> QED BY <2>1 DEF Min
  <1>6. subs # {} => Min(subs) \in LiveNodes(cat) BY <1>2, <1>5
  <1> QED BY <1>6 DEF subs

\* The rows an item is filed in, and those it leaves.
LEMMA FiledRows ==
    ASSUME CatInv, NEW w \in Workers, NEW a, StageFile(w, a)
    PROVE  LET nb == newest.node
               L == newest.link
               R == Len(runs)
               subs == IF a.sub = "" THEN {a.parent} ELSE Siblings(cat, a.parent, a.sub)
               made == Create(cat, nb + 1, a.parent, a.sub)
               base == IF subs = {} THEN made.c ELSE cat
               class == IF subs = {} THEN nb + 1 ELSE Min(subs)
               res == File(base, L + 1, class, a.item)
           IN  /\ nb + (nb + 1) \in Nat
               /\ RowsOK(made.c, nb + (nb + 1), L, nb, R) /\ ImageOK(made.image, nb, R)
               /\ nb + 1 \in DOMAIN made.c.node
               /\ class \in DOMAIN base.node /\ res.c.node = base.node
               /\ ImageOK(res.image, nb, R)
               /\ newest' = [node |-> newest'.node, link |-> newest'.link, prop |-> newest'.prop]
               /\ newest'.node \in Nat /\ newest'.link \in Nat /\ newest'.prop = newest.prop
               /\ nb <= newest'.node /\ L <= newest'.link
               /\ RowsOK(res.c, newest'.node, newest'.link, newest'.node, R)
  <1> DEFINE nb == newest.node
             L == newest.link
             R == Len(runs)
             subs == IF a.sub = "" THEN {a.parent} ELSE Siblings(cat, a.parent, a.sub)
             made == Create(cat, nb + 1, a.parent, a.sub)
             base == IF subs = {} THEN made.c ELSE cat
             class == IF subs = {} THEN nb + 1 ELSE Min(subs)
             res == File(base, L + 1, class, a.item)
  <1>1. /\ TablesOK /\ newest.prop \in Nat
        /\ nb \in Nat /\ L \in Nat /\ R \in Nat /\ RowsOK(cat, nb, L, nb, R)
    BY Passes, TablesParts
  <1>2. Alive(a.parent) /\ NewIds(res.c, 0) BY DEF StageFile
  <1>3. nb + 1 \in Nat \ {0} /\ L + 1 \in Nat \ {0} /\ nb + (nb + 1) \in Nat /\ nb <= nb + (nb + 1)
        /\ L + (L + 1) \in Nat
    BY <1>1
  <1>4. /\ RowsOK(made.c, nb + (nb + 1), L, nb, R) /\ ImageOK(made.image, nb, R)
        /\ nb + 1 \in DOMAIN made.c.node
    <2>1. PICK i, p, t : i = nb + 1 /\ p = a.parent /\ t = a.sub OBVIOUS
    <2>2. PICK c, k, m, n : c = cat /\ k = nb /\ m = L /\ n = R OBVIOUS
    <2>3. i \in Nat \ {0} /\ k \in Nat /\ m \in Nat /\ n \in Nat /\ RowsOK(c, k, m, k, n)
      BY <1>1, <1>3, <2>1, <2>2
    <2> HIDE DEF nb, L, R, subs, base, class, res
    <2>4. /\ RowsOK(Create(c, i, p, t).c, k + i, m, k, n)
          /\ ImageOK(Create(c, i, p, t).image, k, n)
      BY <2>3, CreateFacts
    <2>5. i \in DOMAIN Create(c, i, p, t).c.node BY <2>3, CreateFacts
    <2> QED BY <2>1, <2>2, <2>4, <2>5
  <1> HIDE DEF made
  <1>5. RowsOK(base, nb + (nb + 1), L, nb, R) /\ class \in DOMAIN base.node
    <2>1. CASE subs = {} BY <1>4, <2>1
    <2>2. CASE subs # {}
      <3>0. Min(subs) \in LiveNodes(cat) BY <1>1, <1>2, <2>2, FiledUnder
      <3>1. Min(subs) \in DOMAIN cat.node BY <3>0 DEF LiveNodes, LiveRows
      <3> HIDE DEF subs
      <3>2. L <= L /\ nb <= nb /\ R <= R BY <1>1
      <3>3. RowsOK(cat, nb + (nb + 1), L, nb, R) BY <1>1, <1>3, <3>2, WiderRows
      <3> QED BY <2>2, <3>1, <3>3
    <2> QED BY <2>1, <2>2
  <1> HIDE DEF subs, base, class
  <1>6. RowsOK(res.c, nb + (nb + 1), L + (L + 1), nb, R) /\ ImageOK(res.image, nb, R) /\ res.c.node = base.node
    <2>1. PICK i, t, b, k : i = L + 1 /\ t = a.item /\ b = base /\ k = class OBVIOUS
    <2>2. RowsOK(b, nb + (nb + 1), L, nb, R) /\ k \in DOMAIN b.node /\ i \in Nat \ {0}
      BY <1>3, <1>5, <2>1
    <2>3. /\ RowsOK(File(b, i, k, t).c, nb + (nb + 1), L + i, nb, R)
          /\ ImageOK(File(b, i, k, t).image, nb, R)
      BY <1>1, <1>3, <2>2, FileFacts
    <2>4. File(b, i, k, t).c.node = b.node
      <3>1. b = [node |-> b.node, link |-> b.link, sup |-> b.sup] BY <2>2, RowsParts
      <3>2. PICK v : File(b, i, k, t).c = [b EXCEPT !.link = v]
        <4>1. CASE Held(b, k, t) = {} BY <4>1 DEF File, Result
        <4>2. CASE Held(b, k, t) # {}
          <5>1. PICK l : File(b, i, k, t).c = [b EXCEPT !.link[l].by = 0] BY <4>2 DEF File, Result
          <5> QED BY <5>1
        <4> QED BY <4>1, <4>2
      <3> QED BY <3>1, <3>2, CatChanged
    <2> QED BY <2>1, <2>3, <2>4
  <1> HIDE DEF res
  <1>7. /\ newest' = [node |-> newest'.node, link |-> newest'.link, prop |-> newest'.prop]
        /\ newest'.node \in Nat /\ newest'.link \in Nat /\ newest'.prop = newest.prop + 0
        /\ nb <= newest'.node /\ L <= newest'.link
        /\ RowsOK(res.c, newest'.node, newest'.link, newest'.node, R)
    <2>1. PICK c : c = res.c OBVIOUS
    <2>2. RowsOK(c, nb + (nb + 1), L + (L + 1), nb, R) /\ NewIds(c, 0) /\ 0 \in Nat
      BY <1>2, <1>6, <2>1
    <2> QED BY <1>1, <1>3, <2>1, <2>2, NewIdsFacts
  <1>8. newest'.prop = newest.prop BY <1>1, <1>7
  <1> QED BY <1>3, <1>4, <1>5, <1>6, <1>7, <1>8 DEF subs, made, base, class, res

LEMMA StageFileStep ==
    ASSUME CatInv, NEW w \in Workers, NEW a, StageFile(w, a)
    PROVE  CatInv'
  <1> DEFINE nb == newest.node
             L == newest.link
             R == Len(runs)
             r == pass[w].run
             subs == IF a.sub = "" THEN {a.parent} ELSE Siblings(cat, a.parent, a.sub)
             made == Create(cat, nb + 1, a.parent, a.sub)
             base == IF subs = {} THEN made.c ELSE cat
             class == IF subs = {} THEN nb + 1 ELSE Min(subs)
             res == File(base, L + 1, class, a.item)
             parked == {l \in LiveRows(cat.link) : a.refile /\ cat.link[l].item = a.item
                                                   /\ cat.node[cat.link[l].node].title = "~inbox"}
             M == [l \in DOMAIN res.c.link |->
                     IF l \in parked THEN [res.c.link[l] EXCEPT !.by = r] ELSE res.c.link[l]]
             row1 == Row("create", made, 0)
             row2 == Row("file", res, 0)
             rs == IF subs = {} THEN Journal(runs, r, row1) ELSE runs
  <1>1. /\ TablesOK /\ slips \subseteq Slips /\ newest.prop \in Nat
        /\ nb \in Nat /\ L \in Nat /\ R \in Nat /\ RowsOK(cat, nb, L, nb, R)
        /\ RunsOK(runs, nb, R) /\ QueueOK(queue, newest.prop) /\ OnceIn(runs, queue, newest.prop)
        /\ IsPass(pass[w], newest.prop, R)
    BY Passes, TablesParts
  <1>2. /\ Alive(a.parent)
        /\ cat' = [res.c EXCEPT !.link = M]
        /\ runs' = Journal(rs, r, row2)
        /\ NewIds(res.c, 0) /\ Staged(w)
        /\ slips' = slips \cup Disorder(r) \cup (IF parked = {} THEN {} ELSE {"refile"})
        /\ UNCHANGED <<queue, horizon, kept, menu>>
    BY DEF StageFile
  <1>3. r \in 0..R BY <1>1 DEF IsPass
  <1>4. /\ ImageOK(made.image, nb, R) /\ ImageOK(res.image, nb, R)
        /\ newest' = [node |-> newest'.node, link |-> newest'.link, prop |-> newest'.prop]
        /\ newest'.node \in Nat /\ newest'.link \in Nat /\ newest'.prop = newest.prop
        /\ nb <= newest'.node
        /\ RowsOK(res.c, newest'.node, newest'.link, newest'.node, R)
    BY FiledRows
  <1> HIDE DEF made, subs, base, class, res
  <1>5. RowsOK(cat', newest'.node, newest'.link, newest'.node, R)
    <2>1. PICK c, N, K, LL : c = res.c /\ N = res.c.node /\ K = newest'.node /\ LL = newest'.link OBVIOUS
    <2>2. RowsOK(c, K, LL, K, R) BY <1>4, <2>1
    <2>3. /\ c = [node |-> c.node, link |-> c.link, sup |-> c.sup]
          /\ \A n \in DOMAIN c.node : n \in 1..K /\ IsNode(c.node[n], R)
          /\ \A l \in DOMAIN c.link : IsLink(c.link[l], R)
      BY <2>2, RowsParts
    <2>4. /\ DOMAIN M = DOMAIN c.link
          /\ \A l \in DOMAIN c.link : M[l] = c.link[l] \/ M[l] = [c.link[l] EXCEPT !.by = r]
      <3> HIDE DEF parked, r
      <3> QED BY <2>1
    <2> HIDE DEF M, r
    <2>5. ASSUME NEW l \in DOMAIN M
          PROVE  IsLink(M[l], R) /\ M[l].node = c.link[l].node /\ M[l].item = c.link[l].item
      <3>1. IsLink(c.link[l], R) BY <2>3, <2>4, <2>5
      <3>2. CASE M[l] = c.link[l] BY <3>1, <3>2
      <3>3. CASE M[l] = [c.link[l] EXCEPT !.by = r] BY <1>1, <1>3, <3>1, <3>3, LinkChanged
      <3> QED BY <2>4, <2>5, <3>2, <3>3
    <2>6. DOMAIN c.node \subseteq 1..K \cup DOMAIN c.node OBVIOUS
    <2>7. RowsOK([node |-> c.node, link |-> M, sup |-> c.sup], K, LL, K, R)
      BY <2>2, <2>3, <2>4, <2>5, <2>6, Remarked
    <2>8. cat' = [node |-> c.node, link |-> M, sup |-> c.sup]
      BY <1>2, <2>1, <2>3, CatChanged
    <2> QED BY <2>1, <2>7, <2>8
  <1>6. IsOp(row1, nb, R) /\ row1.prop = 0 /\ IsOp(row2, nb, R) /\ row2.prop = 0
    BY <1>4 DEF IsOp, Row, OpRow, OpOutcomes
  <1> HIDE DEF row1, row2, r, M
  <1>7. /\ RunsOK(rs, nb, R) /\ Len(rs) = R
         /\ \A k, i, x : DoneAt(rs, k, i, x) => DoneAt(runs, k, i, x) \/ x = 0
    <2>1. /\ RunsOK(Journal(runs, r, row1), nb, R) /\ Len(Journal(runs, r, row1)) = R
          /\ \A k, i, x : DoneAt(Journal(runs, r, row1), k, i, x) => DoneAt(runs, k, i, x) \/ x = 0
      BY <1>1, <1>6, JournalFacts
    <2> QED BY <1>1, <2>1
  <1> HIDE DEF rs
  <1>8. /\ RunsOK(runs', nb, R) /\ Len(runs') = R
         /\ \A k, i, x : DoneAt(runs', k, i, x) => DoneAt(runs, k, i, x) \/ x = 0
    <2>1. /\ RunsOK(Journal(rs, r, row2), nb, R) /\ Len(Journal(rs, r, row2)) = R
          /\ \A k, i, x : DoneAt(Journal(rs, r, row2), k, i, x) => DoneAt(rs, k, i, x) \/ x = 0
      <3>1. PICK s : s = rs OBVIOUS
      <3>2. RunsOK(s, nb, R) /\ Len(s) = R BY <1>7, <3>1
      <3>3. /\ RunsOK(Journal(s, r, row2), nb, R) /\ Len(Journal(s, r, row2)) = R
            /\ \A k, i, x : DoneAt(Journal(s, r, row2), k, i, x) => DoneAt(s, k, i, x) \/ x = 0
        BY <1>1, <1>6, <3>2, JournalFacts
      <3> QED BY <3>1, <3>3
    <2> QED BY <1>2, <1>7, <2>1
  <1>9. OnceIn(runs', queue', newest.prop)
    <2> SUFFICES ASSUME NEW id \in Nat \ {0}, NEW k, NEW i, DoneAt(runs', k, i, id)
                 PROVE  /\ id <= newest.prop /\ \A q \in queue' : q.id # id
                        /\ \A m, j : DoneAt(runs', m, j, id) => m = k /\ j = i
      BY DEF OnceIn
    <2>1. \A m, j : DoneAt(runs', m, j, id) => DoneAt(runs, m, j, id) BY <1>8
    <2> QED BY <1>1, <1>2, <2>1 DEF OnceIn
  <1>10. RunsOK(runs', newest'.node, R) BY <1>1, <1>4, <1>8, Wider
  <1>11. TablesOK' BY <1>1, <1>2, <1>4, <1>5, <1>8, <1>9, <1>10 DEF TablesOK
  <1>12. slips' \subseteq Slips
    <2>1. Disorder(r) \subseteq {"disorder"} BY DEF Disorder
    <2> HIDE DEF parked
    <2> QED BY <1>1, <1>2, <2>1 DEF Slips
  <1>13. newest.prop <= newest'.prop /\ newest'.prop \in Nat BY <1>1, <1>4
  <1> QED BY <1>2, <1>8, <1>11, <1>12, <1>13, StagedStep

-----------------------------------------------------------------------------
(* Undoing.                                                                *)

LEMMA OpChanged ==
    ASSUME NEW nb, NEW R, NEW x, IsOp(x, nb, R), NEW z, z = [x EXCEPT !.outcome = "reverted"]
    PROVE  IsOp(z, nb, R) /\ z.outcome = "reverted" /\ z.prop = x.prop
  <1>1. /\ x = [op |-> x.op, outcome |-> x.outcome, subjects |-> x.subjects, image |-> x.image, prop |-> x.prop]
        /\ ImageOK(x.image, nb, R)
    BY DEF IsOp, OpRow
  <1>2. PICK o, u, s, m, p : x = [op |-> o, outcome |-> u, subjects |-> s, image |-> m, prop |-> p]
                             /\ m = x.image
    BY <1>1
  <1>3. z = [op |-> o, outcome |-> "reverted", subjects |-> s, image |-> m, prop |-> p] BY <1>2
  <1>4. z.op = o /\ z.outcome = "reverted" /\ z.subjects = s /\ z.image = m /\ z.prop = p BY <1>3
  <1>5. ImageOK(z.image, nb, R) BY <1>1, <1>2, <1>4
  <1>6. z = OpRow(z.op, z.outcome, z.subjects, z.image, z.prop) BY <1>3, <1>4 DEF OpRow
  <1>7. z.prop = x.prop BY <1>2, <1>4
  <1> QED BY <1>4, <1>5, <1>6, <1>7 DEF IsOp, OpOutcomes

\* A reverted run did what it did: its operations are only marked.
LEMMA RevertedFacts ==
    ASSUME NEW nb \in Nat, NEW R \in Nat, RunsOK(runs, nb, R), NEW r \in DOMAIN runs
    PROVE  /\ RunsOK(Reverted(r), nb, R) /\ Len(Reverted(r)) = Len(runs) + 1
           /\ \A k, i, id : DoneAt(Reverted(r), k, i, id) => DoneAt(runs, k, i, id)
  <1> DEFINE ops == [i \in DOMAIN runs[r].ops |->
                       IF i \in Applied(r) THEN [runs[r].ops[i] EXCEPT !.outcome = "reverted"]
                       ELSE runs[r].ops[i]]
             marked == [runs EXCEPT ![r].outcome = "reverted", ![r].ops = ops]
             undoer == [mode |-> "revert", outcome |-> "done", ops |-> << >>]
             n == Len(runs)
  <1>1. /\ IsSeq(runs) /\ n \in Nat /\ DOMAIN runs = 1..n
        /\ \A k \in DOMAIN runs : IsRun(runs[k], nb, R)
    BY SeqFacts DEF RunsOK
  <1>2. /\ runs[r] = [mode |-> runs[r].mode, outcome |-> runs[r].outcome, ops |-> runs[r].ops]
        /\ runs[r].mode \in Modes /\ IsSeq(runs[r].ops)
        /\ \A i \in DOMAIN runs[r].ops : IsOp(runs[r].ops[i], nb, R)
    BY <1>1 DEF IsRun
  <1>3. /\ Reverted(r) = Append(marked, undoer)
        /\ DOMAIN marked = DOMAIN runs /\ marked = [k \in DOMAIN runs |-> marked[k]]
        /\ \A k \in DOMAIN runs : k # r => marked[k] = runs[k]
    BY DEF Reverted
  <1>4. marked[r] = [mode |-> runs[r].mode, outcome |-> "reverted", ops |-> ops]
    <2> HIDE DEF ops
    <2>1. PICK x : x = runs[r] OBVIOUS
    <2>2. marked[r] = [[x EXCEPT !.outcome = "reverted"] EXCEPT !.ops = ops] BY <2>1
    <2>3. PICK y : y = [x EXCEPT !.outcome = "reverted"] OBVIOUS
    <2>4. y = [mode |-> x.mode, outcome |-> "reverted", ops |-> x.ops] BY <1>2, <2>1, <2>3, RunChanged
    <2>5. y.mode = x.mode /\ y = [mode |-> y.mode, outcome |-> y.outcome, ops |-> y.ops]
          /\ y.outcome = "reverted"
      BY <2>4
    <2>6. [y EXCEPT !.ops = ops] = [mode |-> x.mode, outcome |-> "reverted", ops |-> ops]
      BY <2>5, RunChanged
    <2> QED BY <2>1, <2>2, <2>3, <2>6
  <1>5. /\ DOMAIN ops = DOMAIN runs[r].ops
        /\ \A i \in DOMAIN ops : /\ i \in Applied(r) => ops[i] = [runs[r].ops[i] EXCEPT !.outcome = "reverted"]
                                 /\ i \notin Applied(r) => ops[i] = runs[r].ops[i]
        /\ ops = [i \in DOMAIN runs[r].ops |-> ops[i]]
    OBVIOUS
  <1> HIDE DEF ops, marked, undoer
  <1>6. ASSUME NEW i \in DOMAIN ops
        PROVE  IsOp(ops[i], nb, R) /\ ops[i].prop = runs[r].ops[i].prop
               /\ (ops[i].outcome \in {"applied", "reverted"} => runs[r].ops[i].outcome \in {"applied", "reverted"})
    <2>1. IsOp(runs[r].ops[i], nb, R) BY <1>2, <1>5, <1>6
    <2>2. CASE i \in Applied(r)
      <3>1. runs[r].ops[i].outcome = "applied" BY <2>2 DEF Applied
      <3>2. ops[i] = [runs[r].ops[i] EXCEPT !.outcome = "reverted"] BY <1>5, <1>6, <2>2
      <3>3. IsOp(ops[i], nb, R) /\ ops[i].prop = runs[r].ops[i].prop BY <2>1, <3>2, OpChanged
      <3> QED BY <3>1, <3>3
    <2>3. CASE i \notin Applied(r)
      <3>1. ops[i] = runs[r].ops[i] BY <1>5, <1>6, <2>3
      <3> QED BY <2>1, <3>1
    <2> QED BY <2>2, <2>3
  <1>7. IsSeq(ops)
    <2>1. Len(runs[r].ops) \in Nat /\ DOMAIN runs[r].ops = 1..Len(runs[r].ops) BY <1>2, SeqFacts
    <2> QED BY <1>5, <2>1, SeqOfFunction
  <1>8. IsRun(marked[r], nb, R)
    <2>1. /\ marked[r].mode = runs[r].mode /\ marked[r].outcome = "reverted" /\ marked[r].ops = ops
          /\ marked[r] = [mode |-> marked[r].mode, outcome |-> marked[r].outcome, ops |-> marked[r].ops]
      BY <1>4
    <2> QED BY <1>2, <1>6, <1>7, <2>1 DEF IsRun, Outcomes
  <1>9. IsSeq(marked) /\ Len(marked) = n BY <1>1, <1>3, SeqOfFunction
  <1>10. IsRun(undoer, nb, R) /\ undoer.ops = << >>
    <2>1. undoer.mode = "revert" /\ undoer.outcome = "done" /\ undoer.ops = << >> BY DEF undoer
    <2>2. undoer = [mode |-> undoer.mode, outcome |-> undoer.outcome, ops |-> undoer.ops]
      BY <2>1 DEF undoer
    <2>3. IsSeq(<< >>) /\ DOMAIN << >> = {} BY DEF IsSeq
    <2> QED BY <2>1, <2>2, <2>3 DEF IsRun, Modes, Outcomes
  <1>11. /\ IsSeq(Reverted(r)) /\ Len(Reverted(r)) = n + 1
         /\ DOMAIN Reverted(r) = 1..(n + 1)
         /\ \A k \in 1..n : Reverted(r)[k] = marked[k]
         /\ Reverted(r)[n + 1] = undoer
         /\ \A k \in 1..(n + 1) : k \in 1..n \/ k = n + 1
    BY ONLY <1>3, <1>9, AppendFacts, SMTT(60)
  <1>12. RunsOK(Reverted(r), nb, R)
    <2>1. ASSUME NEW k \in DOMAIN Reverted(r) PROVE IsRun(Reverted(r)[k], nb, R)
      <3>1. CASE k = n + 1 BY <1>10, <1>11, <3>1
      <3>2. CASE k \in 1..n /\ k # r
        <4>1. Reverted(r)[k] = runs[k] BY <1>1, <1>3, <1>11, <3>2
        <4> QED BY <1>1, <3>2, <4>1
      <3>3. CASE k = r
        <4>1. Reverted(r)[k] = marked[r] BY <1>1, <1>11, <3>3
        <4> QED BY <1>8, <4>1
      <3> QED BY <1>11, <2>1, <3>1, <3>2, <3>3
    <2> QED BY <1>11, <2>1 DEF RunsOK
  <1>13. ASSUME NEW k, NEW i, NEW id, DoneAt(Reverted(r), k, i, id)
         PROVE  DoneAt(runs, k, i, id)
    <2>1. k \in 1..(n + 1) BY <1>11, <1>13 DEF DoneAt
    <2>2. k # n + 1
      <3>1. DOMAIN << >> = {} OBVIOUS
      <3> QED BY <1>10, <1>11, <1>13, <3>1 DEF DoneAt
    <2>3. k \in DOMAIN runs /\ Reverted(r)[k] = marked[k] BY <1>1, <1>11, <2>1, <2>2
    <2>4. CASE k # r BY <1>3, <1>13, <2>3, <2>4 DEF DoneAt
    <2>5. CASE k = r
      <3>1. marked[k].ops = ops BY <1>4, <2>5
      <3>2. i \in DOMAIN ops /\ ops[i].prop = id /\ ops[i].outcome \in {"applied", "reverted"}
        BY <1>13, <2>3, <3>1 DEF DoneAt
      <3> QED BY <1>5, <1>6, <2>3, <2>5, <3>2 DEF DoneAt
    <2> QED BY <2>4, <2>5
  <1> QED BY <1>11, <1>12, <1>13

LEMMA RevertRunStep ==
    ASSUME TablesOK, slips \subseteq Slips, NEW r \in DOMAIN runs, RevertRun(r)
    PROVE  TablesOK' /\ Len(runs') = Len(runs) + 1 /\ newest'.prop = newest.prop /\ slips' \subseteq Slips
  <1> DEFINE nb == newest.node
             L == newest.link
             R == Len(runs) + 1
  <1>1. /\ nb \in Nat /\ L \in Nat /\ Len(runs) \in Nat /\ R \in Nat /\ Len(runs) <= R
        /\ nb <= nb /\ L <= L /\ R \in 0..R /\ newest.prop \in Nat
        /\ RowsOK(cat, nb, L, nb, Len(runs)) /\ RunsOK(runs, nb, Len(runs))
        /\ QueueOK(queue, newest.prop) /\ OnceIn(runs, queue, newest.prop)
        /\ newest = [node |-> newest.node, link |-> newest.link, prop |-> newest.prop]
    BY TablesParts
  <1>2. /\ Undone(r, R).ok /\ cat' = Undone(r, R).c /\ runs' = Reverted(r)
        /\ UNCHANGED <<newest, queue>>
        /\ slips' = slips \cup IF Later(r) THEN {"skipped"} ELSE {}
    BY DEF RevertRun
  <1> HIDE DEF nb, L, R
  <1>3. RowsOK(cat, nb, L, nb, R) BY <1>1, WiderRows
  <1>4. RunsOK(runs, nb, R) BY <1>1, Wider
  <1>5. RowsOK(cat', nb, L, nb, R)
    <2>1. RowsOK(Undone(r, R).c, nb, L, nb, R) BY <1>1, <1>2, <1>3, <1>4, UndoneFacts
    <2> QED BY <1>2, <2>1
  <1>6. /\ RunsOK(runs', nb, R) /\ Len(runs') = R
        /\ \A k, i, id : DoneAt(runs', k, i, id) => DoneAt(runs, k, i, id)
    <2>1. /\ RunsOK(Reverted(r), nb, R) /\ Len(Reverted(r)) = Len(runs) + 1
          /\ \A k, i, id : DoneAt(Reverted(r), k, i, id) => DoneAt(runs, k, i, id)
      BY <1>1, <1>4, RevertedFacts
    <2> QED BY <1>2, <2>1 DEF R
  <1>7. OnceIn(runs', queue', newest'.prop)
    <2>1. \A q \in queue' : q.id > newest.prop \/ \E o \in queue : q.id = o.id BY <1>2
    <2>2. newest.prop <= newest.prop BY <1>1
    <2>3. newest'.prop = newest.prop BY <1>2
    <2> QED BY <1>1, <1>6, <2>1, <2>2, <2>3, StillOnce
  <1>8. TablesOK' BY <1>1, <1>2, <1>5, <1>6, <1>7 DEF TablesOK, nb, L
  <1>9. slips' \subseteq Slips BY <1>2 DEF Slips
  <1> QED BY <1>2, <1>6, <1>8, <1>9 DEF R

LEMMA RevertStep ==
    ASSUME CatInv, Revert
    PROVE  CatInv'
  <1>1. /\ TablesOK /\ PassesOK /\ slips \subseteq Slips /\ menu \in Menus
        /\ horizon \in 0..Len(runs) /\ Len(runs) \in Nat /\ newest.prop \in Nat
    BY TablesParts DEF CatInv
  <1>2. PICK r \in DOMAIN runs : RevertRun(r) /\ UNCHANGED <<kept, pass>> BY DEF Revert
  <1>3. TablesOK' /\ Len(runs') = Len(runs) + 1 /\ newest'.prop = newest.prop /\ slips' \subseteq Slips
    BY <1>1, <1>2, RevertRunStep
  <1>4. UNCHANGED <<menu, horizon>> BY <1>2 DEF RevertRun
  <1>5. PassesOK'
    <2>1. newest.prop <= newest'.prop /\ Len(runs) <= Len(runs') BY <1>1, <1>3
    <2> QED BY <1>1, <1>2, <1>3, <2>1, SamePasses
  <1>6. horizon' \in 0..Len(runs') BY <1>1, <1>3, <1>4
  <1> QED BY <1>1, <1>3, <1>4, <1>5, <1>6 DEF CatInv

LEMMA CanaryRevertsStep ==
    ASSUME CatInv, NEW w \in Workers, CanaryReverts(w)
    PROVE  CatInv'
  <1>1. /\ TablesOK /\ PassesOK /\ slips \subseteq Slips /\ menu \in Menus
        /\ horizon \in 0..Len(runs) /\ Len(runs) \in Nat /\ newest.prop \in Nat
        /\ DOMAIN runs = 1..Len(runs) /\ IsPass(pass[w], newest.prop, Len(runs))
    BY Passes, TablesParts DEF CatInv
  <1>2. /\ pass[w].pc = "canary" /\ RevertRun(pass[w].run) /\ pass' = [pass EXCEPT ![w] = Idle]
    BY DEF CanaryReverts
  <1>3. pass[w].run \in DOMAIN runs
    <2>1. pass[w].run \in 0..Len(runs) /\ pass[w].run # 0 BY <1>1, <1>2 DEF IsPass
    <2> QED BY <1>1, <2>1
  <1>4. TablesOK' /\ Len(runs') = Len(runs) + 1 /\ newest'.prop = newest.prop /\ slips' \subseteq Slips
    BY <1>1, <1>2, <1>3, RevertRunStep
  <1>5. UNCHANGED <<menu, horizon>> BY <1>2 DEF RevertRun
  <1>6. PassesOK'
    <2>1. newest.prop <= newest'.prop /\ Len(runs) <= Len(runs') /\ Len(runs') \in Nat BY <1>1, <1>4
    <2>2. IsPass(Idle, newest'.prop, Len(runs')) BY <2>1, PassFacts
    <2> QED BY <1>1, <1>2, <1>4, <2>1, <2>2, PassChanged
  <1>7. horizon' \in 0..Len(runs') BY <1>1, <1>4, <1>5
  <1> QED BY <1>1, <1>4, <1>5, <1>6, <1>7 DEF CatInv

-----------------------------------------------------------------------------
(* Housekeeping.                                                           *)

LEMMA ImageForgotten ==
    ASSUME NEW nb, NEW R, NEW x, IsOp(x, nb, R), NEW z, z = [x EXCEPT !.image = NoImage]
    PROVE  IsOp(z, nb, R) /\ z.outcome = x.outcome /\ z.prop = x.prop
  <1>1. /\ x = [op |-> x.op, outcome |-> x.outcome, subjects |-> x.subjects, image |-> x.image, prop |-> x.prop]
        /\ x.outcome \in OpOutcomes
    BY DEF IsOp, OpRow
  <1>2. PICK o, u, s, m, p : x = [op |-> o, outcome |-> u, subjects |-> s, image |-> m, prop |-> p]
    BY <1>1
  <1>3. PICK none : none = NoImage OBVIOUS
  <1>4. z = [op |-> o, outcome |-> u, subjects |-> s, image |-> none, prop |-> p] BY <1>2, <1>3
  <1>5. z.op = o /\ z.outcome = u /\ z.subjects = s /\ z.image = none /\ z.prop = p BY <1>4
  <1>6. u = x.outcome /\ p = x.prop BY <1>2
  <1>7. ImageOK(z.image, nb, R) BY <1>3, <1>5, ImageFacts
  <1>8. z = OpRow(z.op, z.outcome, z.subjects, z.image, z.prop) BY <1>4, <1>5 DEF OpRow
  <1> QED BY <1>1, <1>5, <1>6, <1>7, <1>8 DEF IsOp

\* A run past the horizon keeps its operations and loses their images.
LEMMA RunForgotten ==
    ASSUME NEW nb, NEW R, NEW x, IsRun(x, nb, R), NEW z,
           z = [x EXCEPT !.ops = [i \in DOMAIN x.ops |-> [x.ops[i] EXCEPT !.image = NoImage]]]
    PROVE  /\ IsRun(z, nb, R) /\ DOMAIN z.ops = DOMAIN x.ops
           /\ \A i \in DOMAIN x.ops : z.ops[i].outcome = x.ops[i].outcome /\ z.ops[i].prop = x.ops[i].prop
  <1> DEFINE ops == [i \in DOMAIN x.ops |-> [x.ops[i] EXCEPT !.image = NoImage]]
  <1>1. /\ x = [mode |-> x.mode, outcome |-> x.outcome, ops |-> x.ops]
        /\ x.mode \in Modes /\ x.outcome \in Outcomes
        /\ IsSeq(x.ops) /\ \A i \in DOMAIN x.ops : IsOp(x.ops[i], nb, R)
    BY DEF IsRun
  <1>2. /\ DOMAIN ops = DOMAIN x.ops /\ ops = [i \in DOMAIN x.ops |-> ops[i]]
        /\ \A i \in DOMAIN x.ops : ops[i] = [x.ops[i] EXCEPT !.image = NoImage]
        /\ z = [x EXCEPT !.ops = ops]
    OBVIOUS
  <1> HIDE DEF ops
  <1>3. z = [mode |-> x.mode, outcome |-> x.outcome, ops |-> ops] BY <1>1, <1>2, RunChanged
  <1>4. /\ z.mode = x.mode /\ z.outcome = x.outcome /\ z.ops = ops
        /\ z = [mode |-> z.mode, outcome |-> z.outcome, ops |-> z.ops]
    <2>1. PICK m, u : m = x.mode /\ u = x.outcome OBVIOUS
    <2>2. PICK y : y = z OBVIOUS
    <2>3. y = [mode |-> m, outcome |-> u, ops |-> ops] BY <1>3, <2>1, <2>2
    <2>4. /\ y.mode = m /\ y.outcome = u /\ y.ops = ops
          /\ y = [mode |-> y.mode, outcome |-> y.outcome, ops |-> y.ops]
      BY <2>3
    <2> QED BY <2>1, <2>2, <2>4
  <1>5. ASSUME NEW i \in DOMAIN x.ops
        PROVE  IsOp(ops[i], nb, R) /\ ops[i].outcome = x.ops[i].outcome /\ ops[i].prop = x.ops[i].prop
    <2>1. IsOp(x.ops[i], nb, R) /\ ops[i] = [x.ops[i] EXCEPT !.image = NoImage] BY <1>1, <1>2, <1>5
    <2> QED BY <2>1, ImageForgotten
  <1>6. IsSeq(ops)
    <2>1. Len(x.ops) \in Nat /\ DOMAIN x.ops = 1..Len(x.ops) BY <1>1, SeqFacts
    <2> QED BY <1>2, <2>1, SeqOfFunction
  <1>7. IsRun(z, nb, R) BY <1>1, <1>2, <1>4, <1>5, <1>6 DEF IsRun
  <1> QED BY <1>2, <1>4, <1>5, <1>7

LEMMA VacuumStep ==
    ASSUME CatInv, Vacuum
    PROVE  CatInv'
  <1> DEFINE nb == newest.node
             L == newest.link
             R == Len(runs)
             h == R - HorizonRuns
  <1>1. /\ TablesOK /\ PassesOK /\ slips \subseteq Slips /\ menu \in Menus /\ horizon \in 0..R
        /\ nb \in Nat /\ L \in Nat /\ R \in Nat /\ newest.prop \in Nat
        /\ RowsOK(cat, nb, L, nb, R) /\ RunsOK(runs, nb, R)
        /\ DOMAIN runs = 1..R /\ \A r \in DOMAIN runs : IsRun(runs[r], nb, R)
        /\ QueueOK(queue, newest.prop) /\ OnceIn(runs, queue, newest.prop)
        /\ newest = [node |-> newest.node, link |-> newest.link, prop |-> newest.prop]
    BY TablesParts DEF CatInv
  <1>2. /\ h > horizon /\ cat' = Vacuumed(cat, h) /\ horizon' = h
        /\ runs' = [r \in DOMAIN runs |->
                      IF r > h THEN runs[r]
                      ELSE [runs[r] EXCEPT !.ops = [i \in DOMAIN runs[r].ops |->
                                                      [runs[r].ops[i] EXCEPT !.image = NoImage]]]]
        /\ UNCHANGED <<newest, queue, pass, menu, slips>>
    BY DEF Vacuum
  <1>3. h \in 0..R
    <2>1. HorizonRuns \in Nat BY CatalogAssumptions
    <2> QED BY <1>1, <1>2, <2>1
  <1>4. RowsOK(cat', nb, L, nb, R)
    <2> HIDE DEF nb, L, R, h
    <2>1. RowsOK(Vacuumed(cat, h), nb, L, nb, R) BY <1>1, VacuumFacts
    <2> QED BY <1>2, <2>1
  <1>5. PICK rs : rs = runs' OBVIOUS
  <1>6. DOMAIN rs = DOMAIN runs /\ rs = [r \in DOMAIN runs |-> rs[r]] BY <1>2, <1>5
  <1>7. ASSUME NEW r \in DOMAIN runs
        PROVE  /\ IsRun(rs[r], nb, R) /\ DOMAIN rs[r].ops = DOMAIN runs[r].ops
               /\ \A i \in DOMAIN runs[r].ops : /\ rs[r].ops[i].outcome = runs[r].ops[i].outcome
                                                /\ rs[r].ops[i].prop = runs[r].ops[i].prop
    <2>1. IsRun(runs[r], nb, R) BY <1>1, <1>7
    <2>2. CASE rs[r] = runs[r] BY <2>1, <2>2
    <2>3. CASE rs[r] = [runs[r] EXCEPT !.ops = [i \in DOMAIN runs[r].ops |->
                                                  [runs[r].ops[i] EXCEPT !.image = NoImage]]]
      <3> HIDE DEF nb, R
      <3> QED BY <2>1, <2>3, RunForgotten
    <2> QED BY <1>2, <1>5, <1>7, <2>2, <2>3
  <1>8. IsSeq(rs) /\ Len(rs) = R BY <1>1, <1>6, SeqOfFunction
  <1>9. RunsOK(rs, nb, R) BY <1>6, <1>7, <1>8 DEF RunsOK
  <1>10. \A k, i, id : DoneAt(rs, k, i, id) => DoneAt(runs, k, i, id) BY <1>6, <1>7 DEF DoneAt
  <1>11. OnceIn(runs', queue', newest'.prop)
    <2>1. \A q \in queue' : q.id > newest.prop \/ \E o \in queue : q.id = o.id BY <1>2
    <2>2. newest.prop <= newest.prop /\ newest'.prop = newest.prop BY <1>1, <1>2
    <2> QED BY <1>1, <1>5, <1>10, <2>1, <2>2, StillOnce
  <1>12. TablesOK' BY <1>1, <1>2, <1>4, <1>5, <1>8, <1>9, <1>11 DEF TablesOK
  <1>13. Len(runs') = R /\ newest'.prop = newest.prop BY <1>2, <1>5, <1>8
  <1>14. PassesOK'
    <2>1. newest.prop <= newest'.prop /\ Len(runs) <= Len(runs') BY <1>1, <1>13
    <2> QED BY <1>1, <1>2, <1>12, <2>1, SamePasses
  <1>15. horizon' \in 0..Len(runs') BY <1>2, <1>3, <1>13
  <1> QED BY <1>1, <1>2, <1>12, <1>14, <1>15 DEF CatInv

-----------------------------------------------------------------------------
(* The invariant.                                                          *)

\* The newest id of a table of the first catalog.
LEMMA FirstNewest ==
    ASSUME NEW D, IsFiniteSet(D), \A n \in D : n \in Nat \ {0}
    PROVE  Max({0} \cup D) \in Nat /\ \A n \in D : n \in 1..Max({0} \cup D)
  <1> DEFINE S == {0} \cup D
  <1>1. S \subseteq Nat /\ S # {} /\ D \subseteq S OBVIOUS
  <1>2. IsFiniteSet(S)
    <2>1. IsFiniteSet({0}) BY FS_Singleton
    <2> QED BY <2>1, FS_Union
  <1> HIDE DEF S
  <1>3. PICK k \in Nat : \A x \in S : x <= k BY <1>1, <1>2, FiniteIsBounded
  <1>4. Max(S) \in Nat /\ \A x \in S : x <= Max(S) BY <1>1, <1>3, MaxFacts
  <1>5. ASSUME NEW n \in D PROVE n \in 1..Max(S)
    <2>1. n \in Nat \ {0} /\ n <= Max(S) BY <1>1, <1>4, <1>5
    <2> QED BY <1>4, <2>1
  <1> QED BY <1>4, <1>5 DEF S

LEMMA CatInit == Init => CatInv
  <1> SUFFICES ASSUME Init PROVE CatInv OBVIOUS
  <1> DEFINE K == Max({0} \cup DOMAIN FirstCatalog.node)
             L == Max({0} \cup DOMAIN FirstCatalog.link)
  <1>1. K \in Nat /\ \A n \in DOMAIN FirstCatalog.node : n \in 1..K
    BY CatalogAssumptions, FirstNewest
  <1>2. L \in Nat /\ \A l \in DOMAIN FirstCatalog.link : l \in 1..L
    BY CatalogAssumptions, FirstNewest
  <1>3. /\ cat = FirstCatalog /\ newest = [node |-> K, link |-> L, prop |-> 0]
        /\ runs = << >> /\ queue = {} /\ horizon = 0 /\ pass = [w \in Workers |-> Idle]
        /\ menu \in Menus /\ slips = {}
    BY DEF Init
  <1> HIDE DEF K, L
  <1>4. Len(runs) = 0 /\ DOMAIN runs = {} /\ IsSeq(runs) BY <1>3 DEF IsSeq
  <1>5. newest.node = K /\ newest.link = L /\ newest.prop = 0 BY <1>3
  <1>6. RowsOK(FirstCatalog, K, L, K, 0)
    <2>1. ASSUME NEW n \in DOMAIN FirstCatalog.node PROVE IsNode(FirstCatalog.node[n], 0)
      <3>1. FirstCatalog.node[n] = NewNode(FirstCatalog.node[n].parent, FirstCatalog.node[n].title,
                                           FirstCatalog.node[n].kind)
        BY <2>1, CatalogAssumptions
      <3>2. PICK p, t, k : FirstCatalog.node[n] = [parent |-> p, title |-> t, kind |-> k, by |-> 0]
        BY <3>1 DEF NewNode
      <3> QED BY <3>2 DEF IsNode
    <2>2. ASSUME NEW l \in DOMAIN FirstCatalog.link
          PROVE  IsLink(FirstCatalog.link[l], 0) /\ FirstCatalog.link[l].node \in DOMAIN FirstCatalog.node
      <3>1. /\ FirstCatalog.link[l] = NewLink(FirstCatalog.link[l].node, FirstCatalog.link[l].item)
            /\ FirstCatalog.link[l].node \in DOMAIN FirstCatalog.node
        BY <2>2, CatalogAssumptions
      <3>2. PICK m, t : FirstCatalog.link[l] = [node |-> m, item |-> t, by |-> 0]
        BY <3>1 DEF NewLink
      <3>3. IsLink(FirstCatalog.link[l], 0) BY <3>2 DEF IsLink
      <3> QED BY <3>1, <3>3
    <2>3. /\ FirstCatalog = [node |-> FirstCatalog.node, link |-> FirstCatalog.link, sup |-> FirstCatalog.sup]
          /\ LinksUnique(FirstCatalog)
      BY CatalogAssumptions
    <2> QED BY <1>1, <1>2, <2>1, <2>2, <2>3 DEF RowsOK
  <1>7. TablesOK
    <2>1. RowsOK(cat, newest.node, newest.link, newest.node, Len(runs)) BY <1>3, <1>4, <1>5, <1>6
    <2>2. RunsOK(runs, newest.node, Len(runs)) BY <1>4 DEF RunsOK
    <2>3. QueueOK(queue, newest.prop) BY <1>3 DEF QueueOK
    <2>4. OnceIn(runs, queue, newest.prop) BY <1>4 DEF OnceIn, DoneAt
    <2>5. newest = [node |-> newest.node, link |-> newest.link, prop |-> newest.prop] BY <1>3, <1>5
    <2> QED BY <1>1, <1>2, <1>5, <2>1, <2>2, <2>3, <2>4, <2>5 DEF TablesOK
  <1>8. PassesOK
    <2>1. Len(runs) \in Nat BY <1>4
    <2>2. IsPass(Idle, newest.prop, Len(runs)) BY <2>1, PassFacts
    <2> QED BY <1>3, <2>2 DEF PassesOK
  <1>9. horizon \in 0..Len(runs) BY <1>3, <1>4
  <1> QED BY <1>3, <1>7, <1>8, <1>9 DEF CatInv

LEMMA CatStep == CatInv /\ [Next]_vars => CatInv'
  <1> SUFFICES ASSUME CatInv, [Next]_vars PROVE CatInv' OBVIOUS
  <1>1. ASSUME NEW w \in Workers,
               \/ StartRun(w) \/ Crash(w) \/ LoadQueue(w) \/ Adjudicate(w) \/ Verified(w)
               \/ Finish(w) \/ CanaryHolds(w) \/ CanaryReverts(w)
        PROVE  CatInv'
    BY <1>1, StartRunStep, LeavesStep, LoadQueueStep, AdjudicateStep, VerifiedStep, FinishStep,
       CanaryRevertsStep
  <1>2. ASSUME NEW w \in Workers, NEW a \in menu.filings, StageCreate(w, a) \/ StageFile(w, a)
        PROVE  CatInv'
    BY <1>2, StageCreateStep, StageFileStep
  <1>3. ASSUME NEW w \in Workers, NEW p \in menu.proposals, StageStructural(w, p)
        PROVE  CatInv'
    BY <1>3, StageStructuralStep
  <1>4. CASE Revert BY <1>4, RevertStep
  <1>5. CASE Vacuum BY <1>5, VacuumStep
  <1>6. CASE UNCHANGED vars
    <2>1. TablesOK /\ PassesOK /\ slips \subseteq Slips /\ menu \in Menus /\ horizon \in 0..Len(runs)
      BY DEF CatInv
    <2>2. UNCHANGED <<cat, newest, runs, queue, horizon, pass, menu, slips>> BY <1>6 DEF vars
    <2>3. TablesOK' BY <2>1, <2>2, SameTables
    <2>4. PassesOK' BY <2>1, <2>2 DEF PassesOK
    <2> QED BY <2>1, <2>2, <2>3, <2>4 DEF CatInv
  <1> QED BY <1>1, <1>2, <1>3, <1>4, <1>5, <1>6 DEF Next

\* The rows, the journal, the queue and the passes keep their shape through
\* every operation, inverse and vacuum (catalog.rs, runs.rs), whatever is
\* proposed and however the passes interleave.
THEOREM CatalogInvariant == Spec => []CatInv
  <1> QED BY CatInit, CatStep, PTL DEF Spec

\* Every id was given, every mark is of a run that is journaled, the dedup
\* index of class_links holds, and a proposal in the queue has attempts left.
THEOREM CatalogTypeCorrect == Spec => []TypeOK
  <1>1. ASSUME CatInv PROVE TypeOK
    <2>1. /\ TablesOK /\ PassesOK /\ slips \subseteq Slips /\ horizon \in 0..Len(runs)
          /\ \A r \in DOMAIN runs : IsRun(runs[r], newest.node, Len(runs))
          /\ RowsOK(cat, newest.node, newest.link, newest.node, Len(runs))
          /\ QueueOK(queue, newest.prop)
      BY <1>1, TablesParts DEF CatInv
    <2>2. \A n \in DOMAIN cat.node : n \in 1..newest.node /\ cat.node[n].by \in 0..Len(runs)
      BY <2>1 DEF RowsOK, IsNode
    <2>3. \A l \in DOMAIN cat.link : l \in 1..newest.link /\ cat.link[l].by \in 0..Len(runs)
      BY <2>1 DEF RowsOK, IsLink
    <2>4. LinksUnique(cat) BY <2>1 DEF RowsOK
    <2>5. \A r \in DOMAIN runs :
            /\ runs[r].mode \in Modes /\ runs[r].outcome \in Outcomes
            /\ \A i \in DOMAIN runs[r].ops : runs[r].ops[i].outcome \in OpOutcomes
      BY <2>1 DEF IsRun, IsOp
    <2>6. \A q \in queue :
            /\ q.id \in 1..newest.prop /\ q.attempts \in 0..(MaxAttempts - 1)
            /\ \A o \in queue : q.id = o.id => q = o
      BY <2>1 DEF QueueOK, IsProposal
    <2>7. \A w \in Workers : pass[w].run \in 0..Len(runs) BY <2>1 DEF PassesOK, IsPass
    <2> QED BY <2>1, <2>2, <2>3, <2>4, <2>5, <2>6, <2>7 DEF TypeOK
  <1> QED BY <1>1, CatalogInvariant, PTL

\* The places in the journal where a proposal was done.
DoneFor(id) ==
    {x \in UNION {{r} \X DOMAIN runs[r].ops : r \in DOMAIN runs} :
       LET op == runs[x[1]].ops[x[2]]
       IN  op.prop = id /\ op.outcome \in {"applied", "reverted"}}

LEMMA DoneForFacts ==
    ASSUME NEW id, NEW x \in DoneFor(id)
    PROVE  x = <<x[1], x[2]>> /\ DoneAt(runs, x[1], x[2], id)
  <1>1. PICK r \in DOMAIN runs : x \in {r} \X DOMAIN runs[r].ops BY DEF DoneFor
  <1>2. x = <<x[1], x[2]>> /\ x[1] = r /\ x[2] \in DOMAIN runs[r].ops BY <1>1
  <1>3. runs[x[1]].ops[x[2]].prop = id /\ runs[x[1]].ops[x[2]].outcome \in {"applied", "reverted"}
    BY DEF DoneFor
  <1> QED BY <1>2, <1>3 DEF DoneAt

LEMMA DoneForOnce ==
    ASSUME NEW n, OnceIn(runs, queue, n), NEW id \in Nat \ {0}
    PROVE  Cardinality(DoneFor(id)) <= 1 /\ (DoneFor(id) # {} => ById(id) = {})
  <1>1. CASE DoneFor(id) = {}
    <2>1. Cardinality(DoneFor(id)) = 0 BY <1>1, FS_EmptySet
    <2> QED BY <1>1, <2>1
  <1>2. CASE DoneFor(id) # {}
    <2>1. PICK x \in DoneFor(id) : TRUE BY <1>2
    <2>2. DoneAt(runs, x[1], x[2], id) /\ x = <<x[1], x[2]>> BY <2>1, DoneForFacts
    <2>3. /\ \A q \in queue : q.id # id
          /\ \A k, j : DoneAt(runs, k, j, id) => k = x[1] /\ j = x[2]
      BY <2>2 DEF OnceIn
    <2>4. \A y \in DoneFor(id) : y = x BY <2>2, <2>3, DoneForFacts
    <2>5. DoneFor(id) = {x} BY <2>1, <2>4
    <2>6. Cardinality(DoneFor(id)) = 1 BY <2>5, FS_Singleton
    <2>7. ById(id) = {} BY <2>3 DEF ById
    <2> QED BY <2>6, <2>7
  <1> QED BY <1>1, <1>2

\* A proposal that was applied is out of the queue and is applied once in the
\* journal's whole life: through crashes of a pass between the verdict and
\* the verifier's answer, two passes that read the queue at the same time,
\* deferrals, reverts and vacuums.
THEOREM AppliedOnce == Spec => []SettledOnce
  <1>1. ASSUME CatInv PROVE SettledOnce
    <2>1. OnceIn(runs, queue, newest.prop) /\ newest.prop \in Nat BY <1>1, TablesParts DEF CatInv
    <2>2. \A id \in 1..newest.prop : id \in Nat \ {0} BY <2>1
    <2>3. \A id \in 1..newest.prop :
            Cardinality(DoneFor(id)) <= 1 /\ (DoneFor(id) # {} => ById(id) = {})
      BY <2>1, <2>2, DoneForOnce
    <2>4. SettledOnce <=> \A id \in 1..newest.prop :
            Cardinality(DoneFor(id)) <= 1 /\ (DoneFor(id) # {} => ById(id) = {})
      BY Zenon DEF SettledOnce, DoneFor
    <2> QED BY <2>3, <2>4
  <1> QED BY <1>1, CatalogInvariant, PTL

=============================================================================
