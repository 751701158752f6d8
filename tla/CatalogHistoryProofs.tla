------------------------- MODULE CatalogHistoryProofs -------------------------
(***************************************************************************)
(* Proofs about the past of Catalog: the journal leads back, so that the   *)
(* last run that wrote can be reverted and every reader then sees what it  *)
(* saw before; and the classes stay a forest from which the items hang.    *)
(*                                                                         *)
(* First what an undo makes of rows that are not quite those the run left  *)
(* (Stands), operation by operation; then the runs as a stack (UndoInv);   *)
(* then the forest (ForestInv), which needs the stack: a revert is sound   *)
(* because it leads back to rows that were.                                *)
(***************************************************************************)
EXTENDS CatalogProofs

-----------------------------------------------------------------------------
(* Undoing.  The rows after an undo are not the rows there were: what was   *)
(* made is still there, marked; what a vacuum has swept is gone; and a      *)
(* refile has marked links that nobody journaled.  Rows u stand for rows c  *)
(* when they differ only so, which no reader sees.                          *)

\* Rows of the right shape, no two links the same.
Table(c) ==
    /\ c = [node |-> c.node, link |-> c.link, sup |-> c.sup]
    /\ \A n \in DOMAIN c.node :
         LET x == c.node[n]
         IN  n \in Nat /\ x = [parent |-> x.parent, title |-> x.title, kind |-> x.kind, by |-> x.by]
    /\ \A l \in DOMAIN c.link :
         LET x == c.link[l]
         IN  l \in Nat /\ x.node \in Nat /\ x = [node |-> x.node, item |-> x.item, by |-> x.by]
    /\ LinksUnique(c)

\* u's node n and c's: the same, or its mark, made by the run e that is being
\* undone, is cleared already.
SameNode(u, c, n, e) ==
    \/ u.node[n] = c.node[n]
    \/ c.node[n].by = e /\ u.node[n] = [c.node[n] EXCEPT !.by = 0]
\* u's link l and c's: the same, or u's was marked by a refile.
SameLink(u, c, l, loose) ==
    \/ u.link[l] = c.link[l]
    \/ /\ loose /\ c.link[l].by = 0 /\ u.link[l].by # 0
       /\ u.link[l].node = c.link[l].node /\ u.link[l].item = c.link[l].item

\* The ids of c go up to K and L; the marks up to h are swept; what is left of
\* newer nodes is marked by one of the reverts S.
NodesStand(u, c, K, h, e, S) ==
    /\ \A n \in DOMAIN u.node \cap DOMAIN c.node : SameNode(u, c, n, e)
    /\ \A n \in DOMAIN u.node \ DOMAIN c.node : n > K /\ u.node[n].by \in S
    /\ \A n \in DOMAIN c.node \ DOMAIN u.node : c.node[n].by \in 1..h
LinksStand(u, c, K, L, h, loose) ==
    /\ \A l \in DOMAIN u.link \cap DOMAIN c.link : SameLink(u, c, l, loose)
    /\ \A l \in DOMAIN u.link \ DOMAIN c.link : l > L /\ u.link[l].by # 0 /\ u.link[l].node > K
    /\ \A l \in DOMAIN c.link \ DOMAIN u.link : loose \/ c.link[l].by \in 1..h
Stands(u, c, K, L, h, e, S, loose) ==
    /\ NodesStand(u, c, K, h, e, S)
    /\ LinksStand(u, c, K, L, h, loose)
    /\ u.sup = c.sup

\* The ids of c, and what its links hang from, are bounded by K and L.
Bounded(c, K, L) ==
    /\ \A n \in DOMAIN c.node : n \in 1..K
    /\ \A l \in DOMAIN c.link : l \in 1..L /\ c.link[l].node \in 1..K

LEMMA RowsAreTable ==
    ASSUME NEW c, NEW K \in Nat, NEW L \in Nat, NEW R \in Nat, RowsOK(c, K, L, K, R)
    PROVE  Table(c) /\ Bounded(c, K, L)
  <1>2. \A n \in DOMAIN c.node : n \in 1..K BY DEF RowsOK
  <1>3. \A l \in DOMAIN c.link : l \in 1..L /\ c.link[l].node \in 1..K BY <1>2 DEF RowsOK
  <1>4. \A n \in 1..K : n \in Nat OBVIOUS
  <1>5. \A l \in 1..L : l \in Nat OBVIOUS
  <1>6. Table(c) BY <1>2, <1>3, <1>4, <1>5 DEF RowsOK, IsNode, IsLink, Table
  <1> QED BY <1>2, <1>3, <1>6 DEF Bounded

LEMMA NodesTransitive ==
    ASSUME NEW u, NEW v, NEW c, NEW Kv \in Nat, NEW K \in Nat, K <= Kv, NEW h, NEW e, NEW S, e \notin S,
           0 \notin S,
           NodesStand(u, v, Kv, h, e, S), NodesStand(v, c, K, h, 0, S),
           Table(c), \A n \in DOMAIN c.node : n \in 1..K, \A n \in DOMAIN u.node : n \in Nat
    PROVE  NodesStand(u, c, K, h, e, S)
  <1>1. ASSUME NEW n \in DOMAIN v.node \cap DOMAIN c.node PROVE v.node[n] = c.node[n]
    <2>1. SameNode(v, c, n, 0) BY <1>1 DEF NodesStand
    <2>2. c.node[n].by = 0 => [c.node[n] EXCEPT !.by = 0] = c.node[n]
      <3>1. PICK x : x = c.node[n] OBVIOUS
      <3>2. x = [parent |-> x.parent, title |-> x.title, kind |-> x.kind, by |-> x.by]
        BY <1>1, <3>1 DEF Table
      <3>3. x.by = 0 => [x EXCEPT !.by = 0] = x BY <3>2
      <3> QED BY <3>1, <3>3
    <2> QED BY <2>1, <2>2 DEF SameNode
  <1>2. \A n \in DOMAIN c.node : ~(n > Kv) /\ ~(n > K) OBVIOUS
  <1>3. ASSUME NEW n \in DOMAIN u.node \cap DOMAIN c.node PROVE SameNode(u, c, n, e)
    <2>1. n \in DOMAIN v.node BY <1>2, <1>3 DEF NodesStand
    <2>2. SameNode(u, v, n, e) BY <1>3, <2>1 DEF NodesStand
    <2>3. v.node[n] = c.node[n] BY <1>1, <1>3, <2>1
    <2> QED BY <2>2, <2>3 DEF SameNode
  <1>4. ASSUME NEW n \in DOMAIN u.node \ DOMAIN c.node PROVE n > K /\ u.node[n].by \in S
    <2>1. CASE n \in DOMAIN v.node
      <3>1. n > K /\ v.node[n].by \in S BY <1>4, <2>1 DEF NodesStand
      <3>2. SameNode(u, v, n, e) BY <1>4, <2>1 DEF NodesStand
      <3>3. u.node[n] = v.node[n] BY <3>1, <3>2 DEF SameNode
      <3> QED BY <3>1, <3>3
    <2>2. CASE n \notin DOMAIN v.node
      <3>1. n > Kv /\ u.node[n].by \in S /\ n \in Nat BY <1>4, <2>2 DEF NodesStand
      <3> QED BY <3>1
    <2> QED BY <2>1, <2>2
  <1>5. ASSUME NEW n \in DOMAIN c.node \ DOMAIN u.node PROVE c.node[n].by \in 1..h
    <2>1. CASE n \in DOMAIN v.node
      <3>1. v.node[n].by \in 1..h BY <1>5, <2>1 DEF NodesStand
      <3>2. v.node[n] = c.node[n] BY <1>1, <1>5, <2>1
      <3> QED BY <3>1, <3>2
    <2>2. CASE n \notin DOMAIN v.node BY <1>5, <2>2 DEF NodesStand
    <2> QED BY <2>1, <2>2
  <1> QED BY <1>3, <1>4, <1>5 DEF NodesStand

LEMMA LinksTransitive ==
    ASSUME NEW u, NEW v, NEW c, NEW Kv \in Nat, NEW K \in Nat, K <= Kv,
           NEW Lv \in Nat, NEW L \in Nat, L <= Lv, NEW h, NEW loose \in BOOLEAN,
           LinksStand(u, v, Kv, Lv, h, loose), LinksStand(v, c, K, L, h, loose),
           \A l \in DOMAIN c.link : l \in 1..L, \A l \in DOMAIN u.link : l \in Nat /\ u.link[l].node \in Nat
    PROVE  LinksStand(u, c, K, L, h, loose)
  <1>1. \A l \in DOMAIN c.link : ~(l > Lv) OBVIOUS
  <1>2. ASSUME NEW l \in DOMAIN u.link \cap DOMAIN c.link PROVE SameLink(u, c, l, loose)
    <2>1. l \in DOMAIN v.link BY <1>1, <1>2 DEF LinksStand
    <2>2. SameLink(u, v, l, loose) BY <1>2, <2>1 DEF LinksStand
    <2>3. SameLink(v, c, l, loose) BY <1>2, <2>1 DEF LinksStand
    <2> QED BY <2>2, <2>3 DEF SameLink
  <1>3. ASSUME NEW l \in DOMAIN u.link \ DOMAIN c.link
        PROVE  l > L /\ u.link[l].by # 0 /\ u.link[l].node > K
    <2>1. CASE l \in DOMAIN v.link
      <3>1. l > L /\ v.link[l].by # 0 /\ v.link[l].node > K BY <1>3, <2>1 DEF LinksStand
      <3>2. SameLink(u, v, l, loose) BY <1>3, <2>1 DEF LinksStand
      <3>3. u.link[l] = v.link[l] BY <3>1, <3>2 DEF SameLink
      <3> QED BY <3>1, <3>3
    <2>2. CASE l \notin DOMAIN v.link
      <3>1. l > Lv /\ u.link[l].by # 0 /\ u.link[l].node > Kv BY <1>3, <2>2 DEF LinksStand
      <3>2. l \in Nat /\ u.link[l].node \in Nat BY <1>3
      <3> QED BY <3>1, <3>2
    <2> QED BY <2>1, <2>2
  <1>4. ASSUME NEW l \in DOMAIN c.link \ DOMAIN u.link, ~loose PROVE c.link[l].by \in 1..h
    <2>1. CASE l \in DOMAIN v.link
      <3>1. v.link[l].by \in 1..h BY <1>4, <2>1 DEF LinksStand
      <3>2. SameLink(v, c, l, loose) BY <1>4, <2>1 DEF LinksStand
      <3> QED BY <1>4, <3>1, <3>2 DEF SameLink
    <2>2. CASE l \notin DOMAIN v.link BY <1>4, <2>2 DEF LinksStand
    <2> QED BY <2>1, <2>2
  <1> QED BY <1>2, <1>3, <1>4 DEF LinksStand

LEMMA StandsTransitive ==
    ASSUME NEW u, NEW v, NEW c, NEW Kv \in Nat, NEW K \in Nat, K <= Kv,
           NEW Lv \in Nat, NEW L \in Nat, L <= Lv, NEW h, NEW e, NEW S, e \notin S, 0 \notin S,
           NEW loose \in BOOLEAN, Table(u), Table(c), Bounded(c, K, L),
           Stands(u, v, Kv, Lv, h, e, S, loose), Stands(v, c, K, L, h, 0, S, loose)
    PROVE  Stands(u, c, K, L, h, e, S, loose)
  <1>1. /\ \A n \in DOMAIN c.node : n \in 1..K
        /\ \A l \in DOMAIN c.link : l \in 1..L
        /\ \A n \in DOMAIN u.node : n \in Nat
        /\ \A l \in DOMAIN u.link : l \in Nat /\ u.link[l].node \in Nat
    BY DEF Table, Bounded
  <1>2. NodesStand(u, c, K, h, e, S) BY <1>1, NodesTransitive DEF Stands
  <1>3. LinksStand(u, c, K, L, h, loose) BY <1>1, LinksTransitive DEF Stands
  <1> QED BY <1>2, <1>3 DEF Stands

\* What is swept, what more is marked by reverts, what else a refile may have
\* marked, whose marks are cleared early: each only allows more.
LEMMA StandsWeaker ==
    ASSUME NEW u, NEW c, NEW K \in Nat, NEW L \in Nat, NEW K2 \in Nat, NEW L2 \in Nat, K2 <= K, L2 <= L,
           NEW h \in Nat, NEW h2 \in Nat, h <= h2, NEW e, NEW S, NEW S2, S \subseteq S2,
           NEW loose \in BOOLEAN, NEW loose2 \in BOOLEAN, loose => loose2,
           Table(u), Table(c), Stands(u, c, K, L, h, 0, S, loose)
    PROVE  Stands(u, c, K2, L2, h2, e, S2, loose2)
  <1>1. 1..h \subseteq 1..h2 OBVIOUS
  <1>2. ASSUME NEW n \in DOMAIN u.node \cap DOMAIN c.node PROVE SameNode(u, c, n, e)
    <2>1. SameNode(u, c, n, 0) BY <1>2 DEF Stands, NodesStand
    <2>2. PICK x : x = c.node[n] OBVIOUS
    <2>3. x = [parent |-> x.parent, title |-> x.title, kind |-> x.kind, by |-> x.by]
      BY <1>2, <2>2 DEF Table
    <2>4. x.by = 0 => [x EXCEPT !.by = 0] = x BY <2>3
    <2> QED BY <2>1, <2>2, <2>4 DEF SameNode
  <1>3. ASSUME NEW n \in DOMAIN u.node \ DOMAIN c.node PROVE n > K2 /\ u.node[n].by \in S2
    <2>1. n > K /\ u.node[n].by \in S /\ n \in Nat BY <1>3 DEF Stands, NodesStand, Table
    <2> QED BY <2>1
  <1>4. ASSUME NEW n \in DOMAIN c.node \ DOMAIN u.node PROVE c.node[n].by \in 1..h2
    BY <1>1, <1>4 DEF Stands, NodesStand
  <1>5. ASSUME NEW l \in DOMAIN u.link \cap DOMAIN c.link PROVE SameLink(u, c, l, loose2)
    BY <1>5 DEF Stands, LinksStand, SameLink
  <1>6. ASSUME NEW l \in DOMAIN u.link \ DOMAIN c.link
        PROVE  l > L2 /\ u.link[l].by # 0 /\ u.link[l].node > K2
    <2>1. l > L /\ u.link[l].by # 0 /\ u.link[l].node > K /\ l \in Nat /\ u.link[l].node \in Nat
      BY <1>6 DEF Stands, LinksStand, Table
    <2> QED BY <2>1
  <1>7. ASSUME NEW l \in DOMAIN c.link \ DOMAIN u.link PROVE loose2 \/ c.link[l].by \in 1..h2
    BY <1>1, <1>7 DEF Stands, LinksStand
  <1>8. NodesStand(u, c, K2, h2, e, S2) BY <1>2, <1>3, <1>4 DEF NodesStand
  <1>9. LinksStand(u, c, K2, L2, h2, loose2) BY <1>5, <1>6, <1>7 DEF LinksStand
  <1> QED BY <1>8, <1>9 DEF Stands

\* Rows stand for themselves.
LEMMA StandsSame ==
    ASSUME NEW c, NEW K, NEW L, NEW h, NEW e, NEW S, NEW loose
    PROVE  Stands(c, c, K, L, h, e, S, loose)
  BY DEF Stands, NodesStand, LinksStand, SameNode, SameLink

\* What readers see of rows and of what stands for them.
LEMMA StandsView ==
    ASSUME NEW u, NEW c, NEW K, NEW L, NEW h \in Nat, NEW S, 0 \notin S, NEW loose \in BOOLEAN,
           Table(u), Table(c), Stands(u, c, K, L, h, 0, S, loose)
    PROVE  /\ View(u).node = View(c).node
           /\ View(u).sup = View(c).sup
           /\ ~loose => View(u) = View(c)
           /\ \A l \in LiveRows(u.link) : l \in LiveRows(c.link) /\ u.link[l] = c.link[l]
  <1>1. ASSUME NEW n \in DOMAIN u.node \cap DOMAIN c.node PROVE u.node[n] = c.node[n]
    <2>1. SameNode(u, c, n, 0) BY <1>1 DEF Stands, NodesStand
    <2>2. PICK x : x = c.node[n] OBVIOUS
    <2>3. x = [parent |-> x.parent, title |-> x.title, kind |-> x.kind, by |-> x.by]
      BY <1>1, <2>2 DEF Table
    <2>4. x.by = 0 => [x EXCEPT !.by = 0] = x BY <2>3
    <2> QED BY <2>1, <2>2, <2>4 DEF SameNode
  <1>2. \A n : n \in LiveNodes(u) => n \in LiveNodes(c) /\ u.node[n] = c.node[n]
    BY <1>1 DEF LiveNodes, LiveRows, Stands, NodesStand
  <1>3. \A n : n \in LiveNodes(c) => n \in LiveNodes(u)
    <2>1. 0 \notin 1..h OBVIOUS
    <2> QED BY <1>1, <2>1 DEF LiveNodes, LiveRows, Stands, NodesStand
  <1>4. LiveNodes(u) = LiveNodes(c) BY <1>2, <1>3
  <1>5. [n \in LiveNodes(u) |-> u.node[n]] = [n \in LiveNodes(c) |-> c.node[n]] BY <1>2, <1>4
  <1>6. \A l : l \in LiveRows(u.link) => l \in LiveRows(c.link) /\ u.link[l] = c.link[l]
    BY DEF LiveRows, Stands, LinksStand, SameLink
  <1>7. ASSUME ~loose PROVE [l \in LiveRows(u.link) |-> u.link[l]] = [l \in LiveRows(c.link) |-> c.link[l]]
    <2>1. 0 \notin 1..h OBVIOUS
    <2>2. \A l : l \in LiveRows(c.link) => l \in LiveRows(u.link)
      BY <1>7, <2>1 DEF LiveRows, Stands, LinksStand, SameLink
    <2>3. LiveRows(u.link) = LiveRows(c.link) BY <1>6, <2>2
    <2> QED BY <1>6, <2>3
  <1>8. u.sup = c.sup BY DEF Stands
  <1> QED BY <1>5, <1>6, <1>7, <1>8 DEF View

-----------------------------------------------------------------------------
(* One step back.                                                          *)

\* The inverse, row by row.
NodeBack(x, m, n, r, by) ==
    [parent |-> IF n \in DOMAIN m.parent THEN m.parent[n] ELSE x.parent,
     title |-> IF n \in DOMAIN m.title THEN m.title[n] ELSE x.title,
     kind |-> x.kind,
     by |-> IF n \in m.made /\ x.by = 0 THEN by ELSE IF n \in m.nodes /\ x.by = r THEN 0 ELSE x.by]
LinkBack(x, m, l, r, by) ==
    [node |-> IF l \in DOMAIN m.moved /\ m.moved[l].at \in {0, x.node} THEN m.moved[l].from ELSE x.node,
     item |-> x.item,
     by |-> IF l \in DOMAIN m.remark THEN m.remark[l]
            ELSE IF l \in m.cites /\ x.by = 0 THEN by
            ELSE IF l \in m.links /\ x.by = r THEN 0 ELSE x.by]

LEMMA UndoRows ==
    ASSUME NEW c, Table(c), NEW m, NEW r, NEW by, NEW u, u = Undo(c, m, r, by)
    PROVE  /\ u = [node |-> u.node, link |-> u.link, sup |-> u.sup]
           /\ DOMAIN u.node = DOMAIN c.node
           /\ \A n \in DOMAIN c.node : u.node[n] = NodeBack(c.node[n], m, n, r, by)
           /\ DOMAIN u.link = DOMAIN c.link \ m.drop
           /\ \A l \in DOMAIN c.link \ m.drop : u.link[l] = LinkBack(c.link[l], m, l, r, by)
           /\ u.sup = [s \in DOMAIN c.sup \ m.sup |-> c.sup[s]]
  <1> DEFINE P(n, x) == IF n \in DOMAIN m.parent THEN m.parent[n] ELSE x.parent
             Q(n, x) == IF n \in DOMAIN m.title THEN m.title[n] ELSE x.title
             B(n, x) == IF n \in m.made /\ x.by = 0 THEN by ELSE IF n \in m.nodes /\ x.by = r THEN 0 ELSE x.by
             O(l, x) == IF l \in DOMAIN m.moved /\ m.moved[l].at \in {0, x.node} THEN m.moved[l].from ELSE x.node
             D(l, x) == IF l \in DOMAIN m.remark THEN m.remark[l]
                        ELSE IF l \in m.cites /\ x.by = 0 THEN by
                        ELSE IF l \in m.links /\ x.by = r THEN 0 ELSE x.by
             N == [n \in DOMAIN c.node |->
                     [c.node[n] EXCEPT !.parent = P(n, c.node[n]), !.title = Q(n, c.node[n]), !.by = B(n, c.node[n])]]
             M == [l \in DOMAIN c.link \ m.drop |->
                     [c.link[l] EXCEPT !.node = O(l, c.link[l]), !.by = D(l, c.link[l])]]
             T == [s \in DOMAIN c.sup \ m.sup |-> c.sup[s]]
  <1>1. u = [node |-> N, link |-> M, sup |-> T] BY DEF Undo
  <1>2. ASSUME NEW n \in DOMAIN c.node PROVE N[n] = NodeBack(c.node[n], m, n, r, by)
    <2>1. PICK x : x = c.node[n] OBVIOUS
    <2>2. x = [parent |-> x.parent, title |-> x.title, kind |-> x.kind, by |-> x.by] BY <1>2, <2>1 DEF Table
    <2>3. PICK p, t, k, b : x = [parent |-> p, title |-> t, kind |-> k, by |-> b] BY <2>2
    <2>4. PICK y, z, d : y = P(n, x) /\ z = Q(n, x) /\ d = B(n, x) OBVIOUS
    <2>5. N[n] = [x EXCEPT !.parent = y, !.title = z, !.by = d] BY <2>1, <2>4
    <2>6. [x EXCEPT !.parent = y, !.title = z, !.by = d] = [parent |-> y, title |-> z, kind |-> k, by |-> d]
      <3> DEFINE m1 == [x EXCEPT !.parent = y]
                 m2 == [m1 EXCEPT !.title = z]
      <3>1. m1 = [parent |-> y, title |-> t, kind |-> k, by |-> b] BY <2>3
      <3> HIDE DEF m1
      <3>2. m2 = [parent |-> y, title |-> z, kind |-> k, by |-> b] BY <3>1
      <3> HIDE DEF m2
      <3>3. [m2 EXCEPT !.by = d] = [parent |-> y, title |-> z, kind |-> k, by |-> d] BY <3>2
      <3> QED BY <3>3 DEF m1, m2
    <2>7. x.kind = k BY <2>3
    <2>8. NodeBack(x, m, n, r, by) = [parent |-> y, title |-> z, kind |-> k, by |-> d] BY <2>4, <2>7 DEF NodeBack
    <2> QED BY <2>1, <2>5, <2>6, <2>8
  <1>3. ASSUME NEW l \in DOMAIN c.link \ m.drop PROVE M[l] = LinkBack(c.link[l], m, l, r, by)
    <2>1. PICK x : x = c.link[l] OBVIOUS
    <2>2. x = [node |-> x.node, item |-> x.item, by |-> x.by] BY <1>3, <2>1 DEF Table
    <2>3. PICK n, i, b : x = [node |-> n, item |-> i, by |-> b] BY <2>2
    <2>4. PICK y, d : y = O(l, x) /\ d = D(l, x) OBVIOUS
    <2>5. M[l] = [x EXCEPT !.node = y, !.by = d] BY <2>1, <2>4
    <2>6. [x EXCEPT !.node = y, !.by = d] = [node |-> y, item |-> i, by |-> d]
      <3> DEFINE m1 == [x EXCEPT !.node = y]
      <3>1. m1 = [node |-> y, item |-> i, by |-> b] BY <2>3
      <3> HIDE DEF m1
      <3>2. [m1 EXCEPT !.by = d] = [node |-> y, item |-> i, by |-> d] BY <3>1
      <3> QED BY <3>2 DEF m1
    <2>7. x.item = i BY <2>3
    <2>8. LinkBack(x, m, l, r, by) = [node |-> y, item |-> i, by |-> d] BY <2>4, <2>7 DEF LinkBack
    <2> QED BY <2>1, <2>5, <2>6, <2>8
  <1>4. DOMAIN N = DOMAIN c.node /\ DOMAIN M = DOMAIN c.link \ m.drop OBVIOUS
  <1> HIDE DEF N, M, T
  <1>5. u.node = N /\ u.link = M /\ u.sup = T BY <1>1
  <1> QED BY <1>1, <1>2, <1>3, <1>4, <1>5 DEF T

\* The image m leads from the rows c1 back to c0, which had ids up to K and L:
\* of c0's rows each is there and gets its fields back, and what else there
\* is, is new, and either deleted or marked.  A mark of r may be cleared that
\* was there before.
NodeInverts(m, c1, c0, K, r) ==
    /\ DOMAIN c0.node \subseteq DOMAIN c1.node
    /\ \A n \in DOMAIN c0.node :
         /\ n \notin m.made
         /\ c0.node[n].kind = c1.node[n].kind
         /\ c0.node[n].parent = IF n \in DOMAIN m.parent THEN m.parent[n] ELSE c1.node[n].parent
         /\ c0.node[n].title = IF n \in DOMAIN m.title THEN m.title[n] ELSE c1.node[n].title
         /\ IF n \in m.nodes /\ c1.node[n].by = r THEN c0.node[n].by \in {0, r}
                                                  ELSE c0.node[n].by = c1.node[n].by
    /\ \A n \in DOMAIN c1.node \ DOMAIN c0.node : n > K /\ n \in m.made /\ c1.node[n].by = 0
LinkInverts(m, c1, c0, K, L, r) ==
    /\ DOMAIN c0.link \subseteq DOMAIN c1.link
    /\ \A l \in DOMAIN c0.link :
         /\ l \notin m.drop /\ l \notin m.cites
         /\ c0.link[l].item = c1.link[l].item
         /\ c0.link[l].node = IF l \in DOMAIN m.moved /\ m.moved[l].at \in {0, c1.link[l].node}
                              THEN m.moved[l].from ELSE c1.link[l].node
         /\ c0.link[l].by = IF l \in DOMAIN m.remark THEN m.remark[l]
                            ELSE IF l \in m.links /\ c1.link[l].by = r THEN 0 ELSE c1.link[l].by
         /\ l \in DOMAIN m.remark => c1.link[l].by = 0
    /\ \A l \in DOMAIN c1.link \ DOMAIN c0.link :
         \/ l \in m.drop
         \/ /\ l \in m.cites /\ l > L /\ c1.link[l].by = 0 /\ c1.link[l].node > K
            /\ l \notin DOMAIN m.remark /\ l \notin DOMAIN m.moved /\ l \notin m.links
    /\ DOMAIN m.remark \cup DOMAIN m.moved \cup m.links \cup m.cites \subseteq DOMAIN c1.link
Inverts(m, c1, c0, K, L, r) ==
    /\ NodeInverts(m, c1, c0, K, r)
    /\ LinkInverts(m, c1, c0, K, L, r)
    /\ c0.sup = [s \in DOMAIN c1.sup \ m.sup |-> c1.sup[s]]

\* What stands for the rows after an operation stands, undone, for the rows
\* before it; and the index of the links holds.
LEMMA StepBack ==
    ASSUME NEW u, NEW c1, NEW c0, NEW m, NEW v, NEW K1 \in Nat, NEW K0 \in Nat, K0 <= K1,
           NEW L1 \in Nat, NEW L0 \in Nat, L0 <= L1, NEW h \in Nat, NEW r \in Nat, r > h,
           NEW S, 0 \notin S, r \notin S, NEW by \in S, NEW loose \in BOOLEAN,
           Table(u), Table(c1), Table(c0), Bounded(c0, K0, L0),
           Stands(u, c1, K1, L1, h, r, S, loose), Inverts(m, c1, c0, K0, L0, r),
           v = Undo(u, m, r, by)
    PROVE  Table(v) /\ Stands(v, c0, K0, L0, h, r, S, loose)
  <1>1. /\ v = [node |-> v.node, link |-> v.link, sup |-> v.sup]
        /\ DOMAIN v.node = DOMAIN u.node
        /\ \A n \in DOMAIN u.node : v.node[n] = NodeBack(u.node[n], m, n, r, by)
        /\ DOMAIN v.link = DOMAIN u.link \ m.drop
        /\ \A l \in DOMAIN u.link \ m.drop : v.link[l] = LinkBack(u.link[l], m, l, r, by)
        /\ v.sup = [s \in DOMAIN u.sup \ m.sup |-> u.sup[s]]
    BY UndoRows
  <1>2. NodeInverts(m, c1, c0, K0, r) /\ LinkInverts(m, c1, c0, K0, L0, r) BY DEF Inverts
  <1>3. by # 0 /\ r # 0 /\ r \notin 1..h /\ 0 \notin 1..h OBVIOUS
  <1>4. ASSUME NEW n \in DOMAIN u.node \cap DOMAIN c0.node PROVE SameNode(v, c0, n, r)
    <2>1. n \in DOMAIN c1.node BY <1>2, <1>4 DEF NodeInverts
    <2>2. PICK x, y, z : x = u.node[n] /\ y = c1.node[n] /\ z = c0.node[n] OBVIOUS
    <2>3. /\ y = [parent |-> y.parent, title |-> y.title, kind |-> y.kind, by |-> y.by]
          /\ z = [parent |-> z.parent, title |-> z.title, kind |-> z.kind, by |-> z.by]
      BY <1>4, <2>1, <2>2 DEF Table
    <2>4. PICK p, t, k, b : z = [parent |-> p, title |-> t, kind |-> k, by |-> b] BY <2>3
    <2>5. /\ n \notin m.made /\ k = y.kind
          /\ p = IF n \in DOMAIN m.parent THEN m.parent[n] ELSE y.parent
          /\ t = IF n \in DOMAIN m.title THEN m.title[n] ELSE y.title
          /\ IF n \in m.nodes /\ y.by = r THEN b \in {0, r} ELSE b = y.by
      <3>1. z.parent = p /\ z.title = t /\ z.kind = k /\ z.by = b BY <2>4
      <3>2. /\ n \notin m.made /\ z.kind = y.kind
            /\ z.parent = IF n \in DOMAIN m.parent THEN m.parent[n] ELSE y.parent
            /\ z.title = IF n \in DOMAIN m.title THEN m.title[n] ELSE y.title
            /\ IF n \in m.nodes /\ y.by = r THEN z.by \in {0, r} ELSE z.by = y.by
        BY <1>2, <1>4, <2>2, Zenon DEF NodeInverts
      <3> QED BY <3>1, <3>2
    <2>6. x = y \/ (y.by = r /\ x = [y EXCEPT !.by = 0])
      BY <1>4, <2>1, <2>2 DEF Stands, NodesStand, SameNode
    <2>7. x.parent = y.parent /\ x.title = y.title /\ x.kind = y.kind BY <2>3, <2>6
    <2>8. v.node[n] = [parent |-> p, title |-> t, kind |-> k,
                       by |-> IF n \in m.nodes /\ x.by = r THEN 0 ELSE x.by]
      BY <1>1, <1>4, <2>2, <2>5, <2>7 DEF NodeBack
    <2>9. [z EXCEPT !.by = 0] = [parent |-> p, title |-> t, kind |-> k, by |-> 0] BY <2>4
    <2>10. z.by = b BY <2>4
    <2>11. CASE x = y
      <3>1. CASE n \in m.nodes /\ y.by = r
        <4>1. v.node[n] = [parent |-> p, title |-> t, kind |-> k, by |-> 0] BY <2>8, <2>11, <3>1
        <4>2. b = 0 \/ b = r BY <2>5, <3>1
        <4> QED BY <2>2, <2>4, <2>9, <2>10, <4>1, <4>2 DEF SameNode
      <3>2. CASE ~(n \in m.nodes /\ y.by = r)
        <4>1. v.node[n] = [parent |-> p, title |-> t, kind |-> k, by |-> b] BY <2>5, <2>8, <2>11, <3>2
        <4> QED BY <2>2, <2>4, <4>1 DEF SameNode
      <3> QED BY <3>1, <3>2
    <2>12. CASE y.by = r /\ x = [y EXCEPT !.by = 0]
      <3>1. x.by = 0 BY <2>3, <2>12
      <3>2. v.node[n] = [parent |-> p, title |-> t, kind |-> k, by |-> 0] BY <2>8, <3>1
      <3>3. b = 0 \/ b = r BY <2>5, <2>12
      <3> QED BY <2>2, <2>4, <2>9, <2>10, <3>2, <3>3 DEF SameNode
    <2> QED BY <2>6, <2>11, <2>12
  <1>5. ASSUME NEW n \in DOMAIN u.node \ DOMAIN c0.node PROVE n > K0 /\ v.node[n].by \in S
    <2>1. v.node[n].by = IF n \in m.made /\ u.node[n].by = 0 THEN by
                         ELSE IF n \in m.nodes /\ u.node[n].by = r THEN 0 ELSE u.node[n].by
      <3>1. v.node[n] = NodeBack(u.node[n], m, n, r, by) BY <1>1, <1>5
      <3> QED BY <3>1 DEF NodeBack
    <2>2. CASE n \in DOMAIN c1.node
      <3>1. n > K0 /\ n \in m.made /\ c1.node[n].by = 0 BY <1>2, <1>5, <2>2 DEF NodeInverts
      <3>2. SameNode(u, c1, n, r) BY <1>5, <2>2 DEF Stands, NodesStand
      <3>3. u.node[n].by = 0 BY <1>3, <3>1, <3>2 DEF SameNode
      <3> QED BY <2>1, <3>1, <3>3
    <2>3. CASE n \notin DOMAIN c1.node
      <3>1. n > K1 /\ u.node[n].by \in S BY <1>5, <2>3 DEF Stands, NodesStand
      <3>2. n \in Nat BY <1>5 DEF Table
      <3> QED BY <2>1, <3>1, <3>2
    <2> QED BY <2>2, <2>3
  <1>6. ASSUME NEW n \in DOMAIN c0.node \ DOMAIN u.node PROVE c0.node[n].by \in 1..h
    <2>1. n \in DOMAIN c1.node BY <1>2, <1>6 DEF NodeInverts
    <2>2. c1.node[n].by \in 1..h BY <1>6, <2>1 DEF Stands, NodesStand
    <2>3. c0.node[n].by = c1.node[n].by BY <1>2, <1>3, <1>6, <2>2 DEF NodeInverts
    <2> QED BY <2>2, <2>3
  <1>7. NodesStand(v, c0, K0, h, r, S) BY <1>1, <1>4, <1>5, <1>6 DEF NodesStand
  <1>8. ASSUME NEW l \in DOMAIN u.link \ m.drop, l \in DOMAIN c0.link
        PROVE  /\ SameLink(v, c0, l, loose)
               /\ v.link[l].node = c0.link[l].node /\ v.link[l].item = c0.link[l].item
    <2>1. l \in DOMAIN c1.link BY <1>2, <1>8 DEF LinkInverts
    <2>2. PICK x, y, z : x = u.link[l] /\ y = c1.link[l] /\ z = c0.link[l] OBVIOUS
    <2>3. z = [node |-> z.node, item |-> z.item, by |-> z.by] BY <1>8, <2>2 DEF Table
    <2>4. PICK n, i, b : z = [node |-> n, item |-> i, by |-> b] BY <2>3
    <2>5. /\ l \notin m.cites /\ i = y.item
          /\ n = IF l \in DOMAIN m.moved /\ m.moved[l].at \in {0, y.node} THEN m.moved[l].from ELSE y.node
          /\ b = IF l \in DOMAIN m.remark THEN m.remark[l]
                 ELSE IF l \in m.links /\ y.by = r THEN 0 ELSE y.by
          /\ l \in DOMAIN m.remark => y.by = 0
      <3>1. z.node = n /\ z.item = i /\ z.by = b BY <2>4
      <3>2. /\ l \notin m.cites /\ z.item = y.item
            /\ z.node = IF l \in DOMAIN m.moved /\ m.moved[l].at \in {0, y.node} THEN m.moved[l].from ELSE y.node
            /\ z.by = IF l \in DOMAIN m.remark THEN m.remark[l]
                      ELSE IF l \in m.links /\ y.by = r THEN 0 ELSE y.by
            /\ l \in DOMAIN m.remark => y.by = 0
        BY <1>2, <1>8, <2>2, Zenon DEF LinkInverts
      <3> QED BY <3>1, <3>2
    <2>6. x = y \/ (loose /\ y.by = 0 /\ x.by # 0 /\ x.node = y.node /\ x.item = y.item)
      BY <1>8, <2>1, <2>2 DEF Stands, LinksStand, SameLink
    <2>7. x.node = y.node /\ x.item = y.item BY <2>6
    <2>8. PICK d : d = IF l \in DOMAIN m.remark THEN m.remark[l]
                       ELSE IF l \in m.links /\ x.by = r THEN 0 ELSE x.by OBVIOUS
    <2>9. v.link[l] = [node |-> n, item |-> i, by |-> d] BY <1>1, <1>8, <2>2, <2>5, <2>7, <2>8 DEF LinkBack
    <2>10. v.link[l].by = d /\ v.link[l].node = n /\ v.link[l].item = i BY <2>9
    <2>11. z.node = n /\ z.item = i /\ z.by = b BY <2>4
    <2>12. d = b \/ (loose /\ b = 0 /\ d # 0) BY <1>3, <2>5, <2>6, <2>8
    <2>13. SameLink(v, c0, l, loose) BY <2>2, <2>4, <2>9, <2>10, <2>11, <2>12 DEF SameLink
    <2> QED BY <2>2, <2>9, <2>10, <2>11, <2>13
  <1>9. ASSUME NEW l \in DOMAIN u.link \ m.drop, l \notin DOMAIN c0.link
        PROVE  /\ l > L0 /\ v.link[l].by # 0 /\ v.link[l].node > K0
               /\ v.link[l].node = u.link[l].node /\ v.link[l].item = u.link[l].item
    <2>1. v.link[l] = LinkBack(u.link[l], m, l, r, by) BY <1>1, <1>9
    <2>2. CASE l \in DOMAIN c1.link
      <3>1. /\ l \in m.cites /\ l > L0 /\ c1.link[l].by = 0 /\ c1.link[l].node > K0
            /\ l \notin DOMAIN m.remark /\ l \notin DOMAIN m.moved /\ l \notin m.links
        BY <1>2, <1>9, <2>2 DEF LinkInverts
      <3>2. SameLink(u, c1, l, loose) BY <1>9, <2>2 DEF Stands, LinksStand
      <3>3. u.link[l].node > K0 BY <3>1, <3>2 DEF SameLink
      <3>4. v.link[l] = [node |-> u.link[l].node, item |-> u.link[l].item,
                         by |-> IF u.link[l].by = 0 THEN by ELSE u.link[l].by]
        BY <2>1, <3>1 DEF LinkBack
      <3>5. v.link[l].node = u.link[l].node /\ v.link[l].item = u.link[l].item /\ v.link[l].by # 0
        BY <1>3, <3>4
      <3> QED BY <3>1, <3>3, <3>5
    <2>3. CASE l \notin DOMAIN c1.link
      <3>1. l > L1 /\ u.link[l].by # 0 /\ u.link[l].node > K1 BY <1>9, <2>3 DEF Stands, LinksStand
      <3>2. l \notin DOMAIN m.remark /\ l \notin DOMAIN m.moved /\ l \notin m.links /\ l \notin m.cites
        BY <1>2, <2>3 DEF LinkInverts
      <3>3. v.link[l] = [node |-> u.link[l].node, item |-> u.link[l].item, by |-> u.link[l].by]
        BY <2>1, <3>2 DEF LinkBack
      <3>4. l \in Nat /\ u.link[l].node \in Nat BY <1>9 DEF Table
      <3>5. v.link[l].node = u.link[l].node /\ v.link[l].item = u.link[l].item
            /\ v.link[l].by = u.link[l].by BY <3>3
      <3> QED BY <3>1, <3>4, <3>5
    <2> QED BY <2>2, <2>3
  <1>10. ASSUME NEW l \in DOMAIN c0.link \ DOMAIN v.link PROVE loose \/ c0.link[l].by \in 1..h
    <2>1. l \in DOMAIN c1.link /\ l \notin m.drop BY <1>2, <1>10 DEF LinkInverts
    <2>2. l \notin DOMAIN u.link BY <1>1, <1>10, <2>1
    <2>3. loose \/ c1.link[l].by \in 1..h BY <2>1, <2>2 DEF Stands, LinksStand
    <2>4. CASE c1.link[l].by \in 1..h
      <3>1. c1.link[l].by # 0 /\ c1.link[l].by # r BY <1>3, <2>4
      <3>2. c0.link[l].by = c1.link[l].by BY <1>2, <1>10, <3>1 DEF LinkInverts
      <3> QED BY <2>4, <3>2
    <2> QED BY <2>3, <2>4
  <1>11. LinksStand(v, c0, K0, L0, h, loose) BY <1>1, <1>8, <1>9, <1>10 DEF LinksStand
  <1>12. v.sup = c0.sup BY <1>1 DEF Stands, Inverts
  <1>13. ASSUME NEW n \in DOMAIN v.node
         PROVE  n \in Nat /\ v.node[n] = [parent |-> v.node[n].parent, title |-> v.node[n].title,
                                          kind |-> v.node[n].kind, by |-> v.node[n].by]
    <2>1. n \in Nat BY <1>1, <1>13 DEF Table
    <2>2. v.node[n] = NodeBack(u.node[n], m, n, r, by) BY <1>1, <1>13
    <2> QED BY <2>1, <2>2 DEF NodeBack
  <1>14. ASSUME NEW l \in DOMAIN v.link
         PROVE  /\ l \in Nat /\ v.link[l].node \in Nat
                /\ v.link[l] = [node |-> v.link[l].node, item |-> v.link[l].item, by |-> v.link[l].by]
    <2>1. l \in DOMAIN u.link \ m.drop BY <1>1, <1>14
    <2>2. l \in Nat /\ u.link[l].node \in Nat BY <2>1 DEF Table
    <2>3. v.link[l] = LinkBack(u.link[l], m, l, r, by) BY <1>1, <2>1
    <2>4. v.link[l].node \in Nat
      <3>1. CASE l \in DOMAIN c0.link
        <4>1. c0.link[l].node \in Nat BY <3>1 DEF Table
        <4>2. v.link[l].node = c0.link[l].node BY <1>8, <2>1, <3>1
        <4> QED BY <4>1, <4>2
      <3>2. CASE l \notin DOMAIN c0.link
        <4>1. v.link[l].node = u.link[l].node BY <1>9, <2>1, <3>2
        <4> QED BY <2>2, <4>1
      <3> QED BY <3>1, <3>2
    <2> QED BY <2>2, <2>3, <2>4 DEF LinkBack
  <1>15. LinksUnique(v)
    <2> SUFFICES ASSUME NEW l \in DOMAIN v.link, NEW k \in DOMAIN v.link,
                        v.link[l].node = v.link[k].node, v.link[l].item = v.link[k].item
                 PROVE  l = k
      BY DEF LinksUnique
    <2>1. l \in DOMAIN u.link \ m.drop /\ k \in DOMAIN u.link \ m.drop BY <1>1
    <2>2. \A j \in DOMAIN c0.link : ~(c0.link[j].node > K0) BY DEF Bounded
    <2>3. CASE l \in DOMAIN c0.link /\ k \in DOMAIN c0.link
      <3>1. v.link[l].node = c0.link[l].node /\ v.link[l].item = c0.link[l].item BY <1>8, <2>1, <2>3
      <3>2. v.link[k].node = c0.link[k].node /\ v.link[k].item = c0.link[k].item BY <1>8, <2>1, <2>3
      <3>3. LinksUnique(c0) BY DEF Table
      <3> QED BY <2>3, <3>1, <3>2, <3>3 DEF LinksUnique
    <2>4. CASE l \notin DOMAIN c0.link /\ k \notin DOMAIN c0.link
      <3>1. v.link[l].node = u.link[l].node /\ v.link[l].item = u.link[l].item BY <1>9, <2>1, <2>4
      <3>2. v.link[k].node = u.link[k].node /\ v.link[k].item = u.link[k].item BY <1>9, <2>1, <2>4
      <3>3. LinksUnique(u) BY DEF Table
      <3> QED BY <2>1, <3>1, <3>2, <3>3 DEF LinksUnique
    <2>5. CASE l \in DOMAIN c0.link /\ k \notin DOMAIN c0.link
      <3>1. v.link[l].node = c0.link[l].node BY <1>8, <2>1, <2>5
      <3>2. v.link[k].node > K0 BY <1>9, <2>1, <2>5
      <3> QED BY <2>2, <2>5, <3>1, <3>2
    <2>6. CASE l \notin DOMAIN c0.link /\ k \in DOMAIN c0.link
      <3>1. v.link[k].node = c0.link[k].node BY <1>8, <2>1, <2>6
      <3>2. v.link[l].node > K0 BY <1>9, <2>1, <2>6
      <3> QED BY <2>2, <2>6, <3>1, <3>2
    <2> QED BY <2>3, <2>4, <2>5, <2>6
  <1>16. Table(v) BY <1>1, <1>13, <1>14, <1>15 DEF Table
  <1>17. Stands(v, c0, K0, L0, h, r, S, loose) BY <1>7, <1>11, <1>12 DEF Stands
  <1> QED BY <1>16, <1>17

-----------------------------------------------------------------------------
(* A run back.                                                             *)

\* The inverses of the operations of a run, one after the other, from the
\* rows u: f holds what each of them leaves.
BackOne(s, op, r, by) ==
    IF ~s.ok \/ op.outcome # "applied" THEN s
    ELSE LET c == Undo(s.c, op.image, r, by) IN [c |-> c, ok |-> LinksUnique(c)]
Walk(f, u, ops, r, by) ==
    f = [k \in 0..Len(ops) |-> IF k = 0 THEN [c |-> u, ok |-> TRUE]
                               ELSE BackOne(f[k - 1], ops[Len(ops) + 1 - k], r, by)]

\* The inverses of run r lead from whatever stands for the rows c1 to what
\* stands for c0, when no more than the newer runs was swept since, the
\* reverts were at least S0, and links were refiled only if `refiled`.
Restores(ops, r, c1, K1, L1, c0, K0, L0, h0, S0, refiled) ==
    \A u, by, h, S, loose :
        (/\ h \in Nat /\ h0 <= h /\ h < r
         /\ S0 \subseteq S /\ by \in S /\ 0 \notin S /\ r \notin S
         /\ loose \in BOOLEAN /\ (refiled => loose)
         /\ Table(u) /\ Stands(u, c1, K1, L1, h, r, S, loose))
        => \E f : /\ Walk(f, u, ops, r, by)
                  /\ f[Len(ops)].ok
                  /\ Table(f[Len(ops)].c)
                  /\ Stands(f[Len(ops)].c, c0, K0, L0, h, r, S, loose)

\* The rows a revert ends with.
LEMMA WalkUndone ==
    ASSUME NEW nb, NEW R, RunsOK(runs, nb, R), NEW r \in DOMAIN runs, NEW by,
           NEW f, Walk(f, cat, runs[r].ops, r, by)
    PROVE  Undone(r, by) = f[Len(runs[r].ops)]
  <1> DEFINE n == Len(runs[r].ops)
             start == [c |-> cat, ok |-> TRUE]
             step(s, i) == IF ~s.ok \/ i \notin Applied(r) THEN s
                           ELSE LET c == Undo(s.c, runs[r].ops[i].image, r, by) IN [c |-> c, ok |-> LinksUnique(c)]
             Steps(g) == g = [k \in 0..n |-> IF k = 0 THEN start ELSE step(g[k - 1], n + 1 - k)]
  <1>1. n \in Nat /\ DOMAIN runs[r].ops = 1..n
    <2>1. IsRun(runs[r], nb, R) BY DEF RunsOK
    <2>2. IsSeq(runs[r].ops) BY <2>1 DEF IsRun
    <2> QED BY <2>2, SeqFacts
  <1>2. \A i \in 1..n : \A s : step(s, i) = BackOne(s, runs[r].ops[i], r, by)
    BY <1>1 DEF Applied, BackOne
  <1>3. f = [k \in 0..n |-> IF k = 0 THEN start ELSE BackOne(f[k - 1], runs[r].ops[n + 1 - k], r, by)]
    BY DEF Walk
  <1>4. Steps(f)
    <2> HIDE DEF step, start, n
    <2>1. \A k \in 0..n : k # 0 => n + 1 - k \in 1..n BY <1>1
    <2>2. \A k \in 0..n : (IF k = 0 THEN start ELSE step(f[k - 1], n + 1 - k))
                          = IF k = 0 THEN start ELSE BackOne(f[k - 1], runs[r].ops[n + 1 - k], r, by)
      BY <1>2, <2>1
    <2> QED BY <1>3, <2>2
  <1>5. PICK g : Steps(g) /\ Undone(r, by) = g[n]
    BY <1>4 DEF Undone
  <1> DEFINE G == {k \in 0..n : f[k] = g[k]}
  <1> HIDE DEF step, start, n
  <1>6. 0..n \subseteq G
    <2>1. 0 \in G
      <3>1. 0 \in 0..n BY <1>1
      <3>2. f[0] = start /\ g[0] = start BY <1>4, <1>5, <3>1
      <3> QED BY <3>1, <3>2
    <2>2. ASSUME NEW k \in 0..n, k < n, k \in G PROVE k + 1 \in G
      <3>1. k + 1 \in 0..n /\ k + 1 # 0 /\ (k + 1) - 1 = k BY <1>1, <2>2
      <3>2. f[k + 1] = step(f[k], n + 1 - (k + 1)) BY <1>4, <3>1
      <3>3. g[k + 1] = step(g[k], n + 1 - (k + 1)) BY <1>5, <3>1
      <3> QED BY <2>2, <3>1, <3>2, <3>3
    <2> HIDE DEF G
    <2>3. \A k \in 0..n : k < n /\ k \in G => k + 1 \in G BY <2>2
    <2>4. 0 \in Int /\ n \in Int BY <1>1
    <2> QED BY <2>1, <2>3, <2>4, IntervalInduction
  <1>7. f[n] = g[n] BY <1>1, <1>6
  <1> QED BY <1>5, <1>7 DEF n

\* A run that has done nothing.
LEMMA RestoresNothing ==
    ASSUME NEW ops, IsSeq(ops), \A i \in DOMAIN ops : ops[i].outcome # "applied",
           NEW r, NEW c, NEW K, NEW L, NEW h0, NEW S0, NEW refiled
    PROVE  Restores(ops, r, c, K, L, c, K, L, h0, S0, refiled)
  <1> SUFFICES ASSUME NEW u, NEW by, NEW h, NEW S, NEW loose,
                      Table(u), Stands(u, c, K, L, h, r, S, loose)
               PROVE  \E f : /\ Walk(f, u, ops, r, by) /\ f[Len(ops)].ok /\ Table(f[Len(ops)].c)
                             /\ Stands(f[Len(ops)].c, c, K, L, h, r, S, loose)
    BY DEF Restores
  <1> DEFINE s == [c |-> u, ok |-> TRUE]
             n == Len(ops)
             f == [k \in 0..n |-> s]
  <1>1. n \in Nat /\ DOMAIN ops = 1..n BY SeqFacts
  <1>2. s.c = u /\ s.ok OBVIOUS
  <1> HIDE DEF s, n
  <1>3. \A k \in 0..n : k # 0 => /\ k - 1 \in 0..n /\ ops[n + 1 - k].outcome # "applied"
    <2>1. \A k \in 0..n : k # 0 => k - 1 \in 0..n /\ n + 1 - k \in 1..n BY <1>1
    <2> QED BY <1>1, <2>1
  <1>4. \A k \in 0..n : s = IF k = 0 THEN s ELSE BackOne(f[k - 1], ops[n + 1 - k], r, by)
    BY <1>3 DEF BackOne
  <1>5. Walk(f, u, ops, r, by)
    <2>1. f = [k \in 0..n |-> IF k = 0 THEN s ELSE BackOne(f[k - 1], ops[n + 1 - k], r, by)]
      <3> DEFINE g == [k \in 0..n |-> IF k = 0 THEN s ELSE BackOne(f[k - 1], ops[n + 1 - k], r, by)]
      <3>1. DOMAIN g = 0..n /\ g = [k \in 0..n |-> g[k]] OBVIOUS
      <3>2. \A k \in 0..n : g[k] = s BY <1>4
      <3> HIDE DEF g
      <3>3. g = f BY <3>1, <3>2
      <3> QED BY <3>3 DEF g
    <2> HIDE DEF f
    <2> QED BY <2>1 DEF Walk, s, n
  <1>6. f[n] = s BY <1>1
  <1> QED BY <1>2, <1>5, <1>6 DEF n

\* One operation more, and the walk is one step longer.
LEMMA WalkMore ==
    ASSUME NEW ops, IsSeq(ops), NEW op, NEW r, NEW by, NEW u, NEW v,
           BackOne([c |-> u, ok |-> TRUE], op, r, by) = [c |-> v, ok |-> TRUE],
           NEW f, Walk(f, v, ops, r, by)
    PROVE  \E g : Walk(g, u, Append(ops, op), r, by) /\ g[Len(Append(ops, op))] = f[Len(ops)]
  <1> DEFINE more == Append(ops, op)
             n == Len(ops)
             s == [c |-> u, ok |-> TRUE]
             t == [c |-> v, ok |-> TRUE]
             g == [k \in 0..(n + 1) |-> IF k = 0 THEN s ELSE f[k - 1]]
  <1>1. n \in Nat /\ DOMAIN ops = 1..n BY SeqFacts
  <1>2. Len(more) = n + 1 /\ more[n + 1] = op /\ \A i \in 1..n : more[i] = ops[i] BY AppendFacts
  <1>3. f = [k \in 0..n |-> IF k = 0 THEN t ELSE BackOne(f[k - 1], ops[n + 1 - k], r, by)] BY DEF Walk
  <1>4. BackOne(s, op, r, by) = t OBVIOUS
  <1> HIDE DEF more, n, s, t
  <1>5. ASSUME NEW k \in 0..(n + 1)
        PROVE  g[k] = IF k = 0 THEN s ELSE BackOne(g[k - 1], more[(n + 1) + 1 - k], r, by)
    <2>1. CASE k = 0 BY <2>1
    <2>2. CASE k = 1
      <3>1. 0 \in 0..(n + 1) /\ 0 \in 0..n /\ k - 1 = 0 /\ (n + 1) + 1 - k = n + 1 /\ k # 0 BY <1>1, <2>2
      <3>2. g[k] = f[0] /\ g[k - 1] = s BY <3>1
      <3>3. f[0] = t BY <1>3, <3>1
      <3> QED BY <1>2, <1>4, <3>1, <3>2, <3>3
    <2>3. CASE k # 0 /\ k # 1
      <3>1. /\ k - 1 \in 0..(n + 1) /\ k - 1 \in 0..n /\ k - 1 # 0
            /\ (n + 1) + 1 - k \in 1..n /\ (n + 1) + 1 - k = n + 1 - (k - 1)
        BY <1>1, <2>3
      <3>2. g[k] = f[k - 1] /\ g[k - 1] = f[(k - 1) - 1] BY <2>3, <3>1
      <3>3. f[k - 1] = BackOne(f[(k - 1) - 1], ops[n + 1 - (k - 1)], r, by) BY <1>3, <3>1
      <3>4. more[(n + 1) + 1 - k] = ops[n + 1 - (k - 1)] BY <1>2, <3>1
      <3> QED BY <2>3, <3>2, <3>3, <3>4
    <2> QED BY <2>1, <2>2, <2>3
  <1>6. g = [k \in 0..(n + 1) |-> g[k]] OBVIOUS
  <1>7. g[n + 1] = f[n]
    <2>1. n + 1 \in 0..(n + 1) /\ n + 1 # 0 /\ (n + 1) - 1 = n BY <1>1
    <2> QED BY <2>1
  <1> HIDE DEF g
  <1>8. g = [k \in 0..(n + 1) |-> IF k = 0 THEN s ELSE BackOne(g[k - 1], more[(n + 1) + 1 - k], r, by)]
    BY <1>5, <1>6
  <1>9. Walk(g, u, more, r, by) BY <1>2, <1>8 DEF Walk, s
  <1> QED BY <1>2, <1>7, <1>9 DEF more, n

LEMMA RestoresSkipped ==
    ASSUME NEW ops, IsSeq(ops), NEW op, op.outcome # "applied",
           NEW r, NEW c1, NEW K1, NEW L1, NEW c0, NEW K0, NEW L0, NEW h0, NEW S0, NEW refiled,
           Restores(ops, r, c1, K1, L1, c0, K0, L0, h0, S0, refiled)
    PROVE  Restores(Append(ops, op), r, c1, K1, L1, c0, K0, L0, h0, S0, refiled)
  <1> DEFINE more == Append(ops, op)
  <1> SUFFICES ASSUME NEW u, NEW by, NEW h, NEW S, NEW loose,
                      h \in Nat, h0 <= h, h < r, S0 \subseteq S, by \in S, 0 \notin S, r \notin S,
                      loose \in BOOLEAN, refiled => loose,
                      Table(u), Stands(u, c1, K1, L1, h, r, S, loose)
               PROVE  \E f : /\ Walk(f, u, more, r, by) /\ f[Len(more)].ok /\ Table(f[Len(more)].c)
                             /\ Stands(f[Len(more)].c, c0, K0, L0, h, r, S, loose)
    BY DEF Restores
  <1>1. PICK f : /\ Walk(f, u, ops, r, by) /\ f[Len(ops)].ok /\ Table(f[Len(ops)].c)
                 /\ Stands(f[Len(ops)].c, c0, K0, L0, h, r, S, loose)
    BY DEF Restores
  <1>2. BackOne([c |-> u, ok |-> TRUE], op, r, by) = [c |-> u, ok |-> TRUE] BY DEF BackOne
  <1>3. PICK g : Walk(g, u, more, r, by) /\ g[Len(more)] = f[Len(ops)] BY <1>1, <1>2, WalkMore
  <1> QED BY <1>1, <1>3

LEMMA RestoresMore ==
    ASSUME NEW ops, IsSeq(ops), NEW op, op.outcome = "applied",
           NEW r \in Nat, NEW c2, NEW K2 \in Nat, NEW L2 \in Nat,
           NEW c1, NEW K1 \in Nat, NEW L1 \in Nat, K1 <= K2, L1 <= L2,
           NEW c0, NEW K0, NEW L0, NEW h0, NEW S0, NEW refiled,
           Table(c2), Table(c1), Bounded(c1, K1, L1), Inverts(op.image, c2, c1, K1, L1, r),
           Restores(ops, r, c1, K1, L1, c0, K0, L0, h0, S0, refiled)
    PROVE  Restores(Append(ops, op), r, c2, K2, L2, c0, K0, L0, h0, S0, refiled)
  <1> DEFINE more == Append(ops, op)
  <1> SUFFICES ASSUME NEW u, NEW by, NEW h, NEW S, NEW loose,
                      h \in Nat, h0 <= h, h < r, S0 \subseteq S, by \in S, 0 \notin S, r \notin S,
                      loose \in BOOLEAN, refiled => loose,
                      Table(u), Stands(u, c2, K2, L2, h, r, S, loose)
               PROVE  \E f : /\ Walk(f, u, more, r, by) /\ f[Len(more)].ok /\ Table(f[Len(more)].c)
                             /\ Stands(f[Len(more)].c, c0, K0, L0, h, r, S, loose)
    BY DEF Restores
  <1>1. PICK v : v = Undo(u, op.image, r, by) OBVIOUS
  <1>2. PICK m : m = op.image OBVIOUS
  <1>3. r > h OBVIOUS
  <1>4. Table(v) /\ Stands(v, c1, K1, L1, h, r, S, loose) BY <1>1, <1>2, <1>3, StepBack
  <1>5. PICK f : /\ Walk(f, v, ops, r, by) /\ f[Len(ops)].ok /\ Table(f[Len(ops)].c)
                 /\ Stands(f[Len(ops)].c, c0, K0, L0, h, r, S, loose)
    BY <1>4 DEF Restores
  <1>6. LinksUnique(v) BY <1>4 DEF Table
  <1>7. BackOne([c |-> u, ok |-> TRUE], op, r, by) = [c |-> v, ok |-> TRUE] BY <1>1, <1>6 DEF BackOne
  <1>8. PICK g : Walk(g, u, more, r, by) /\ g[Len(more)] = f[Len(ops)] BY <1>5, <1>7, WalkMore
  <1> QED BY <1>5, <1>8

\* The walk can begin from what stands for its beginning.
LEMMA RestoresFrom ==
    ASSUME NEW ops, NEW r \in Nat, NEW c2, NEW K2 \in Nat, NEW L2 \in Nat,
           NEW c1, NEW K1 \in Nat, NEW L1 \in Nat, K1 <= K2, L1 <= L2, NEW c0, NEW K0, NEW L0,
           NEW h0 \in Nat, NEW h2 \in Nat, h0 <= h2, NEW S0, NEW S2, S0 \subseteq S2,
           NEW refiled \in BOOLEAN, NEW refiled2 \in BOOLEAN, refiled => refiled2,
           Table(c2), Table(c1), Bounded(c1, K1, L1),
           Stands(c2, c1, K1, L1, h2, 0, S2, refiled2),
           Restores(ops, r, c1, K1, L1, c0, K0, L0, h0, S0, refiled)
    PROVE  Restores(ops, r, c2, K2, L2, c0, K0, L0, h2, S2, refiled2)
  <1> SUFFICES ASSUME NEW u, NEW by, NEW h, NEW S, NEW loose,
                      h \in Nat, h2 <= h, h < r, S2 \subseteq S, by \in S, 0 \notin S, r \notin S,
                      loose \in BOOLEAN, refiled2 => loose,
                      Table(u), Stands(u, c2, K2, L2, h, r, S, loose)
               PROVE  \E f : /\ Walk(f, u, ops, r, by) /\ f[Len(ops)].ok /\ Table(f[Len(ops)].c)
                             /\ Stands(f[Len(ops)].c, c0, K0, L0, h, r, S, loose)
    BY DEF Restores
  <1>1. K1 <= K1 /\ L1 <= L1 OBVIOUS
  <1>2. Stands(c2, c1, K1, L1, h, 0, S, loose)
    <2>1. Stands(c2, c1, K1, L1, h2, 0, S2, refiled2) /\ h2 <= h /\ S2 \subseteq S /\ (refiled2 => loose)
      OBVIOUS
    <2> QED BY ONLY <1>1, <2>1, StandsWeaker, Table(c2), Table(c1), h2 \in Nat, h \in Nat,
                    K1 \in Nat, L1 \in Nat, refiled2 \in BOOLEAN, loose \in BOOLEAN
  <1>3. Stands(u, c1, K1, L1, h, r, S, loose) BY <1>2, StandsTransitive
  <1>4. h0 <= h /\ S0 \subseteq S /\ (refiled => loose) OBVIOUS
  <1> QED BY <1>3, <1>4 DEF Restores

-----------------------------------------------------------------------------
(* Every operation journals the image of its inverse.                      *)

Filled(a, b, d, e, f, g, h, j, k, o) ==
    [made |-> a, cites |-> b, drop |-> d, remark |-> e, parent |-> f, title |-> g,
     moved |-> h, nodes |-> j, links |-> k, sup |-> o]

LEMMA Images ==
    ASSUME NEW x, NEW y
    PROVE  /\ [NoImage EXCEPT !.made = x] = Filled(x, {}, {}, << >>, << >>, << >>, << >>, {}, {}, {})
           /\ [NoImage EXCEPT !.drop = x] = Filled({}, {}, x, << >>, << >>, << >>, << >>, {}, {}, {})
           /\ [NoImage EXCEPT !.remark = x] = Filled({}, {}, {}, x, << >>, << >>, << >>, {}, {}, {})
           /\ [NoImage EXCEPT !.parent = x] = Filled({}, {}, {}, << >>, x, << >>, << >>, {}, {}, {})
           /\ [NoImage EXCEPT !.sup = x] = Filled({}, {}, {}, << >>, << >>, << >>, << >>, {}, {}, x)
           /\ [NoImage EXCEPT !.title = x, !.parent = y] = Filled({}, {}, {}, << >>, y, x, << >>, {}, {}, {})
           /\ [NoImage EXCEPT !.made = x, !.moved = y] = Filled(x, {}, {}, << >>, << >>, << >>, y, {}, {}, {})
  <1>1. PICK s, q : s = {} /\ q = << >> OBVIOUS
  <1>2. PICK m : m = NoImage OBVIOUS
  <1>3. m = Filled(s, s, s, q, q, q, q, s, s, s) BY <1>1, <1>2 DEF NoImage, Filled
  <1> DEFINE m1 == [m EXCEPT !.made = x]
             t1 == [m EXCEPT !.title = x]
  <1>a. [m EXCEPT !.title = x, !.parent = y] = [t1 EXCEPT !.parent = y] OBVIOUS
  <1>b. [m EXCEPT !.made = x, !.moved = y] = [m1 EXCEPT !.moved = y] OBVIOUS
  <1>4. m1 = Filled(x, s, s, q, q, q, q, s, s, s) BY <1>3 DEF Filled
  <1>5. [m EXCEPT !.drop = x] = Filled(s, s, x, q, q, q, q, s, s, s) BY <1>3 DEF Filled
  <1>6. [m EXCEPT !.remark = x] = Filled(s, s, s, x, q, q, q, s, s, s) BY <1>3 DEF Filled
  <1>7. [m EXCEPT !.parent = x] = Filled(s, s, s, q, x, q, q, s, s, s) BY <1>3 DEF Filled
  <1>8. [m EXCEPT !.sup = x] = Filled(s, s, s, q, q, q, q, s, s, x) BY <1>3 DEF Filled
  <1>9. t1 = Filled(s, s, s, q, q, x, q, s, s, s) BY <1>3 DEF Filled
  <1> HIDE DEF t1, m1
  <1>10. [t1 EXCEPT !.parent = y] = Filled(s, s, s, q, y, x, q, s, s, s) BY <1>9 DEF Filled
  <1>11. [m1 EXCEPT !.moved = y] = Filled(x, s, s, q, q, q, y, s, s, s) BY <1>4 DEF Filled
  <1>12. [m EXCEPT !.made = x] = Filled(x, s, s, q, q, q, q, s, s, s) BY <1>4 DEF m1
  <1> QED BY <1>1, <1>2, <1>5, <1>6, <1>7, <1>8, <1>10, <1>11, <1>12, <1>a, <1>b

LEMMA DigestImage ==
    ASSUME NEW x, NEW y, NEW z, NEW w
    PROVE  [NoImage EXCEPT !.made = x, !.cites = y, !.nodes = z, !.links = w]
             = Filled(x, y, {}, << >>, << >>, << >>, << >>, z, w, {})
  <1>1. PICK s, q, m : s = {} /\ q = << >> /\ m = NoImage OBVIOUS
  <1>2. m = Filled(s, s, s, q, q, q, q, s, s, s) BY <1>1 DEF NoImage, Filled
  <1> DEFINE m1 == [m EXCEPT !.made = x]
             m2 == [m1 EXCEPT !.cites = y]
             m3 == [m2 EXCEPT !.nodes = z]
  <1>3. [m EXCEPT !.made = x, !.cites = y, !.nodes = z, !.links = w] = [m3 EXCEPT !.links = w] OBVIOUS
  <1>4. m1 = Filled(x, s, s, q, q, q, q, s, s, s) BY <1>2 DEF Filled
  <1> HIDE DEF m1
  <1>5. m2 = Filled(x, y, s, q, q, q, q, s, s, s) BY <1>4 DEF Filled
  <1> HIDE DEF m2
  <1>6. m3 = Filled(x, y, s, q, q, q, q, z, s, s) BY <1>5 DEF Filled
  <1> HIDE DEF m3
  <1>7. [m3 EXCEPT !.links = w] = Filled(x, y, s, q, q, q, q, z, w, s) BY <1>6 DEF Filled
  <1> QED BY <1>1, <1>3, <1>7

LEMMA FilledFields ==
    ASSUME NEW a, NEW b, NEW d, NEW e, NEW f, NEW g, NEW h, NEW j, NEW k, NEW o,
           NEW m, m = Filled(a, b, d, e, f, g, h, j, k, o)
    PROVE  /\ m.made = a /\ m.cites = b /\ m.drop = d /\ m.remark = e /\ m.parent = f
           /\ m.title = g /\ m.moved = h /\ m.nodes = j /\ m.links = k /\ m.sup = o
  BY DEF Filled

\* An image that puts back no link, deletes none and unmarks none.
LEMMA LinksKept ==
    ASSUME NEW m, NEW c, NEW K, NEW L, NEW r,
           m.drop = {}, m.cites = {}, m.remark = << >>, m.moved = << >>, m.links = {}
    PROVE  \A c1 : c1.link = c.link => LinkInverts(m, c1, c, K, L, r)
  <1>1. DOMAIN << >> = {} OBVIOUS
  <1> QED BY <1>1 DEF LinkInverts

LEMMA NodesKept ==
    ASSUME NEW m, NEW c, NEW K, NEW r,
           m.made = {}, m.parent = << >>, m.title = << >>, m.nodes = {}
    PROVE  \A c1 : c1.node = c.node => NodeInverts(m, c1, c, K, r)
  <1>1. DOMAIN << >> = {} OBVIOUS
  <1> QED BY <1>1 DEF NodeInverts

\* A class is made.
LEMMA CreateInverts ==
    ASSUME NEW K \in Nat, NEW L \in Nat, NEW r, NEW c, Table(c), Bounded(c, K, L),
           c.sup = [s \in DOMAIN c.sup |-> c.sup[s]],
           NEW parent, NEW title, NEW res, res = Create(c, K + 1, parent, title)
    PROVE  Inverts(res.image, res.c, c, K, L, r)
  <1> DEFINE id == K + 1
             row == NewNode(parent, title, "node")
             N == Put(c.node, id, row)
             m == [NoImage EXCEPT !.made = {id}]
  <1>1. res.c = [c EXCEPT !.node = N] /\ res.image = m BY DEF Create, Result
  <1>2. c = [node |-> c.node, link |-> c.link, sup |-> c.sup] BY DEF Table
  <1>3. /\ DOMAIN N = DOMAIN c.node \cup {id} /\ N[id] = row
        /\ \A n \in DOMAIN c.node : n # id => N[n] = c.node[n]
    <2> HIDE DEF row, id
    <2>1. DOMAIN N = DOMAIN c.node \cup {id} BY Tables
    <2>2. N[id] = row BY Tables
    <2>3. \A n \in DOMAIN c.node : n # id => N[n] = c.node[n] BY Tables
    <2> QED BY <2>1, <2>2, <2>3
  <1>4. row.by = 0 BY DEF NewNode
  <1>5. id > K /\ id \notin 1..K OBVIOUS
  <1>6. \A n \in DOMAIN c.node : n # id BY <1>5 DEF Bounded
  <1>7. m = Filled({id}, {}, {}, << >>, << >>, << >>, << >>, {}, {}, {}) BY Images
  <1> HIDE DEF N, m, row, id
  <1>8. PICK w : w = res.image /\ w = m BY <1>1
  <1>9. /\ w.made = {id} /\ w.cites = {} /\ w.drop = {} /\ w.remark = << >> /\ w.parent = << >>
        /\ w.title = << >> /\ w.moved = << >> /\ w.nodes = {} /\ w.links = {} /\ w.sup = {}
    BY <1>7, <1>8, FilledFields
  <1>10. res.c = [node |-> N, link |-> c.link, sup |-> c.sup] BY <1>1, <1>2, CatChanged
  <1>11. PICK d : d = res.c /\ d.node = N /\ d.link = c.link /\ d.sup = c.sup BY <1>10
  <1>12. DOMAIN << >> = {} OBVIOUS
  <1>13. NodeInverts(w, d, c, K, r) BY <1>3, <1>4, <1>5, <1>6, <1>9, <1>11, <1>12 DEF NodeInverts
  <1>14. LinkInverts(w, d, c, K, L, r) BY <1>9, <1>11, LinksKept
  <1>15. c.sup = [s \in DOMAIN d.sup \ w.sup |-> d.sup[s]] BY <1>9, <1>11
  <1> QED BY <1>8, <1>11, <1>13, <1>14, <1>15 DEF Inverts

\* An item is filed: a link is made, or a marked one is live again.
LEMMA FileInverts ==
    ASSUME NEW K \in Nat, NEW L \in Nat, NEW r, NEW c, Table(c), Bounded(c, K, L),
           c.sup = [s \in DOMAIN c.sup |-> c.sup[s]],
           NEW n, NEW item, NEW res, res = File(c, L + 1, n, item)
    PROVE  Inverts(res.image, res.c, c, K, L, r)
  <1> DEFINE id == L + 1
  <1>1. c = [node |-> c.node, link |-> c.link, sup |-> c.sup] BY DEF Table
  <1>2. DOMAIN << >> = {} OBVIOUS
  <1>3. id \notin 1..L OBVIOUS
  <1>4. \A l \in DOMAIN c.link : l # id BY <1>3 DEF Bounded
  <1>5. CASE Held(c, n, item) = {}
    <2> DEFINE row == NewLink(n, item)
               M == Put(c.link, id, row)
               m == [NoImage EXCEPT !.drop = {id}]
    <2>1. res.c = [c EXCEPT !.link = M] /\ res.image = m BY <1>5 DEF File, Result
    <2>2. /\ DOMAIN M = DOMAIN c.link \cup {id}
          /\ \A l \in DOMAIN c.link : l # id => M[l] = c.link[l]
      <3> HIDE DEF row, id
      <3>1. DOMAIN M = DOMAIN c.link \cup {id} BY Tables
      <3>2. \A l \in DOMAIN c.link : l # id => M[l] = c.link[l] BY Tables
      <3> QED BY <3>1, <3>2
    <2>3. m = Filled({}, {}, {id}, << >>, << >>, << >>, << >>, {}, {}, {}) BY Images
    <2> HIDE DEF M, m, row, id
    <2>4. PICK w : w = res.image /\ w = m BY <2>1
    <2>5. /\ w.made = {} /\ w.cites = {} /\ w.drop = {id} /\ w.remark = << >> /\ w.parent = << >>
          /\ w.title = << >> /\ w.moved = << >> /\ w.nodes = {} /\ w.links = {} /\ w.sup = {}
      BY <2>3, <2>4, FilledFields
    <2>6. res.c = [node |-> c.node, link |-> M, sup |-> c.sup] BY <1>1, <2>1, CatChanged
    <2>7. PICK d : d = res.c /\ d.node = c.node /\ d.link = M /\ d.sup = c.sup BY <2>6
    <2>8. NodeInverts(w, d, c, K, r) BY <2>5, <2>7, NodesKept
    <2>9. LinkInverts(w, d, c, K, L, r) BY <1>2, <1>4, <2>2, <2>5, <2>7 DEF LinkInverts
    <2>10. c.sup = [s \in DOMAIN d.sup \ w.sup |-> d.sup[s]] BY <2>5, <2>7
    <2> QED BY <2>4, <2>7, <2>8, <2>9, <2>10 DEF Inverts
  <1>6. CASE Held(c, n, item) # {}
    <2>1. PICK l : l \in Held(c, n, item) /\ l = CHOOSE x \in Held(c, n, item) : TRUE BY <1>6
    <2> DEFINE M == [c.link EXCEPT ![l].by = 0]
               e == [k \in {l} |-> c.link[l].by]
               m == [NoImage EXCEPT !.remark = e]
    <2>2. res.c = [c EXCEPT !.link[l].by = 0] /\ res.image = m BY <1>6, <2>1 DEF File, Result
    <2>3. [c EXCEPT !.link[l].by = 0] = [c EXCEPT !.link = M] OBVIOUS
    <2>4. l \in DOMAIN c.link BY <2>1 DEF Held
    <2>5. /\ DOMAIN M = DOMAIN c.link
          /\ M[l].node = c.link[l].node /\ M[l].item = c.link[l].item /\ M[l].by = 0
          /\ \A k \in DOMAIN c.link : k # l => M[k] = c.link[k]
      <3>1. PICK x : x = c.link[l] OBVIOUS
      <3>2. x = [node |-> x.node, item |-> x.item, by |-> x.by] BY <2>4, <3>1 DEF Table
      <3>3. M[l] = [x EXCEPT !.by = 0] BY <2>4, <3>1
      <3>4. [x EXCEPT !.by = 0] = [node |-> x.node, item |-> x.item, by |-> 0] BY <3>2
      <3>5. M[l].node = x.node /\ M[l].item = x.item /\ M[l].by = 0
        <4> HIDE DEF M
        <4> QED BY <3>3, <3>4
      <3> QED BY <3>1, <3>5
    <2>6. DOMAIN e = {l} /\ e[l] = c.link[l].by OBVIOUS
    <2>7. m = Filled({}, {}, {}, e, << >>, << >>, << >>, {}, {}, {}) BY Images
    <2> HIDE DEF M, m, e
    <2>8. PICK w : w = res.image /\ w = m BY <2>2
    <2>9. /\ w.made = {} /\ w.cites = {} /\ w.drop = {} /\ w.remark = e /\ w.parent = << >>
          /\ w.title = << >> /\ w.moved = << >> /\ w.nodes = {} /\ w.links = {} /\ w.sup = {}
      BY <2>7, <2>8, FilledFields
    <2>10. res.c = [node |-> c.node, link |-> M, sup |-> c.sup] BY <1>1, <2>2, <2>3, CatChanged
    <2>11. PICK d : d = res.c /\ d.node = c.node /\ d.link = M /\ d.sup = c.sup BY <2>10
    <2>12. NodeInverts(w, d, c, K, r) BY <2>9, <2>11, NodesKept
    <2>13. LinkInverts(w, d, c, K, L, r) BY <1>2, <2>4, <2>5, <2>6, <2>9, <2>11 DEF LinkInverts
    <2>14. c.sup = [s \in DOMAIN d.sup \ w.sup |-> d.sup[s]] BY <2>9, <2>11
    <2> QED BY <2>8, <2>11, <2>12, <2>13, <2>14 DEF Inverts
  <1> QED BY <1>5, <1>6

\* The fields of a row of which one is changed.
LEMMA NodeFields ==
    ASSUME NEW x, x = [parent |-> x.parent, title |-> x.title, kind |-> x.kind, by |-> x.by], NEW y, NEW z
    PROVE  /\ z = [x EXCEPT !.parent = y] =>
                z.parent = y /\ z.title = x.title /\ z.kind = x.kind /\ z.by = x.by
                /\ z = [parent |-> z.parent, title |-> z.title, kind |-> z.kind, by |-> z.by]
           /\ z = [x EXCEPT !.by = y] =>
                z.parent = x.parent /\ z.title = x.title /\ z.kind = x.kind /\ z.by = y
                /\ z = [parent |-> z.parent, title |-> z.title, kind |-> z.kind, by |-> z.by]
           /\ z = [x EXCEPT !.title = y] =>
                z.parent = x.parent /\ z.title = y /\ z.kind = x.kind /\ z.by = x.by
                /\ z = [parent |-> z.parent, title |-> z.title, kind |-> z.kind, by |-> z.by]
  <1>1. PICK p, t, k, b : x = [parent |-> p, title |-> t, kind |-> k, by |-> b] OBVIOUS
  <1> QED BY <1>1

LEMMA LinkFields ==
    ASSUME NEW x, x = [node |-> x.node, item |-> x.item, by |-> x.by], NEW y, NEW z
    PROVE  /\ z = [x EXCEPT !.node = y] => z.node = y /\ z.item = x.item /\ z.by = x.by
           /\ z = [x EXCEPT !.by = y] => z.node = x.node /\ z.item = x.item /\ z.by = y
  <1>1. PICK n, i, b : x = [node |-> n, item |-> i, by |-> b] OBVIOUS
  <1> QED BY <1>1

\* A class gets another parent.
LEMMA PromoteInverts ==
    ASSUME NEW K \in Nat, NEW L \in Nat, NEW r, NEW c, Table(c), Bounded(c, K, L),
           c.sup = [s \in DOMAIN c.sup |-> c.sup[s]],
           NEW p, NEW res, res = Promote(c, p)
    PROVE  Inverts(res.image, res.c, c, K, L, r)
  <1> DEFINE known == {p.node} \cap DOMAIN c.node
             hung == [n \in known |-> [c.node[n] EXCEPT !.parent = p.to]]
             N == Over(hung, c.node)
             was == [n \in known |-> c.node[n].parent]
             m == [NoImage EXCEPT !.parent = was]
  <1>1. res.c = [c EXCEPT !.node = N] /\ res.image = m BY DEF Promote, Result
  <1>2. c = [node |-> c.node, link |-> c.link, sup |-> c.sup] BY DEF Table
  <1>3. DOMAIN << >> = {} OBVIOUS
  <1>4. /\ DOMAIN N = DOMAIN c.node
        /\ \A n \in DOMAIN c.node : N[n] = IF n \in known THEN hung[n] ELSE c.node[n]
    BY DEF Over
  <1>5. /\ \A n \in known : n \in DOMAIN c.node /\ hung[n] = [c.node[n] EXCEPT !.parent = p.to]
        /\ DOMAIN was = known /\ \A n \in known : was[n] = c.node[n].parent
    OBVIOUS
  <1>6. m = Filled({}, {}, {}, << >>, was, << >>, << >>, {}, {}, {}) BY Images
  <1> HIDE DEF known, hung, N, was, m
  <1>7. PICK w : w = res.image /\ w = m BY <1>1
  <1>8. /\ w.made = {} /\ w.cites = {} /\ w.drop = {} /\ w.remark = << >> /\ w.parent = was
        /\ w.title = << >> /\ w.moved = << >> /\ w.nodes = {} /\ w.links = {} /\ w.sup = {}
    BY <1>6, <1>7, FilledFields
  <1>9. res.c = [node |-> N, link |-> c.link, sup |-> c.sup] BY <1>1, <1>2, CatChanged
  <1>10. PICK d : d = res.c /\ d.node = N /\ d.link = c.link /\ d.sup = c.sup BY <1>9
  <1>11. ASSUME NEW n \in DOMAIN c.node
         PROVE  /\ c.node[n].kind = d.node[n].kind /\ c.node[n].title = d.node[n].title
                /\ c.node[n].by = d.node[n].by
                /\ c.node[n].parent = IF n \in known THEN was[n] ELSE d.node[n].parent
    <2>1. CASE n \in known
      <3>1. d.node[n] = [c.node[n] EXCEPT !.parent = p.to] BY <1>4, <1>5, <1>10, <2>1
      <3>2. c.node[n] = [parent |-> c.node[n].parent, title |-> c.node[n].title,
                         kind |-> c.node[n].kind, by |-> c.node[n].by] BY DEF Table
      <3> QED BY <1>5, <2>1, <3>1, <3>2, NodeFields
    <2>2. CASE n \notin known BY <1>4, <1>10, <2>2
    <2> QED BY <2>1, <2>2
  <1>12. NodeInverts(w, d, c, K, r) BY <1>3, <1>4, <1>5, <1>8, <1>10, <1>11 DEF NodeInverts
  <1>13. LinkInverts(w, d, c, K, L, r) BY <1>8, <1>10, LinksKept
  <1>14. c.sup = [s \in DOMAIN d.sup \ w.sup |-> d.sup[s]] BY <1>8, <1>10
  <1> QED BY <1>7, <1>10, <1>12, <1>13, <1>14 DEF Inverts

\* An edge is added where there was none.
LEMMA SupersedeInverts ==
    ASSUME NEW K \in Nat, NEW L \in Nat, NEW r, NEW c, Table(c), Bounded(c, K, L),
           c.sup = [s \in DOMAIN c.sup |-> c.sup[s]],
           NEW p, ChainHead(c.sup, p.old) \notin DOMAIN c.sup, NEW res, res = Supersede(c, p)
    PROVE  Inverts(res.image, res.c, c, K, L, r)
  <1> DEFINE old == ChainHead(c.sup, p.old)
             S == Put(c.sup, old, p.new)
             m == [NoImage EXCEPT !.sup = {old}]
  <1>1. res.c = [c EXCEPT !.sup = S] /\ res.image = m BY DEF Supersede, Result
  <1>2. c = [node |-> c.node, link |-> c.link, sup |-> c.sup] BY DEF Table
  <1> HIDE DEF old
  <1>3. DOMAIN S = DOMAIN c.sup \cup {old} /\ \A s \in DOMAIN c.sup : s # old => S[s] = c.sup[s]
    BY DEF Put
  <1>4. old \notin DOMAIN c.sup BY DEF old
  <1>5. m = Filled({}, {}, {}, << >>, << >>, << >>, << >>, {}, {}, {old}) BY Images
  <1> HIDE DEF S, m
  <1>6. PICK w : w = res.image /\ w = m BY <1>1
  <1>7. /\ w.made = {} /\ w.cites = {} /\ w.drop = {} /\ w.remark = << >> /\ w.parent = << >>
        /\ w.title = << >> /\ w.moved = << >> /\ w.nodes = {} /\ w.links = {} /\ w.sup = {old}
    BY <1>5, <1>6, FilledFields
  <1>8. res.c = [node |-> c.node, link |-> c.link, sup |-> S] BY <1>1, <1>2, CatChanged
  <1>9. PICK d : d = res.c /\ d.node = c.node /\ d.link = c.link /\ d.sup = S BY <1>8
  <1>10. NodeInverts(w, d, c, K, r) BY <1>7, <1>9, NodesKept
  <1>11. LinkInverts(w, d, c, K, L, r) BY <1>7, <1>9, LinksKept
  <1>12. c.sup = [s \in DOMAIN d.sup \ w.sup |-> d.sup[s]]
    <2>1. DOMAIN d.sup \ w.sup = DOMAIN c.sup BY <1>3, <1>4, <1>7, <1>9
    <2>2. \A s \in DOMAIN c.sup : d.sup[s] = c.sup[s] BY <1>3, <1>4, <1>9
    <2>3. [s \in DOMAIN d.sup \ w.sup |-> d.sup[s]] = [s \in DOMAIN c.sup |-> c.sup[s]] BY <2>1, <2>2
    <2> QED BY <2>3
  <1> QED BY <1>6, <1>9, <1>10, <1>11, <1>12 DEF Inverts

\* A subtree is retired, its links with it, and a digest cites what it held.
LEMMA CollapseInverts ==
    ASSUME NEW K \in Nat, NEW L \in Nat, NEW r, NEW c, Table(c), Bounded(c, K, L),
           c.sup = [s \in DOMAIN c.sup |-> c.sup[s]],
           NEW p, IsSeq(p.cites), NEW res, res = Collapse(c, p, r, K, L)
    PROVE  Inverts(res.image, res.c, c, K, L, r)
  <1> DEFINE digest == K + 1
             first == {k \in 1..Len(p.cites) : \A j \in 1..(k - 1) : p.cites[j] # p.cites[k]}
             made == [l \in {L + k : k \in first} |-> NewLink(digest, p.cites[l - L])]
             gone == Subtree(c, p.node)
             links == LinksUnder(c, p.node)
             mark(t, ids) == [i \in DOMAIN t |-> IF i \in ids /\ t[i].by = 0 THEN [t[i] EXCEPT !.by = r] ELSE t[i]]
             node == NewNode(c.node[p.node].parent, DigestTitle, "digest")
             oldN == mark(c.node, gone)
             oldM == mark(c.link, links)
             N == Put(oldN, digest, node)
             M == Over(made, oldM)
             cites == DOMAIN made
             m == [NoImage EXCEPT !.made = {digest}, !.cites = cites, !.nodes = gone, !.links = links]
  <1>1. res.c = [node |-> N, link |-> M, sup |-> c.sup] /\ res.image = m BY DEF Collapse, Result
  <1>2. Len(p.cites) \in Nat BY SeqFacts
  <1>3. DOMAIN << >> = {} OBVIOUS
  <1>4. \A l \in cites : l \in Nat /\ l > L /\ made[l].node = digest /\ made[l].by = 0
    <2> SUFFICES ASSUME NEW l \in cites PROVE l \in Nat /\ l > L /\ made[l].node = digest /\ made[l].by = 0
      OBVIOUS
    <2>1. PICK k \in first : l = L + k OBVIOUS
    <2>2. k \in 1..Len(p.cites) BY <2>1
    <2>3. PICK x : made[l] = NewLink(digest, x) OBVIOUS
    <2> HIDE DEF made, first, digest
    <2>4. made[l].node = digest /\ made[l].by = 0 BY <2>3 DEF NewLink
    <2>5. l \in Nat /\ l > L BY <1>2, <2>1, <2>2
    <2> QED BY <2>4, <2>5
  <1>5. /\ DOMAIN N = DOMAIN oldN \cup {digest} /\ N[digest] = node
        /\ \A n \in DOMAIN oldN : n # digest => N[n] = oldN[n]
    <2> HIDE DEF oldN, node
    <2> QED BY DEF Put
  <1>6. /\ DOMAIN M = cites \cup DOMAIN oldM /\ \A l \in cites : M[l] = made[l]
        /\ \A l \in DOMAIN oldM : l \notin cites => M[l] = oldM[l]
    <2> HIDE DEF oldM, made
    <2> QED BY DEF Over
  <1>7. /\ DOMAIN oldN = DOMAIN c.node
        /\ \A n \in DOMAIN c.node : oldN[n] = IF n \in gone /\ c.node[n].by = 0
                                              THEN [c.node[n] EXCEPT !.by = r] ELSE c.node[n]
    <2> HIDE DEF gone
    <2> QED OBVIOUS
  <1>8. /\ DOMAIN oldM = DOMAIN c.link
        /\ \A l \in DOMAIN c.link : oldM[l] = IF l \in links /\ c.link[l].by = 0
                                              THEN [c.link[l] EXCEPT !.by = r] ELSE c.link[l]
    <2> HIDE DEF links
    <2> QED OBVIOUS
  <1>9. \A l \in links : l \in DOMAIN c.link /\ c.link[l].by = 0 BY DEF LinksUnder, LinksAt, LiveRows
  <1>10. node.by = 0 BY DEF NewNode
  <1>11. digest > K /\ digest \notin 1..K OBVIOUS
  <1>12. \A n \in DOMAIN c.node : n # digest BY <1>11 DEF Bounded
  <1>13. \A l \in DOMAIN c.link : l \notin cites
    <2>1. \A l \in DOMAIN c.link : ~(l > L) BY DEF Bounded
    <2> HIDE DEF cites
    <2> QED BY <1>4, <2>1
  <1> HIDE DEF N, M, oldN, oldM, node, gone, links, digest, cites, made
  <1>14. m = Filled({digest}, cites, {}, << >>, << >>, << >>, << >>, gone, links, {})
    <2>1. PICK x, y, z, t : x = {digest} /\ y = cites /\ z = gone /\ t = links OBVIOUS
    <2>2. m = [NoImage EXCEPT !.made = x, !.cites = y, !.nodes = z, !.links = t] BY <2>1
    <2>3. [NoImage EXCEPT !.made = x, !.cites = y, !.nodes = z, !.links = t]
             = Filled(x, y, {}, << >>, << >>, << >>, << >>, z, t, {})
      BY ONLY DigestImage
    <2> QED BY <2>1, <2>2, <2>3
  <1> HIDE DEF m
  <1>15. PICK w : w = res.image /\ w = m BY <1>1
  <1>16. /\ w.made = {digest} /\ w.cites = cites /\ w.drop = {} /\ w.remark = << >> /\ w.parent = << >>
         /\ w.title = << >> /\ w.moved = << >> /\ w.nodes = gone /\ w.links = links /\ w.sup = {}
    BY <1>14, <1>15, FilledFields
  <1>17. PICK d : d = res.c /\ d.node = N /\ d.link = M /\ d.sup = c.sup BY <1>1
  <1>18. ASSUME NEW n \in DOMAIN c.node
         PROVE  /\ c.node[n].kind = d.node[n].kind /\ c.node[n].title = d.node[n].title
                /\ c.node[n].parent = d.node[n].parent
                /\ IF n \in gone /\ d.node[n].by = r THEN c.node[n].by \in {0, r} ELSE c.node[n].by = d.node[n].by
    <2>1. d.node[n] = IF n \in gone /\ c.node[n].by = 0 THEN [c.node[n] EXCEPT !.by = r] ELSE c.node[n]
      BY <1>5, <1>7, <1>12, <1>17
    <2>2. CASE n \in gone /\ c.node[n].by = 0
      <3>1. d.node[n] = [c.node[n] EXCEPT !.by = r] BY <2>1, <2>2
      <3>2. c.node[n] = [parent |-> c.node[n].parent, title |-> c.node[n].title,
                         kind |-> c.node[n].kind, by |-> c.node[n].by] BY DEF Table
      <3> QED BY <2>2, <3>1, <3>2, NodeFields
    <2>3. CASE ~(n \in gone /\ c.node[n].by = 0)
      <3>1. d.node[n] = c.node[n] BY <2>1, <2>3
      <3> QED BY <3>1
    <2> QED BY <2>2, <2>3
  <1>19. \A n \in DOMAIN d.node \ DOMAIN c.node : n > K /\ n \in {digest} /\ d.node[n].by = 0
    BY <1>5, <1>7, <1>10, <1>11, <1>17
  <1>20. DOMAIN c.node \subseteq DOMAIN d.node BY <1>5, <1>7, <1>17
  <1>21. NodeInverts(w, d, c, K, r) BY <1>3, <1>12, <1>16, <1>18, <1>19, <1>20 DEF NodeInverts
  <1>22. ASSUME NEW l \in DOMAIN c.link
         PROVE  /\ c.link[l].item = d.link[l].item /\ c.link[l].node = d.link[l].node
                /\ c.link[l].by = IF l \in links /\ d.link[l].by = r THEN 0 ELSE d.link[l].by
    <2>1. d.link[l] = IF l \in links /\ c.link[l].by = 0 THEN [c.link[l] EXCEPT !.by = r] ELSE c.link[l]
      BY <1>6, <1>8, <1>13, <1>17
    <2>2. CASE l \in links
      <3>1. d.link[l] = [c.link[l] EXCEPT !.by = r] /\ c.link[l].by = 0 BY <1>9, <2>1, <2>2
      <3>2. c.link[l] = [node |-> c.link[l].node, item |-> c.link[l].item, by |-> c.link[l].by] BY DEF Table
      <3> QED BY <2>2, <3>1, <3>2, LinkFields
    <2>3. CASE l \notin links
      <3>1. d.link[l] = c.link[l] BY <2>1, <2>3
      <3> QED BY <2>3, <3>1
    <2> QED BY <2>2, <2>3
  <1>23. ASSUME NEW l \in DOMAIN d.link \ DOMAIN c.link
         PROVE  l \in cites /\ l > L /\ d.link[l].by = 0 /\ d.link[l].node > K /\ l \notin links
    <2>1. l \in cites BY <1>6, <1>8, <1>17, <1>23
    <2>2. d.link[l] = made[l] BY <1>6, <1>17, <2>1
    <2> QED BY <1>4, <1>9, <1>11, <1>23, <2>1, <2>2
  <1>24. links \subseteq DOMAIN d.link /\ cites \subseteq DOMAIN d.link /\ DOMAIN c.link \subseteq DOMAIN d.link
    BY <1>6, <1>8, <1>9, <1>17
  <1>25. LinkInverts(w, d, c, K, L, r) BY <1>3, <1>13, <1>16, <1>22, <1>23, <1>24 DEF LinkInverts
  <1>26. c.sup = [s \in DOMAIN d.sup \ w.sup |-> d.sup[s]] BY <1>16, <1>17
  <1> QED BY <1>15, <1>17, <1>21, <1>25, <1>26 DEF Inverts

\* Links move from a class to its parts, which are new.
LEMMA SplitInverts ==
    ASSUME NEW K \in Nat, NEW L \in Nat, NEW r, NEW c, Table(c), Bounded(c, K, L),
           c.sup = [s \in DOMAIN c.sup |-> c.sup[s]],
           NEW p, IsSeq(p.parts), NEW res, res = Split(c, p, K)
    PROVE  Inverts(res.image, res.c, c, K, L, r)
  <1> DEFINE part(k) == {l \in p.parts[k].links \cap LiveRows(c.link) : c.link[l].node = p.node}
             home == [l \in UNION {part(k) : k \in 1..Len(p.parts)} |->
                        K + (CHOOSE k \in 1..Len(p.parts) : l \in part(k))]
             made == [n \in {K + k : k \in 1..Len(p.parts)} |->
                        NewNode(c.node[p.node].parent, p.parts[n - K].title, "node")]
             N == Over(made, c.node)
             M == [l \in DOMAIN c.link |-> IF l \in DOMAIN home
                                           THEN [c.link[l] EXCEPT !.node = home[l]] ELSE c.link[l]]
             moved == [l \in DOMAIN home |-> [from |-> p.node, at |-> home[l]]]
             parts == DOMAIN made
             m == [NoImage EXCEPT !.made = parts, !.moved = moved]
  <1>1. res.c = [c EXCEPT !.node = N, !.link = M] /\ res.image = m BY DEF Split, Result
  <1>2. c = [node |-> c.node, link |-> c.link, sup |-> c.sup] BY DEF Table
  <1>3. Len(p.parts) \in Nat BY SeqFacts
  <1>4. DOMAIN << >> = {} OBVIOUS
  <1>5. \A l \in DOMAIN home : l \in DOMAIN c.link /\ c.link[l].node = p.node BY DEF LiveRows
  <1>6. \A n \in parts : n > K /\ made[n].by = 0
    <2> SUFFICES ASSUME NEW n \in parts PROVE n > K /\ made[n].by = 0 OBVIOUS
    <2>1. PICK k \in 1..Len(p.parts) : n = K + k OBVIOUS
    <2>2. PICK x, y : made[n] = NewNode(x, y, "node") OBVIOUS
    <2> HIDE DEF made
    <2> QED BY <1>3, <2>1, <2>2 DEF NewNode
  <1>7. /\ DOMAIN N = parts \cup DOMAIN c.node /\ \A n \in parts : N[n] = made[n]
        /\ \A n \in DOMAIN c.node : n \notin parts => N[n] = c.node[n]
    <2> HIDE DEF made
    <2> QED BY DEF Over
  <1>8. /\ DOMAIN M = DOMAIN c.link
        /\ \A l \in DOMAIN c.link : M[l] = IF l \in DOMAIN home THEN [c.link[l] EXCEPT !.node = home[l]]
                                           ELSE c.link[l]
    <2> HIDE DEF home
    <2> QED OBVIOUS
  <1>9. /\ DOMAIN moved = DOMAIN home
        /\ \A l \in DOMAIN home : moved[l].from = p.node /\ moved[l].at = home[l]
    <2> HIDE DEF home
    <2> QED OBVIOUS
  <1>10. m = Filled(parts, {}, {}, << >>, << >>, << >>, moved, {}, {}, {}) BY Images
  <1>11. \A n \in DOMAIN c.node : n \notin parts
    <2>1. \A n \in DOMAIN c.node : ~(n > K) BY DEF Bounded
    <2> HIDE DEF parts
    <2> QED BY <1>6, <2>1
  <1> HIDE DEF N, M, made, home, moved, part, parts, m
  <1>12. PICK w : w = res.image /\ w = m BY <1>1
  <1>13. /\ w.made = parts /\ w.cites = {} /\ w.drop = {} /\ w.remark = << >> /\ w.parent = << >>
         /\ w.title = << >> /\ w.moved = moved /\ w.nodes = {} /\ w.links = {} /\ w.sup = {}
    BY <1>10, <1>12, FilledFields
  <1>14. res.c = [node |-> N, link |-> M, sup |-> c.sup] BY <1>1, <1>2, CatChanged
  <1>15. PICK d : d = res.c /\ d.node = N /\ d.link = M /\ d.sup = c.sup BY <1>14
  <1>16. \A n \in DOMAIN c.node : d.node[n] = c.node[n] BY <1>7, <1>11, <1>15
  <1>17. \A n \in DOMAIN d.node \ DOMAIN c.node : n > K /\ n \in parts /\ d.node[n].by = 0
    BY <1>6, <1>7, <1>15
  <1>18. NodeInverts(w, d, c, K, r)
    <2>1. DOMAIN c.node \subseteq DOMAIN d.node BY <1>7, <1>15
    <2> QED BY <1>4, <1>11, <1>13, <1>16, <1>17, <2>1 DEF NodeInverts
  <1>19. ASSUME NEW l \in DOMAIN c.link
         PROVE  /\ c.link[l].item = d.link[l].item /\ c.link[l].by = d.link[l].by
                /\ c.link[l].node = IF l \in DOMAIN moved /\ moved[l].at \in {0, d.link[l].node}
                                    THEN moved[l].from ELSE d.link[l].node
    <2>1. CASE l \in DOMAIN home
      <3>1. d.link[l] = [c.link[l] EXCEPT !.node = home[l]] BY <1>8, <1>15, <2>1
      <3>2. c.link[l] = [node |-> c.link[l].node, item |-> c.link[l].item, by |-> c.link[l].by] BY DEF Table
      <3>3. d.link[l].node = home[l] /\ d.link[l].item = c.link[l].item /\ d.link[l].by = c.link[l].by
        BY <3>1, <3>2, LinkFields
      <3> QED BY <1>5, <1>9, <2>1, <3>3
    <2>2. CASE l \notin DOMAIN home BY <1>8, <1>9, <1>15, <2>2
    <2> QED BY <2>1, <2>2
  <1>20. LinkInverts(w, d, c, K, L, r)
    <2>1. DOMAIN d.link = DOMAIN c.link /\ DOMAIN moved \subseteq DOMAIN c.link BY <1>5, <1>8, <1>9, <1>15
    <2> QED BY <1>4, <1>13, <1>19, <2>1 DEF LinkInverts
  <1>21. c.sup = [s \in DOMAIN d.sup \ w.sup |-> d.sup[s]] BY <1>13, <1>15
  <1> QED BY <1>12, <1>15, <1>18, <1>20, <1>21 DEF Inverts

\* What a merge has journaled when some nodes are absorbed: it leads back to
\* c0; what was hung elsewhere hangs, and what was moved is, under the target.
MergedBack(s, c0, target, to, K, L, r) ==
    /\ Inverts(s.image, s.c, c0, K, L, r)
    /\ DOMAIN s.c.node = DOMAIN c0.node /\ DOMAIN s.c.link = DOMAIN c0.link /\ s.c.sup = c0.sup
    /\ s.image.made = {} /\ s.image.cites = {} /\ s.image.drop = {}
    /\ s.image.remark = << >> /\ s.image.sup = {}
    /\ DOMAIN s.image.parent \subseteq DOMAIN s.c.node
    /\ \A n \in DOMAIN s.image.parent :
         \/ s.c.node[n].parent = target
         \/ n = target /\ s.c.node[n].parent = IF to = 0 THEN s.image.parent[n] ELSE to
    /\ \A l \in DOMAIN s.image.moved : s.c.link[l].node = target /\ s.image.moved[l].at = 0

LEMMA AbsorbInverts ==
    ASSUME NEW K \in Nat, NEW L \in Nat, NEW R \in Nat, NEW r \in 0..R, r # 0, NEW c0,
           NEW s, NEW target, NEW to, MergedOK(s, target, L, K, R),
           c0.sup = [x \in DOMAIN c0.sup |-> c0.sup[x]],
           MergedBack(s, c0, target, to, K, L, r),
           NEW other, other # target, to # 0 => other # to
    PROVE  MergedBack(Absorb(s, target, other, r), c0, target, to, K, L, r)
  <1> DEFINE c == s.c
             links == LinksAt(c, other)
             left == Twins(c, target, links)
             moved == links \ left
             kids == Children(c, other)
             hung == [n \in DOMAIN c.node |-> IF n \in kids THEN [c.node[n] EXCEPT !.parent = target]
                                                            ELSE c.node[n]]
             M == [l \in DOMAIN c.link |-> IF l \in left THEN [c.link[l] EXCEPT !.by = r]
                                           ELSE IF l \in moved THEN [c.link[l] EXCEPT !.node = target]
                                           ELSE c.link[l]]
             N == [hung EXCEPT ![other].by = r]
             taken == [l \in moved |-> [from |-> other, at |-> 0]]
             away == Over(taken, s.image.moved)
             marks == s.image.links \cup left
             above == [k \in kids |-> other]
             rehung == Over(above, s.image.parent)
             gone == s.image.nodes \cup {other}
             res == Absorb(s, target, other, r)
  <1>1. CASE other \notin LiveNodes(c)
    <2>1. res = s BY <1>1 DEF Absorb
    <2> QED BY <2>1
  <1>2. CASE other \in LiveNodes(c)
    <2>1. /\ res.c = [c EXCEPT !.link = M, !.node = N]
          /\ res.image = [s.image EXCEPT !.moved = away, !.links = marks, !.parent = rehung, !.nodes = gone]
      BY <1>2 DEF Absorb, Result
    <2>2. /\ c = [node |-> c.node, link |-> c.link, sup |-> c.sup]
          /\ Table(c) /\ Bounded(c, K, L)
      BY RowsParts, RowsAreTable DEF MergedOK
    <2>3. /\ \A n \in DOMAIN c.node : c.node[n] = [parent |-> c.node[n].parent, title |-> c.node[n].title,
                                                   kind |-> c.node[n].kind, by |-> c.node[n].by]
          /\ \A l \in DOMAIN c.link : c.link[l] = [node |-> c.link[l].node, item |-> c.link[l].item,
                                                   by |-> c.link[l].by]
      BY <2>2 DEF Table
    <2>4. other \in DOMAIN c.node /\ c.node[other].by = 0 BY <1>2 DEF LiveNodes, LiveRows
    <2>5. \A l \in links : l \in DOMAIN c.link /\ c.link[l].by = 0 /\ c.link[l].node = other
      BY DEF LinksAt, LiveRows
    <2>6. left \subseteq links /\ moved \subseteq links /\ moved \cap left = {} BY DEF Twins
    <2>7. \A n \in kids : n \in DOMAIN c.node /\ c.node[n].parent = other
      BY DEF Children, LiveNodes, LiveRows
    <2>8. DOMAIN M = DOMAIN c.link OBVIOUS
    <2>9. \A l \in DOMAIN c.link : M[l] = IF l \in left THEN [c.link[l] EXCEPT !.by = r]
                                          ELSE IF l \in moved THEN [c.link[l] EXCEPT !.node = target]
                                          ELSE c.link[l]
      <3> HIDE DEF left, moved
      <3> QED OBVIOUS
    <2>10. /\ DOMAIN hung = DOMAIN c.node
           /\ \A n \in DOMAIN c.node : hung[n] = IF n \in kids THEN [c.node[n] EXCEPT !.parent = target]
                                                               ELSE c.node[n]
      <3> HIDE DEF kids
      <3> QED OBVIOUS
    <2>11. /\ DOMAIN N = DOMAIN hung
           /\ \A n \in DOMAIN hung : N[n] = IF n = other THEN [hung[other] EXCEPT !.by = r] ELSE hung[n]
      <3> HIDE DEF hung
      <3> QED OBVIOUS
    <2>12. /\ DOMAIN taken = moved
           /\ \A l \in moved : taken[l].from = other /\ taken[l].at = 0
      <3> HIDE DEF moved
      <3> QED OBVIOUS
    <2>13. DOMAIN above = kids /\ \A n \in kids : above[n] = other
      <3> HIDE DEF kids
      <3> QED OBVIOUS
    <2> HIDE DEF links, left, moved, kids, hung, M, N, taken, above
    <2>14. /\ DOMAIN away = moved \cup DOMAIN s.image.moved
           /\ \A l \in moved : away[l] = taken[l]
           /\ \A l \in DOMAIN s.image.moved : l \notin moved => away[l] = s.image.moved[l]
      BY <2>12 DEF Over
    <2>15. /\ DOMAIN rehung = kids \cup DOMAIN s.image.parent
           /\ \A n \in kids : rehung[n] = other
           /\ \A n \in DOMAIN s.image.parent : n \notin kids => rehung[n] = s.image.parent[n]
      BY <2>13 DEF Over
    <2> HIDE DEF away, rehung, marks, gone
    <2>16. ImageOK(s.image, K, R) BY DEF MergedOK
    <2>17. PICK o : o = s.image OBVIOUS
    <2>18. PICK w : w = res.image OBVIOUS
    <2>19. /\ w.made = o.made /\ w.cites = o.cites /\ w.drop = o.drop /\ w.remark = o.remark
           /\ w.parent = rehung /\ w.title = o.title /\ w.moved = away
           /\ w.nodes = gone /\ w.links = marks /\ w.sup = o.sup
      <3>1. w = [o EXCEPT !.moved = away, !.links = marks, !.parent = rehung, !.nodes = gone]
        BY <2>1, <2>17, <2>18
      <3>2. ImageOK(o, K, R) BY <2>16, <2>17
      <3> HIDE DEF res
      <3>3. PICK a, b, e, f : a = away /\ b = marks /\ e = rehung /\ f = gone OBVIOUS
      <3>4. PICK q1, q2, q3, q4, q5, q6, q7, q8, q9, q0 : o = Filled(q1, q2, q3, q4, q5, q6, q7, q8, q9, q0)
        BY <3>2 DEF ImageOK, Filled
      <3> DEFINE m1 == [o EXCEPT !.moved = a]
                 m2 == [m1 EXCEPT !.links = b]
                 m3 == [m2 EXCEPT !.parent = e]
      <3>5. w = [m3 EXCEPT !.nodes = f] BY <3>1, <3>3
      <3>6. m1 = Filled(q1, q2, q3, q4, q5, q6, a, q8, q9, q0) BY <3>4 DEF Filled
      <3> HIDE DEF m1
      <3>7. m2 = Filled(q1, q2, q3, q4, q5, q6, a, q8, b, q0) BY <3>6 DEF Filled
      <3> HIDE DEF m2
      <3>8. m3 = Filled(q1, q2, q3, q4, e, q6, a, q8, b, q0) BY <3>7 DEF Filled
      <3> HIDE DEF m3
      <3>9. w = Filled(q1, q2, q3, q4, e, q6, a, f, b, q0) BY <3>5, <3>8 DEF Filled
      <3>10. /\ o.made = q1 /\ o.cites = q2 /\ o.drop = q3 /\ o.remark = q4 /\ o.title = q6 /\ o.sup = q0
        BY <3>4, FilledFields
      <3>11. /\ w.made = q1 /\ w.cites = q2 /\ w.drop = q3 /\ w.remark = q4 /\ w.parent = e
             /\ w.title = q6 /\ w.moved = a /\ w.nodes = f /\ w.links = b /\ w.sup = q0
        BY <3>9, FilledFields
      <3> QED BY <3>3, <3>10, <3>11
    <2>20. PICK d : d = res.c /\ d.node = N /\ d.link = M /\ d.sup = c.sup
      BY <2>1, <2>2, CatChanged
    <2>21. /\ o.made = {} /\ o.cites = {} /\ o.drop = {} /\ o.remark = << >> /\ o.sup = {}
           /\ DOMAIN c.node = DOMAIN c0.node /\ DOMAIN c.link = DOMAIN c0.link /\ c.sup = c0.sup
      BY <2>17 DEF MergedBack
    <2>22. NodeInverts(o, c, c0, K, r) /\ LinkInverts(o, c, c0, K, L, r) BY <2>17 DEF MergedBack, Inverts
    <2>41. DOMAIN o.parent \subseteq DOMAIN c.node BY <2>17 DEF MergedBack
    <2>23. \A n \in DOMAIN o.parent :
             \/ c.node[n].parent = target
             \/ n = target /\ c.node[n].parent = IF to = 0 THEN o.parent[n] ELSE to
      BY <2>17 DEF MergedBack
    <2>24. \A l \in DOMAIN o.moved : c.link[l].node = target /\ o.moved[l].at = 0
      BY <2>17 DEF MergedBack
    <2>25. DOMAIN << >> = {} OBVIOUS
    \* The classes.
    <2>26. ASSUME NEW n \in DOMAIN c.node
           PROVE  /\ d.node[n].parent = IF n \in kids THEN target ELSE c.node[n].parent
                  /\ d.node[n].title = c.node[n].title /\ d.node[n].kind = c.node[n].kind
                  /\ d.node[n].by = IF n = other THEN r ELSE c.node[n].by
      <3>1. PICK x, y : x = c.node[n] /\ y = hung[n] OBVIOUS
      <3>2. x = [parent |-> x.parent, title |-> x.title, kind |-> x.kind, by |-> x.by] BY <2>3, <2>26, <3>1
      <3>3. /\ y.parent = IF n \in kids THEN target ELSE x.parent
            /\ y.title = x.title /\ y.kind = x.kind /\ y.by = x.by
            /\ y = [parent |-> y.parent, title |-> y.title, kind |-> y.kind, by |-> y.by]
        <4>1. CASE n \in kids
          <5>1. y = [x EXCEPT !.parent = target] BY <2>10, <2>26, <3>1, <4>1
          <5> QED BY <3>2, <4>1, <5>1, NodeFields
        <4>2. CASE n \notin kids
          <5>1. y = x BY <2>10, <2>26, <3>1, <4>2
          <5> QED BY <3>2, <4>2, <5>1
        <4> QED BY <4>1, <4>2
      <3>4. CASE n = other
        <4>1. d.node[n] = [y EXCEPT !.by = r] BY <2>10, <2>11, <2>20, <2>26, <3>1, <3>4
        <4>2. d.node[n].parent = y.parent /\ d.node[n].title = y.title /\ d.node[n].kind = y.kind
              /\ d.node[n].by = r
          BY <3>3, <4>1, NodeFields
        <4> QED BY <3>1, <3>3, <3>4, <4>2
      <3>5. CASE n # other
        <4>1. d.node[n] = y BY <2>10, <2>11, <2>20, <2>26, <3>1, <3>5
        <4> QED BY <3>1, <3>3, <3>5, <4>1
      <3> QED BY <3>4, <3>5
    <2>27. ASSUME NEW n \in DOMAIN c0.node
           PROVE  /\ c0.node[n].kind = d.node[n].kind
                  /\ c0.node[n].parent = IF n \in DOMAIN w.parent THEN w.parent[n] ELSE d.node[n].parent
                  /\ c0.node[n].title = IF n \in DOMAIN w.title THEN w.title[n] ELSE d.node[n].title
                  /\ IF n \in w.nodes /\ d.node[n].by = r THEN c0.node[n].by \in {0, r}
                                                          ELSE c0.node[n].by = d.node[n].by
      <3>1. n \in DOMAIN c.node BY <2>21, <2>27
      <3>2. PICK kind, parent, title, by : /\ kind = c0.node[n].kind /\ parent = c0.node[n].parent
                                           /\ title = c0.node[n].title /\ by = c0.node[n].by OBVIOUS
      <3>3. /\ kind = c.node[n].kind
            /\ parent = IF n \in DOMAIN o.parent THEN o.parent[n] ELSE c.node[n].parent
            /\ title = IF n \in DOMAIN o.title THEN o.title[n] ELSE c.node[n].title
            /\ IF n \in o.nodes /\ c.node[n].by = r THEN by \in {0, r} ELSE by = c.node[n].by
        BY <2>22, <2>27, <3>2 DEF NodeInverts
      <3>4. parent = IF n \in DOMAIN w.parent THEN w.parent[n] ELSE d.node[n].parent
        <4>1. CASE n \in kids
          <5>1. parent = other BY <2>7, <2>23, <3>3, <4>1
          <5> QED BY <2>15, <2>19, <4>1, <5>1
        <4>2. CASE n \notin kids BY <2>15, <2>17, <2>19, <2>26, <3>1, <3>3, <4>2
        <4> QED BY <4>1, <4>2
      <3>5. IF n \in w.nodes /\ d.node[n].by = r THEN by \in {0, r} ELSE by = d.node[n].by
        <4>1. CASE n = other
          <5>1. by = 0 BY <2>4, <3>3, <4>1
          <5>2. n \in w.nodes /\ d.node[n].by = r BY <2>19, <2>26, <3>1, <4>1 DEF gone
          <5> QED BY <5>1, <5>2
        <4>2. CASE n # other
          <5>1. d.node[n].by = c.node[n].by /\ (n \in w.nodes <=> n \in o.nodes)
            BY <2>17, <2>19, <2>26, <3>1, <4>2 DEF gone
          <5> QED BY <3>3, <5>1
        <4> QED BY <4>1, <4>2
      <3>6. kind = d.node[n].kind /\ title = IF n \in DOMAIN w.title THEN w.title[n] ELSE d.node[n].title
        BY <2>19, <2>26, <3>1, <3>3
      <3> QED BY <3>2, <3>4, <3>5, <3>6
    <2>28. DOMAIN d.node = DOMAIN c0.node BY <2>10, <2>11, <2>20, <2>21
    <2>29. NodeInverts(w, d, c0, K, r) BY <2>19, <2>21, <2>27, <2>28 DEF NodeInverts
    \* The links.
    <2>30. ASSUME NEW l \in DOMAIN c.link
           PROVE  /\ d.link[l].item = c.link[l].item
                  /\ d.link[l].node = IF l \in moved THEN target ELSE c.link[l].node
                  /\ d.link[l].by = IF l \in left THEN r ELSE c.link[l].by
      <3>1. PICK x : x = c.link[l] OBVIOUS
      <3>2. x = [node |-> x.node, item |-> x.item, by |-> x.by] BY <2>3, <2>30, <3>1
      <3>3. CASE l \in left
        <4>1. d.link[l] = [x EXCEPT !.by = r] /\ l \notin moved BY <2>6, <2>9, <2>20, <2>30, <3>1, <3>3
        <4> QED BY <3>1, <3>2, <3>3, <4>1, LinkFields
      <3>4. CASE l \in moved
        <4>1. d.link[l] = [x EXCEPT !.node = target] /\ l \notin left BY <2>6, <2>9, <2>20, <2>30, <3>1, <3>4
        <4> QED BY <3>1, <3>2, <3>4, <4>1, LinkFields
      <3>5. CASE l \notin left /\ l \notin moved
        <4>1. d.link[l] = x BY <2>9, <2>20, <2>30, <3>1, <3>5
        <4> QED BY <3>1, <3>5, <4>1
      <3> QED BY <3>3, <3>4, <3>5
    <2>31. \A l \in links : l \notin DOMAIN o.moved BY <2>5, <2>24
    <2>32. ASSUME NEW l \in DOMAIN c0.link
           PROVE  /\ c0.link[l].item = d.link[l].item
                  /\ c0.link[l].node = IF l \in DOMAIN w.moved /\ w.moved[l].at \in {0, d.link[l].node}
                                       THEN w.moved[l].from ELSE d.link[l].node
                  /\ c0.link[l].by = IF l \in w.links /\ d.link[l].by = r THEN 0 ELSE d.link[l].by
      <3>1. l \in DOMAIN c.link BY <2>21, <2>32
      <3>2. PICK node, item, by : node = c0.link[l].node /\ item = c0.link[l].item /\ by = c0.link[l].by OBVIOUS
      <3>3. /\ item = c.link[l].item
            /\ node = IF l \in DOMAIN o.moved /\ o.moved[l].at \in {0, c.link[l].node}
                      THEN o.moved[l].from ELSE c.link[l].node
            /\ by = IF l \in o.links /\ c.link[l].by = r THEN 0 ELSE c.link[l].by
        BY <2>21, <2>22, <2>25, <2>32, <3>2 DEF LinkInverts
      <3>4. node = IF l \in DOMAIN w.moved /\ w.moved[l].at \in {0, d.link[l].node}
                   THEN w.moved[l].from ELSE d.link[l].node
        <4>1. CASE l \in moved
          <5>1. l \in DOMAIN w.moved /\ w.moved[l].at = 0 /\ w.moved[l].from = other
            BY <2>12, <2>14, <2>19, <4>1
          <5>2. node = other BY <2>5, <2>6, <2>31, <3>3, <4>1
          <5> QED BY <5>1, <5>2
        <4>2. CASE l \notin moved
          <5>1. d.link[l].node = c.link[l].node BY <2>30, <3>1, <4>2
          <5>2. l \in DOMAIN w.moved <=> l \in DOMAIN o.moved BY <2>14, <2>17, <2>19, <4>2
          <5>3. l \in DOMAIN o.moved => w.moved[l] = o.moved[l] BY <2>14, <2>17, <2>19, <4>2
          <5> QED BY <3>3, <5>1, <5>2, <5>3
        <4> QED BY <4>1, <4>2
      <3>5. by = IF l \in w.links /\ d.link[l].by = r THEN 0 ELSE d.link[l].by
        <4>1. CASE l \in left
          <5>1. l \in w.links /\ d.link[l].by = r BY <2>19, <2>30, <3>1, <4>1 DEF marks
          <5>2. by = 0 BY <2>5, <2>6, <3>3, <4>1
          <5> QED BY <5>1, <5>2
        <4>2. CASE l \notin left
          <5>1. d.link[l].by = c.link[l].by /\ (l \in w.links <=> l \in o.links)
            BY <2>17, <2>19, <2>30, <3>1, <4>2 DEF marks
          <5> QED BY <3>3, <5>1
        <4> QED BY <4>1, <4>2
      <3> QED BY <2>30, <3>1, <3>2, <3>3, <3>4, <3>5
    <2>33. DOMAIN d.link = DOMAIN c0.link BY <2>8, <2>20, <2>21
    <2>34. DOMAIN w.moved \cup w.links \subseteq DOMAIN d.link
      <3>1. DOMAIN o.moved \cup o.links \subseteq DOMAIN c.link BY <2>22 DEF LinkInverts
      <3> QED BY <2>5, <2>6, <2>8, <2>14, <2>17, <2>19, <2>20, <3>1 DEF marks
    <2>35. LinkInverts(w, d, c0, K, L, r)
      BY <2>19, <2>21, <2>25, <2>32, <2>33, <2>34 DEF LinkInverts
    <2>36. c0.sup = [x \in DOMAIN d.sup \ w.sup |-> d.sup[x]] BY <2>19, <2>20, <2>21
    <2>37. Inverts(w, d, c0, K, L, r) BY <2>29, <2>35, <2>36 DEF Inverts
    <2>38. ASSUME NEW n \in DOMAIN w.parent
           PROVE  \/ d.node[n].parent = target
                  \/ n = target /\ d.node[n].parent = IF to = 0 THEN w.parent[n] ELSE to
      <3>1. CASE n \in kids
        <4>1. n \in DOMAIN c.node BY <2>7, <3>1
        <4> QED BY <2>26, <3>1, <4>1
      <3>2. CASE n \notin kids
        <4>1. n \in DOMAIN o.parent /\ w.parent[n] = o.parent[n] BY <2>15, <2>17, <2>19, <2>38, <3>2
        <4>2. n \in DOMAIN c.node => d.node[n].parent = c.node[n].parent BY <2>26, <3>2
        <4>3. n \in DOMAIN c.node BY <2>41, <4>1
        <4> QED BY <2>23, <4>1, <4>2, <4>3
      <3> QED BY <3>1, <3>2
    <2>39. ASSUME NEW l \in DOMAIN w.moved PROVE d.link[l].node = target /\ w.moved[l].at = 0
      <3>1. l \in DOMAIN c.link BY <2>8, <2>20, <2>34
      <3>2. CASE l \in moved BY <2>12, <2>14, <2>19, <2>30, <3>1, <3>2
      <3>3. CASE l \notin moved
        <4>1. l \in DOMAIN o.moved /\ w.moved[l] = o.moved[l] BY <2>14, <2>17, <2>19, <2>39, <3>3
        <4> QED BY <2>24, <2>30, <3>1, <3>3, <4>1
      <3> QED BY <3>2, <3>3
    <2>42. DOMAIN w.parent \subseteq DOMAIN d.node BY <2>7, <2>15, <2>17, <2>19, <2>21, <2>28, <2>41
    <2> HIDE DEF res
    <2>40. MergedBack(res, c0, target, to, K, L, r)
      BY <2>18, <2>19, <2>20, <2>21, <2>28, <2>33, <2>37, <2>38, <2>39, <2>42 DEF MergedBack
    <2> QED BY <2>40 DEF res
  <1> QED BY <1>1, <1>2

\* The target gets its title and its place.
LEMMA MergeStartInverts ==
    ASSUME NEW K \in Nat, NEW L \in Nat, NEW R \in Nat, NEW r \in 0..R,
           NEW c, RowsOK(c, K, L, K, R), c.sup = [x \in DOMAIN c.sup |-> c.sup[x]],
           NEW p, Head(p.ids) \in DOMAIN c.node
    PROVE  MergedBack(MergeStart(c, p), c, Head(p.ids), p.to, K, L, r)
  <1> DEFINE target == Head(p.ids)
             old == c.node[target]
             title == IF p.title = "" THEN old.title ELSE p.title
             parent == IF p.to = 0 THEN old.parent ELSE p.to
             named == [old EXCEPT !.title = title, !.parent = parent]
             wasT == [n \in {target} |-> old.title]
             wasP == [n \in {target} |-> old.parent]
             start == MergeStart(c, p)
             N == [c.node EXCEPT ![target] = named]
             m == [NoImage EXCEPT !.title = wasT, !.parent = wasP]
  <1>1. /\ c = [node |-> c.node, link |-> c.link, sup |-> c.sup]
        /\ Table(c) /\ Bounded(c, K, L)
    BY RowsAreTable DEF Table
  <1>2. start.c = [c EXCEPT !.node[target] = named] /\ start.image = m BY DEF MergeStart, Result
  <1>3. [c EXCEPT !.node[target] = named] = [c EXCEPT !.node = N]
    <2> HIDE DEF named, target
    <2> QED OBVIOUS
  <1>4. DOMAIN N = DOMAIN c.node /\ \A n \in DOMAIN c.node : N[n] = IF n = target THEN named ELSE c.node[n]
    <2> HIDE DEF named, target
    <2> QED OBVIOUS
  <1>5. /\ named.parent = parent /\ named.title = title /\ named.kind = old.kind /\ named.by = old.by
    <2>1. old = [parent |-> old.parent, title |-> old.title, kind |-> old.kind, by |-> old.by]
      BY <1>1 DEF Table
    <2> HIDE DEF title, parent, old, N, m, start, wasT, wasP
    <2> DEFINE mid == [old EXCEPT !.title = title]
    <2>2. named = [mid EXCEPT !.parent = parent] OBVIOUS
    <2>3. PICK x : x = mid OBVIOUS
    <2>4. /\ x.parent = old.parent /\ x.title = title /\ x.kind = old.kind /\ x.by = old.by
          /\ x = [parent |-> x.parent, title |-> x.title, kind |-> x.kind, by |-> x.by]
      BY <2>1, <2>3, NodeFields
    <2>5. PICK y : y = named /\ y = [x EXCEPT !.parent = parent] BY <2>2, <2>3
    <2>6. y.parent = parent /\ y.title = x.title /\ y.kind = x.kind /\ y.by = x.by
      BY <2>4, <2>5, NodeFields
    <2> QED BY <2>4, <2>5, <2>6
  <1>6. /\ DOMAIN wasT = {target} /\ wasT[target] = old.title
        /\ DOMAIN wasP = {target} /\ wasP[target] = old.parent
    <2> HIDE DEF target, old
    <2> QED OBVIOUS
  <1>7. DOMAIN << >> = {} OBVIOUS
  <1> HIDE DEF wasT, wasP
  <1>9. m = Filled({}, {}, {}, << >>, wasP, wasT, << >>, {}, {}, {}) BY Images
  <1> HIDE DEF N, m, named, start
  <1>10. PICK w : w = start.image /\ w = m BY <1>2
  <1>11. /\ w.made = {} /\ w.cites = {} /\ w.drop = {} /\ w.remark = << >> /\ w.parent = wasP
         /\ w.title = wasT /\ w.moved = << >> /\ w.nodes = {} /\ w.links = {} /\ w.sup = {}
    BY <1>9, <1>10, FilledFields
  <1>12. start.c = [node |-> N, link |-> c.link, sup |-> c.sup] BY <1>1, <1>2, <1>3, CatChanged
  <1>13. PICK d : d = start.c /\ d.node = N /\ d.link = c.link /\ d.sup = c.sup BY <1>12
  <1>14. target \in DOMAIN c.node OBVIOUS
  <1> HIDE DEF target
  <1>15. ASSUME NEW n \in DOMAIN c.node
         PROVE  /\ c.node[n].kind = d.node[n].kind /\ c.node[n].by = d.node[n].by
                /\ c.node[n].parent = IF n \in DOMAIN w.parent THEN w.parent[n] ELSE d.node[n].parent
                /\ c.node[n].title = IF n \in DOMAIN w.title THEN w.title[n] ELSE d.node[n].title
    <2>1. CASE n = target
      <3>1. d.node[n] = named BY <1>4, <1>13, <1>15, <2>1
      <3>2. w.parent[n] = old.parent /\ w.title[n] = old.title /\ n \in DOMAIN w.parent /\ n \in DOMAIN w.title
        BY <1>6, <1>11, <2>1
      <3>3. named.kind = c.node[n].kind /\ named.by = c.node[n].by BY <1>5, <2>1
      <3> QED BY <2>1, <3>1, <3>2, <3>3
    <2>2. CASE n # target
      <3>1. d.node[n] = c.node[n] BY <1>4, <1>13, <1>15, <2>2
      <3>2. n \notin DOMAIN w.parent /\ n \notin DOMAIN w.title BY <1>6, <1>11, <2>2
      <3> QED BY <3>1, <3>2
    <2> QED BY <2>1, <2>2
  <1>16. NodeInverts(w, d, c, K, r)
    <2>1. DOMAIN d.node = DOMAIN c.node BY <1>4, <1>13
    <2> QED BY <1>11, <1>15, <2>1 DEF NodeInverts
  <1>17. LinkInverts(w, d, c, K, L, r) BY <1>11, <1>13, LinksKept
  <1>18. c.sup = [x \in DOMAIN d.sup \ w.sup |-> d.sup[x]] BY <1>11, <1>13
  <1>19. Inverts(w, d, c, K, L, r) BY <1>16, <1>17, <1>18 DEF Inverts
  <1>20. ASSUME NEW n \in DOMAIN w.parent
         PROVE  n = target /\ d.node[n].parent = IF p.to = 0 THEN w.parent[n] ELSE p.to
    <2>1. n = target /\ w.parent[n] = old.parent BY <1>6, <1>11, <1>20
    <2>2. d.node[n] = named BY <1>4, <1>13, <1>14, <2>1
    <2>3. named.parent = IF p.to = 0 THEN old.parent ELSE p.to BY <1>5
    <2> QED BY <2>1, <2>2, <2>3
  <1>21. DOMAIN w.parent \subseteq DOMAIN d.node BY <1>4, <1>6, <1>11, <1>13, <1>14
  <1>22. DOMAIN d.node = DOMAIN c.node /\ DOMAIN d.link = DOMAIN c.link BY <1>4, <1>13
  <1>23. MergedBack(start, c, target, p.to, K, L, r)
    BY <1>7, <1>10, <1>11, <1>13, <1>19, <1>20, <1>21, <1>22 DEF MergedBack
  <1> QED BY <1>23 DEF target, start

\* Classes are absorbed, none of them the target or above where it goes.
LEMMA MergeInverts ==
    ASSUME NEW K \in Nat, NEW L \in Nat, NEW R \in Nat, NEW r \in 0..R, r # 0,
           NEW c, RowsOK(c, K, L, K, R), c.sup = [x \in DOMAIN c.sup |-> c.sup[x]],
           NEW p, p.op = "merge", IsSeq(p.ids), p.ids # << >>, Head(p.ids) \in DOMAIN c.node, ~Tangled(p),
           NEW res, res = Merge(c, p, r)
    PROVE  Inverts(res.image, res.c, c, K, L, r) /\ res.c.sup = c.sup
  <1> DEFINE target == Head(p.ids)
             n == Len(p.ids)
  <1>1. n \in Nat /\ 1 <= n BY MergeSteps
  <1>2. PICK f : Merging(f, c, p, r, n) /\ Merge(c, p, r) = f[n] BY MergeSteps
  <1>3. \A k \in 1..n : f[k] = IF k = 1 THEN MergeStart(c, p) ELSE Absorb(f[k - 1], target, p.ids[k], r)
    BY <1>2 DEF Merging
  <1>4. \A k \in 1..n : MergedOK(f[k], target, L, K, R) BY <1>2, MergingFacts
  <1>5. ASSUME NEW k \in 1..n, k # 1 PROVE p.ids[k] # target /\ p.ids[k] # p.to
    <2>1. p.ids \in Seq(Range(p.ids)) BY DEF IsSeq
    <2>8. target = p.ids[1] BY <2>1
    <2>9. PICK q : q = p.ids OBVIOUS
    <2>10. q \in Seq(Range(q)) /\ q # << >> BY <2>1, <2>9
    <2>2. Tail(p.ids) \in Seq(Range(p.ids)) /\ Len(Tail(p.ids)) = n - 1
          /\ \A j \in 1..(n - 1) : Tail(p.ids)[j] = p.ids[j + 1]
      <3>1. /\ Tail(q) \in Seq(Range(q)) /\ Len(Tail(q)) = Len(q) - 1
            /\ \A j \in 1..Len(Tail(q)) : Tail(q)[j] = q[j + 1]
        BY <2>10, HeadTailProperties
      <3> QED BY <2>9, <3>1
    <2>3. k - 1 \in 1..(n - 1) /\ (k - 1) + 1 = k BY <1>1, <1>5
    <2>4. DOMAIN Tail(p.ids) = 1..(n - 1) BY <2>2, LenProperties
    <2>5. p.ids[k] = Tail(p.ids)[k - 1] BY <2>2, <2>3
    <2>6. p.ids[k] \in Range(Tail(p.ids)) BY <2>3, <2>4, <2>5 DEF Range
    <2>7. Range(Tail(p.ids)) \cap {p.ids[1], p.to} = {} BY DEF Tangled
    <2> QED BY <2>6, <2>7, <2>8
  <1> DEFINE G == {k \in 1..n : MergedBack(f[k], c, target, p.to, K, L, r)}
  <1>6. 1 \in G
    <2>1. 1 \in 1..n BY <1>1
    <2>2. f[1] = MergeStart(c, p) BY <1>3, <2>1
    <2>3. MergedBack(f[1], c, target, p.to, K, L, r) BY <2>2, MergeStartInverts
    <2> QED BY <2>1, <2>3
  <1> HIDE DEF target
  <1>7. ASSUME NEW k \in 1..n, k < n, k \in G PROVE k + 1 \in G
    <2>1. k + 1 \in 1..n /\ k + 1 # 1 /\ (k + 1) - 1 = k BY <1>1, <1>7
    <2>2. f[k + 1] = Absorb(f[k], target, p.ids[k + 1], r) BY <1>3, <2>1
    <2>3. MergedBack(f[k], c, target, p.to, K, L, r) BY <1>7
    <2>4. MergedOK(f[k], target, L, K, R) BY <1>4
    <2>5. p.ids[k + 1] # target /\ p.ids[k + 1] # p.to BY <1>5, <2>1
    <2>6. MergedBack(f[k + 1], c, target, p.to, K, L, r)
      <3>1. PICK s, o, t : s = f[k] /\ o = p.ids[k + 1] /\ t = p.to OBVIOUS
      <3>2. MergedBack(Absorb(s, target, o, r), c, target, t, K, L, r)
        BY <2>3, <2>4, <2>5, <3>1, AbsorbInverts
      <3> QED BY <2>2, <3>1, <3>2
    <2> QED BY <2>1, <2>6
  <1>8. 1..n \subseteq G
    <2> HIDE DEF G
    <2>1. \A k \in 1..n : k < n /\ k \in G => k + 1 \in G BY <1>7
    <2>2. 1 \in Int /\ n \in Int BY <1>1
    <2> QED BY <1>6, <2>1, <2>2, IntervalInduction
  <1>9. MergedBack(f[n], c, target, p.to, K, L, r) BY <1>1, <1>8
  <1> QED BY <1>2, <1>9 DEF MergedBack

-----------------------------------------------------------------------------
(* Supersessions go forward, so every chain of them has an end.            *)

SupOK(S) ==
    /\ S = [s \in DOMAIN S |-> S[s]] /\ IsFiniteSet(DOMAIN S)
    /\ \A s \in DOMAIN S : s \in Nat /\ S[s] \in Nat /\ s < S[s]

LEMMA HeadIsLast ==
    ASSUME NEW S, SupOK(S), NEW s \in Nat
    PROVE  ChainHead(S, s) \in Nat /\ ChainHead(S, s) \notin DOMAIN S
  <1> DEFINE D == DOMAIN S
             n == Cardinality(D)
             After(x) == IF x \in D THEN S[x] ELSE x
             Steps(f, m) == f = [k \in 0..m |-> IF k = 0 THEN s ELSE After(f[k - 1])]
             T == {m \in Nat : \E f : Steps(f, m)}
  <1>1. n \in Nat BY FS_CardinalityType DEF SupOK
  <1>2. \A x \in Nat : After(x) \in Nat /\ (x \in D => x < After(x)) /\ (x \notin D => After(x) = x)
    BY DEF SupOK
  <1> HIDE DEF After
  <1>3. \E f : Steps(f, n)
    <2>1. 0 \in T
      <3> DEFINE g == [k \in 0..0 |-> s]
      <3>1. \A k \in 0..0 : s = IF k = 0 THEN s ELSE After(g[k - 1]) OBVIOUS
      <3>2. g = [k \in 0..0 |-> IF k = 0 THEN s ELSE After(g[k - 1])] BY <3>1
      <3> QED BY <3>2
    <2>2. ASSUME NEW m \in 0..n, m \in T PROVE m + 1 \in T
      <3>1. PICK f : Steps(f, m) BY <2>2
      <3> DEFINE g == [k \in 0..(m + 1) |-> IF k = m + 1 THEN After(f[m]) ELSE f[k]]
      <3>2. m \in Nat /\ m + 1 \in Nat BY <1>1
      <3>3. ASSUME NEW k \in 0..(m + 1) PROVE g[k] = IF k = 0 THEN s ELSE After(g[k - 1])
        <4>1. CASE k = m + 1
          <5>1. k # 0 /\ k - 1 = m /\ m \in 0..(m + 1) /\ m # m + 1 BY <3>2, <4>1
          <5>2. g[k - 1] = f[m] BY <5>1
          <5> QED BY <4>1, <5>1, <5>2
        <4>2. CASE k # m + 1
          <5>1. k \in 0..m BY <3>2, <4>2
          <5>2. g[k] = f[k] BY <4>2
          <5>3. f[k] = IF k = 0 THEN s ELSE After(f[k - 1]) BY <3>1, <5>1
          <5>4. k # 0 => k - 1 \in 0..(m + 1) /\ k - 1 # m + 1 BY <3>2, <5>1
          <5>5. k # 0 => g[k - 1] = f[k - 1] BY <5>4
          <5> QED BY <5>2, <5>3, <5>5
        <4> QED BY <4>1, <4>2
      <3>4. Steps(g, m + 1)
        <4>1. g = [k \in 0..(m + 1) |-> g[k]] OBVIOUS
        <4> HIDE DEF g
        <4> QED BY <3>3, <4>1
      <3> HIDE DEF g, Steps
      <3> QED BY <3>2, <3>4
    <2>3. 0..n \subseteq T
      <3> HIDE DEF T
      <3>1. 0 \in Int /\ n \in Int BY <1>1
      <3>2. \A m \in 0..n : m < n /\ m \in T => m + 1 \in T BY <2>2
      <3> QED BY <2>1, <3>1, <3>2, IntervalInduction
    <2>4. n \in 0..n BY <1>1
    <2> QED BY <2>3, <2>4
  <1>4. PICK f : Steps(f, n) /\ ChainHead(S, s) = f[n]
    BY <1>3 DEF ChainHead, After
  <1> DEFINE low(x) == {d \in D : d < x}
             G == {k \in 0..n : f[k] \in Nat /\ (f[k] \in D => Cardinality(low(f[k])) >= k)}
  <1>5. \A x : low(x) \in SUBSET D /\ IsFiniteSet(low(x)) /\ Cardinality(low(x)) \in Nat
    <2> TAKE x
    <2>1. low(x) \in SUBSET D OBVIOUS
    <2>2. IsFiniteSet(D) BY DEF SupOK
    <2> HIDE DEF low, D
    <2>3. IsFiniteSet(low(x)) BY <2>1, <2>2, FS_Subset
    <2> QED BY <2>1, <2>3, FS_CardinalityType
  <1>6. 0 \in G
    <2>1. 0 \in 0..n BY <1>1
    <2>2. f[0] = s BY <1>4, <2>1
    <2>3. Cardinality(low(f[0])) >= 0
      <3> HIDE DEF low
      <3> QED BY <1>5
    <2> QED BY <2>1, <2>2, <2>3
  <1>7. ASSUME NEW k \in 0..n, k < n, k \in G PROVE k + 1 \in G
    <2>1. k + 1 \in 0..n /\ k + 1 # 0 /\ (k + 1) - 1 = k BY <1>1, <1>7
    <2>2. f[k + 1] = After(f[k]) BY <1>4, <2>1
    <2>3. PICK x, y : x = f[k] /\ y = f[k + 1] OBVIOUS
    <2>4. x \in Nat /\ (x \in D => Cardinality(low(x)) >= k) BY <1>7, <2>3
    <2>5. y \in Nat /\ (x \in D => x < y) /\ (x \notin D => y = x) BY <1>2, <2>2, <2>3, <2>4
    <2>6. ASSUME y \in D PROVE Cardinality(low(y)) >= k + 1
      <3>1. x \in D BY <2>5, <2>6
      <3>2. x < y BY <2>5, <3>1
      <3>3. \A d \in D : d \in Nat BY DEF SupOK
      <3>4. x \notin low(x) BY <2>4
      <3>5. low(x) \cup {x} \in SUBSET low(y)
        <4>1. \A d \in D : d < x => d < y BY <2>4, <2>5, <3>2, <3>3
        <4> QED BY <3>1, <3>2, <4>1
      <3> HIDE DEF low, D
      <3>6. Cardinality(low(x) \cup {x}) = Cardinality(low(x)) + 1 BY <1>5, <3>4, FS_AddElement
      <3>7. Cardinality(low(x) \cup {x}) <= Cardinality(low(y)) BY <1>5, <3>5, FS_Subset
      <3>8. Cardinality(low(x)) \in Nat /\ Cardinality(low(y)) \in Nat /\ k \in Nat BY <1>1, <1>5
      <3>9. Cardinality(low(x)) >= k BY <2>4, <3>1
      <3> QED BY <3>6, <3>7, <3>8, <3>9
    <2> QED BY <2>1, <2>3, <2>5, <2>6
  <1>8. 0..n \subseteq G
    <2> HIDE DEF G
    <2>1. \A k \in 0..n : k < n /\ k \in G => k + 1 \in G BY <1>7
    <2>2. 0 \in Int /\ n \in Int BY <1>1
    <2> QED BY <1>6, <2>1, <2>2, IntervalInduction
  <1>9. PICK x : x = f[n] OBVIOUS
  <1>10. x \in Nat /\ (x \in D => Cardinality(low(x)) >= n) BY <1>1, <1>8, <1>9
  <1>11. ASSUME x \in D PROVE FALSE
    <2>1. low(x) \in SUBSET (D \ {x}) BY <1>10
    <2>2. IsFiniteSet(D) BY DEF SupOK
    <2>3. IsFiniteSet(D \ {x}) /\ Cardinality(D \ {x}) = n - 1
      <3> HIDE DEF D
      <3> QED BY <1>11, <2>2, FS_RemoveElement
    <2> HIDE DEF low, D, n
    <2>4. Cardinality(low(x)) <= n - 1 BY <2>1, <2>3, FS_Subset
    <2>5. Cardinality(low(x)) \in Nat BY <1>5
    <2> QED BY <1>1, <1>10, <1>11, <2>4, <2>5
  <1> QED BY <1>4, <1>9, <1>10, <1>11

LEMMA SupersedeKeeps ==
    ASSUME NEW c, SupOK(c.sup), NEW p, WellFormed(p), p.op = "supersede", Supersedable(c, p)
    PROVE  /\ ChainHead(c.sup, p.old) \notin DOMAIN c.sup
           /\ SupOK(Put(c.sup, ChainHead(c.sup, p.old), p.new))
  <1>1. p.old \in Nat /\ p.new \in Nat BY DEF WellFormed
  <1>2. PICK h : h = ChainHead(c.sup, p.old) OBVIOUS
  <1>3. h \in Nat /\ h \notin DOMAIN c.sup BY <1>1, <1>2, HeadIsLast
  <1>4. h < p.new BY <1>2 DEF Supersedable
  <1>5. PICK new, t : new = p.new /\ t = c.sup OBVIOUS
  <1> DEFINE S == Put(t, h, new)
  <1>6. /\ DOMAIN S = DOMAIN t \cup {h} /\ S[h] = new
        /\ \A k \in DOMAIN t : k # h => S[k] = t[k]
        /\ S = [s \in DOMAIN S |-> S[s]]
    BY DEF Put
  <1> HIDE DEF S
  <1>7. IsFiniteSet(DOMAIN S)
    <2>1. IsFiniteSet(DOMAIN t) BY <1>5 DEF SupOK
    <2> QED BY <1>6, <2>1, FS_AddElement
  <1>8. \A s \in DOMAIN S : s \in Nat /\ S[s] \in Nat /\ s < S[s]
    BY <1>1, <1>3, <1>4, <1>5, <1>6 DEF SupOK
  <1>9. SupOK(S) BY <1>6, <1>7, <1>8 DEF SupOK
  <1> QED BY <1>2, <1>3, <1>5, <1>9 DEF S

LEMMA SupLess ==
    ASSUME NEW S, SupOK(S), NEW X, NEW T, T = [s \in DOMAIN S \ X |-> S[s]]
    PROVE  SupOK(T)
  <1>1. DOMAIN T = DOMAIN S \ X /\ \A s \in DOMAIN S \ X : T[s] = S[s] OBVIOUS
  <1>2. T = [s \in DOMAIN T |-> T[s]] OBVIOUS
  <1>3. IsFiniteSet(DOMAIN S) BY DEF SupOK
  <1>4. DOMAIN T \in SUBSET DOMAIN S BY <1>1
  <1>5. IsFiniteSet(DOMAIN T) BY <1>3, <1>4, FS_Subset
  <1>6. \A s \in DOMAIN T : s \in Nat /\ T[s] \in Nat /\ s < T[s] BY <1>1 DEF SupOK
  <1> QED BY <1>2, <1>5, <1>6 DEF SupOK

-----------------------------------------------------------------------------
(* What the journal holds of the past.  The runs that wrote and were not   *)
(* reverted are those that undo remembers, in order; reverting the newest  *)
(* of them leads back to the rows it began with, from there the one before *)
(* leads back to where that began, and so on down to the horizon.          *)

Reverts(rs) == {r \in DOMAIN rs : rs[r].mode = "revert"}

\* Undo remembers the runs that have something applied; none is a revert.
Known(rs, u) ==
    /\ \A k \in DOMAIN u : k \in DOMAIN rs /\ rs[k].mode # "revert"
    /\ \A r \in DOMAIN rs : r \in DOMAIN u <=> \E i \in DOMAIN rs[r].ops : rs[r].ops[i].outcome = "applied"

\* The nodes of c are live, or marked by one of the runs S.
MarkedBy(c, S) == \A n \in DOMAIN c.node : c.node[n].by \in {0} \cup S

\* What a run that is remembered began with.
Begun(k, K, L, rs, u) ==
    LET b == u[k]
    IN  /\ b.new.node \in Nat /\ b.new.node <= K /\ b.new.link \in Nat /\ b.new.link <= L
        /\ Table(b.cat) /\ Bounded(b.cat, b.new.node, b.new.link) /\ SupOK(b.cat.sup)
        /\ MarkedBy(b.cat, Reverts(rs) \cup {j \in DOMAIN u : j < k})
        /\ \A j \in DOMAIN u : j > k => b.new.node <= u[j].new.node /\ b.new.link <= u[j].new.link

\* Reverting run k leads from what stands for c back to where k began.
LeadsBack(k, c, K, L, rs, u, h, refiled) ==
    Restores(rs[k].ops, k, c, K, L, u[k].cat, u[k].new.node, u[k].new.link, h, Reverts(rs), refiled)

\* j is the run after k.
After(u, k, j) == j \in DOMAIN u /\ j > k /\ \A i \in DOMAIN u : i > k => i >= j
Newest(u, k) == \A i \in DOMAIN u : ~(i > k)

PastOK(c, K, L, rs, u, h, refiled) ==
    /\ Table(c) /\ Bounded(c, K, L) /\ SupOK(c.sup)
    /\ MarkedBy(c, Reverts(rs) \cup DOMAIN u)
    /\ \A k \in DOMAIN u : Begun(k, K, L, rs, u)
    /\ \A k \in DOMAIN u : (k > h /\ Newest(u, k)) => LeadsBack(k, c, K, L, rs, u, h, refiled)
    /\ \A k, j \in DOMAIN u : (k > h /\ After(u, k, j)) =>
         LeadsBack(k, u[j].cat, u[j].new.node, u[j].new.link, rs, u, h, refiled)

\* The journal rs of other runs, and of what they were refused.
SameWrites(rs, rs2, u, h) ==
    /\ Reverts(rs) \subseteq Reverts(rs2)
    /\ \A k \in DOMAIN u : k > h =>
         \/ rs2[k].ops = rs[k].ops
         \/ IsSeq(rs[k].ops) /\ \E op : op.outcome # "applied" /\ rs2[k].ops = Append(rs[k].ops, op)

\* Run r writes row, and u2 remembers that it began with b, or before.
Writes(rs, rs2, u, u2, r, row, b) ==
    /\ r \in DOMAIN rs /\ r \in Nat /\ rs[r].mode # "revert" /\ IsSeq(rs[r].ops)
    /\ row.outcome = "applied" /\ DOMAIN rs2 = DOMAIN rs /\ rs2[r].ops = Append(rs[r].ops, row)
    /\ \A k \in DOMAIN rs : rs2[k].mode = rs[k].mode /\ (k # r => rs2[k].ops = rs[k].ops)
    /\ Known(rs, u) /\ \A k \in DOMAIN u : k \in Nat
    /\ (r \in DOMAIN u => u2 = u) /\ (r \notin DOMAIN u => u2 = Put(u, r, b))

\* More may be swept, more reverts made, more links refiled.
LEMMA RestoresWeaker ==
    ASSUME NEW ops, NEW r, NEW c1, NEW K1, NEW L1, NEW c0, NEW K0, NEW L0,
           NEW h0 \in Nat, NEW h2 \in Nat, h0 <= h2, NEW S0, NEW S2, S0 \subseteq S2,
           NEW refiled \in BOOLEAN, NEW refiled2 \in BOOLEAN, refiled => refiled2,
           Restores(ops, r, c1, K1, L1, c0, K0, L0, h0, S0, refiled)
    PROVE  Restores(ops, r, c1, K1, L1, c0, K0, L0, h2, S2, refiled2)
  <1> SUFFICES ASSUME NEW u, NEW by, NEW h, NEW S, NEW loose,
                      h \in Nat, h2 <= h, h < r, S2 \subseteq S, by \in S, 0 \notin S, r \notin S,
                      loose \in BOOLEAN, refiled2 => loose,
                      Table(u), Stands(u, c1, K1, L1, h, r, S, loose)
               PROVE  \E f : /\ Walk(f, u, ops, r, by) /\ f[Len(ops)].ok /\ Table(f[Len(ops)].c)
                             /\ Stands(f[Len(ops)].c, c0, K0, L0, h, r, S, loose)
    BY DEF Restores
  <1>1. h0 <= h /\ S0 \subseteq S /\ (refiled => loose) OBVIOUS
  <1> QED BY <1>1 DEF Restores

\* Some run leads back as before when the journal has the same writes of it.
LEMMA StillLeads ==
    ASSUME NEW k, NEW c, NEW K, NEW L, NEW rs, NEW rs2, NEW u,
           NEW h \in Nat, NEW h2 \in Nat, h <= h2, k > h2, k \in DOMAIN u,
           NEW refiled \in BOOLEAN, NEW refiled2 \in BOOLEAN, refiled => refiled2,
           SameWrites(rs, rs2, u, h2),
           LeadsBack(k, c, K, L, rs, u, h, refiled)
    PROVE  LeadsBack(k, c, K, L, rs2, u, h2, refiled2)
  <1>1. PICK ops, ops2, S, S2, c0, K0, L0 :
           ops = rs[k].ops /\ ops2 = rs2[k].ops /\ S = Reverts(rs) /\ S2 = Reverts(rs2)
           /\ c0 = u[k].cat /\ K0 = u[k].new.node /\ L0 = u[k].new.link
    OBVIOUS
  <1>2. Restores(ops, k, c, K, L, c0, K0, L0, h, S, refiled) BY <1>1 DEF LeadsBack
  <1>3. S \subseteq S2 BY <1>1 DEF SameWrites
  <1>4. Restores(ops, k, c, K, L, c0, K0, L0, h2, S2, refiled2) BY <1>2, <1>3, RestoresWeaker
  <1>5. \/ ops2 = ops
        \/ IsSeq(ops) /\ \E op : op.outcome # "applied" /\ ops2 = Append(ops, op)
    <2>1. \/ rs2[k].ops = rs[k].ops
          \/ IsSeq(rs[k].ops) /\ \E op : op.outcome # "applied" /\ rs2[k].ops = Append(rs[k].ops, op)
      BY DEF SameWrites
    <2> QED BY ONLY <1>1, <2>1
  <1>6. Restores(ops2, k, c, K, L, c0, K0, L0, h2, S2, refiled2)
    <2>1. CASE ops2 = ops BY <1>4, <2>1
    <2>2. ASSUME IsSeq(ops), NEW op, op.outcome # "applied", ops2 = Append(ops, op)
          PROVE  Restores(ops2, k, c, K, L, c0, K0, L0, h2, S2, refiled2)
      BY <1>4, <2>2, RestoresSkipped
    <2> QED BY <1>5, <2>1, <2>2
  <1> QED BY <1>1, <1>6 DEF LeadsBack

\* Rows that stand for those there were.
LEMMA PastFrom ==
    ASSUME NEW c, NEW K \in Nat, NEW L \in Nat, NEW c2, NEW K2 \in Nat, NEW L2 \in Nat, K <= K2, L <= L2,
           NEW rs, NEW rs2, NEW u, NEW h \in Nat, NEW h2 \in Nat, h <= h2,
           NEW refiled \in BOOLEAN, NEW refiled2 \in BOOLEAN, refiled => refiled2,
           \A k \in DOMAIN u : k \in Nat,
           SameWrites(rs, rs2, u, h2), Table(c2), Bounded(c2, K2, L2), c2.sup = c.sup,
           MarkedBy(c2, Reverts(rs2) \cup DOMAIN u),
           Stands(c2, c, K, L, h2, 0, Reverts(rs2), refiled2),
           PastOK(c, K, L, rs, u, h, refiled)
    PROVE  PastOK(c2, K2, L2, rs2, u, h2, refiled2)
  <1>1. Table(c) /\ Bounded(c, K, L) /\ SupOK(c2.sup) BY DEF PastOK
  <1>2. ASSUME NEW k \in DOMAIN u PROVE Begun(k, K2, L2, rs2, u)
    <2>1. Begun(k, K, L, rs, u) BY DEF PastOK
    <2>2. u[k].new.node <= K2 /\ u[k].new.link <= L2 BY <2>1 DEF Begun
    <2>3. MarkedBy(u[k].cat, Reverts(rs2) \cup {j \in DOMAIN u : j < k})
      BY <2>1 DEF Begun, MarkedBy, SameWrites
    <2> QED BY <2>1, <2>2, <2>3 DEF Begun
  <1>3. ASSUME NEW k \in DOMAIN u, k > h2, Newest(u, k)
        PROVE  LeadsBack(k, c2, K2, L2, rs2, u, h2, refiled2)
    <2>1. k \in Nat /\ k > h BY <1>3
    <2>2. LeadsBack(k, c, K, L, rs, u, h, refiled) BY <1>3, <2>1 DEF PastOK
    <2>3. LeadsBack(k, c, K, L, rs2, u, h2, refiled2) BY <1>3, <2>2, StillLeads
    <2>4. PICK ops, S, c0, K0, L0 :
             ops = rs2[k].ops /\ S = Reverts(rs2) /\ c0 = u[k].cat /\ K0 = u[k].new.node /\ L0 = u[k].new.link
      OBVIOUS
    <2>5. Restores(ops, k, c, K, L, c0, K0, L0, h2, S, refiled2) BY <2>3, <2>4 DEF LeadsBack
    <2>6. Stands(c2, c, K, L, h2, 0, S, refiled2) /\ h2 <= h2 /\ S \subseteq S BY <2>4
    <2>7. Restores(ops, k, c2, K2, L2, c0, K0, L0, h2, S, refiled2)
      BY ONLY <1>1, <2>1, <2>5, <2>6, RestoresFrom, K \in Nat, L \in Nat, K2 \in Nat, L2 \in Nat,
              K <= K2, L <= L2, h2 \in Nat, refiled2 \in BOOLEAN, Table(c2)
    <2> QED BY <2>4, <2>7 DEF LeadsBack
  <1>4. ASSUME NEW k \in DOMAIN u, NEW j \in DOMAIN u, k > h2, After(u, k, j)
        PROVE  LeadsBack(k, u[j].cat, u[j].new.node, u[j].new.link, rs2, u, h2, refiled2)
    <2>1. k > h BY <1>4
    <2>2. LeadsBack(k, u[j].cat, u[j].new.node, u[j].new.link, rs, u, h, refiled)
      BY <1>4, <2>1 DEF PastOK
    <2> QED BY <1>4, <2>2, StillLeads
  <1> QED BY <1>1, <1>2, <1>3, <1>4 DEF PastOK

\* The rows stay as they are.
LEMMA PastKept ==
    ASSUME NEW c, NEW K \in Nat, NEW L \in Nat, NEW K2 \in Nat, NEW L2 \in Nat, K <= K2, L <= L2,
           NEW rs, NEW rs2, NEW u, NEW h \in Nat, NEW refiled \in BOOLEAN,
           \A k \in DOMAIN u : k \in Nat, SameWrites(rs, rs2, u, h), Bounded(c, K2, L2),
           PastOK(c, K, L, rs, u, h, refiled)
    PROVE  PastOK(c, K2, L2, rs2, u, h, refiled)
  <1>1. PICK c2, h2, refiled2 : c2 = c /\ h2 = h /\ refiled2 = refiled OBVIOUS
  <1>2. /\ Table(c2) /\ Bounded(c2, K2, L2) /\ c2.sup = c.sup
        /\ h2 \in Nat /\ h <= h2 /\ refiled2 \in BOOLEAN /\ (refiled => refiled2)
        /\ SameWrites(rs, rs2, u, h2)
    BY <1>1 DEF PastOK
  <1>3. Reverts(rs) \subseteq Reverts(rs2) BY DEF SameWrites
  <1>4. MarkedBy(c2, Reverts(rs2) \cup DOMAIN u) BY <1>1, <1>3 DEF PastOK, MarkedBy
  <1>5. Stands(c2, c, K, L, h2, 0, Reverts(rs2), refiled2) BY <1>1, StandsSame
  <1>6. /\ K \in Nat /\ L \in Nat /\ K2 \in Nat /\ L2 \in Nat /\ K <= K2 /\ L <= L2 /\ h \in Nat
        /\ refiled \in BOOLEAN /\ (\A k \in DOMAIN u : k \in Nat) /\ PastOK(c, K, L, rs, u, h, refiled)
    OBVIOUS
  <1>7. PastOK(c2, K2, L2, rs2, u, h2, refiled2)
    BY ONLY <1>2, <1>4, <1>5, <1>6, PastFrom, SMTT(60)
  <1> QED BY ONLY <1>1, <1>7

\* The marks an operation of r leaves are r's.
LEMMA InvertsMarks ==
    ASSUME NEW m, NEW c2, NEW c, NEW K, NEW r, NodeInverts(m, c2, c, K, r), NEW S, r \in S, MarkedBy(c, S)
    PROVE  MarkedBy(c2, S)
  <1> SUFFICES ASSUME NEW n \in DOMAIN c2.node PROVE c2.node[n].by \in {0} \cup S BY DEF MarkedBy
  <1>1. CASE n \in DOMAIN c.node
    <2>1. c.node[n].by \in {0} \cup S BY <1>1 DEF MarkedBy
    <2>2. c2.node[n].by = r \/ c2.node[n].by = c.node[n].by BY <1>1 DEF NodeInverts
    <2> QED BY <2>1, <2>2
  <1>2. CASE n \notin DOMAIN c.node BY <1>2 DEF NodeInverts
  <1> QED BY <1>1, <1>2

\* What the journal holds of a run when it writes once more, or for the first time.
LEMMA LeadsMore ==
    ASSUME NEW c, NEW K \in Nat, NEW L \in Nat, NEW c2, NEW K2 \in Nat, NEW L2 \in Nat, K <= K2, L <= L2,
           NEW rs, NEW rs2, Reverts(rs2) = Reverts(rs), NEW u, NEW h, NEW refiled, NEW r \in Nat,
           IsSeq(rs[r].ops), NEW op, op.outcome = "applied", rs2[r].ops = Append(rs[r].ops, op),
           Table(c), Bounded(c, K, L), Table(c2), Inverts(op.image, c2, c, K, L, r),
           LeadsBack(r, c, K, L, rs, u, h, refiled)
    PROVE  LeadsBack(r, c2, K2, L2, rs2, u, h, refiled)
  <1>1. PICK ops, S, c0, K0, L0 :
           ops = rs[r].ops /\ S = Reverts(rs) /\ c0 = u[r].cat /\ K0 = u[r].new.node /\ L0 = u[r].new.link
    OBVIOUS
  <1>2. Restores(ops, r, c, K, L, c0, K0, L0, h, S, refiled) BY <1>1 DEF LeadsBack
  <1>3. Restores(Append(ops, op), r, c2, K2, L2, c0, K0, L0, h, S, refiled) BY <1>1, <1>2, RestoresMore
  <1> QED BY <1>1, <1>3 DEF LeadsBack

\* A run is journaled something more: what is applied in it.
LEMMA AppliedMore ==
    ASSUME NEW ops, IsSeq(ops), NEW op
    PROVE  (\E i \in DOMAIN Append(ops, op) : Append(ops, op)[i].outcome = "applied")
             <=> ((\E i \in DOMAIN ops : ops[i].outcome = "applied") \/ op.outcome = "applied")
  <1> DEFINE more == Append(ops, op)
  <1>1. Len(ops) \in Nat /\ DOMAIN ops = 1..Len(ops) BY SeqFacts
  <1>2. /\ DOMAIN more = 1..(Len(ops) + 1)
        /\ \A i \in 1..Len(ops) : more[i] = ops[i]
        /\ more[Len(ops) + 1] = op
        /\ Len(ops) + 1 \in 1..(Len(ops) + 1)
        /\ \A i \in 1..(Len(ops) + 1) : i \in 1..Len(ops) \/ i = Len(ops) + 1
        /\ 1..Len(ops) \subseteq 1..(Len(ops) + 1)
    BY AppendFacts
  <1> HIDE DEF more
  <1>3. (\E i \in DOMAIN more : more[i].outcome = "applied")
          <=> ((\E i \in DOMAIN ops : ops[i].outcome = "applied") \/ op.outcome = "applied")
    BY <1>1, <1>2
  <1> QED BY <1>3 DEF more

\* A run that has a row journaled is known.
LEMMA KnownMore ==
    ASSUME NEW rs, NEW rs2, NEW u, NEW u2, NEW r, NEW row, NEW b, Writes(rs, rs2, u, u2, r, row, b)
    PROVE  Known(rs2, u2) /\ Reverts(rs2) = Reverts(rs) /\ \A k \in DOMAIN u2 : k \in Nat
  <1>1. DOMAIN u2 = DOMAIN u \cup {r}
    <2>1. CASE r \in DOMAIN u BY <2>1 DEF Writes
    <2>2. CASE r \notin DOMAIN u BY <2>2 DEF Put, Writes
    <2> QED BY <2>1, <2>2
  <1>2. \E i \in DOMAIN rs2[r].ops : rs2[r].ops[i].outcome = "applied"
    <2>1. PICK ops, more : ops = rs[r].ops /\ more = Append(ops, row) /\ rs2[r].ops = more BY DEF Writes
    <2>2. (\E i \in DOMAIN Append(ops, row) : Append(ops, row)[i].outcome = "applied")
            <=> ((\E i \in DOMAIN ops : ops[i].outcome = "applied") \/ row.outcome = "applied")
      BY <2>1, AppliedMore DEF Writes
    <2>3. row.outcome = "applied" BY DEF Writes
    <2>4. \E i \in DOMAIN more : more[i].outcome = "applied" BY ONLY <2>1, <2>2, <2>3
    <2> QED BY <2>1, <2>4
  <1>3. \A k \in DOMAIN u2 : k \in DOMAIN rs2 /\ rs2[k].mode # "revert" BY <1>1 DEF Known, Writes
  <1>4. ASSUME NEW k \in DOMAIN rs2
        PROVE  k \in DOMAIN u2 <=> \E i \in DOMAIN rs2[k].ops : rs2[k].ops[i].outcome = "applied"
    <2>1. CASE k = r BY <1>1, <1>2, <2>1
    <2>2. CASE k # r BY <1>1, <2>2 DEF Known, Writes
    <2> QED BY <2>1, <2>2
  <1>5. Reverts(rs2) = Reverts(rs) BY DEF Reverts, Writes
  <1>6. \A k \in DOMAIN u2 : k \in Nat BY <1>1 DEF Writes
  <1> QED BY <1>3, <1>4, <1>5, <1>6 DEF Known

\* A run writes, and none after it did.
LEMMA PastMore ==
    ASSUME NEW c, NEW K \in Nat, NEW L \in Nat, NEW c2, NEW K2 \in Nat, NEW L2 \in Nat, K <= K2, L <= L2,
           NEW rs, NEW rs2, NEW u, NEW u2, NEW h \in Nat, NEW refiled \in BOOLEAN,
           NEW r, NEW op, NEW b0, Writes(rs, rs2, u, u2, r, op, b0),
           b0.cat = c, b0.new.node = K, b0.new.link = L, Newest(u, r),
           Inverts(op.image, c2, c, K, L, r), Table(c2), Bounded(c2, K2, L2), SupOK(c2.sup),
           PastOK(c, K, L, rs, u, h, refiled)
    PROVE  PastOK(c2, K2, L2, rs2, u2, h, refiled)
  <1>n. PICK new : new = b0.new /\ new.node = K /\ new.link = L OBVIOUS
  <1>w. /\ r \in DOMAIN rs /\ r \in Nat /\ IsSeq(rs[r].ops) /\ op.outcome = "applied"
        /\ rs2[r].ops = Append(rs[r].ops, op) /\ Known(rs, u) /\ \A k \in DOMAIN u : k \in Nat
        /\ \A k \in DOMAIN u : k # r => rs2[k].ops = rs[k].ops
    BY DEF Writes, Known
  <1>v. Reverts(rs2) = Reverts(rs) BY KnownMore
  <1>0. Table(c) /\ Bounded(c, K, L) /\ SupOK(c.sup) BY DEF PastOK
  <1>1. /\ DOMAIN u2 = DOMAIN u \cup {r}
        /\ \A k \in DOMAIN u : u2[k] = u[k]
        /\ r \notin DOMAIN u => u2[r].cat = c /\ u2[r].new = new
    <2>1. CASE r \in DOMAIN u BY <2>1 DEF Writes
    <2>2. CASE r \notin DOMAIN u BY <1>n, <2>2 DEF Writes, Put
    <2> QED BY <2>1, <2>2
  <1> USE <1>n, <1>w, <1>v
  <1>2. MarkedBy(c2, Reverts(rs2) \cup DOMAIN u2)
    <2>1. MarkedBy(c, Reverts(rs2) \cup DOMAIN u2) BY <1>1 DEF PastOK, MarkedBy
    <2>2. NodeInverts(op.image, c2, c, K, r) BY DEF Inverts
    <2>3. PICK m, S : m = op.image /\ S = Reverts(rs2) \cup DOMAIN u2 OBVIOUS
    <2>4. r \in S BY <1>1, <2>3
    <2>5. MarkedBy(c2, S) BY <2>1, <2>2, <2>3, <2>4, InvertsMarks
    <2> QED BY <2>3, <2>5
  <1>3. \A k \in DOMAIN u : k <= r BY DEF Newest
  <1>4. ASSUME NEW k \in DOMAIN u2 PROVE Begun(k, K2, L2, rs2, u2)
    <2>1. CASE k \in DOMAIN u
      <3>1. Begun(k, K, L, rs, u) BY <2>1 DEF PastOK
      <3>2. u2[k] = u[k] BY <1>1, <2>1
      <3>3. PICK b : b = u[k] OBVIOUS
      <3>4. /\ b.new.node \in Nat /\ b.new.node <= K /\ b.new.link \in Nat /\ b.new.link <= L
            /\ Table(b.cat) /\ Bounded(b.cat, b.new.node, b.new.link) /\ SupOK(b.cat.sup)
            /\ MarkedBy(b.cat, Reverts(rs) \cup {j \in DOMAIN u : j < k})
            /\ \A j \in DOMAIN u : j > k => b.new.node <= u[j].new.node /\ b.new.link <= u[j].new.link
        BY <3>1, <3>3 DEF Begun
      <3>5. b.new.node <= K2 /\ b.new.link <= L2 BY <3>4
      <3>6. MarkedBy(b.cat, Reverts(rs2) \cup {j \in DOMAIN u2 : j < k}) BY <1>1, <3>4 DEF MarkedBy
      <3>7. \A j \in DOMAIN u2 : j > k => b.new.node <= u2[j].new.node /\ b.new.link <= u2[j].new.link
        BY <1>1, <3>4
      <3> QED BY <3>2, <3>3, <3>4, <3>5, <3>6, <3>7 DEF Begun
    <2>2. CASE k \notin DOMAIN u
      <3>1. k = r /\ u2[k].cat = c /\ u2[k].new = new BY <1>1, <2>2
      <3>2. PICK b : b = u2[k] OBVIOUS
      <3>3. /\ b.new.node \in Nat /\ b.new.node <= K2 /\ b.new.link \in Nat /\ b.new.link <= L2
            /\ Table(b.cat) /\ Bounded(b.cat, b.new.node, b.new.link) /\ SupOK(b.cat.sup)
        BY <1>0, <3>1, <3>2
      <3>4. MarkedBy(c, Reverts(rs2) \cup {j \in DOMAIN u2 : j < k})
        <4>1. \A j \in DOMAIN u : j < k BY <1>3, <2>2, <3>1
        <4> QED BY <1>1, <4>1 DEF PastOK, MarkedBy
      <3>5. \A j \in DOMAIN u2 : ~(j > k) BY <1>1, <1>3, <3>1
      <3> QED BY <3>1, <3>2, <3>3, <3>4, <3>5 DEF Begun
    <2> QED BY <2>1, <2>2
  <1>5. ASSUME NEW k \in DOMAIN u2, k > h, Newest(u2, k)
        PROVE  LeadsBack(k, c2, K2, L2, rs2, u2, h, refiled)
    <2>1. k = r
      <3>1. ~(r > k) BY <1>1, <1>5 DEF Newest
      <3>2. k \in Nat /\ k <= r BY <1>1, <1>3
      <3> QED BY <3>1, <3>2
    <2>2. LeadsBack(r, c, K, L, rs, u2, h, refiled)
      <3>1. CASE r \in DOMAIN u
        <4>1. LeadsBack(r, c, K, L, rs, u, h, refiled) BY <1>5, <2>1, <3>1 DEF PastOK
        <4> QED BY <1>1, <3>1, <4>1 DEF LeadsBack
      <3>2. CASE r \notin DOMAIN u
        <4>1. \A i \in DOMAIN rs[r].ops : rs[r].ops[i].outcome # "applied" BY <3>2 DEF Known
        <4>2. PICK ops, S : ops = rs[r].ops /\ S = Reverts(rs) OBVIOUS
        <4>3. Restores(ops, r, c, K, L, c, K, L, h, S, refiled) BY <4>1, <4>2, RestoresNothing
        <4> QED BY <1>1, <3>2, <4>2, <4>3 DEF LeadsBack
      <3> QED BY <3>1, <3>2
    <2>3. LeadsBack(r, c2, K2, L2, rs2, u2, h, refiled) BY <1>0, <2>2, LeadsMore
    <2> QED BY <2>1, <2>3
  <1>6. ASSUME NEW k \in DOMAIN u2, NEW j \in DOMAIN u2, k > h, After(u2, k, j)
        PROVE  LeadsBack(k, u2[j].cat, u2[j].new.node, u2[j].new.link, rs2, u2, h, refiled)
    <2>1. j > k /\ \A i \in DOMAIN u2 : i > k => i >= j BY <1>6 DEF After
    <2>2. k # r /\ k \in DOMAIN u
      <3>1. j <= r BY <1>1, <1>3
      <3>2. k \in Nat /\ j \in Nat BY <1>1
      <3>3. k # r BY <2>1, <3>1, <3>2
      <3> QED BY <1>1, <3>3
    <2>3. rs2[k].ops = rs[k].ops /\ u2[k] = u[k] BY <1>1, <2>2
    <2>4. CASE j \in DOMAIN u
      <3>1. After(u, k, j) BY <1>1, <2>1, <2>4 DEF After
      <3>2. LeadsBack(k, u[j].cat, u[j].new.node, u[j].new.link, rs, u, h, refiled)
        BY <1>6, <2>2, <2>4, <3>1 DEF PastOK
      <3>3. u2[j] = u[j] BY <1>1, <2>4
      <3> QED BY <2>3, <3>2, <3>3 DEF LeadsBack
    <2>5. CASE j \notin DOMAIN u
      <3>1. j = r /\ u2[j].cat = c /\ u2[j].new = new BY <1>1, <2>5
      <3>2. Newest(u, k)
        <4>1. \A i \in DOMAIN u : i # r BY <2>5, <3>1
        <4>2. \A i \in DOMAIN u : i > k => i >= r BY <1>1, <2>1, <3>1
        <4> QED BY <1>3, <4>1, <4>2 DEF Newest
      <3>3. LeadsBack(k, c, K, L, rs, u, h, refiled) BY <1>6, <2>2, <3>2 DEF PastOK
      <3> QED BY <2>3, <3>1, <3>3 DEF LeadsBack
    <2> QED BY <2>4, <2>5
  <1> QED BY <1>0, <1>2, <1>4, <1>5, <1>6 DEF PastOK

\* The newest run that wrote is reverted.
LEMMA PastBack ==
    ASSUME NEW c, NEW K \in Nat, NEW L \in Nat, NEW c2,
           NEW rs, NEW rs2, NEW u, NEW u2, NEW h \in Nat, NEW refiled \in BOOLEAN,
           NEW r \in DOMAIN u, \A k \in DOMAIN u : k \in Nat, Newest(u, r),
           Reverts(rs) \subseteq Reverts(rs2), \A k \in DOMAIN u : k # r => rs2[k].ops = rs[k].ops,
           u2 = [k \in DOMAIN u \ {r} |-> u[k]],
           Table(c2), Bounded(c2, K, L),
           Stands(c2, u[r].cat, u[r].new.node, u[r].new.link, h, 0, Reverts(rs2), refiled),
           PastOK(c, K, L, rs, u, h, refiled)
    PROVE  PastOK(c2, K, L, rs2, u2, h, refiled)
  <1>1. Begun(r, K, L, rs, u) BY DEF PastOK
  <1>2. PICK b, Kb, Lb, S2 : b = u[r].cat /\ Kb = u[r].new.node /\ Lb = u[r].new.link /\ S2 = Reverts(rs2)
    OBVIOUS
  <1>3. /\ Kb \in Nat /\ Kb <= K /\ Lb \in Nat /\ Lb <= L
        /\ Table(b) /\ Bounded(b, Kb, Lb) /\ SupOK(b.sup)
        /\ MarkedBy(b, Reverts(rs) \cup {j \in DOMAIN u : j < r})
    BY <1>1, <1>2 DEF Begun
  <1>4. Stands(c2, b, Kb, Lb, h, 0, S2, refiled) BY <1>2
  <1>5. DOMAIN u2 = DOMAIN u \ {r} /\ \A k \in DOMAIN u2 : u2[k] = u[k] OBVIOUS
  <1>6. \A k \in DOMAIN u2 : k \in DOMAIN u /\ k < r BY <1>5 DEF Newest
  <1>7. SupOK(c2.sup) BY <1>3, <1>4 DEF Stands
  <1>8. MarkedBy(c2, S2 \cup DOMAIN u2)
    <2> SUFFICES ASSUME NEW n \in DOMAIN c2.node PROVE c2.node[n].by \in {0} \cup S2 \cup DOMAIN u2
      BY DEF MarkedBy
    <2>1. CASE n \in DOMAIN b.node
      <3>1. b.node[n].by \in {0} \cup Reverts(rs) \cup {j \in DOMAIN u : j < r} BY <1>3, <2>1 DEF MarkedBy
      <3>2. b.node[n].by \in {0} \cup S2 \cup DOMAIN u2 BY <1>2, <1>5, <3>1
      <3>3. SameNode(c2, b, n, 0) BY <1>4, <2>1 DEF Stands, NodesStand
      <3>4. c2.node[n].by \in {0, b.node[n].by}
        <4>1. PICK x : x = b.node[n] OBVIOUS
        <4>2. x = [parent |-> x.parent, title |-> x.title, kind |-> x.kind, by |-> x.by]
          BY <1>3, <2>1, <4>1 DEF Table
        <4>3. PICK z : z = [x EXCEPT !.by = 0] OBVIOUS
        <4>4. z.by = 0 BY <4>2, <4>3, NodeFields
        <4> QED BY <3>3, <4>1, <4>3, <4>4 DEF SameNode
      <3> QED BY <3>2, <3>4
    <2>2. CASE n \notin DOMAIN b.node BY <1>4, <2>2 DEF Stands, NodesStand
    <2> QED BY <2>1, <2>2
  <1>9. ASSUME NEW k \in DOMAIN u2 PROVE Begun(k, K, L, rs2, u2)
    <2>1. Begun(k, K, L, rs, u) /\ u2[k] = u[k] BY <1>5, <1>6 DEF PastOK
    <2>2. {j \in DOMAIN u : j < k} \subseteq {j \in DOMAIN u2 : j < k}
      <3>1. k < r /\ k \in Nat /\ r \in Nat BY <1>6
      <3>2. ~(r < k) BY <3>1
      <3> QED BY <1>5, <3>2
    <2>3. MarkedBy(u[k].cat, Reverts(rs2) \cup {j \in DOMAIN u2 : j < k})
      <3>1. MarkedBy(u[k].cat, Reverts(rs) \cup {j \in DOMAIN u : j < k}) BY <2>1 DEF Begun
      <3> QED BY <2>2, <3>1 DEF MarkedBy
    <2>4. \A j \in DOMAIN u2 : j \in DOMAIN u /\ u2[j] = u[j] BY <1>5
    <2> QED BY <2>1, <2>3, <2>4 DEF Begun
  <1>10. ASSUME NEW k \in DOMAIN u2, k > h, Newest(u2, k)
         PROVE  LeadsBack(k, c2, K, L, rs2, u2, h, refiled)
    <2>1. After(u, k, r)
      <3>1. r > k /\ r \in Nat /\ k \in Nat BY <1>6
      <3>2. \A i \in DOMAIN u : i > k => i = r BY <1>5, <1>10 DEF Newest
      <3> QED BY <3>1, <3>2 DEF After
    <2>2. LeadsBack(k, u[r].cat, u[r].new.node, u[r].new.link, rs, u, h, refiled)
      BY <1>6, <1>10, <2>1 DEF PastOK
    <2>3. u2[k] = u[k] /\ rs2[k].ops = rs[k].ops /\ k \in Nat BY <1>5, <1>6
    <2>4. PICK ops, S, c0, K0, L0 :
             ops = rs[k].ops /\ S = Reverts(rs) /\ c0 = u[k].cat /\ K0 = u[k].new.node /\ L0 = u[k].new.link
      OBVIOUS
    <2>5. Restores(ops, k, b, Kb, Lb, c0, K0, L0, h, S, refiled) BY <1>2, <2>2, <2>4 DEF LeadsBack
    <2>6. S \subseteq S2 /\ h <= h BY <1>2, <2>4
    <2>7. Restores(ops, k, c2, K, L, c0, K0, L0, h, S2, refiled)
      BY ONLY <1>3, <1>4, <2>3, <2>5, <2>6, RestoresFrom, K \in Nat, L \in Nat, h \in Nat,
              refiled \in BOOLEAN, Table(c2)
    <2> QED BY <1>2, <2>3, <2>4, <2>7 DEF LeadsBack
  <1>11. ASSUME NEW k \in DOMAIN u2, NEW j \in DOMAIN u2, k > h, After(u2, k, j)
         PROVE  LeadsBack(k, u2[j].cat, u2[j].new.node, u2[j].new.link, rs2, u2, h, refiled)
    <2>1. After(u, k, j)
      <3>1. j \in DOMAIN u /\ j > k /\ j < r /\ j \in Nat /\ r \in Nat BY <1>6, <1>11 DEF After
      <3>2. \A i \in DOMAIN u : i # r => (i > k => i >= j) BY <1>5, <1>11 DEF After
      <3>3. r >= j BY <3>1
      <3> QED BY <3>1, <3>2, <3>3 DEF After
    <2>2. k \in DOMAIN u /\ j \in DOMAIN u BY <1>6
    <2>3. LeadsBack(k, u[j].cat, u[j].new.node, u[j].new.link, rs, u, h, refiled)
      BY <1>11, <2>1, <2>2 DEF PastOK
    <2>4. u2[k] = u[k] /\ u2[j] = u[j] /\ rs2[k].ops = rs[k].ops /\ k \in Nat BY <1>5, <1>6
    <2>5. PICK ops, S, c0, K0, L0, c1, K1, L1 :
             /\ ops = rs[k].ops /\ S = Reverts(rs) /\ c0 = u[k].cat /\ K0 = u[k].new.node /\ L0 = u[k].new.link
             /\ c1 = u[j].cat /\ K1 = u[j].new.node /\ L1 = u[j].new.link
      OBVIOUS
    <2>6. Restores(ops, k, c1, K1, L1, c0, K0, L0, h, S, refiled) BY <2>3, <2>5 DEF LeadsBack
    <2>7. S \subseteq S2 /\ h <= h BY <1>2, <2>5
    <2>8. Restores(ops, k, c1, K1, L1, c0, K0, L0, h, S2, refiled)
      BY ONLY <2>6, <2>7, RestoresWeaker, h \in Nat, refiled \in BOOLEAN
    <2> QED BY <1>2, <2>4, <2>5, <2>8 DEF LeadsBack
  <1> QED BY <1>2, <1>7, <1>8, <1>9, <1>10, <1>11 DEF PastOK

-----------------------------------------------------------------------------
(* The supersessions of the results.                                       *)

LEMMA SupKept ==
    ASSUME NEW c, Table(c), NEW x, NEW y, NEW z, NEW r, NEW p
    PROVE  /\ Create(c, x, y, z).c.sup = c.sup
           /\ File(c, x, y, z).c.sup = c.sup
           /\ Promote(c, p).c.sup = c.sup
           /\ Collapse(c, p, r, x, y).c.sup = c.sup
           /\ Split(c, p, x).c.sup = c.sup
  <1>1. c = [node |-> c.node, link |-> c.link, sup |-> c.sup] BY DEF Table
  <1>2. \A v, w : /\ [c EXCEPT !.node = v].sup = c.sup
                  /\ [c EXCEPT !.link = v].sup = c.sup
                  /\ [c EXCEPT !.node = v, !.link = w].sup = c.sup
    <2> TAKE v, w
    <2>1. PICK a, b, d : c = [node |-> a, link |-> b, sup |-> d] BY ONLY <1>1
    <2>2. [c EXCEPT !.node = v] = [node |-> v, link |-> b, sup |-> d] BY ONLY <2>1
    <2>3. [c EXCEPT !.link = v] = [node |-> a, link |-> v, sup |-> d] BY ONLY <2>1
    <2>4. PICK u : u = [c EXCEPT !.node = v] OBVIOUS
    <2>5. [c EXCEPT !.node = v, !.link = w] = [u EXCEPT !.link = w] BY ONLY <2>4
    <2>6. u = [node |-> v, link |-> b, sup |-> d] BY ONLY <2>2, <2>4
    <2>7. [u EXCEPT !.link = w] = [node |-> v, link |-> w, sup |-> d] BY ONLY <2>6
    <2> QED BY ONLY <2>1, <2>2, <2>3, <2>5, <2>7
  <1>3. Create(c, x, y, z).c.sup = c.sup BY <1>2 DEF Create, Result
  <1>4. File(c, x, y, z).c.sup = c.sup
    <2>1. CASE Held(c, y, z) = {} BY <1>2, <2>1 DEF File, Result
    <2>2. CASE Held(c, y, z) # {}
      <3>1. PICK l : File(c, x, y, z).c = [c EXCEPT !.link[l].by = 0] BY <2>2 DEF File, Result
      <3>2. PICK v : v = [c.link EXCEPT ![l].by = 0] OBVIOUS
      <3>3. [c EXCEPT !.link[l].by = 0] = [c EXCEPT !.link = v] BY <3>2
      <3> QED BY <1>2, <3>1, <3>3
    <2> QED BY <2>1, <2>2
  <1>5. Promote(c, p).c.sup = c.sup BY <1>2 DEF Promote, Result
  <1>6. Collapse(c, p, r, x, y).c.sup = c.sup BY DEF Collapse, Result
  <1>7. Split(c, p, x).c.sup = c.sup BY <1>2 DEF Split, Result
  <1> QED BY <1>3, <1>4, <1>5, <1>6, <1>7

\* What a proposal makes of the rows, its image inverts.
LEMMA EffectInverts ==
    ASSUME TablesOK, SupOK(cat.sup), NEW p, WellFormed(p), Readable(p), ~Tangled(p),
           p.op = "supersede" => Supersedable(cat, p), NEW r \in 1..Len(runs)
    PROVE  /\ Inverts(Effect(p, r).image, Effect(p, r).c, cat, newest.node, newest.link, r)
           /\ SupOK(Effect(p, r).c.sup)
  <1>1. PICK K, L, R, c : K = newest.node /\ L = newest.link /\ R = Len(runs) /\ c = cat OBVIOUS
  <1>2. K \in Nat /\ L \in Nat /\ R \in Nat /\ RowsOK(c, K, L, K, R) BY <1>1, TablesParts
  <1>3. Table(c) /\ Bounded(c, K, L) BY <1>2, RowsAreTable
  <1>4. c.sup = [s \in DOMAIN c.sup |-> c.sup[s]] /\ SupOK(c.sup) BY <1>1 DEF SupOK
  <1>5. r \in 0..R /\ r # 0 BY <1>1, <1>2
  <1>6. PICK res : res = Effect(p, r) OBVIOUS
  <1>7. p.op \in {"promote", "merge", "split", "collapse", "supersede"} BY DEF WellFormed
  <1>8. Inverts(res.image, res.c, c, K, L, r) /\ SupOK(res.c.sup)
    <2>1. CASE p.op = "promote"
      <3>1. res = Promote(c, p) BY <1>1, <1>6, <2>1 DEF Effect
      <3> QED BY <1>2, <1>3, <1>4, <3>1, PromoteInverts, SupKept
    <2>2. CASE p.op = "merge"
      <3>1. res = Merge(c, p, r) BY <1>1, <1>6, <2>2 DEF Effect
      <3>2. IsSeq(p.ids) /\ p.ids # << >> /\ Head(p.ids) \in DOMAIN c.node
        BY <1>1, <2>2 DEF WellFormed, Readable, IsSeq
      <3>3. Inverts(res.image, res.c, c, K, L, r) /\ res.c.sup = c.sup
        BY ONLY <1>2, <1>4, <1>5, <2>2, <3>1, <3>2, MergeInverts, ~Tangled(p)
      <3> QED BY <1>4, <3>3
    <2>3. CASE p.op = "split"
      <3>1. res = Split(c, p, K) BY <1>1, <1>6, <2>3 DEF Effect
      <3>2. IsSeq(p.parts) BY <2>3 DEF WellFormed, IsSeq
      <3>3. Inverts(res.image, res.c, c, K, L, r)
        BY ONLY <1>2, <1>3, <1>4, <3>1, <3>2, SplitInverts
      <3>4. Split(c, p, K).c.sup = c.sup BY ONLY <1>3, SupKept
      <3> QED BY <1>4, <3>1, <3>3, <3>4
    <2>4. CASE p.op = "collapse"
      <3>1. res = Collapse(c, p, r, K, L) BY <1>1, <1>6, <2>4 DEF Effect
      <3>2. IsSeq(p.cites) BY <2>4 DEF WellFormed, IsSeq
      <3>3. Inverts(res.image, res.c, c, K, L, r)
        BY ONLY <1>2, <1>3, <1>4, <3>1, <3>2, CollapseInverts
      <3>4. Collapse(c, p, r, K, L).c.sup = c.sup BY ONLY <1>3, SupKept
      <3> QED BY <1>4, <3>1, <3>3, <3>4
    <2>5. CASE p.op = "supersede"
      <3>1. res = Supersede(c, p) BY <1>1, <1>6, <2>5 DEF Effect
      <3>2. ChainHead(c.sup, p.old) \notin DOMAIN c.sup /\ SupOK(Put(c.sup, ChainHead(c.sup, p.old), p.new))
        BY <1>1, <1>4, <2>5, SupersedeKeeps
      <3>3. Inverts(res.image, res.c, c, K, L, r) BY <1>2, <1>3, <1>4, <3>1, <3>2, SupersedeInverts
      <3>4. res.c.sup = Put(c.sup, ChainHead(c.sup, p.old), p.new)
        <4>1. PICK v : v = Put(c.sup, ChainHead(c.sup, p.old), p.new) OBVIOUS
        <4>2. res.c = [c EXCEPT !.sup = v] BY <3>1, <4>1 DEF Supersede, Result
        <4>3. c = [node |-> c.node, link |-> c.link, sup |-> c.sup] BY <1>3 DEF Table
        <4>4. [c EXCEPT !.sup = v] = [node |-> c.node, link |-> c.link, sup |-> v] BY <4>3, CatChanged
        <4> QED BY <4>1, <4>2, <4>4
      <3> QED BY <3>2, <3>3, <3>4
    <2> QED BY <1>7, <2>1, <2>2, <2>3, <2>4, <2>5
  <1> QED BY <1>1, <1>6, <1>8

-----------------------------------------------------------------------------
(* The invariant.                                                          *)

Clean == slips \cap {"disorder", "tangled", "skipped"} = {}

\* No pass is in a revert's run.
PassModes == \A w \in Workers : pass[w].pc # "idle" => runs[pass[w].run].mode # "revert"

UndoInv ==
    /\ Known(runs, undo)
    /\ PassModes
    /\ Clean => PastOK(cat, newest.node, newest.link, runs, undo, horizon, "refile" \in slips)

\* What the invariants say of a state.
LEMMA States ==
    ASSUME CatInv
    PROVE  /\ newest.node \in Nat /\ newest.link \in Nat /\ Len(runs) \in Nat /\ horizon \in Nat
           /\ horizon <= Len(runs) /\ DOMAIN runs = 1..Len(runs) /\ IsSeq(runs)
           /\ \A r \in DOMAIN runs : r \in Nat /\ IsSeq(runs[r].ops) /\ IsRun(runs[r], newest.node, Len(runs))
           /\ RowsOK(cat, newest.node, newest.link, newest.node, Len(runs))
           /\ Table(cat) /\ Bounded(cat, newest.node, newest.link)
           /\ RunsOK(runs, newest.node, Len(runs))
           /\ TablesOK /\ PassesOK
           /\ \A w \in Workers : pass[w].pc # "idle" => pass[w].run \in DOMAIN runs
  <1>1. TablesOK /\ PassesOK /\ horizon \in 0..Len(runs) BY DEF CatInv
  <1>2. /\ newest.node \in Nat /\ newest.link \in Nat
        /\ Len(runs) \in Nat /\ DOMAIN runs = 1..Len(runs) /\ IsSeq(runs)
        /\ \A r \in DOMAIN runs : IsRun(runs[r], newest.node, Len(runs))
        /\ RowsOK(cat, newest.node, newest.link, newest.node, Len(runs))
        /\ RunsOK(runs, newest.node, Len(runs))
    BY <1>1, TablesParts
  <1>3. PICK c, K, L, R : c = cat /\ K = newest.node /\ L = newest.link /\ R = Len(runs) OBVIOUS
  <1>4. Table(c) /\ Bounded(c, K, L) BY <1>2, <1>3, RowsAreTable
  <1>5. horizon \in Nat /\ horizon <= Len(runs) BY <1>1, <1>2
  <1>6. \A r \in DOMAIN runs : r \in Nat /\ IsSeq(runs[r].ops) BY <1>2 DEF IsRun
  <1>7. ASSUME NEW w \in Workers, pass[w].pc # "idle" PROVE pass[w].run \in DOMAIN runs
    <2>1. IsPass(pass[w], newest.prop, Len(runs)) BY <1>1 DEF PassesOK
    <2>2. pass[w].run \in 0..Len(runs) /\ pass[w].run # 0 BY <1>7, <2>1 DEF IsPass
    <2> QED BY <1>2, <2>2
  <1> QED BY <1>1, <1>2, <1>3, <1>4, <1>5, <1>6, <1>7

LEMMA JournalOps ==
    ASSUME NEW rs, NEW nb, NEW R, RunsOK(rs, nb, R), NEW r, NEW row
    PROVE  /\ DOMAIN Journal(rs, r, row) = DOMAIN rs
           /\ \A k \in DOMAIN rs : /\ Journal(rs, r, row)[k].mode = rs[k].mode
                                   /\ k # r => Journal(rs, r, row)[k].ops = rs[k].ops
           /\ r \in DOMAIN rs => Journal(rs, r, row)[r].ops = Append(rs[r].ops, row)
  <1> DEFINE js == Journal(rs, r, row)
             more == Append(rs[r].ops, row)
  <1>1. /\ DOMAIN js = DOMAIN rs /\ \A k \in DOMAIN rs : k # r => js[k] = rs[k]
        /\ r \in DOMAIN rs => js[r] = [rs[r] EXCEPT !.ops = more]
    BY DEF Journal
  <1> HIDE DEF js, more
  <1>2. ASSUME r \in DOMAIN rs PROVE js[r].mode = rs[r].mode /\ js[r].ops = more
    <2>1. PICK x : x = rs[r] OBVIOUS
    <2>2. x = [mode |-> x.mode, outcome |-> x.outcome, ops |-> x.ops] BY <1>2, <2>1 DEF RunsOK, IsRun
    <2>3. [x EXCEPT !.ops = more] = [mode |-> x.mode, outcome |-> x.outcome, ops |-> more]
      BY <2>2, RunChanged
    <2> QED BY <1>1, <1>2, <2>1, <2>3
  <1> QED BY <1>1, <1>2 DEF js, more

\* A step that writes no row: runs begin and end, verdicts are journaled.
LEMMA QuietStep ==
    ASSUME CatInv, CatInv', UndoInv, UNCHANGED <<cat, undo, slips, horizon>>,
           newest.node <= newest'.node, newest.link <= newest'.link,
           DOMAIN runs \subseteq DOMAIN runs',
           \A k \in DOMAIN runs :
              /\ runs'[k].mode = runs[k].mode
              /\ \/ runs'[k].ops = runs[k].ops
                 \/ \E op : op.outcome # "applied" /\ runs'[k].ops = Append(runs[k].ops, op),
           \A k \in DOMAIN runs' \ DOMAIN runs : \A i \in DOMAIN runs'[k].ops : runs'[k].ops[i].outcome # "applied",
           PassModes'
    PROVE  UndoInv'
  <1>1. Known(runs, undo) BY DEF UndoInv
  <1>2. \A k \in DOMAIN runs : IsSeq(runs[k].ops) /\ k \in Nat BY States
  <1>3. \A k \in DOMAIN undo : k \in DOMAIN runs /\ runs[k].mode # "revert" BY <1>1 DEF Known
  <1>4. ASSUME NEW k \in DOMAIN runs
        PROVE  (\E i \in DOMAIN runs'[k].ops : runs'[k].ops[i].outcome = "applied")
                 <=> \E i \in DOMAIN runs[k].ops : runs[k].ops[i].outcome = "applied"
    <2>1. CASE runs'[k].ops = runs[k].ops BY <2>1
    <2>2. ASSUME NEW op, op.outcome # "applied", runs'[k].ops = Append(runs[k].ops, op)
          PROVE  (\E i \in DOMAIN runs'[k].ops : runs'[k].ops[i].outcome = "applied")
                   <=> \E i \in DOMAIN runs[k].ops : runs[k].ops[i].outcome = "applied"
      <3>1. PICK ops : ops = runs[k].ops OBVIOUS
      <3>2. IsSeq(ops) BY <1>2, <3>1
      <3>3. (\E i \in DOMAIN Append(ops, op) : Append(ops, op)[i].outcome = "applied")
              <=> ((\E i \in DOMAIN ops : ops[i].outcome = "applied") \/ op.outcome = "applied")
        BY ONLY <3>2, AppliedMore
      <3>4. PICK more : more = Append(ops, op) /\ runs'[k].ops = more BY <2>2, <3>1
      <3> QED BY ONLY <2>2, <3>1, <3>3, <3>4
    <2> QED BY <2>1, <2>2
  <1>5. Known(runs', undo') BY <1>1, <1>3, <1>4 DEF Known
  <1>6. ASSUME Clean' PROVE PastOK(cat', newest'.node, newest'.link, runs', undo', horizon', "refile" \in slips')
    <2>1. PastOK(cat, newest.node, newest.link, runs, undo, horizon, "refile" \in slips) BY <1>6 DEF UndoInv, Clean
    <2>2. PICK c, K, L, K2, L2, rs, rs2, u, h, S2, refiled :
             /\ c = cat /\ K = newest.node /\ L = newest.link /\ K2 = newest'.node /\ L2 = newest'.link
             /\ rs = runs /\ rs2 = runs' /\ u = undo /\ h = horizon /\ refiled = ("refile" \in slips)
             /\ S2 = Reverts(rs2)
      OBVIOUS
    <2>3. K \in Nat /\ L \in Nat /\ h \in Nat /\ h <= h /\ Table(c) /\ Bounded(c, K, L) BY <2>2, States
    <2>4. (newest.node \in Nat /\ newest.link \in Nat /\ Bounded(cat, newest.node, newest.link))' BY States, PTL
    <2>5. K2 \in Nat /\ L2 \in Nat /\ K <= K2 /\ L <= L2 /\ Bounded(c, K2, L2) BY <2>2, <2>4
    <2>6. SameWrites(rs, rs2, u, h) /\ Reverts(rs) \subseteq S2
      BY <1>2, <1>3, <2>2 DEF SameWrites, Reverts
    <2>7. \A k \in DOMAIN u : k \in Nat BY <1>2, <1>3, <2>2
    <2>8. refiled \in BOOLEAN /\ (refiled => refiled) BY <2>2
    <2>9. PastOK(c, K, L, rs, u, h, refiled) BY <2>1, <2>2
    <2>10. PastOK(c, K2, L2, rs2, u, h, refiled)
      BY ONLY <2>3, <2>5, <2>6, <2>7, <2>8, <2>9, PastKept
    <2> QED BY <2>2, <2>10
  <1> QED BY <1>5, <1>6 DEF UndoInv

\* The runs keep their modes, and one pass moves.
LEMMA StillPasses ==
    ASSUME CatInv, UndoInv, DOMAIN runs \subseteq DOMAIN runs',
           \A k \in DOMAIN runs : runs'[k].mode = runs[k].mode,
           NEW w \in Workers, NEW x, pass' = [pass EXCEPT ![w] = x],
           \/ x.pc = "idle"
           \/ x.run = pass[w].run /\ pass[w].pc # "idle"
           \/ runs'[x.run].mode # "revert"
    PROVE  PassModes'
  <1>1. PassModes BY DEF UndoInv
  <1>2. \A v \in Workers : pass[v].pc # "idle" => pass[v].run \in DOMAIN runs BY States
  <1>3. DOMAIN pass = Workers BY DEF CatInv, PassesOK
  <1>4. ASSUME NEW v \in Workers, pass'[v].pc # "idle" PROVE runs'[pass'[v].run].mode # "revert"
    <2>1. CASE v = w
      <3>1. pass'[v] = x BY <1>3, <2>1
      <3> QED BY <1>1, <1>2, <1>4, <2>1, <3>1 DEF PassModes
    <2>2. CASE v # w
      <3>1. pass'[v] = pass[v] BY <1>3, <2>2
      <3> QED BY <1>1, <1>2, <1>4, <3>1 DEF PassModes
    <2> QED BY <2>1, <2>2
  <1> QED BY <1>4 DEF PassModes, Workers

-----------------------------------------------------------------------------
(* The steps that write no row.                                            *)

LEMMA WaitsUndo ==
    ASSUME CatInv, CatInv', UndoInv, UNCHANGED <<cat, newest, runs, undo, slips, horizon>>, PassModes'
    PROVE  UndoInv'
  <1>1. newest.node \in Nat /\ newest.link \in Nat BY States
  <1>2. newest.node <= newest'.node /\ newest.link <= newest'.link BY <1>1
  <1>3. \A k \in DOMAIN runs :
              /\ runs'[k].mode = runs[k].mode
              /\ \/ runs'[k].ops = runs[k].ops
                 \/ \E op : op.outcome # "applied" /\ runs'[k].ops = Append(runs[k].ops, op)
    OBVIOUS
  <1> QED BY <1>2, <1>3, QuietStep

LEMMA LeavesUndo ==
    ASSUME CatInv, CatInv', UndoInv, NEW w \in Workers, Crash(w) \/ CanaryHolds(w)
    PROVE  UndoInv'
  <1>1. /\ pass' = [pass EXCEPT ![w] = Idle] /\ UNCHANGED <<cat, newest, runs, undo, slips, horizon>>
    BY DEF Crash, CanaryHolds
  <1>2. Idle.pc = "idle" BY DEF Idle
  <1>3. PassModes' BY <1>1, <1>2, StillPasses
  <1> QED BY <1>1, <1>3, WaitsUndo

LEMMA LoadQueueUndo ==
    ASSUME CatInv, CatInv', UndoInv, NEW w \in Workers, LoadQueue(w)
    PROVE  UndoInv'
  <1> DEFINE x == [pass[w] EXCEPT !.pc = "queue",
                                  !.due = {q \in queue : q.after <= pass[w].run},
                                  !.tree = View(cat).node,
                                  !.kept = {n \in DOMAIN kept : kept[n] > pass[w].run}]
  <1>1. /\ pass' = [pass EXCEPT ![w] = x] /\ UNCHANGED <<cat, newest, runs, undo, slips, horizon>>
        /\ pass[w].pc = "open"
    BY DEF LoadQueue
  <1>2. pass[w] = [pc |-> pass[w].pc, run |-> pass[w].run, staged |-> pass[w].staged,
                   due |-> pass[w].due, verify |-> pass[w].verify,
                   tree |-> pass[w].tree, kept |-> pass[w].kept]
    BY DEF CatInv, PassesOK, IsPass
  <1>3. x.run = pass[w].run BY <1>2
  <1> HIDE DEF x
  <1>4. PassModes' BY <1>1, <1>3, StillPasses
  <1> QED BY <1>1, <1>4, WaitsUndo

LEMMA StartRunUndo ==
    ASSUME CatInv, CatInv', UndoInv, NEW w \in Workers, StartRun(w)
    PROVE  UndoInv'
  <1> DEFINE mode == IF w \in Organizers THEN "organize" ELSE "basic_filing"
             cut == Interrupted(w)
             new == [mode |-> mode, outcome |-> "open", ops |-> << >>]
             R == Len(runs)
             x == [Idle EXCEPT !.pc = "open", !.run = R + 1]
  <1>1. /\ runs' = Append(cut, new) /\ pass' = [pass EXCEPT ![w] = x]
        /\ UNCHANGED <<cat, newest, horizon, undo, slips>>
    BY DEF StartRun
  <1>2. /\ R \in Nat /\ DOMAIN runs = 1..R /\ newest.node \in Nat /\ newest.link \in Nat
        /\ \A k \in DOMAIN runs : IsRun(runs[k], newest.node, R)
    BY States
  <1>3. /\ cut = [k \in 1..R |-> cut[k]]
        /\ \A k \in DOMAIN runs : cut[k] = runs[k] \/ cut[k] = [runs[k] EXCEPT !.outcome = "interrupted"]
    BY <1>2 DEF Interrupted
  <1>4. x.run = R + 1
    <2>1. x = [[Idle EXCEPT !.pc = "open"] EXCEPT !.run = R + 1] OBVIOUS
    <2> QED BY <2>1 DEF Idle
  <1> HIDE DEF cut, x
  <1>5. IsSeq(cut) /\ Len(cut) = R BY <1>2, <1>3, SeqOfFunction
  <1>6. new.mode # "revert" /\ new.ops = << >> OBVIOUS
  <1> HIDE DEF new
  <1>7. /\ DOMAIN runs' = 1..(R + 1)
        /\ \A k \in 1..R : runs'[k] = cut[k]
        /\ runs'[R + 1] = new
        /\ \A k \in 1..(R + 1) : k \in 1..R \/ k = R + 1
        /\ 1..R \subseteq 1..(R + 1)
    BY <1>1, <1>5, AppendFacts
  <1>8. ASSUME NEW k \in DOMAIN runs PROVE runs'[k].mode = runs[k].mode /\ runs'[k].ops = runs[k].ops
    <2>1. PICK y : y = runs[k] OBVIOUS
    <2>2. y = [mode |-> y.mode, outcome |-> y.outcome, ops |-> y.ops] BY <1>2, <2>1 DEF IsRun
    <2>3. [y EXCEPT !.outcome = "interrupted"] = [mode |-> y.mode, outcome |-> "interrupted", ops |-> y.ops]
      BY <2>2, RunChanged
    <2>4. cut[k].mode = y.mode /\ cut[k].ops = y.ops BY <1>3, <2>1, <2>3
    <2> QED BY <1>2, <1>7, <2>1, <2>4
  <1>9. \A k \in DOMAIN runs' \ DOMAIN runs : \A i \in DOMAIN runs'[k].ops : runs'[k].ops[i].outcome # "applied"
    <2>1. DOMAIN << >> = {} OBVIOUS
    <2>2. \A k \in DOMAIN runs' \ DOMAIN runs : k = R + 1 BY <1>2, <1>7
    <2> QED BY <1>6, <1>7, <2>1, <2>2
  <1>10. DOMAIN runs \subseteq DOMAIN runs' BY <1>2, <1>7
  <1>11. PassModes'
    <2>1. runs'[x.run].mode # "revert" BY <1>4, <1>6, <1>7
    <2> QED BY <1>1, <1>8, <1>10, <2>1, StillPasses
  <1>12. newest.node <= newest'.node /\ newest.link <= newest'.link BY <1>1, <1>2
  <1> QED BY <1>1, <1>8, <1>9, <1>10, <1>11, <1>12, QuietStep

LEMMA FinishUndo ==
    ASSUME CatInv, CatInv', UndoInv, NEW w \in Workers, Finish(w)
    PROVE  UndoInv'
  <1> DEFINE r == pass[w].run
             canary == [Idle EXCEPT !.pc = "canary", !.run = r]
             x == IF w \in Organizers /\ menu.canary THEN canary ELSE Idle
  <1>1. pass[w].pc # "idle" /\ runs' = [runs EXCEPT ![r].outcome = "done"]
        /\ pass' = [pass EXCEPT ![w] = x]
        /\ UNCHANGED <<cat, newest, horizon, undo, slips>>
    BY DEF Finish
  <1>2. /\ newest.node \in Nat /\ newest.link \in Nat
        /\ \A k \in DOMAIN runs : IsRun(runs[k], newest.node, Len(runs))
    BY States
  <1>3. x.pc = "idle" \/ x.run = r
    <2>1. Idle.pc = "idle" BY DEF Idle
    <2>2. canary.run = r
      <3>1. canary = [[Idle EXCEPT !.pc = "canary"] EXCEPT !.run = r] OBVIOUS
      <3> QED BY <3>1 DEF Idle
    <2> HIDE DEF canary
    <2> QED BY <2>1, <2>2
  <1> HIDE DEF x, r
  <1>4. DOMAIN runs' = DOMAIN runs BY <1>1
  <1>5. ASSUME NEW k \in DOMAIN runs PROVE runs'[k].mode = runs[k].mode /\ runs'[k].ops = runs[k].ops
    <2>1. PICK y : y = runs[k] OBVIOUS
    <2>2. y = [mode |-> y.mode, outcome |-> y.outcome, ops |-> y.ops] BY <1>2, <2>1 DEF IsRun
    <2>3. [y EXCEPT !.outcome = "done"] = [mode |-> y.mode, outcome |-> "done", ops |-> y.ops]
      BY <2>2, RunChanged
    <2>4. runs'[k] = y \/ runs'[k] = [y EXCEPT !.outcome = "done"] BY <1>1, <2>1
    <2>5. runs'[k].mode = y.mode /\ runs'[k].ops = y.ops BY <2>3, <2>4
    <2> QED BY <2>1, <2>5
  <1>6. PassModes' BY <1>1, <1>3, <1>4, <1>5, StillPasses DEF r
  <1>7. newest.node <= newest'.node /\ newest.link <= newest'.link BY <1>1, <1>2
  <1> QED BY <1>1, <1>4, <1>5, <1>6, <1>7, QuietStep

\* A proposal is queued.
LEMMA EnqueuedUndo ==
    ASSUME CatInv, CatInv', UndoInv, NEW w \in Workers, pass[w].pc # "idle",
           NewIds(cat, 1), Staged(w), UNCHANGED <<cat, runs, undo, slips, horizon>>
    PROVE  UndoInv'
  <1>1. newest.node <= newest'.node /\ newest.link <= newest'.link
    <2>1. PICK c, K, L, R, one : c = cat /\ K = newest.node /\ L = newest.link /\ R = Len(runs) /\ one = 1
      OBVIOUS
    <2>2. /\ TablesOK /\ K \in Nat /\ L \in Nat /\ R \in Nat /\ RowsOK(c, K, L, newest.node, R)
          /\ one \in Nat /\ NewIds(c, one)
      BY <2>1, States
    <2> QED BY <2>2, NewIdsFacts
  <1> DEFINE x == [pass[w] EXCEPT !.staged = @ + 1]
  <1>2. pass' = [pass EXCEPT ![w] = x] BY DEF Staged
  <1>3. pass[w] = [pc |-> pass[w].pc, run |-> pass[w].run, staged |-> pass[w].staged,
                   due |-> pass[w].due, verify |-> pass[w].verify,
                   tree |-> pass[w].tree, kept |-> pass[w].kept]
    BY DEF CatInv, PassesOK, IsPass
  <1>4. x.run = pass[w].run BY <1>3
  <1> HIDE DEF x
  <1>5. PassModes' BY <1>2, <1>4, StillPasses
  <1> QED BY <1>1, <1>5, QuietStep

\* A verdict is journaled.
LEMMA SettledUndo ==
    ASSUME CatInv, CatInv', UndoInv, NEW r, NEW q, NEW outcome \in {"expired", "refused"},
           Settle(r, q, outcome), UNCHANGED horizon, PassModes'
    PROVE  UndoInv'
  <1>1. PICK row : row.outcome # "applied" /\ runs' = Journal(runs, r, row)
    <2>1. PICK o, s, m, p : runs' = Journal(runs, r, OpRow(o, outcome, s, m, p)) BY DEF Settle
    <2>2. OpRow(o, outcome, s, m, p).outcome # "applied" BY DEF OpRow
    <2> QED BY <2>1, <2>2
  <1>2. UNCHANGED <<cat, newest, undo, slips>> BY DEF Settle
  <1>3. newest.node \in Nat /\ newest.link \in Nat /\ RunsOK(runs, newest.node, Len(runs)) BY States
  <1>4. /\ DOMAIN runs' = DOMAIN runs
        /\ \A k \in DOMAIN runs : /\ runs'[k].mode = runs[k].mode
                                  /\ k # r => runs'[k].ops = runs[k].ops
        /\ r \in DOMAIN runs => runs'[r].ops = Append(runs[r].ops, row)
    BY <1>1, <1>3, JournalOps
  <1>5. newest.node <= newest'.node /\ newest.link <= newest'.link BY <1>2, <1>3
  <1>6. \A k \in DOMAIN runs :
              /\ runs'[k].mode = runs[k].mode
              /\ \/ runs'[k].ops = runs[k].ops
                 \/ \E op : op.outcome # "applied" /\ runs'[k].ops = Append(runs[k].ops, op)
    BY <1>1, <1>4
  <1> QED BY <1>2, <1>4, <1>5, <1>6, QuietStep

-----------------------------------------------------------------------------
(* The steps that write.                                                   *)

\* None that wrote is newer, or the behaviour is out of order.
LEMMA NewestOrLater ==
    ASSUME NEW r, slips \cup Disorder(r) \subseteq slips', Clean'
    PROVE  Newest(undo, r) /\ Clean
  <1>1. ~Later(r) BY DEF Clean, Disorder
  <1> QED BY <1>1 DEF Newest, Later, Clean

LEMMA CommitUndo ==
    ASSUME CatInv, CatInv', UndoInv, NEW r \in DOMAIN runs, runs[r].mode # "revert",
           NEW op, NEW res, NEW id, ResultOK(res, newest.node, Len(runs)),
           Commit(r, op, res, id), NewIds(cat', 0), UNCHANGED horizon,
           slips \cup Disorder(r) \subseteq slips', "refile" \in slips' <=> "refile" \in slips,
           Clean' => Inverts(res.image, res.c, cat, newest.node, newest.link, r) /\ SupOK(res.c.sup),
           PassModes'
    PROVE  UndoInv'
  <1>1. PICK row : row.outcome = "applied" /\ row.image = res.image /\ runs' = Journal(runs, r, row)
    BY DEF Commit, Row, OpRow
  <1>2. /\ newest.node \in Nat /\ newest.link \in Nat /\ r \in Nat /\ horizon \in Nat
        /\ RunsOK(runs, newest.node, Len(runs)) /\ IsSeq(runs[r].ops) /\ TablesOK
        /\ \A k \in DOMAIN runs : k \in Nat
    BY States
  <1>3. /\ DOMAIN runs' = DOMAIN runs
        /\ \A k \in DOMAIN runs : runs'[k].mode = runs[k].mode /\ (k # r => runs'[k].ops = runs[k].ops)
        /\ runs'[r].ops = Append(runs[r].ops, row)
    BY <1>1, <1>2, JournalOps
  <1>4. cat' = res.c /\ undo' = IF r \in DOMAIN undo THEN undo ELSE Put(undo, r, [cat |-> cat, new |-> newest])
    BY DEF Commit, Remember
  <1>5. Known(runs, undo) BY DEF UndoInv
  <1>6. PICK b : b = [cat |-> cat, new |-> newest] OBVIOUS
  <1>7. Writes(runs, runs', undo, undo', r, row, b)
    <2>1. \A k \in DOMAIN undo : k \in Nat BY <1>2, <1>5 DEF Known
    <2> QED BY <1>1, <1>2, <1>3, <1>4, <1>5, <1>6, <2>1 DEF Writes
  <1>8. Known(runs', undo') BY <1>7, KnownMore
  <1>9. ASSUME Clean' PROVE PastOK(cat', newest'.node, newest'.link, runs', undo', horizon', "refile" \in slips')
    <2>1. Newest(undo, r) /\ Clean BY <1>9, NewestOrLater
    <2>2. PastOK(cat, newest.node, newest.link, runs, undo, horizon, "refile" \in slips) BY <2>1 DEF UndoInv
    <2>3. newest.node <= newest'.node /\ newest.link <= newest'.link
      <3>1. PICK K \in Nat, L \in Nat : RowsOK(res.c, K, L, newest.node, Len(runs)) BY DEF ResultOK
      <3>2. PICK c, none : c = cat' /\ none = 0 OBVIOUS
      <3>3. RowsOK(c, K, L, newest.node, Len(runs)) /\ NewIds(c, none) /\ none \in Nat /\ Len(runs) \in Nat
        BY <1>4, <3>1, <3>2, States
      <3> QED BY ONLY <1>2, <3>1, <3>3, NewIdsFacts
    <2>4. (newest.node \in Nat /\ newest.link \in Nat /\ Table(cat) /\ Bounded(cat, newest.node, newest.link))'
      BY States, PTL
    <2>5. PICK c, K, L, c2, K2, L2, rs, rs2, u, u2, h, refiled :
             /\ c = cat /\ K = newest.node /\ L = newest.link
             /\ c2 = cat' /\ K2 = newest'.node /\ L2 = newest'.link
             /\ rs = runs /\ rs2 = runs' /\ u = undo /\ u2 = undo' /\ h = horizon
             /\ refiled = ("refile" \in slips)
      OBVIOUS
    <2>6. /\ K \in Nat /\ L \in Nat /\ K2 \in Nat /\ L2 \in Nat /\ K <= K2 /\ L <= L2
          /\ h \in Nat /\ refiled \in BOOLEAN /\ Table(c2) /\ Bounded(c2, K2, L2)
      BY <1>2, <2>3, <2>4, <2>5
    <2>7. /\ Writes(rs, rs2, u, u2, r, row, b)
          /\ Newest(u, r) /\ PastOK(c, K, L, rs, u, h, refiled)
      BY <1>7, <2>1, <2>2, <2>5
    <2>8. b.cat = c /\ b.new.node = K /\ b.new.link = L BY <1>6, <2>5
    <2>9. Inverts(row.image, c2, c, K, L, r) /\ SupOK(c2.sup) BY <1>1, <1>4, <1>9, <2>5
    <2>10. PastOK(c2, K2, L2, rs2, u2, h, refiled)
      BY ONLY <2>6, <2>7, <2>8, <2>9, PastMore
    <2>11. ("refile" \in slips') = ("refile" \in slips) OBVIOUS
    <2> QED BY <2>5, <2>10, <2>11
  <1> QED BY <1>8, <1>9 DEF UndoInv

\* Something was staged.
LEMMA StagedModes ==
    ASSUME CatInv, UndoInv, NEW w \in Workers, pass[w].pc # "idle", Staged(w),
           DOMAIN runs \subseteq DOMAIN runs', \A k \in DOMAIN runs : runs'[k].mode = runs[k].mode
    PROVE  PassModes'
  <1> DEFINE x == [pass[w] EXCEPT !.staged = @ + 1]
  <1>1. pass' = [pass EXCEPT ![w] = x] BY DEF Staged
  <1>2. pass[w] = [pc |-> pass[w].pc, run |-> pass[w].run, staged |-> pass[w].staged,
                   due |-> pass[w].due, verify |-> pass[w].verify,
                   tree |-> pass[w].tree, kept |-> pass[w].kept]
    BY DEF CatInv, PassesOK, IsPass
  <1>3. x.run = pass[w].run BY <1>2
  <1> HIDE DEF x
  <1> QED BY <1>1, <1>3, StillPasses

\* A pass that is not idle has a run of its own.
LEMMA OwnRun ==
    ASSUME CatInv, UndoInv, NEW w \in Workers, pass[w].pc # "idle"
    PROVE  pass[w].run \in DOMAIN runs /\ runs[pass[w].run].mode # "revert" /\ pass[w].run \in Nat
  <1>1. pass[w].run \in DOMAIN runs /\ \A r \in DOMAIN runs : r \in Nat BY States
  <1>2. PassModes BY DEF UndoInv
  <1> QED BY <1>1, <1>2 DEF PassModes

LEMMA JournalModes ==
    ASSUME CatInv, NEW r, NEW row, runs' = Journal(runs, r, row)
    PROVE  DOMAIN runs' = DOMAIN runs /\ \A k \in DOMAIN runs : runs'[k].mode = runs[k].mode
  <1>1. RunsOK(runs, newest.node, Len(runs)) BY States
  <1> QED BY <1>1, JournalOps

LEMMA StageStructuralUndo ==
    ASSUME CatInv, CatInv', UndoInv, NEW w \in Workers, NEW p, StageStructural(w, p)
    PROVE  UndoInv'
  <1>1. /\ pass[w].pc # "idle" /\ NewIds(cat, 1) /\ Staged(w)
        /\ UNCHANGED <<cat, runs, undo, slips, horizon>>
    BY DEF StageStructural, Staging
  <1> QED BY <1>1, EnqueuedUndo

LEMMA StageCreateUndo ==
    ASSUME CatInv, CatInv', UndoInv, NEW w \in Workers, NEW a, StageCreate(w, a)
    PROVE  UndoInv'
  <1> DEFINE r == pass[w].run
             res == Create(cat, newest.node + 1, a.parent, a.title)
  <1>1. /\ pass[w].pc # "idle" /\ Staged(w) /\ UNCHANGED horizon
        /\ \/ Commit(r, "create", res, 0) /\ NewIds(cat', 0) /\ slips' = slips \cup Disorder(r)
           \/ NewIds(cat, 1) /\ UNCHANGED <<cat, runs, undo, slips>>
    BY DEF StageCreate, Staging
  <1>2. CASE NewIds(cat, 1) /\ UNCHANGED <<cat, runs, undo, slips>>
    <2> HIDE DEF res, r
    <2> QED BY <1>1, <1>2, EnqueuedUndo
  <1>3. CASE Commit(r, "create", res, 0) /\ NewIds(cat', 0) /\ slips' = slips \cup Disorder(r)
    <2>1. r \in DOMAIN runs /\ runs[r].mode # "revert" BY <1>1, OwnRun
    <2>2. /\ newest.node \in Nat /\ newest.link \in Nat /\ Len(runs) \in Nat
          /\ RowsOK(cat, newest.node, newest.link, newest.node, Len(runs))
          /\ Table(cat) /\ Bounded(cat, newest.node, newest.link)
      BY States
    <2>3. PICK c, i, p, t, K, L, R : c = cat /\ i = newest.node + 1 /\ p = a.parent /\ t = a.title
                                     /\ K = newest.node /\ L = newest.link /\ R = Len(runs)
      OBVIOUS
    <2>4. res = Create(c, i, p, t) /\ i = K + 1 /\ i \in Nat \ {0} BY <2>2, <2>3
    <2>5. ResultOK(res, K, R)
      <3>1. /\ RowsOK(Create(c, i, p, t).c, K + i, L, K, R) /\ ImageOK(Create(c, i, p, t).image, K, R)
        BY <2>2, <2>3, <2>4, CreateFacts
      <3>2. K + i \in Nat /\ L \in Nat BY <2>2, <2>3, <2>4
      <3> QED BY <2>4, <3>1, <3>2 DEF ResultOK
    <2> HIDE DEF res
    <2>6. Clean' => Inverts(res.image, res.c, cat, newest.node, newest.link, r) /\ SupOK(res.c.sup)
      <3> SUFFICES ASSUME Clean' PROVE Inverts(res.image, res.c, c, K, L, r) /\ SupOK(res.c.sup) BY <2>3
      <3>1. Clean BY <1>3, NewestOrLater
      <3>2. SupOK(c.sup) BY <2>3, <3>1 DEF UndoInv, PastOK
      <3>3. c.sup = [s \in DOMAIN c.sup |-> c.sup[s]] BY <3>2 DEF SupOK
      <3>4. Table(c) /\ Bounded(c, K, L) /\ K \in Nat /\ L \in Nat BY <2>2, <2>3
      <3>5. res = Create(c, K + 1, p, t) BY <2>4
      <3>6. Inverts(res.image, res.c, c, K, L, r) BY ONLY <3>3, <3>4, <3>5, CreateInverts
      <3>7. res.c.sup = c.sup BY ONLY <3>4, <3>5, SupKept
      <3> QED BY <3>2, <3>6, <3>7
    <2>7. DOMAIN runs' = DOMAIN runs /\ \A k \in DOMAIN runs : runs'[k].mode = runs[k].mode
      BY <1>3, JournalModes DEF Commit
    <2>8. PassModes' BY <1>1, <2>7, StagedModes
    <2>9. "refile" \in slips' <=> "refile" \in slips BY <1>3 DEF Disorder
    <2>10. PICK op, none, run : op = "create" /\ none = 0 /\ run = r OBVIOUS
    <2>11. /\ Commit(run, op, res, none) /\ slips \cup Disorder(run) \subseteq slips'
           /\ run \in DOMAIN runs /\ runs[run].mode # "revert" /\ ResultOK(res, newest.node, Len(runs))
           /\ Clean' => Inverts(res.image, res.c, cat, newest.node, newest.link, run) /\ SupOK(res.c.sup)
      BY <1>3, <2>1, <2>3, <2>5, <2>6, <2>10
    <2> QED BY <1>1, <1>3, <2>8, <2>9, <2>11, CommitUndo
  <1> QED BY <1>1, <1>2, <1>3

\* A proposal is applied, or not.
LEMMA ApplyUndo ==
    ASSUME CatInv, CatInv', UndoInv, NEW w \in Workers, pass[w].pc # "idle",
           NEW q, IsProposal(q, newest.prop), NEW t, Apply(w, q, t), UNCHANGED horizon,
           NEW x, pass' = [pass EXCEPT ![w] = x], x.run = pass[w].run
    PROVE  UndoInv'
  <1> DEFINE r == pass[w].run
             res == Effect(q.p, r)
  <1>1. r \in DOMAIN runs /\ runs[r].mode # "revert" BY OwnRun
  <1>2. CASE UNCHANGED <<cat, newest, runs, undo, slips>>
    <2>1. PassModes' BY <1>2, StillPasses
    <2> QED BY <1>2, <2>1, WaitsUndo
  <1>3. CASE ~UNCHANGED <<cat, newest, runs, undo, slips>>
    <2>1. Readable(q.p) /\ (q.p.op = "supersede" => Supersedable(cat, q.p))
      BY <1>3 DEF Apply
    <2>2. /\ Commit(r, q.p.op, res, q.id) /\ NewIds(cat', 0)
          /\ slips' = slips \cup Disorder(r)
                       \cup (IF t = View(cat).node THEN {} ELSE {"stale"})
                       \cup (IF Nested(q.p) THEN {"nested"} ELSE {})
                       \cup (IF Tangled(q.p) THEN {"tangled"} ELSE {})
      BY <1>3 DEF Apply
    <2>3. WellFormed(q.p) BY DEF IsProposal
    <2>4. TablesOK /\ DOMAIN runs = 1..Len(runs) /\ Len(runs) \in Nat BY States
    <2>5. r \in 1..Len(runs) /\ r \in 0..Len(runs) BY <1>1, <2>4
    <2>6. ResultOK(res, newest.node, Len(runs)) BY <2>1, <2>3, <2>4, <2>5, EffectFacts
    <2>7. slips \cup Disorder(r) \subseteq slips' /\ (Tangled(q.p) => "tangled" \in slips')
      <3> HIDE DEF res, r
      <3> QED BY <2>2
    <2>8. "refile" \in slips' <=> "refile" \in slips
      <3> HIDE DEF res, r
      <3>1. "refile" \notin Disorder(r) BY DEF Disorder
      <3> QED BY <2>2, <3>1
    <2>9. Clean' => Inverts(res.image, res.c, cat, newest.node, newest.link, r) /\ SupOK(res.c.sup)
      <3> SUFFICES ASSUME Clean' PROVE Inverts(res.image, res.c, cat, newest.node, newest.link, r) /\ SupOK(res.c.sup)
        OBVIOUS
      <3>1. Clean BY <2>7, NewestOrLater
      <3>2. SupOK(cat.sup) BY <3>1 DEF UndoInv, PastOK
      <3>3. ~Tangled(q.p) BY <2>7 DEF Clean
      <3>4. PICK p, run : p = q.p /\ run = r OBVIOUS
      <3>5. /\ WellFormed(p) /\ Readable(p) /\ ~Tangled(p) /\ run \in 1..Len(runs)
            /\ p.op = "supersede" => Supersedable(cat, p)
        BY <2>1, <2>3, <2>5, <3>3, <3>4
      <3>6. /\ Inverts(Effect(p, run).image, Effect(p, run).c, cat, newest.node, newest.link, run)
            /\ SupOK(Effect(p, run).c.sup)
        BY ONLY <2>4, <3>2, <3>5, EffectInverts
      <3> QED BY <3>4, <3>6
    <2> HIDE DEF res
    <2>10. DOMAIN runs' = DOMAIN runs /\ \A k \in DOMAIN runs : runs'[k].mode = runs[k].mode
      BY <2>2, JournalModes DEF Commit
    <2>11. PassModes' BY <2>10, StillPasses
    <2>12. PICK op, id, run : op = q.p.op /\ id = q.id /\ run = r OBVIOUS
    <2>13. /\ Commit(run, op, res, id) /\ slips \cup Disorder(run) \subseteq slips'
           /\ run \in DOMAIN runs /\ runs[run].mode # "revert"
           /\ Clean' => Inverts(res.image, res.c, cat, newest.node, newest.link, run) /\ SupOK(res.c.sup)
      BY <1>1, <2>2, <2>7, <2>9, <2>12
    <2> QED BY <2>2, <2>6, <2>8, <2>11, <2>13, CommitUndo
  <1> QED BY <1>2, <1>3

\* A proposal got a verdict, or none.
LEMMA JudgedUndo ==
    ASSUME CatInv, CatInv', UndoInv, NEW w \in Workers, pass[w].pc # "idle",
           NEW q, IsProposal(q, newest.prop), NEW t, UNCHANGED horizon,
           NEW x, pass' = [pass EXCEPT ![w] = x], x.run = pass[w].run,
           \/ \E outcome \in {"expired", "refused"} : Settle(pass[w].run, q, outcome)
           \/ Apply(w, q, t)
           \/ UNCHANGED <<cat, newest, runs, undo, slips>>
    PROVE  UndoInv'
  <1>1. ASSUME NEW outcome \in {"expired", "refused"}, Settle(pass[w].run, q, outcome) PROVE UndoInv'
    <2>1. DOMAIN runs' = DOMAIN runs /\ \A k \in DOMAIN runs : runs'[k].mode = runs[k].mode
      BY <1>1, JournalModes DEF Settle
    <2>2. PassModes' BY <2>1, StillPasses
    <2>3. PICK r : r = pass[w].run OBVIOUS
    <2>4. Settle(r, q, outcome) BY <1>1, <2>3
    <2> QED BY <1>1, <2>2, <2>4, SettledUndo
  <1>2. CASE Apply(w, q, t) BY <1>2, ApplyUndo
  <1>3. CASE UNCHANGED <<cat, newest, runs, undo, slips>>
    <2>1. PassModes' BY <1>3, StillPasses
    <2> QED BY <1>3, <2>1, WaitsUndo
  <1> QED BY <1>1, <1>2, <1>3

LEMMA AdjudicateUndo ==
    ASSUME CatInv, CatInv', UndoInv, NEW w \in Workers, Adjudicate(w)
    PROVE  UndoInv'
  <1> DEFINE q == Oldest(pass[w].due)
             r == pass[w].run
             next == [pass[w] EXCEPT !.due = @ \ {q}]
             asked == [next EXCEPT !.verify = @ \cup {q}]
             t == pass[w].tree
  <1>1. \A o \in pass[w].due \cup pass[w].verify : IsProposal(o, newest.prop) BY Passes
  <1>2. q \in pass[w].due
    <2>1. pass[w].due # {} BY DEF Adjudicate
    <2> QED BY <1>1, <2>1, OldestFacts
  <1>3. IsProposal(q, newest.prop) BY <1>1, <1>2
  <1>4. next.run = r /\ asked.run = r
    <2>1. PICK y, o : y = pass[w] /\ o = q OBVIOUS
    <2>2. y = [pc |-> y.pc, run |-> y.run, staged |-> y.staged, due |-> y.due, verify |-> y.verify,
               tree |-> y.tree, kept |-> y.kept]
      BY <2>1 DEF CatInv, PassesOK, IsPass
    <2>3. next = [y EXCEPT !.due = y.due \ {o}] BY <2>1, <2>2
    <2> HIDE DEF q
    <2>4. next = [pc |-> y.pc, run |-> y.run, staged |-> y.staged, due |-> y.due \ {o}, verify |-> y.verify,
                  tree |-> y.tree, kept |-> y.kept]
      BY <2>2, <2>3
    <2>5. asked = [next EXCEPT !.verify = y.verify \cup {o}] BY <2>1, <2>4
    <2> HIDE DEF next
    <2>6. asked.run = next.run /\ next.run = y.run BY <2>4, <2>5
    <2> QED BY <2>1, <2>6
  <1>5. /\ \/ Settle(r, q, "expired") /\ pass' = [pass EXCEPT ![w] = next]
           \/ Wait(q, q.attempts, r + 1) /\ pass' = [pass EXCEPT ![w] = next]
           \/ Apply(w, q, t) /\ pass' = [pass EXCEPT ![w] = next]
           \/ Settle(r, q, "refused") /\ pass' = [pass EXCEPT ![w] = next]
           \/ pass' = [pass EXCEPT ![w] = asked] /\ UNCHANGED <<cat, newest, runs, queue, undo, slips>>
        /\ UNCHANGED <<horizon, kept, menu>>
    BY Zenon DEF Adjudicate
  <1>6. pass[w].pc # "idle" BY DEF Adjudicate
  <1> HIDE DEF q, r, next, asked, t
  <1>7. /\ \/ \E outcome \in {"expired", "refused"} : Settle(r, q, outcome)
           \/ Apply(w, q, t)
           \/ UNCHANGED <<cat, newest, runs, undo, slips>>
        /\ pass' = [pass EXCEPT ![w] = next] \/ pass' = [pass EXCEPT ![w] = asked]
    BY <1>5 DEF Wait
  <1>8. PICK x : pass' = [pass EXCEPT ![w] = x] /\ x.run = r BY <1>4, <1>7
  <1> QED BY <1>3, <1>5, <1>6, <1>7, <1>8, JudgedUndo DEF r

LEMMA VerifiedUndo ==
    ASSUME CatInv, CatInv', UndoInv, NEW w \in Workers, Verified(w)
    PROVE  UndoInv'
  <1> DEFINE q == NextAsked(pass[w].verify)
             r == pass[w].run
             t == pass[w].tree
             x == [pass[w] EXCEPT !.verify = @ \ {q}]
  <1>1. \A o \in pass[w].due \cup pass[w].verify : IsProposal(o, newest.prop) BY Passes
  <1>2. q \in pass[w].verify
    <2>1. pass[w].verify # {} BY DEF Verified
    <2> QED BY <1>1, <2>1, NextAskedFacts
  <1>3. IsProposal(q, newest.prop) BY <1>1, <1>2
  <1>4. /\ \/ Apply(w, q, t) \/ Settle(r, q, "refused") \/ Defer(r, q)
        /\ pass' = [pass EXCEPT ![w].verify = @ \ {q}]
        /\ UNCHANGED <<horizon, kept, menu>> /\ pass[w].pc # "idle"
    BY DEF Verified
  <1> HIDE DEF q
  <1>5. pass' = [pass EXCEPT ![w] = x] BY <1>4
  <1>6. x.run = r
    <2>1. pass[w] = [pc |-> pass[w].pc, run |-> pass[w].run, staged |-> pass[w].staged,
                     due |-> pass[w].due, verify |-> pass[w].verify,
                     tree |-> pass[w].tree, kept |-> pass[w].kept]
      BY DEF CatInv, PassesOK, IsPass
    <2> QED BY <2>1
  <1> HIDE DEF r, t, x
  <1>7. \/ \E outcome \in {"expired", "refused"} : Settle(r, q, outcome)
        \/ Apply(w, q, t)
        \/ UNCHANGED <<cat, newest, runs, undo, slips>>
    BY <1>4 DEF Defer, Wait
  <1>8. PICK y : pass' = [pass EXCEPT ![w] = y] /\ y.run = r BY <1>5, <1>6
  <1> QED BY <1>3, <1>4, <1>7, <1>8, JudgedUndo DEF r

\* A class is made, and an item is filed.
LEMMA PastCreate ==
    ASSUME NEW c, NEW K \in Nat, NEW L \in Nat, NEW rs, NEW rs2, NEW u, NEW u2, NEW h \in Nat,
           NEW refiled \in BOOLEAN, NEW r, NEW row, NEW b, Writes(rs, rs2, u, u2, r, row, b),
           b.cat = c, b.new.node = K, b.new.link = L, Newest(u, r), PastOK(c, K, L, rs, u, h, refiled),
           NEW parent, NEW title, NEW res, res = Create(c, K + 1, parent, title), row.image = res.image,
           Table(res.c), Bounded(res.c, K + 1, L)
    PROVE  PastOK(res.c, K + 1, L, rs2, u2, h, refiled)
  <1>1. Table(c) /\ Bounded(c, K, L) /\ SupOK(c.sup) BY DEF PastOK
  <1>2. c.sup = [s \in DOMAIN c.sup |-> c.sup[s]] BY <1>1 DEF SupOK
  <1>3. Inverts(res.image, res.c, c, K, L, r) BY <1>1, <1>2, CreateInverts
  <1>4. res.c.sup = c.sup BY <1>1, SupKept
  <1>5. PICK c2, K2 : c2 = res.c /\ K2 = K + 1 OBVIOUS
  <1>6. /\ K2 \in Nat /\ K <= K2 /\ L <= L /\ Table(c2) /\ Bounded(c2, K2, L) /\ SupOK(c2.sup)
        /\ Inverts(row.image, c2, c, K, L, r)
    BY <1>1, <1>3, <1>4, <1>5
  <1>7. PastOK(c2, K2, L, rs2, u2, h, refiled) BY <1>6, PastMore
  <1> QED BY <1>5, <1>7

LEMMA PastFile ==
    ASSUME NEW c, NEW K \in Nat, NEW L \in Nat, NEW K2 \in Nat, NEW L2 \in Nat, K <= K2, L <= L2,
           NEW rs, NEW rs2, NEW u, NEW u2, NEW h \in Nat,
           NEW refiled \in BOOLEAN, NEW r, NEW row, NEW b, Writes(rs, rs2, u, u2, r, row, b),
           b.cat = c, b.new.node = K, b.new.link = L, Newest(u, r), PastOK(c, K, L, rs, u, h, refiled),
           NEW n, NEW item, NEW res, res = File(c, L + 1, n, item), row.image = res.image,
           Table(res.c), Bounded(res.c, K2, L2)
    PROVE  PastOK(res.c, K2, L2, rs2, u2, h, refiled)
  <1>1. Table(c) /\ Bounded(c, K, L) /\ SupOK(c.sup) BY DEF PastOK
  <1>2. c.sup = [s \in DOMAIN c.sup |-> c.sup[s]] BY <1>1 DEF SupOK
  <1>3. Inverts(res.image, res.c, c, K, L, r) BY <1>1, <1>2, FileInverts
  <1>4. res.c.sup = c.sup BY <1>1, SupKept
  <1>5. PICK c2 : c2 = res.c OBVIOUS
  <1>6. /\ Table(c2) /\ Bounded(c2, K2, L2) /\ SupOK(c2.sup)
        /\ Inverts(row.image, c2, c, K, L, r)
    BY <1>1, <1>3, <1>4, <1>5
  <1>7. PastOK(c2, K2, L2, rs2, u2, h, refiled) BY <1>6, PastMore
  <1> QED BY <1>5, <1>7

\* c2 is c with the links ids marked under r: what a filing does with the
\* inbox links of its item.
Parked(c, c2, ids, r) ==
    /\ \A l \in ids \cap DOMAIN c.link : c.link[l].by = 0
    /\ r # 0
    /\ c2 = [c EXCEPT !.link = [l \in DOMAIN c.link |-> IF l \in ids THEN [c.link[l] EXCEPT !.by = r] ELSE c.link[l]]]

\* Links are marked that nobody journals.
LEMMA PastParked ==
    ASSUME NEW c, NEW K \in Nat, NEW L \in Nat, NEW rs, NEW u, NEW h \in Nat,
           NEW refiled \in BOOLEAN, PastOK(c, K, L, rs, u, h, refiled),
           NEW ids, NEW r, NEW c2, Parked(c, c2, ids, r), Table(c2), Bounded(c2, K, L), \A k \in DOMAIN u : k \in Nat,
           NEW refiled2 \in BOOLEAN, refiled => refiled2, ids # {} => refiled2
    PROVE  PastOK(c2, K, L, rs, u, h, refiled2)
  <1>1. Table(c) /\ Bounded(c, K, L) /\ MarkedBy(c, Reverts(rs) \cup DOMAIN u) BY DEF PastOK
  <1>0. PICK M : /\ M = [l \in DOMAIN c.link |-> IF l \in ids THEN [c.link[l] EXCEPT !.by = r] ELSE c.link[l]]
                 /\ c2 = [c EXCEPT !.link = M]
    BY DEF Parked
  <1>9. (\A l \in ids \cap DOMAIN c.link : c.link[l].by = 0) /\ r # 0 BY DEF Parked
  <1>2. c = [node |-> c.node, link |-> c.link, sup |-> c.sup] BY <1>1 DEF Table
  <1>3. c2.node = c.node /\ c2.link = M /\ c2.sup = c.sup
    <2>1. c2 = [node |-> c.node, link |-> M, sup |-> c.sup] BY <1>0, <1>2, CatChanged
    <2> QED BY <2>1
  <1>4. MarkedBy(c2, Reverts(rs) \cup DOMAIN u) BY <1>1, <1>3 DEF MarkedBy
  <1>5. ASSUME NEW l \in DOMAIN c.link PROVE SameLink(c2, c, l, refiled2)
    <2>1. PICK x : x = c.link[l] OBVIOUS
    <2>2. x = [node |-> x.node, item |-> x.item, by |-> x.by] BY <1>1, <2>1 DEF Table
    <2>3. CASE l \in ids
      <3>1. M[l] = [x EXCEPT !.by = r] /\ x.by = 0 /\ refiled2 BY <1>0, <1>9, <2>1, <2>3
      <3>2. M[l].node = x.node /\ M[l].item = x.item /\ M[l].by = r BY <2>2, <3>1, LinkFields
      <3> QED BY <1>3, <1>9, <2>1, <3>1, <3>2 DEF SameLink
    <2>4. CASE l \notin ids
      <3>1. M[l] = c.link[l] BY <1>0, <2>4
      <3> QED BY <1>3, <3>1 DEF SameLink
    <2> QED BY <2>3, <2>4
  <1>6. DOMAIN M = DOMAIN c.link BY <1>0
  <1>7. PICK h2, S, K2, L2, rs2 : h2 = h /\ S = Reverts(rs) /\ K2 = K /\ L2 = L /\ rs2 = rs OBVIOUS
  <1>8. Stands(c2, c, K, L, h2, 0, Reverts(rs2), refiled2)
    <2>1. NodesStand(c2, c, K, h2, 0, S) BY <1>3 DEF NodesStand, SameNode
    <2>2. LinksStand(c2, c, K, L, h2, refiled2) BY <1>3, <1>5, <1>6 DEF LinksStand
    <2> QED BY <1>3, <1>7, <2>1, <2>2 DEF Stands
  <1>12. SameWrites(rs, rs2, u, h2) BY <1>7 DEF SameWrites
  <1>10. /\ h2 \in Nat /\ h <= h2 /\ K2 \in Nat /\ L2 \in Nat /\ K <= K2 /\ L <= L2 /\ Bounded(c2, K2, L2)
         /\ MarkedBy(c2, Reverts(rs2) \cup DOMAIN u) /\ c2.sup = c.sup
    BY <1>3, <1>4, <1>7
  <1>11. /\ K \in Nat /\ L \in Nat /\ h \in Nat /\ refiled \in BOOLEAN /\ refiled2 \in BOOLEAN
         /\ (refiled => refiled2) /\ Table(c2) /\ PastOK(c, K, L, rs, u, h, refiled)
         /\ \A k \in DOMAIN u : k \in Nat
    OBVIOUS
  <1>13. PastOK(c2, K2, L2, rs2, u, h2, refiled2)
    BY ONLY <1>8, <1>12, <1>10, <1>11, PastFrom, SMTT(60)
  <1> QED BY <1>7, <1>13

\* A link that was live is live after a filing.
LEMMA FileLive ==
    ASSUME NEW c, Table(c), NEW id, id \notin DOMAIN c.link, NEW n, NEW item, NEW l \in DOMAIN c.link, c.link[l].by = 0
    PROVE  l \in DOMAIN File(c, id, n, item).c.link /\ File(c, id, n, item).c.link[l].by = 0
  <1>1. c = [node |-> c.node, link |-> c.link, sup |-> c.sup] BY DEF Table
  <1>2. CASE Held(c, n, item) = {}
    <2>1. PICK M : M = Put(c.link, id, NewLink(n, item)) OBVIOUS
    <2>2. File(c, id, n, item).c = [c EXCEPT !.link = M] BY <1>2, <2>1 DEF File, Result
    <2>3. [c EXCEPT !.link = M] = [node |-> c.node, link |-> M, sup |-> c.sup] BY <1>1, CatChanged
    <2>4. l \in DOMAIN M /\ M[l] = c.link[l] BY <2>1 DEF Put
    <2> QED BY <2>2, <2>3, <2>4
  <1>3. CASE Held(c, n, item) # {}
    <2>1. PICK k : File(c, id, n, item).c = [c EXCEPT !.link[k].by = 0] BY <1>3 DEF File, Result
    <2>2. PICK t, M : t = c.link /\ M = [t EXCEPT ![k].by = 0] OBVIOUS
    <2>3. [c EXCEPT !.link[k].by = 0] = [c EXCEPT !.link = M] BY <2>2
    <2>4. [c EXCEPT !.link = M] = [node |-> c.node, link |-> M, sup |-> c.sup] BY <1>1, CatChanged
    <2>5. l \in DOMAIN M /\ M[l].by = 0
      <3>1. PICK x : x = t[l] OBVIOUS
      <3>2. x = [node |-> x.node, item |-> x.item, by |-> x.by] BY <2>2, <3>1 DEF Table
      <3>3. M[l] = x \/ M[l] = [x EXCEPT !.by = 0] BY <2>2, <3>1
      <3> QED BY <2>2, <3>1, <3>2, <3>3, LinkFields
    <2> QED BY <2>1, <2>3, <2>4, <2>5
  <1> QED BY <1>2, <1>3

\* The rows after a class was made.
LEMMA CreatedTable ==
    ASSUME NEW K \in Nat, NEW L \in Nat, NEW R \in Nat, NEW c, RowsOK(c, K, L, K, R), NEW parent, NEW title
    PROVE  Table(Create(c, K + 1, parent, title).c) /\ Bounded(Create(c, K + 1, parent, title).c, K + 1, L)
  <1>1. PICK d : d = Create(c, K + 1, parent, title).c OBVIOUS
  <1>2. K + 1 \in Nat \ {0} /\ K + (K + 1) \in Nat OBVIOUS
  <1>3. /\ RowsOK(d, K + (K + 1), L, K, R)
        /\ DOMAIN d.node = DOMAIN c.node \cup {K + 1} /\ d.link = c.link
    BY <1>1, <1>2, CreateFacts
  <1>4. Table(c) /\ Bounded(c, K, L) BY RowsAreTable
  <1>5. /\ d = [node |-> d.node, link |-> d.link, sup |-> d.sup]
        /\ \A n \in DOMAIN d.node : IsNode(d.node[n], R)
    BY <1>2, <1>3, RowsParts
  <1>6. \A n \in DOMAIN d.node : n \in Nat /\ n \in 1..(K + 1)
    <2>1. \A n \in 1..K : n \in Nat /\ n \in 1..(K + 1) OBVIOUS
    <2>2. K + 1 \in Nat /\ K + 1 \in 1..(K + 1) OBVIOUS
    <2> QED BY <1>3, <1>4, <2>1, <2>2 DEF Bounded
  <1>7. 1..K \subseteq 1..(K + 1) OBVIOUS
  <1>8. Table(d) BY <1>3, <1>4, <1>5, <1>6 DEF Table, IsNode, LinksUnique
  <1>9. Bounded(d, K + 1, L) BY <1>3, <1>4, <1>6, <1>7 DEF Bounded
  <1> QED BY <1>1, <1>8, <1>9

LEMMA StageFileUndo ==
    ASSUME CatInv, CatInv', UndoInv, NEW w \in Workers, NEW a, StageFile(w, a)
    PROVE  UndoInv'
  <1> DEFINE nb == newest.node
             L == newest.link
             R == Len(runs)
             r == pass[w].run
             subs == IF a.sub = "" THEN {a.parent} ELSE Siblings(cat, a.parent, a.sub)
             made == Create(cat, nb + 1, a.parent, a.sub)
             base == IF subs = {} THEN made.c ELSE cat
             class == IF subs = {} THEN nb + 1 ELSE Min(subs)
             res == File(base, L + 1, class, a.item)
             parked == {l \in LiveRows(cat.link) : a.refile /\ cat.link[l].item = a.item
                                                   /\ cat.node[cat.link[l].node].title = "~inbox"}
             M == [l \in DOMAIN res.c.link |->
                     IF l \in parked THEN [res.c.link[l] EXCEPT !.by = r] ELSE res.c.link[l]]
             row1 == Row("create", made, 0)
             row2 == Row("file", res, 0)
             rs == IF subs = {} THEN Journal(runs, r, row1) ELSE runs
             b == [cat |-> cat, new |-> newest]
  <1>1. /\ nb \in Nat /\ L \in Nat /\ R \in Nat /\ RowsOK(cat, nb, L, nb, R)
        /\ Table(cat) /\ Bounded(cat, nb, L) /\ RunsOK(runs, nb, R)
        /\ \A k \in DOMAIN runs : k \in Nat /\ IsSeq(runs[k].ops)
        /\ horizon \in Nat
    BY States
  <1>2. /\ pass[w].pc # "idle"
        /\ cat' = [res.c EXCEPT !.link = M]
        /\ runs' = Journal(rs, r, row2)
        /\ Staged(w)
        /\ undo' = IF r \in DOMAIN undo THEN undo ELSE Put(undo, r, b)
        /\ slips' = slips \cup Disorder(r) \cup (IF parked = {} THEN {} ELSE {"refile"})
        /\ UNCHANGED horizon
    BY DEF StageFile, Staging, Remember
  <1>3. r \in DOMAIN runs /\ runs[r].mode # "revert" /\ r \in Nat /\ r # 0
    <2>1. r \in DOMAIN runs /\ runs[r].mode # "revert" BY <1>2, OwnRun
    <2>2. DOMAIN runs = 1..R BY States
    <2> QED BY <1>1, <2>1, <2>2
  <1>4. /\ RowsOK(made.c, nb + (nb + 1), L, nb, R) /\ ImageOK(made.image, nb, R) /\ nb + (nb + 1) \in Nat
        /\ nb + 1 \in DOMAIN made.c.node
        /\ res.c.node = base.node
        /\ newest'.node \in Nat /\ newest'.link \in Nat
        /\ nb <= newest'.node /\ L <= newest'.link
        /\ RowsOK(res.c, newest'.node, newest'.link, newest'.node, R)
    BY FiledRows
  <1>5. /\ DOMAIN made.c.node = DOMAIN cat.node \cup {nb + 1} /\ made.c.link = cat.link
    <2>1. PICK i, p, t : i = nb + 1 /\ p = a.parent /\ t = a.sub OBVIOUS
    <2>2. PICK c, k, m, n : c = cat /\ k = nb /\ m = L /\ n = R OBVIOUS
    <2>3. i \in Nat \ {0} /\ k \in Nat /\ m \in Nat /\ n \in Nat /\ RowsOK(c, k, m, k, n)
      BY <1>1, <2>1, <2>2
    <2> HIDE DEF nb, L, R, r, subs, base, class, res, parked, M, row1, row2, rs, b
    <2>4. DOMAIN Create(c, i, p, t).c.node = DOMAIN c.node \cup {i} /\ Create(c, i, p, t).c.link = c.link
      BY <2>3, CreateFacts
    <2> QED BY <2>1, <2>2, <2>4
  <1>6. row1.outcome = "applied" /\ row1.image = made.image /\ row2.outcome = "applied" /\ row2.image = res.image
    BY DEF Row, OpRow
  <1>7. /\ made = Create(cat, nb + 1, a.parent, a.sub) /\ res = File(base, L + 1, class, a.item)
        /\ (subs = {} => base = made.c /\ rs = Journal(runs, r, row1))
        /\ (subs # {} => base = cat /\ rs = runs)
        /\ b.cat = cat /\ b.new.node = nb /\ b.new.link = L
        /\ parked \subseteq DOMAIN cat.link /\ \A l \in parked : cat.link[l].by = 0
    BY DEF LiveRows
  <1>8. IsOp(row1, nb, R)
    <2>1. ImageOK(made.image, nb, R) BY <1>4
    <2> QED BY <2>1 DEF IsOp, Row, OpRow, OpOutcomes
  <1>9. Table(made.c) /\ Bounded(made.c, nb + 1, L)
    <2>1. PICK c, K, p, t : c = cat /\ K = nb /\ p = a.parent /\ t = a.sub OBVIOUS
    <2>2. K \in Nat /\ L \in Nat /\ R \in Nat /\ RowsOK(c, K, L, K, R) BY <1>1, <2>1
    <2>3. Table(Create(c, K + 1, p, t).c) /\ Bounded(Create(c, K + 1, p, t).c, K + 1, L)
      BY ONLY <2>2, CreatedTable
    <2> QED BY <2>1, <2>3
  <1>10. (Table(cat) /\ Bounded(cat, newest.node, newest.link))' BY States, PTL
  <1> HIDE DEF made, subs, base, class, res, parked, row1, row2, rs, b, r
  <1>11. /\ RunsOK(rs, nb, R) /\ DOMAIN rs = DOMAIN runs /\ rs[r].mode # "revert" /\ IsSeq(rs[r].ops)
         /\ \A k \in DOMAIN runs : rs[k].mode = runs[k].mode /\ (k # r => rs[k].ops = runs[k].ops)
         /\ subs = {} => rs[r].ops = Append(runs[r].ops, row1)
    <2>1. CASE subs = {}
      <3>1. RunsOK(Journal(runs, r, row1), nb, R) BY <1>1, <1>8, JournalFacts
      <3>2. RunsOK(rs, nb, R) BY <1>7, <2>1, <3>1
      <3>3. /\ DOMAIN rs = DOMAIN runs
            /\ \A k \in DOMAIN runs : rs[k].mode = runs[k].mode /\ (k # r => rs[k].ops = runs[k].ops)
            /\ rs[r].ops = Append(runs[r].ops, row1)
        BY <1>1, <1>3, <1>7, <2>1, JournalOps
      <3>4. IsSeq(rs[r].ops) BY <1>3, <3>2, <3>3 DEF RunsOK, IsRun
      <3> QED BY <1>3, <3>2, <3>3, <3>4
    <2>2. CASE subs # {} BY <1>1, <1>3, <1>7, <2>2
    <2> QED BY <2>1, <2>2
  <1>12. /\ DOMAIN runs' = DOMAIN rs
         /\ \A k \in DOMAIN rs : runs'[k].mode = rs[k].mode /\ (k # r => runs'[k].ops = rs[k].ops)
         /\ runs'[r].ops = Append(rs[r].ops, row2)
    <2>1. PICK s : s = rs OBVIOUS
    <2>2. RunsOK(s, nb, R) /\ r \in DOMAIN s /\ runs' = Journal(s, r, row2) BY <1>2, <1>3, <1>11, <2>1
    <2>3. /\ DOMAIN runs' = DOMAIN s
          /\ \A k \in DOMAIN s : runs'[k].mode = s[k].mode /\ (k # r => runs'[k].ops = s[k].ops)
          /\ runs'[r].ops = Append(s[r].ops, row2)
      BY <2>2, JournalOps
    <2> QED BY <2>1, <2>3
  <1>13. PassModes' BY <1>2, <1>11, <1>12, StagedModes
  <1>14. Known(runs, undo) /\ \A k \in DOMAIN undo : k \in Nat
    <2>1. Known(runs, undo) BY DEF UndoInv
    <2> QED BY <1>1, <2>1 DEF Known
  <1>15. subs = {} => Writes(runs, rs, undo, undo', r, row1, b)
    BY <1>1, <1>2, <1>3, <1>6, <1>11, <1>14 DEF Writes
  <1>16. PICK ub, Kb, bb :
           /\ ub = IF subs = {} THEN undo' ELSE undo
           /\ Kb = IF subs = {} THEN nb + 1 ELSE nb
           /\ bb = [cat |-> base, new |-> [node |-> Kb, link |-> L]]
    OBVIOUS
  <1>17. r \in DOMAIN undo'
    <2>1. CASE r \in DOMAIN undo BY <1>2, <2>1
    <2>2. CASE r \notin DOMAIN undo BY <1>2, <2>2 DEF Put
    <2> QED BY <2>1, <2>2
  <1>18. \E d : d.cat = base /\ d.new.node = Kb /\ d.new.link = L /\ Writes(rs, runs', ub, undo', r, row2, d)
    <2>1. CASE subs = {}
      <3>1. ub = undo' BY <1>16, <2>1
      <3>2. Known(rs, ub) /\ \A k \in DOMAIN ub : k \in Nat BY <1>15, <2>1, <3>1, KnownMore
      <3>3. Writes(rs, runs', ub, undo', r, row2, bb)
        BY <1>3, <1>6, <1>11, <1>12, <1>17, <3>1, <3>2 DEF Writes
      <3>4. bb.cat = base /\ bb.new.node = Kb /\ bb.new.link = L BY <1>16
      <3> QED BY <3>3, <3>4
    <2>2. CASE subs # {}
      <3>1. ub = undo /\ Kb = nb /\ base = cat /\ rs = runs BY <1>7, <1>16, <2>2
      <3>2. Writes(rs, runs', ub, undo', r, row2, b)
        BY <1>1, <1>2, <1>3, <1>6, <1>12, <1>14, <3>1 DEF Writes
      <3> QED BY <1>7, <3>1, <3>2
    <2> QED BY <2>1, <2>2
  <1>19. PICK d : d.cat = base /\ d.new.node = Kb /\ d.new.link = L /\ Writes(rs, runs', ub, undo', r, row2, d)
    BY <1>18
  <1>20. Known(runs', undo') /\ \A k \in DOMAIN undo' : k \in Nat BY <1>19, KnownMore
  <1>21. ASSUME Clean' PROVE PastOK(cat', newest'.node, newest'.link, runs', undo', horizon', "refile" \in slips')
    <2>1. slips \cup Disorder(r) \subseteq slips' BY <1>2
    <2>2. Newest(undo, r) /\ Clean BY <1>21, <2>1, NewestOrLater
    <2>3. PICK K, c, u, u2, s, s0, s2, h, refiled, refiled2 :
             /\ K = nb /\ c = cat /\ u = undo /\ u2 = undo' /\ s0 = runs /\ s = rs /\ s2 = runs' /\ h = horizon
             /\ refiled = ("refile" \in slips) /\ refiled2 = ("refile" \in slips')
      OBVIOUS
    <2>4. /\ K \in Nat /\ L \in Nat /\ h \in Nat /\ refiled \in BOOLEAN /\ refiled2 \in BOOLEAN
          /\ (refiled => refiled2) /\ (parked # {} => refiled2)
      <3>1. K \in Nat /\ L \in Nat /\ h \in Nat BY <1>1, <2>3
      <3>2. refiled \in BOOLEAN /\ refiled2 \in BOOLEAN BY <2>3
      <3>3. slips \subseteq slips' BY <1>2
      <3>4. refiled => refiled2 BY <2>3, <3>3
      <3>5. parked # {} => "refile" \in slips' BY <1>2
      <3>6. parked # {} => refiled2 BY <2>3, <3>5
      <3> HIDE DEF nb, L
      <3> QED BY <3>1, <3>2, <3>4, <3>6
    <2>5. PastOK(c, K, L, s0, u, h, refiled) BY <2>2, <2>3 DEF UndoInv
    <2>6. PastOK(base, Kb, L, s, ub, h, refiled) /\ Newest(ub, r)
      <3>1. CASE subs = {}
        <4>1. Writes(s0, s, u, u2, r, row1, b) /\ Newest(u, r) BY <1>15, <2>2, <2>3, <3>1
        <4>2. b.cat = c /\ b.new.node = K /\ b.new.link = L BY <1>7, <2>3
        <4>3. PICK p, t : p = a.parent /\ t = a.sub OBVIOUS
        <4>4. made = Create(c, K + 1, p, t) /\ row1.image = made.image /\ Table(made.c) /\ Bounded(made.c, K + 1, L)
          BY <1>6, <1>7, <1>9, <2>3, <4>3
        <4>5. PastOK(made.c, K + 1, L, s, u2, h, refiled)
          BY ONLY <2>4, <2>5, <4>1, <4>2, <4>4, PastCreate, SMTT(60)
        <4>6. Newest(ub, r)
          <5>1. ub = undo' /\ DOMAIN undo' = DOMAIN undo \cup {r}
            <6>1. CASE r \in DOMAIN undo BY <1>2, <1>16, <3>1, <6>1
            <6>2. CASE r \notin DOMAIN undo BY <1>2, <1>16, <3>1, <6>2 DEF Put
            <6> QED BY <6>1, <6>2
          <5>2. ~(r > r) BY <1>3
          <5> QED BY <2>2, <5>1, <5>2 DEF Newest
        <4> QED BY <1>7, <1>16, <2>3, <3>1, <4>5, <4>6
      <3>2. CASE subs # {} BY <1>7, <1>16, <2>2, <2>3, <2>5, <3>2
      <3> QED BY <3>1, <3>2
    <2>7. PICK K2, L2 : K2 = newest'.node /\ L2 = newest'.link OBVIOUS
    <2>8. Table(res.c) /\ Bounded(res.c, K2, L2) /\ K2 \in Nat /\ L2 \in Nat /\ Kb \in Nat /\ Kb <= K2 /\ L <= L2
      <3>1. RowsOK(res.c, K2, L2, K2, R) /\ K2 \in Nat /\ L2 \in Nat /\ nb <= K2 /\ L <= L2 BY <1>4, <2>7
      <3>2. Table(res.c) /\ Bounded(res.c, K2, L2) BY <1>1, <3>1, RowsAreTable
      <3>3. subs = {} => nb + 1 \in 1..K2 BY <1>4, <1>7, <3>2 DEF Bounded
      <3>4. Kb \in Nat /\ Kb <= K2 BY <1>1, <1>16, <3>1, <3>3
      <3> QED BY <3>1, <3>2, <3>4
    <2>9. PastOK(res.c, K2, L2, s2, u2, h, refiled)
      <3>1. Writes(s, s2, ub, u2, r, row2, d) /\ d.cat = base /\ d.new.node = Kb /\ d.new.link = L
        BY <1>19, <2>3
      <3>2. PICK i, n, c0 : i = a.item /\ n = class /\ c0 = base OBVIOUS
      <3>3. res = File(c0, L + 1, n, i) /\ row2.image = res.image BY <1>6, <1>7, <3>2
      <3>4. d.cat = c0 /\ PastOK(c0, Kb, L, s, ub, h, refiled) /\ Newest(ub, r) BY <2>6, <3>1, <3>2
      <3> QED BY ONLY <2>4, <2>8, <3>1, <3>3, <3>4, PastFile, SMTT(60)
    <2>10. \A l \in parked \cap DOMAIN res.c.link : res.c.link[l].by = 0
      <3>1. Table(base) /\ base.link = cat.link BY <1>1, <1>5, <1>7, <1>9
      <3>2. L + 1 \notin DOMAIN base.link
        <4>1. L + 1 \notin 1..L BY <1>1
        <4> QED BY <1>1, <3>1, <4>1 DEF Bounded
      <3>3. PICK c0, i, n, it : c0 = base /\ i = L + 1 /\ n = class /\ it = a.item OBVIOUS
      <3>4. \A l \in DOMAIN c0.link : c0.link[l].by = 0 => File(c0, i, n, it).c.link[l].by = 0
        BY <3>1, <3>2, <3>3, FileLive
      <3> QED BY <1>7, <3>1, <3>3, <3>4
    <2>11. PICK c1, c2 : c1 = res.c /\ c2 = cat' OBVIOUS
    <2>12. /\ Table(c2) /\ Bounded(c2, K2, L2) /\ PastOK(c1, K2, L2, s2, u2, h, refiled)
           /\ \A l \in parked \cap DOMAIN c1.link : c1.link[l].by = 0
           /\ \A k \in DOMAIN u2 : k \in Nat
      BY <1>10, <1>20, <2>3, <2>7, <2>9, <2>10, <2>11
    <2>13. PICK N : /\ N = [l \in DOMAIN c1.link |-> IF l \in parked THEN [c1.link[l] EXCEPT !.by = r] ELSE c1.link[l]]
                    /\ c2 = [c1 EXCEPT !.link = N]
      BY <1>2, <2>11
    <2>14. PastOK(c2, K2, L2, s2, u2, h, refiled2)
      <3>1. PICK ids, x, J : ids = parked /\ x = r /\ J = L OBVIOUS
      <3>2. /\ \A l \in ids \cap DOMAIN c1.link : c1.link[l].by = 0
            /\ ids # {} => refiled2
            /\ x # 0
        BY <1>3, <2>4, <2>12, <3>1
      <3>3. Parked(c1, c2, ids, x) BY <2>13, <3>1, <3>2 DEF Parked
      <3>4. /\ K2 \in Nat /\ L2 \in Nat /\ h \in Nat /\ refiled \in BOOLEAN /\ refiled2 \in BOOLEAN
            /\ refiled => refiled2
        BY <2>4, <2>8
      <3> QED BY ONLY <2>12, <3>2, <3>3, <3>4, PastParked, SMTT(60)
    <2> QED BY <1>2, <2>3, <2>7, <2>11, <2>14
  <1> QED BY <1>13, <1>20, <1>21 DEF UndoInv

-----------------------------------------------------------------------------
(* Reverts.                                                                *)

\* What a revert does to the journal.
LEMMA RevertedOps ==
    ASSUME NEW nb \in Nat, NEW R \in Nat, RunsOK(runs, nb, R), NEW r \in DOMAIN runs
    PROVE  /\ DOMAIN Reverted(r) = DOMAIN runs \cup {Len(runs) + 1}
           /\ \A k \in DOMAIN runs : /\ Reverted(r)[k].mode = runs[k].mode
                                     /\ k # r => Reverted(r)[k].ops = runs[k].ops
           /\ \A i \in DOMAIN Reverted(r)[r].ops : Reverted(r)[r].ops[i].outcome # "applied"
           /\ Reverted(r)[Len(runs) + 1].mode = "revert" /\ Reverted(r)[Len(runs) + 1].ops = << >>
  <1> DEFINE ops == [i \in DOMAIN runs[r].ops |->
                       IF i \in Applied(r) THEN [runs[r].ops[i] EXCEPT !.outcome = "reverted"]
                       ELSE runs[r].ops[i]]
             marked == [runs EXCEPT ![r].outcome = "reverted", ![r].ops = ops]
             undoer == [mode |-> "revert", outcome |-> "done", ops |-> << >>]
             n == Len(runs)
  <1>1. /\ IsSeq(runs) /\ n \in Nat /\ DOMAIN runs = 1..n
        /\ \A k \in DOMAIN runs : IsRun(runs[k], nb, R)
    BY SeqFacts DEF RunsOK
  <1>2. /\ runs[r] = [mode |-> runs[r].mode, outcome |-> runs[r].outcome, ops |-> runs[r].ops]
        /\ \A i \in DOMAIN runs[r].ops : IsOp(runs[r].ops[i], nb, R)
    BY <1>1 DEF IsRun
  <1>3. /\ Reverted(r) = Append(marked, undoer)
        /\ DOMAIN marked = DOMAIN runs /\ marked = [k \in DOMAIN runs |-> marked[k]]
        /\ \A k \in DOMAIN runs : k # r => marked[k] = runs[k]
    BY DEF Reverted
  <1>4. marked[r].mode = runs[r].mode /\ marked[r].ops = ops
    <2> HIDE DEF ops
    <2>1. PICK x : x = runs[r] OBVIOUS
    <2>2. marked[r] = [[x EXCEPT !.outcome = "reverted"] EXCEPT !.ops = ops] BY <2>1
    <2>3. PICK y : y = [x EXCEPT !.outcome = "reverted"] OBVIOUS
    <2>4. y = [mode |-> x.mode, outcome |-> "reverted", ops |-> x.ops] BY <1>2, <2>1, <2>3, RunChanged
    <2>5. y = [mode |-> y.mode, outcome |-> y.outcome, ops |-> y.ops] /\ y.mode = x.mode BY <2>4
    <2>6. [y EXCEPT !.ops = ops] = [mode |-> y.mode, outcome |-> y.outcome, ops |-> ops]
      BY <2>5, RunChanged
    <2>7. marked[r] = [mode |-> y.mode, outcome |-> y.outcome, ops |-> ops] BY <2>2, <2>3, <2>6
    <2> QED BY <2>1, <2>5, <2>7
  <1>5. ASSUME NEW i \in DOMAIN ops PROVE ops[i].outcome # "applied"
    <2>1. CASE i \in Applied(r)
      <3>1. PICK x, z : x = runs[r].ops[i] /\ z = [x EXCEPT !.outcome = "reverted"] OBVIOUS
      <3>2. IsOp(x, nb, R) /\ ops[i] = z BY <1>2, <2>1, <3>1
      <3>3. z.outcome = "reverted" BY <3>1, <3>2, OpChanged
      <3> QED BY <3>2, <3>3
    <2>2. CASE i \notin Applied(r)
      <3>1. ops[i] = runs[r].ops[i] /\ i \in DOMAIN runs[r].ops BY <2>2
      <3> QED BY <2>2, <3>1 DEF Applied
    <2> QED BY <2>1, <2>2
  <1> HIDE DEF ops, marked
  <1>6. IsSeq(marked) /\ Len(marked) = n BY <1>1, <1>3, SeqOfFunction
  <1>7. undoer.mode = "revert" /\ undoer.ops = << >> OBVIOUS
  <1> HIDE DEF undoer
  <1>8. /\ DOMAIN Reverted(r) = 1..(n + 1)
        /\ \A k \in 1..n : Reverted(r)[k] = marked[k]
        /\ Reverted(r)[n + 1] = undoer
    BY ONLY <1>3, <1>6, AppendFacts, SMTT(60)
  <1>9. 1..(n + 1) = 1..n \cup {n + 1} BY <1>1
  <1> QED BY <1>1, <1>3, <1>4, <1>5, <1>7, <1>8, <1>9

\* The newest run that wrote is undone to what stands for the rows it began
\* with; the index of the links holds all the way.
LEMMA LastUndone ==
    ASSUME CatInv, UndoInv, Clean, NEW r \in DOMAIN undo, Newest(undo, r), r > horizon
    PROVE  LET out == Undone(r, Len(runs) + 1)
           IN  /\ out.ok /\ Table(out.c)
               /\ Stands(out.c, undo[r].cat, undo[r].new.node, undo[r].new.link, horizon, 0,
                         Reverts(runs) \cup {Len(runs) + 1}, "refile" \in slips)
  <1>1. PICK by, h, S, loose, K, L, b, Kb, Lb, ops :
           /\ by = Len(runs) + 1 /\ h = horizon /\ S = Reverts(runs) \cup {by} /\ loose = ("refile" \in slips)
           /\ K = newest.node /\ L = newest.link
           /\ b = undo[r].cat /\ Kb = undo[r].new.node /\ Lb = undo[r].new.link /\ ops = runs[r].ops
    OBVIOUS
  <1>2. PastOK(cat, newest.node, newest.link, runs, undo, horizon, "refile" \in slips) BY DEF UndoInv
  <1>3. Known(runs, undo) BY DEF UndoInv
  <1>4. /\ r \in DOMAIN runs /\ runs[r].mode # "revert" /\ r \in Nat /\ r # 0
        /\ DOMAIN runs = 1..Len(runs) /\ Len(runs) \in Nat /\ Table(cat) /\ RunsOK(runs, newest.node, Len(runs))
        /\ horizon \in Nat
    BY <1>3, States DEF Known
  <1>5. 0 \notin S /\ r \notin S /\ by \in S BY <1>1, <1>4 DEF Reverts
  <1>6. PICK u : u = cat OBVIOUS
  <1>7. Restores(ops, r, cat, K, L, b, Kb, Lb, h, Reverts(runs), loose) BY <1>1, <1>2 DEF PastOK, LeadsBack
  <1>8. Stands(u, cat, K, L, h, r, S, loose) BY <1>6, StandsSame
  <1>9. /\ h \in Nat /\ h <= h /\ h < r /\ Reverts(runs) \subseteq S
        /\ loose \in BOOLEAN /\ (loose => loose) /\ Table(u)
    BY <1>1, <1>4, <1>6
  <1>10. \E f : /\ Walk(f, u, ops, r, by) /\ f[Len(ops)].ok /\ Table(f[Len(ops)].c)
                /\ Stands(f[Len(ops)].c, b, Kb, Lb, h, r, S, loose)
    BY ONLY <1>5, <1>7, <1>8, <1>9 DEF Restores
  <1>11. PICK f : /\ Walk(f, u, ops, r, by) /\ f[Len(ops)].ok /\ Table(f[Len(ops)].c)
                  /\ Stands(f[Len(ops)].c, b, Kb, Lb, h, r, S, loose)
    BY <1>10
  <1>12. Undone(r, by) = f[Len(ops)]
    <2>1. Walk(f, cat, runs[r].ops, r, by) BY <1>1, <1>6, <1>11
    <2>2. Undone(r, by) = f[Len(runs[r].ops)] BY <1>4, <2>1, WalkUndone
    <2> QED BY <1>1, <2>2
  <1>13. PICK out : out = Undone(r, by) OBVIOUS
  <1>14. out.ok /\ Table(out.c) /\ Stands(out.c, b, Kb, Lb, h, r, S, loose) BY <1>11, <1>12, <1>13
  <1>15. ASSUME NEW n \in DOMAIN b.node PROVE b.node[n].by # r
    <2>1. Begun(r, newest.node, newest.link, runs, undo) BY <1>2 DEF PastOK
    <2>2. b.node[n].by \in {0} \cup Reverts(runs) \cup {j \in DOMAIN undo : j < r}
      BY <1>1, <2>1 DEF Begun, MarkedBy
    <2>3. ~(r < r) BY <1>4
    <2> QED BY <1>4, <2>2, <2>3 DEF Reverts
  <1>16. Stands(out.c, b, Kb, Lb, h, 0, S, loose)
    <2>1. NodesStand(out.c, b, Kb, h, r, S) /\ LinksStand(out.c, b, Kb, Lb, h, loose) /\ out.c.sup = b.sup
      BY <1>14 DEF Stands
    <2>2. NodesStand(out.c, b, Kb, h, 0, S) BY <1>15, <2>1 DEF NodesStand, SameNode
    <2> QED BY <2>1, <2>2 DEF Stands
  <1> QED BY <1>1, <1>13, <1>14, <1>16

\* A run is reverted by a user or by the canary.
LEMMA RevertRunUndo ==
    ASSUME CatInv, CatInv', UndoInv, NEW r \in DOMAIN runs, RevertRun(r), PassModes'
    PROVE  UndoInv'
  <1>1. /\ newest.node \in Nat /\ newest.link \in Nat /\ Len(runs) \in Nat /\ horizon \in Nat
        /\ DOMAIN runs = 1..Len(runs) /\ Table(cat) /\ Bounded(cat, newest.node, newest.link)
        /\ RunsOK(runs, newest.node, Len(runs))
        /\ \A k \in DOMAIN runs : k \in Nat
    BY States
  <1>2. Known(runs, undo) BY DEF UndoInv
  <1>3. /\ Applied(r) # {} /\ ~(r <= horizon)
        /\ cat' = Undone(r, Len(runs) + 1).c
        /\ runs' = Reverted(r)
        /\ undo' = [k \in DOMAIN undo \ {r} |-> undo[k]]
        /\ slips' = slips \cup IF Later(r) THEN {"skipped"} ELSE {}
        /\ UNCHANGED <<newest, horizon>>
    BY DEF RevertRun, Refused
  <1>4. r \in DOMAIN undo BY <1>2, <1>3 DEF Known, Applied
  <1>5. \A k \in DOMAIN undo : k \in DOMAIN runs /\ k \in Nat BY <1>1, <1>2 DEF Known
  <1>6. /\ DOMAIN runs' = DOMAIN runs \cup {Len(runs) + 1}
        /\ \A k \in DOMAIN runs : runs'[k].mode = runs[k].mode /\ (k # r => runs'[k].ops = runs[k].ops)
        /\ \A i \in DOMAIN runs'[r].ops : runs'[r].ops[i].outcome # "applied"
        /\ runs'[Len(runs) + 1].mode = "revert" /\ runs'[Len(runs) + 1].ops = << >>
    BY <1>1, <1>3, RevertedOps
  <1>7. Known(runs', undo')
    <2>1. DOMAIN undo' = DOMAIN undo \ {r} BY <1>3
    <2>2. ASSUME NEW k \in DOMAIN undo' PROVE k \in DOMAIN runs' /\ runs'[k].mode # "revert"
      BY <1>2, <1>5, <1>6, <2>1, <2>2 DEF Known
    <2>3. ASSUME NEW k \in DOMAIN runs'
          PROVE  k \in DOMAIN undo' <=> \E i \in DOMAIN runs'[k].ops : runs'[k].ops[i].outcome = "applied"
      <3>1. CASE k = r BY <1>6, <2>1, <3>1
      <3>2. CASE k = Len(runs) + 1
        <4>1. k \notin DOMAIN runs BY <1>1, <3>2
        <4>2. k \notin DOMAIN undo' BY <1>5, <2>1, <4>1
        <4>3. DOMAIN << >> = {} OBVIOUS
        <4> QED BY <1>6, <3>2, <4>2, <4>3
      <3>3. CASE k \in DOMAIN runs /\ k # r BY <1>2, <1>6, <2>1, <3>3 DEF Known
      <3> QED BY <1>6, <2>3, <3>1, <3>2, <3>3
    <2> QED BY <2>2, <2>3 DEF Known
  <1>8. Reverts(runs) \subseteq Reverts(runs') /\ Len(runs) + 1 \in Reverts(runs')
    BY <1>6 DEF Reverts
  <1>9. ASSUME Clean' PROVE PastOK(cat', newest'.node, newest'.link, runs', undo', horizon', "refile" \in slips')
    <2>1. slips \subseteq slips' /\ (Later(r) => "skipped" \in slips') BY <1>3
    <2>2. Clean /\ ~Later(r) BY <1>9, <2>1 DEF Clean
    <2>3. Newest(undo, r) BY <2>2 DEF Newest, Later
    <2>4. ("refile" \in slips') = ("refile" \in slips) BY <1>3
    <2>5. PICK c, K, L, c2, rs, rs2, u, u2, h, refiled, S :
             /\ c = cat /\ K = newest.node /\ L = newest.link /\ c2 = cat' /\ rs = runs /\ rs2 = runs'
             /\ u = undo /\ u2 = undo' /\ h = horizon /\ refiled = ("refile" \in slips)
             /\ S = Reverts(runs) \cup {Len(runs) + 1}
      OBVIOUS
    <2>6. PastOK(c, K, L, rs, u, h, refiled) BY <2>2, <2>5 DEF UndoInv
    <2>7. /\ Table(c2)
          /\ Stands(c2, u[r].cat, u[r].new.node, u[r].new.link, h, 0, S, refiled)
      <3>1. r > horizon BY <1>1, <1>3
      <3>2. /\ Table(Undone(r, Len(runs) + 1).c)
            /\ Stands(Undone(r, Len(runs) + 1).c, undo[r].cat, undo[r].new.node, undo[r].new.link, horizon, 0,
                      Reverts(runs) \cup {Len(runs) + 1}, "refile" \in slips)
        BY <1>4, <2>2, <2>3, <3>1, LastUndone
      <3> QED BY <1>3, <2>5, <3>2
    <2>8. Stands(c2, u[r].cat, u[r].new.node, u[r].new.link, h, 0, Reverts(rs2), refiled)
      <3>1. S \subseteq Reverts(rs2) BY <1>8, <2>5
      <3> QED BY <2>7, <3>1 DEF Stands, NodesStand
    <2>9. Bounded(c2, K, L)
      <3>1. Bounded(cat, newest.node, newest.link)' BY States, PTL
      <3> QED BY <1>3, <2>5, <3>1
    <2>10. /\ K \in Nat /\ L \in Nat /\ h \in Nat /\ refiled \in BOOLEAN /\ r \in DOMAIN u
           /\ \A k \in DOMAIN u : k \in Nat
           /\ Newest(u, r) /\ Reverts(rs) \subseteq Reverts(rs2)
           /\ \A k \in DOMAIN u : k # r => rs2[k].ops = rs[k].ops
           /\ u2 = [k \in DOMAIN u \ {r} |-> u[k]]
      BY <1>1, <1>3, <1>4, <1>5, <1>6, <1>8, <2>3, <2>5
    <2>11. PastOK(c2, K, L, rs2, u2, h, refiled)
      BY ONLY <2>6, <2>7, <2>8, <2>9, <2>10, PastBack, SMTT(60)
    <2> QED BY <1>3, <2>4, <2>5, <2>11
  <1> QED BY <1>7, <1>9 DEF UndoInv

LEMMA RevertUndo ==
    ASSUME CatInv, CatInv', UndoInv, Revert
    PROVE  UndoInv'
  <1>1. PICK r \in DOMAIN runs : RevertRun(r) /\ UNCHANGED <<kept, pass>> BY DEF Revert
  <1>2. RunsOK(runs, newest.node, Len(runs)) /\ newest.node \in Nat /\ Len(runs) \in Nat BY States
  <1>3. \A k \in DOMAIN runs : Reverted(r)[k].mode = runs[k].mode BY <1>2, RevertedOps
  <1>4. runs' = Reverted(r) BY <1>1 DEF RevertRun
  <1>5. \A v \in Workers : pass[v].pc # "idle" => pass[v].run \in DOMAIN runs BY States
  <1>6. PassModes' BY <1>1, <1>3, <1>4, <1>5 DEF UndoInv, PassModes, Workers
  <1> QED BY <1>1, <1>6, RevertRunUndo

LEMMA CanaryRevertsUndo ==
    ASSUME CatInv, CatInv', UndoInv, NEW w \in Workers, CanaryReverts(w)
    PROVE  UndoInv'
  <1>1. pass[w].pc = "canary" /\ RevertRun(pass[w].run) /\ pass' = [pass EXCEPT ![w] = Idle] BY DEF CanaryReverts
  <1>2. pass[w].run \in DOMAIN runs BY <1>1, States
  <1>3. RunsOK(runs, newest.node, Len(runs)) /\ newest.node \in Nat /\ Len(runs) \in Nat BY States
  <1>4. /\ DOMAIN Reverted(pass[w].run) = DOMAIN runs \cup {Len(runs) + 1}
        /\ \A k \in DOMAIN runs : Reverted(pass[w].run)[k].mode = runs[k].mode
    BY <1>2, <1>3, RevertedOps
  <1>5. runs' = Reverted(pass[w].run) BY <1>1 DEF RevertRun
  <1>6. Idle.pc = "idle" BY DEF Idle
  <1>7. PassModes' BY <1>1, <1>4, <1>5, <1>6, StillPasses
  <1> QED BY <1>1, <1>2, <1>7, RevertRunUndo

-----------------------------------------------------------------------------
(* Housekeeping.                                                           *)

\* What is swept was marked, by a run past the horizon.
LEMMA VacuumStands ==
    ASSUME NEW c, NEW K \in Nat, NEW L \in Nat, NEW R \in Nat, RowsOK(c, K, L, K, R), NEW h \in Nat, NEW S,
           NEW loose
    PROVE  /\ Stands(Vacuumed(c, h), c, K, L, h, 0, S, loose)
           /\ \A n \in DOMAIN Vacuumed(c, h).node :
                n \in DOMAIN c.node /\ Vacuumed(c, h).node[n] = c.node[n]
  <1> DEFINE N == Swept(c.node, h)
             M == Swept(c.link, h)
  <1>1. Vacuumed(c, h) = [node |-> N, link |-> M, sup |-> c.sup]
    <2>1. c = [node |-> c.node, link |-> c.link, sup |-> c.sup] BY DEF RowsOK
    <2>2. Vacuumed(c, h) = [c EXCEPT !.node = N, !.link = M] BY DEF Vacuumed
    <2> HIDE DEF N, M
    <2> QED BY <2>1, <2>2, CatChanged
  <1>2. /\ DOMAIN N = {n \in DOMAIN c.node : c.node[n].by = 0 \/ c.node[n].by > h}
        /\ \A n \in DOMAIN N : N[n] = c.node[n]
    BY DEF Swept
  <1>3. /\ DOMAIN M = {l \in DOMAIN c.link : c.link[l].by = 0 \/ c.link[l].by > h}
        /\ \A l \in DOMAIN M : M[l] = c.link[l]
    BY DEF Swept
  <1>4. /\ \A n \in DOMAIN c.node : c.node[n].by \in 0..R
        /\ \A l \in DOMAIN c.link : c.link[l].by \in 0..R
    BY DEF RowsOK, IsNode, IsLink
  <1> HIDE DEF N, M
  <1>5. PICK u : u = Vacuumed(c, h) OBVIOUS
  <1>6. u.node = N /\ u.link = M /\ u.sup = c.sup BY <1>1, <1>5
  <1>7. \A n \in DOMAIN c.node \ DOMAIN N : c.node[n].by \in 1..h BY <1>2, <1>4
  <1>8. \A l \in DOMAIN c.link \ DOMAIN M : c.link[l].by \in 1..h BY <1>3, <1>4
  <1>9. NodesStand(u, c, K, h, 0, S) BY <1>2, <1>6, <1>7 DEF NodesStand, SameNode
  <1>10. LinksStand(u, c, K, L, h, loose) BY <1>3, <1>6, <1>8 DEF LinksStand, SameLink
  <1>11. Stands(u, c, K, L, h, 0, S, loose) BY <1>6, <1>9, <1>10 DEF Stands
  <1>12. \A n \in DOMAIN u.node : n \in DOMAIN c.node /\ u.node[n] = c.node[n] BY <1>2, <1>6
  <1> QED BY <1>5, <1>11, <1>12

LEMMA ForgottenMode ==
    ASSUME NEW nb, NEW R, NEW x, IsRun(x, nb, R), NEW ops, NEW z, z = [x EXCEPT !.ops = ops]
    PROVE  z.mode = x.mode
  <1>1. x = [mode |-> x.mode, outcome |-> x.outcome, ops |-> x.ops] BY DEF IsRun
  <1>2. PICK m, o : m = x.mode /\ o = x.outcome OBVIOUS
  <1>3. z = [mode |-> m, outcome |-> o, ops |-> ops] BY <1>1, <1>2, RunChanged
  <1> QED BY <1>2, <1>3

LEMMA VacuumUndo ==
    ASSUME CatInv, CatInv', UndoInv, Vacuum
    PROVE  UndoInv'
  <1> DEFINE h2 == Len(runs) - HorizonRuns
  <1>1. /\ newest.node \in Nat /\ newest.link \in Nat /\ Len(runs) \in Nat /\ horizon \in Nat
        /\ RowsOK(cat, newest.node, newest.link, newest.node, Len(runs))
        /\ \A k \in DOMAIN runs : k \in Nat /\ IsRun(runs[k], newest.node, Len(runs))
    BY States
  <1>2. /\ h2 > horizon /\ cat' = Vacuumed(cat, h2) /\ horizon' = h2
        /\ runs' = [k \in DOMAIN runs |->
                      IF k > h2 THEN runs[k]
                      ELSE [runs[k] EXCEPT !.ops = [i \in DOMAIN runs[k].ops |->
                                                      [runs[k].ops[i] EXCEPT !.image = NoImage]]]]
        /\ UNCHANGED <<newest, pass, undo, slips>>
    BY DEF Vacuum
  <1>3. h2 \in Nat
    <2>1. HorizonRuns \in Nat BY CatalogAssumptions
    <2> QED BY <1>1, <1>2, <2>1
  <1>4. PICK h : h = h2 OBVIOUS
  <1>5. /\ h \in Nat /\ horizon <= h /\ cat' = Vacuumed(cat, h) /\ horizon' = h BY <1>1, <1>2, <1>3, <1>4
  <1>6. DOMAIN runs' = DOMAIN runs BY <1>2
  <1>7. ASSUME NEW k \in DOMAIN runs
        PROVE  /\ runs'[k].mode = runs[k].mode
               /\ k > h => runs'[k].ops = runs[k].ops
               /\ DOMAIN runs'[k].ops = DOMAIN runs[k].ops
               /\ \A i \in DOMAIN runs[k].ops : runs'[k].ops[i].outcome = runs[k].ops[i].outcome
    <2>1. PICK x, z, nb, R : x = runs[k] /\ z = runs'[k] /\ nb = newest.node /\ R = Len(runs) OBVIOUS
    <2>2. IsRun(x, nb, R) BY <1>1, <1>7, <2>1
    <2>3. CASE k > h BY <1>2, <1>4, <1>7, <2>3
    <2>4. CASE ~(k > h)
      <3>1. z = [x EXCEPT !.ops = [i \in DOMAIN x.ops |-> [x.ops[i] EXCEPT !.image = NoImage]]]
        BY <1>2, <1>4, <1>7, <2>1, <2>4
      <3>2. /\ DOMAIN z.ops = DOMAIN x.ops
            /\ \A i \in DOMAIN x.ops : z.ops[i].outcome = x.ops[i].outcome
        BY <2>2, <3>1, RunForgotten
      <3>3. PICK ops : ops = [i \in DOMAIN x.ops |-> [x.ops[i] EXCEPT !.image = NoImage]] OBVIOUS
      <3>4. z = [x EXCEPT !.ops = ops] BY <3>1, <3>3
      <3>5. z.mode = x.mode BY <2>2, <3>4, ForgottenMode
      <3> QED BY <2>1, <2>4, <3>2, <3>5
    <2> QED BY <2>3, <2>4
  <1>8. Known(runs, undo) BY DEF UndoInv
  <1>9. Known(runs', undo')
    <2>1. PICK rs2, u2 : rs2 = runs' /\ u2 = undo' OBVIOUS
    <2>2. u2 = undo /\ DOMAIN rs2 = DOMAIN runs BY <1>2, <1>6, <2>1
    <2>3. \A k \in DOMAIN u2 : k \in DOMAIN rs2 /\ rs2[k].mode # "revert"
      BY <1>7, <1>8, <2>1, <2>2 DEF Known
    <2>4. \A k \in DOMAIN runs : k \in DOMAIN undo <=> \E i \in DOMAIN runs[k].ops : runs[k].ops[i].outcome = "applied"
      BY <1>8 DEF Known
    <2>5. ASSUME NEW k \in DOMAIN runs
          PROVE  k \in DOMAIN u2 <=> \E i \in DOMAIN rs2[k].ops : rs2[k].ops[i].outcome = "applied"
      <3>1. /\ DOMAIN rs2[k].ops = DOMAIN runs[k].ops
            /\ \A i \in DOMAIN runs[k].ops : rs2[k].ops[i].outcome = runs[k].ops[i].outcome
        BY <1>7, <2>1, <2>5
      <3> QED BY <2>2, <2>4, <2>5, <3>1
    <2>6. Known(rs2, u2) BY <2>2, <2>3, <2>5 DEF Known
    <2> QED BY <2>1, <2>6
  <1>10. \A v \in Workers : pass[v].pc # "idle" => pass[v].run \in DOMAIN runs BY States
  <1>11. PassModes' BY <1>2, <1>7, <1>10 DEF UndoInv, PassModes, Workers
  <1>12. Reverts(runs') = Reverts(runs) BY <1>6, <1>7 DEF Reverts
  <1>13. ASSUME Clean' PROVE PastOK(cat', newest'.node, newest'.link, runs', undo', horizon', "refile" \in slips')
    <2>1. Clean BY <1>2, <1>13 DEF Clean
    <2>2. PICK c, K, L, c2, rs, rs2, u, h1, refiled, S, R :
             /\ c = cat /\ K = newest.node /\ L = newest.link /\ c2 = cat' /\ rs = runs /\ rs2 = runs'
             /\ u = undo /\ h1 = horizon /\ refiled = ("refile" \in slips)
             /\ S = Reverts(rs2) /\ R = Len(runs)
      OBVIOUS
    <2>3. /\ K \in Nat /\ L \in Nat /\ R \in Nat /\ K <= K /\ L <= L /\ h1 \in Nat /\ h1 <= h
          /\ refiled \in BOOLEAN /\ (refiled => refiled) /\ RowsOK(c, K, L, K, R) /\ c2 = Vacuumed(c, h)
      BY <1>1, <1>5, <2>2
    <2>4. PastOK(c, K, L, rs, u, h1, refiled) BY <2>1, <2>2 DEF UndoInv
    <2>5. \A k \in DOMAIN u : k \in DOMAIN rs /\ k \in Nat BY <1>1, <1>8, <2>2 DEF Known
    <2>6. SameWrites(rs, rs2, u, h) BY <1>7, <1>12, <2>2, <2>5 DEF SameWrites
    <2>7. Table(c2) /\ Bounded(c2, K, L)
      <3>1. (Table(cat) /\ Bounded(cat, newest.node, newest.link))' BY States, PTL
      <3> QED BY <1>2, <2>2, <3>1
    <2>8. /\ Stands(c2, c, K, L, h, 0, S, refiled)
          /\ \A n \in DOMAIN c2.node : n \in DOMAIN c.node /\ c2.node[n] = c.node[n]
      <3>1. /\ K \in Nat /\ L \in Nat /\ R \in Nat /\ h \in Nat /\ RowsOK(c, K, L, K, R) BY <1>5, <2>3
      <3>2. /\ Stands(Vacuumed(c, h), c, K, L, h, 0, S, refiled)
            /\ \A n \in DOMAIN Vacuumed(c, h).node :
                 n \in DOMAIN c.node /\ Vacuumed(c, h).node[n] = c.node[n]
        BY ONLY <3>1, VacuumStands
      <3>3. c2 = Vacuumed(c, h) BY <2>3
      <3> QED BY ONLY <3>2, <3>3
    <2>9. MarkedBy(c2, Reverts(rs2) \cup DOMAIN u)
      <3>1. MarkedBy(c, Reverts(rs) \cup DOMAIN u) BY <2>4 DEF PastOK
      <3> QED BY <1>12, <2>2, <2>8, <3>1 DEF MarkedBy
    <2>10. c2.sup = c.sup /\ Stands(c2, c, K, L, h, 0, Reverts(rs2), refiled) BY <2>2, <2>8 DEF Stands
    <2>11. PastOK(c2, K, L, rs2, u, h, refiled)
      BY ONLY <1>5, <2>3, <2>4, <2>5, <2>6, <2>7, <2>9, <2>10, PastFrom, SMTT(60)
    <2> QED BY <1>2, <1>5, <2>2, <2>11
  <1> QED BY <1>9, <1>11, <1>13 DEF UndoInv

-----------------------------------------------------------------------------
(* The invariant holds, and the last run can be undone.                    *)

LEMMA UndoInit == Init => UndoInv
  <1> SUFFICES ASSUME Init PROVE UndoInv OBVIOUS
  <1>1. CatInv BY CatInit
  <1>2. Table(cat) /\ Bounded(cat, newest.node, newest.link) BY <1>1, States
  <1>3. cat = FirstCatalog /\ runs = << >> /\ undo = << >> /\ pass = [w \in Workers |-> Idle] BY DEF Init
  <1>4. DOMAIN << >> = {} OBVIOUS
  <1>5. DOMAIN runs = {} /\ DOMAIN undo = {} BY <1>3, <1>4
  <1>6. Known(runs, undo) BY <1>5 DEF Known
  <1>7. PassModes BY <1>3 DEF PassModes, Idle
  <1>8. SupOK(cat.sup) BY <1>3, CatalogAssumptions DEF SupOK
  <1>9. ASSUME NEW n \in DOMAIN cat.node PROVE cat.node[n].by = 0
    <2>1. cat.node[n] = NewNode(cat.node[n].parent, cat.node[n].title, cat.node[n].kind)
      BY <1>3, <1>9, CatalogAssumptions
    <2>2. PICK p, t, k : cat.node[n] = NewNode(p, t, k) BY <2>1
    <2> QED BY <2>2 DEF NewNode
  <1>10. MarkedBy(cat, Reverts(runs) \cup DOMAIN undo) BY <1>9 DEF MarkedBy
  <1>11. PastOK(cat, newest.node, newest.link, runs, undo, horizon, "refile" \in slips)
    BY <1>2, <1>5, <1>8, <1>10 DEF PastOK
  <1> QED BY <1>6, <1>7, <1>11 DEF UndoInv

LEMMA UndoStep == CatInv /\ CatInv' /\ UndoInv /\ [Next]_vars => UndoInv'
  <1> SUFFICES ASSUME CatInv, CatInv', UndoInv, [Next]_vars PROVE UndoInv' OBVIOUS
  <1>1. ASSUME NEW w \in Workers,
               \/ StartRun(w) \/ Crash(w) \/ LoadQueue(w) \/ Adjudicate(w) \/ Verified(w)
               \/ Finish(w) \/ CanaryHolds(w) \/ CanaryReverts(w)
        PROVE  UndoInv'
    BY <1>1, StartRunUndo, LeavesUndo, LoadQueueUndo, AdjudicateUndo, VerifiedUndo, FinishUndo,
       CanaryRevertsUndo
  <1>2. ASSUME NEW w \in Workers, NEW a \in menu.filings, StageCreate(w, a) \/ StageFile(w, a)
        PROVE  UndoInv'
    BY <1>2, StageCreateUndo, StageFileUndo
  <1>3. ASSUME NEW w \in Workers, NEW p \in menu.proposals, StageStructural(w, p)
        PROVE  UndoInv'
    BY <1>3, StageStructuralUndo
  <1>4. CASE Revert BY <1>4, RevertUndo
  <1>5. CASE Vacuum BY <1>5, VacuumUndo
  <1>6. CASE UNCHANGED vars
    <2>1. UNCHANGED <<cat, newest, runs, undo, slips, horizon, pass>> BY <1>6 DEF vars
    <2>2. PassModes' BY <2>1 DEF UndoInv, PassModes
    <2> QED BY <2>1, <2>2, WaitsUndo
  <1> QED BY <1>1, <1>2, <1>3, <1>4, <1>5, <1>6 DEF Next

\* The journal as a stack: for each run that wrote and was not reverted, the
\* inverses it keeps lead back from the rows the next such run began with, and
\* from the rows of now for the last of them, to what readers saw when it
\* began.  This is the inductive invariant of `LastRunUndoable`.
THEOREM JournalLeadsBack == Spec => [](CatInv /\ UndoInv)
  <1>1. Init => CatInv /\ UndoInv BY CatInit, UndoInit
  <1>2. CatInv /\ UndoInv /\ [Next]_vars => (CatInv /\ UndoInv)' BY CatStep, UndoStep
  <1> QED BY <1>1, <1>2, PTL DEF Spec

\* The runs after the last one that wrote have touched nothing.
LEMMA LastNotRefused ==
    ASSUME CatInv, UndoInv, NEW r \in DOMAIN undo, ~Later(r), r > horizon, runs[r].outcome # "reverted"
    PROVE  ~Refused(r)
  <1>1. Known(runs, undo) BY DEF UndoInv
  <1>2. DOMAIN runs = 1..Len(runs) /\ Len(runs) \in Nat /\ horizon \in Nat BY States
  <1>3. r \in DOMAIN runs /\ r \in Nat BY <1>1, <1>2 DEF Known
  <1>4. Applied(r) # {} BY <1>1, <1>3 DEF Known, Applied
  <1>5. ASSUME NEW k \in (r + 1)..Len(runs) PROVE Touched(k) = {}
    <2>1. k \in DOMAIN runs /\ k > r BY <1>2, <1>3
    <2>2. k \notin DOMAIN undo BY <2>1 DEF Later
    <2>3. Applied(k) = {} BY <1>1, <2>1, <2>2 DEF Known, Applied
    <2> QED BY <2>3 DEF Touched
  <1>6. ~(r <= horizon) BY <1>2, <1>3
  <1> QED BY <1>4, <1>5, <1>6 DEF Refused

\* The last run that wrote can be reverted - it is not refused, no inverse
\* breaks the dedup index, none lacks its image or a row it needs - and every
\* reader then sees the catalog it saw before that run: through filings,
\* promotes, merges, splits, collapses and supersessions (catalog.rs,
\* runs.rs), passes that interleave, crashes, canary and user reverts, and
\* vacuums up to the horizon.
THEOREM LastRunCanBeUndone == Spec => []LastRunUndoable
  <1>1. ASSUME CatInv, UndoInv PROVE LastRunUndoable
    <2> SUFFICES ASSUME slips \cap {"disorder", "tangled", "refile", "skipped"} = {},
                        NEW r \in DOMAIN undo, ~Later(r), r > horizon, runs[r].outcome # "reverted"
                 PROVE  LET out == Undone(r, Len(runs) + 1)
                        IN  ~Refused(r) /\ out.ok /\ View(out.c) = View(undo[r].cat)
      BY DEF LastRunUndoable
    <2>1. Clean /\ "refile" \notin slips BY DEF Clean
    <2>2. Newest(undo, r) BY DEF Newest, Later
    <2>3. PICK out, b, Kb, Lb, h, S, loose :
             /\ out = Undone(r, Len(runs) + 1) /\ b = undo[r].cat
             /\ Kb = undo[r].new.node /\ Lb = undo[r].new.link /\ h = horizon
             /\ S = Reverts(runs) \cup {Len(runs) + 1} /\ loose = ("refile" \in slips)
      OBVIOUS
    <2>4. out.ok /\ Table(out.c) /\ Stands(out.c, b, Kb, Lb, h, 0, S, loose)
      BY <1>1, <2>1, <2>2, <2>3, LastUndone
    <2>5. Table(b)
      <3>1. PastOK(cat, newest.node, newest.link, runs, undo, horizon, "refile" \in slips)
        BY <1>1, <2>1 DEF UndoInv
      <3> QED BY <2>3, <3>1 DEF PastOK, Begun
    <2>6. h \in Nat /\ 0 \notin S /\ loose \in BOOLEAN /\ ~loose
      <3>1. DOMAIN runs = 1..Len(runs) /\ Len(runs) \in Nat /\ horizon \in Nat BY <1>1, States
      <3>2. h \in Nat BY <2>3, <3>1
      <3>3. 0 \notin Reverts(runs) BY <3>1 DEF Reverts
      <3>4. 0 # Len(runs) + 1 BY <3>1
      <3>5. 0 \notin S BY <2>3, <3>3, <3>4
      <3>6. loose \in BOOLEAN BY <2>3
      <3>7. "refile" \notin slips BY <2>1
      <3>8. loose = ("refile" \in slips) BY <2>3
      <3>9. ~loose BY <3>7, <3>8
      <3> QED BY <3>2, <3>5, <3>6, <3>9
    <2>7. View(out.c) = View(b)
      <3>1. PICK u : u = out.c OBVIOUS
      <3>2. Table(u) /\ Stands(u, b, Kb, Lb, h, 0, S, loose) BY <2>4, <3>1
      <3>3. View(u) = View(b) BY ONLY <2>5, <2>6, <3>2, StandsView
      <3> QED BY <3>1, <3>3
    <2>8. ~Refused(r) BY <1>1, LastNotRefused
    <2> QED BY <2>3, <2>4, <2>7, <2>8
  <1> QED BY <1>1, JournalLeadsBack, PTL

-----------------------------------------------------------------------------
(* The way up from a node, by what it is for: it holds the node's parent,  *)
(* the parents of what it holds, and no more.                              *)

UpClosed(t, U) == \A m \in U \cap DOMAIN t : t[m].parent \in U

\* The steps of `Above` end: each adds an id, and there are as many ids to
\* add as there are rows.
LEMMA AboveFacts ==
    ASSUME NEW t, IsFiniteSet(DOMAIN t), NEW n \in DOMAIN t
    PROVE  /\ t[n].parent \in Above(t, n) /\ UpClosed(t, Above(t, n))
           /\ \A U : (t[n].parent \in U /\ UpClosed(t, U)) => Above(t, n) \subseteq U
  <1> DEFINE D == DOMAIN t
             c == Cardinality(D)
             start == {t[n].parent}
             Up(x) == x \cup {t[m].parent : m \in x \cap DOMAIN t}
             Steps(f, k) == f = [i \in 0..k |-> IF i = 0 THEN start ELSE Up(f[i - 1])]
             T == {k \in Nat : \E f : Steps(f, k)}
  <1>1. c \in Nat BY FS_CardinalityType
  <1>2. \A x : x \subseteq Up(x) /\ (\A m \in x \cap D : t[m].parent \in Up(x)) OBVIOUS
  <1> HIDE DEF start
  <1>3. \E f : Steps(f, c)
    <2> HIDE DEF Up
    <2>1. 0 \in T
      <3> DEFINE g == [k \in 0..0 |-> start]
      <3>1. \A k \in 0..0 : start = IF k = 0 THEN start ELSE Up(g[k - 1]) OBVIOUS
      <3>2. g = [k \in 0..0 |-> IF k = 0 THEN start ELSE Up(g[k - 1])] BY <3>1
      <3> QED BY <3>2
    <2>2. ASSUME NEW m \in 0..c, m \in T PROVE m + 1 \in T
      <3>1. PICK f : Steps(f, m) BY <2>2
      <3> DEFINE g == [k \in 0..(m + 1) |-> IF k = m + 1 THEN Up(f[m]) ELSE f[k]]
      <3>2. m \in Nat /\ m + 1 \in Nat BY <1>1
      <3>3. ASSUME NEW k \in 0..(m + 1) PROVE g[k] = IF k = 0 THEN start ELSE Up(g[k - 1])
        <4>1. CASE k = m + 1
          <5>1. k # 0 /\ k - 1 = m /\ m \in 0..(m + 1) /\ m # m + 1 BY <3>2, <4>1
          <5>2. g[k - 1] = f[m] BY <5>1
          <5> QED BY <4>1, <5>1, <5>2
        <4>2. CASE k # m + 1
          <5>1. k \in 0..m BY <3>2, <4>2
          <5>2. g[k] = f[k] BY <4>2
          <5>3. f[k] = IF k = 0 THEN start ELSE Up(f[k - 1]) BY <3>1, <5>1
          <5>4. k # 0 => k - 1 \in 0..(m + 1) /\ k - 1 # m + 1 BY <3>2, <5>1
          <5>5. k # 0 => g[k - 1] = f[k - 1] BY <5>4
          <5> QED BY <5>2, <5>3, <5>5
        <4> QED BY <4>1, <4>2
      <3>4. Steps(g, m + 1)
        <4>1. g = [k \in 0..(m + 1) |-> g[k]] OBVIOUS
        <4> HIDE DEF g
        <4> QED BY <3>3, <4>1
      <3> HIDE DEF g, Steps
      <3> QED BY <3>2, <3>4
    <2>3. 0..c \subseteq T
      <3> HIDE DEF T, c
      <3>1. 0 \in Int /\ c \in Int BY <1>1
      <3>2. \A m \in 0..c : m < c /\ m \in T => m + 1 \in T BY <2>2
      <3> QED BY <2>1, <3>1, <3>2, IntervalInduction
    <2>4. c \in 0..c BY <1>1
    <2> QED BY <2>3, <2>4
  <1>4. PICK f : Steps(f, c) /\ Above(t, n) = f[c]
    BY <1>3 DEF Above, start
  <1>5. f[0] = start /\ \A k \in 0..c : k < c => f[k + 1] = Up(f[k])
    <2> HIDE DEF Up, c
    <2>1. 0 \in 0..c BY <1>1
    <2>2. \A k \in 0..c : k < c => k + 1 \in 0..c /\ k + 1 # 0 /\ (k + 1) - 1 = k BY <1>1
    <2> QED BY <1>4, <2>1, <2>2
  <1> DEFINE P == {t[m].parent : m \in D}
  <1>6. IsFiniteSet(P) /\ Cardinality(P) <= c
    <2> DEFINE g == [m \in D |-> t[m].parent]
    <2>1. g \in Surjection(D, P) BY DEF Surjection
    <2> HIDE DEF g, P, D
    <2> QED BY <2>1, FS_Surjection DEF D
  <1>7. start \subseteq P /\ \A x : x \subseteq P => Up(x) \subseteq P BY DEF start
  <1>8. 0..c \subseteq {k \in 0..c : f[k] \subseteq P /\ t[n].parent \in f[k]}
    <2> DEFINE G == {k \in 0..c : f[k] \subseteq P /\ t[n].parent \in f[k]}
    <2>1. 0 \in G BY <1>1, <1>5, <1>7 DEF start
    <2>2. ASSUME NEW k \in 0..c, k < c, k \in G PROVE k + 1 \in G
      <3>1. k + 1 \in 0..c BY <1>1, <2>2
      <3>2. f[k + 1] = Up(f[k]) BY <1>5, <2>2
      <3> HIDE DEF Up, P
      <3> QED BY <1>2, <1>7, <2>2, <3>1, <3>2
    <2>3. 0 \in Int /\ c \in Int BY <1>1
    <2> HIDE DEF G, c
    <2>4. 0..c \subseteq G BY <2>1, <2>2, <2>3, IntervalInduction
    <2> QED BY <2>4 DEF G
  <1>9. ASSUME NEW k \in 0..c
        PROVE  f[k] \subseteq P /\ t[n].parent \in f[k] /\ IsFiniteSet(f[k]) /\ Cardinality(f[k]) \in Nat
               /\ Cardinality(f[k]) <= c
    <2>1. f[k] \subseteq P /\ t[n].parent \in f[k] BY <1>8
    <2> HIDE DEF P, c
    <2>2. f[k] \in SUBSET P BY <2>1
    <2>3. IsFiniteSet(f[k]) /\ Cardinality(f[k]) <= Cardinality(P) BY <1>6, <2>2, FS_Subset
    <2>4. Cardinality(f[k]) \in Nat /\ Cardinality(P) \in Nat BY <1>6, <2>3, FS_CardinalityType
    <2> QED BY <1>1, <1>6, <2>1, <2>3, <2>4
  <1> DEFINE G == {k \in 0..c : Up(f[k]) = f[k] \/ Cardinality(f[k]) >= k + 1}
  <1>10. 0 \in G
    <2>1. 0 \in 0..c BY <1>1
    <2>2. f[0] = start BY <1>5
    <2>3. Cardinality(start) = 1 BY FS_Singleton DEF start
    <2> HIDE DEF Up
    <2> QED BY <2>1, <2>2, <2>3
  <1>11. ASSUME NEW k \in 0..c, k < c, k \in G PROVE k + 1 \in G
    <2>1. k + 1 \in 0..c /\ k \in Nat BY <1>1, <1>11
    <2>2. PICK x, y : x = f[k] /\ y = f[k + 1] OBVIOUS
    <2>3. y = Up(x) BY <1>5, <1>11, <2>2
    <2>4. CASE Up(x) = x
      <3>1. y = x BY <2>3, <2>4
      <3> HIDE DEF Up
      <3> QED BY <2>1, <2>2, <2>4, <3>1
    <2>5. CASE Up(x) # x
      <3>1. x \subseteq y /\ y # x BY <2>3, <2>5
      <3>2. IsFiniteSet(x) /\ IsFiniteSet(y) /\ Cardinality(x) \in Nat /\ Cardinality(y) \in Nat
        BY <1>9, <2>1, <2>2
      <3>3. Cardinality(x) >= k + 1
        <4> HIDE DEF Up
        <4> QED BY <1>11, <2>2, <2>5
      <3>4. x \in SUBSET y BY <3>1
      <3>5. Cardinality(x) <= Cardinality(y) /\ Cardinality(y) # Cardinality(x)
        BY ONLY <3>1, <3>2, <3>4, FS_Subset
      <3>6. Cardinality(y) >= (k + 1) + 1 BY <2>1, <3>2, <3>3, <3>5
      <3> HIDE DEF Up
      <3> QED BY <2>1, <2>2, <3>6
    <2> HIDE DEF G, Up
    <2> QED BY <2>4, <2>5
  <1>12. c \in G
    <2> HIDE DEF G, c
    <2>1. \A k \in 0..c : k < c /\ k \in G => k + 1 \in G BY <1>11
    <2>2. 0 \in Int /\ c \in Int /\ c \in 0..c BY <1>1
    <2>3. 0..c \subseteq G BY <1>10, <2>1, <2>2, IntervalInduction
    <2> QED BY <2>2, <2>3
  <1>13. PICK z : z = f[c] OBVIOUS
  <1>14. Up(z) = z
    <2>1. c \in 0..c BY <1>1
    <2>2. Cardinality(z) <= c /\ Cardinality(z) \in Nat BY <1>9, <1>13, <2>1
    <2>3. Up(z) = z \/ Cardinality(z) >= c + 1 BY <1>12, <1>13
    <2> HIDE DEF Up, c
    <2> QED BY <1>1, <2>2, <2>3
  <1>15. UpClosed(t, z)
    <2>1. \A m \in z \cap D : t[m].parent \in Up(z) BY <1>2
    <2> HIDE DEF Up
    <2> QED BY <1>14, <2>1 DEF UpClosed
  <1>16. t[n].parent \in z
    <2>1. c \in 0..c BY <1>1
    <2> QED BY <1>9, <1>13, <2>1
  <1>17. ASSUME NEW U, t[n].parent \in U, UpClosed(t, U) PROVE z \subseteq U
    <2> DEFINE H == {k \in 0..c : f[k] \subseteq U}
    <2>1. 0 \in H BY <1>1, <1>5, <1>17 DEF start
    <2>2. ASSUME NEW k \in 0..c, k < c, k \in H PROVE k + 1 \in H
      <3>1. k + 1 \in 0..c /\ f[k + 1] = Up(f[k]) BY <1>1, <1>5, <2>2
      <3>2. f[k] \subseteq U BY <2>2
      <3>3. Up(f[k]) \subseteq U BY <1>17, <3>2 DEF UpClosed
      <3> HIDE DEF Up
      <3> QED BY <3>1, <3>3
    <2>3. 0 \in Int /\ c \in Int /\ c \in 0..c BY <1>1
    <2> HIDE DEF H, c
    <2>4. 0..c \subseteq H BY <2>1, <2>2, <2>3, IntervalInduction
    <2>5. c \in H BY <2>3, <2>4
    <2> QED BY <1>13, <2>5 DEF H
  <1> HIDE DEF Up, c
  <1> QED BY <1>4, <1>13, <1>15, <1>16, <1>17

-----------------------------------------------------------------------------
(* Forests, and what the operations make of them.                          *)

Forest(t) ==
    /\ IsFiniteSet(DOMAIN t) /\ 0 \notin DOMAIN t
    /\ \A n \in DOMAIN t : t[n].parent \in {0} \cup DOMAIN t
    /\ \A n \in DOMAIN t : n \notin Above(t, n)

LEMMA AboveWithin ==
    ASSUME NEW t, Forest(t), NEW n \in DOMAIN t
    PROVE  Above(t, n) \subseteq {0} \cup DOMAIN t
  <1>1. PICK U : U = {0} \cup DOMAIN t OBVIOUS
  <1>2. t[n].parent \in U /\ UpClosed(t, U) BY <1>1 DEF Forest, UpClosed
  <1>3. IsFiniteSet(DOMAIN t) BY DEF Forest
  <1> QED BY <1>1, <1>2, <1>3, AboveFacts

LEMMA AboveAbove ==
    ASSUME NEW t, IsFiniteSet(DOMAIN t), NEW n \in DOMAIN t, NEW m \in Above(t, n) \cap DOMAIN t
    PROVE  Above(t, m) \subseteq Above(t, n)
  <1>1. UpClosed(t, Above(t, n)) BY AboveFacts
  <1>2. t[m].parent \in Above(t, n) BY <1>1 DEF UpClosed
  <1>3. PICK U : U = Above(t, n) OBVIOUS
  <1>4. t[m].parent \in U /\ UpClosed(t, U) BY <1>1, <1>2, <1>3
  <1>5. Above(t, m) \subseteq U BY <1>4, AboveFacts
  <1> QED BY <1>3, <1>5

\* Rows are added under what is there.
LEMMA Grown ==
    ASSUME NEW t, Forest(t), NEW t2, IsFiniteSet(DOMAIN t2), 0 \notin DOMAIN t2, DOMAIN t \subseteq DOMAIN t2,
           \A m \in DOMAIN t : t2[m].parent = t[m].parent,
           \A m \in DOMAIN t2 \ DOMAIN t : t2[m].parent \in {0} \cup DOMAIN t
    PROVE  Forest(t2)
  <1>1. IsFiniteSet(DOMAIN t) BY DEF Forest
  <1>2. ASSUME NEW n \in DOMAIN t2 PROVE n \notin Above(t2, n) /\ t2[n].parent \in {0} \cup DOMAIN t2
    <2>1. CASE n \in DOMAIN t
      <3>1. PICK U : U = Above(t, n) OBVIOUS
      <3>2. U \subseteq {0} \cup DOMAIN t BY <2>1, <3>1, AboveWithin
      <3>3. t[n].parent \in U /\ UpClosed(t, U) BY <1>1, <2>1, <3>1, AboveFacts
      <3>4. t2[n].parent \in U BY <2>1, <3>3
      <3>5. UpClosed(t2, U) BY <3>2, <3>3 DEF UpClosed
      <3>6. Above(t2, n) \subseteq U BY <3>4, <3>5, AboveFacts
      <3>7. n \notin U /\ t[n].parent \in {0} \cup DOMAIN t BY <2>1, <3>1 DEF Forest
      <3> QED BY <2>1, <3>6, <3>7
    <2>2. CASE n \notin DOMAIN t
      <3>1. PICK U : U = {0} \cup DOMAIN t OBVIOUS
      <3>2. t2[n].parent \in U BY <2>2, <3>1
      <3>3. UpClosed(t2, U) BY <3>1 DEF UpClosed, Forest
      <3>4. Above(t2, n) \subseteq U BY <3>2, <3>3, AboveFacts
      <3> QED BY <2>2, <3>1, <3>2, <3>4
    <2> QED BY <2>1, <2>2
  <1> QED BY <1>2 DEF Forest

\* Rows are taken out with all that is below them.
LEMMA Thinned ==
    ASSUME NEW t, Forest(t), NEW t2, DOMAIN t2 \subseteq DOMAIN t,
           \A m \in DOMAIN t2 : t2[m].parent = t[m].parent /\ t2[m].parent \in {0} \cup DOMAIN t2
    PROVE  Forest(t2)
  <1>1. IsFiniteSet(DOMAIN t) /\ 0 \notin DOMAIN t BY DEF Forest
  <1>2. IsFiniteSet(DOMAIN t2)
    <2>1. DOMAIN t2 \in SUBSET (DOMAIN t) OBVIOUS
    <2> QED BY <1>1, <2>1, FS_Subset
  <1>3. ASSUME NEW n \in DOMAIN t2 PROVE n \notin Above(t2, n)
    <2>1. n \in DOMAIN t OBVIOUS
    <2>2. PICK U : U = Above(t, n) OBVIOUS
    <2>3. t[n].parent \in U /\ UpClosed(t, U) BY <1>1, <2>1, <2>2, AboveFacts
    <2>4. t2[n].parent \in U /\ UpClosed(t2, U) BY <2>3 DEF UpClosed
    <2>5. Above(t2, n) \subseteq U BY <1>2, <2>4, AboveFacts
    <2>6. n \notin U BY <2>1, <2>2 DEF Forest
    <2> QED BY <2>5, <2>6
  <1> QED BY <1>1, <1>2, <1>3 DEF Forest

\* A row is hung elsewhere, not from itself or from below itself.
LEMMA Rehung ==
    ASSUME NEW t, Forest(t), NEW x \in DOMAIN t, NEW q,
           q = 0 \/ (q \in DOMAIN t /\ q # x /\ x \notin Above(t, q)),
           NEW t2, DOMAIN t2 = DOMAIN t, t2[x].parent = q,
           \A m \in DOMAIN t : m # x => t2[m].parent = t[m].parent
    PROVE  /\ Forest(t2)
           /\ Above(t2, x) \subseteq {q} \cup Above(t, q)
  <1>1. IsFiniteSet(DOMAIN t) /\ 0 \notin DOMAIN t BY DEF Forest
  <1>2. PICK V : V = {q} \cup Above(t, q) OBVIOUS
  <1>3. x \notin V /\ UpClosed(t, V)
    <2>1. CASE q = 0
      <3>1. 0 \notin DOMAIN t /\ Above(t, q) = {} BY <1>1, <2>1 DEF Above
      <3> QED BY <1>2, <2>1, <3>1 DEF UpClosed
    <2>2. CASE q # 0
      <3>1. t[q].parent \in Above(t, q) /\ UpClosed(t, Above(t, q)) BY <1>1, <2>2, AboveFacts
      <3> QED BY <1>2, <2>2, <3>1 DEF UpClosed
    <2> QED BY <2>1, <2>2
  <1>4. UpClosed(t2, V) BY <1>3 DEF UpClosed
  <1>5. Above(t2, x) \subseteq V
    <2>1. t2[x].parent \in V BY <1>2
    <2> QED BY <1>1, <1>4, <2>1, AboveFacts
  <1>6. ASSUME NEW n \in DOMAIN t2 PROVE n \notin Above(t2, n)
    <2>1. PICK A : A = Above(t, n) OBVIOUS
    <2>2. t[n].parent \in A /\ UpClosed(t, A) /\ n \notin A BY <1>1, <2>1, AboveFacts DEF Forest
    <2>3. CASE n = x BY <1>3, <1>5, <2>3
    <2>4. CASE n # x /\ x \notin A
      <3>1. UpClosed(t2, A) BY <2>2, <2>4 DEF UpClosed
      <3>2. t2[n].parent \in A BY <2>2, <2>4
      <3>3. Above(t2, n) \subseteq A BY <1>1, <3>1, <3>2, AboveFacts
      <3> QED BY <2>2, <3>3
    <2>5. CASE n # x /\ x \in A
      <3>1. PICK U : U = A \cup V OBVIOUS
      <3>2. UpClosed(t2, U) BY <1>2, <1>4, <2>2, <3>1 DEF UpClosed
      <3>3. t2[n].parent \in U BY <2>2, <2>5, <3>1
      <3>4. Above(t2, n) \subseteq U BY <1>1, <3>2, <3>3, AboveFacts
      <3>5. n \notin V
        <4>1. CASE n = q BY <1>2, <1>3, <2>1, <2>5, <4>1
        <4>2. CASE n # q /\ n \in Above(t, q)
          <5>1. q # 0 BY <1>1, <4>2 DEF Above
          <5>2. A \subseteq Above(t, q) BY <1>1, <2>1, <4>2, <5>1, AboveAbove
          <5> QED BY <2>5, <5>1, <5>2
        <4> QED BY <1>2, <4>1, <4>2
      <3> QED BY <2>2, <3>1, <3>4, <3>5
    <2> QED BY <2>3, <2>4, <2>5
  <1>7. \A n \in DOMAIN t2 : t2[n].parent \in {0} \cup DOMAIN t2 BY DEF Forest
  <1> QED BY <1>1, <1>2, <1>5, <1>6, <1>7 DEF Forest

\* A row is taken out and what hung from it is hung from another, which is
\* not below it.
LEMMA Taken ==
    ASSUME NEW t, Forest(t), NEW x \in DOMAIN t, NEW o \in DOMAIN t, o # x, o \notin Above(t, x),
           NEW t2, DOMAIN t2 = DOMAIN t \ {o},
           \A m \in DOMAIN t2 : t2[m].parent = (IF t[m].parent = o THEN x ELSE t[m].parent)
    PROVE  Forest(t2) /\ Above(t2, x) \subseteq Above(t, x)
  <1>1. IsFiniteSet(DOMAIN t) /\ 0 \notin DOMAIN t BY DEF Forest
  <1>2. IsFiniteSet(DOMAIN t2)
    <2>1. DOMAIN t2 \in SUBSET (DOMAIN t) OBVIOUS
    <2> QED BY <1>1, <2>1, FS_Subset
  <1>3. PICK X : X = Above(t, x) OBVIOUS
  <1>4. t[x].parent \in X /\ UpClosed(t, X) /\ x \notin X /\ o \notin X BY <1>1, <1>3, AboveFacts DEF Forest
  <1>5. UpClosed(t2, X)
    <2> SUFFICES ASSUME NEW m \in X \cap DOMAIN t2 PROVE t2[m].parent \in X BY DEF UpClosed
    <2>1. t[m].parent \in X BY <1>4 DEF UpClosed
    <2> QED BY <1>4, <2>1
  <1>6. Above(t2, x) \subseteq X
    <2>1. x \in DOMAIN t2 /\ t2[x].parent \in X BY <1>4
    <2> QED BY <1>2, <1>5, <2>1, AboveFacts
  <1>7. ASSUME NEW n \in DOMAIN t2 PROVE n \notin Above(t2, n)
    <2>1. PICK A : A = Above(t, n) OBVIOUS
    <2>2. n \in DOMAIN t /\ t[n].parent \in A /\ UpClosed(t, A) /\ n \notin A
      BY <1>1, <2>1, AboveFacts DEF Forest
    <2>3. CASE o \notin A
      <3>1. UpClosed(t2, A)
        <4> SUFFICES ASSUME NEW m \in A \cap DOMAIN t2 PROVE t2[m].parent \in A BY DEF UpClosed
        <4>1. t[m].parent \in A BY <2>2 DEF UpClosed
        <4> QED BY <2>3, <4>1
      <3>2. t2[n].parent \in A BY <2>2, <2>3
      <3>3. Above(t2, n) \subseteq A BY <1>2, <3>1, <3>2, AboveFacts
      <3> QED BY <2>2, <3>3
    <2>4. CASE o \in A
      <3>1. PICK U : U = A \cup {x} \cup X OBVIOUS
      <3>2. UpClosed(t2, U)
        <4> SUFFICES ASSUME NEW m \in U \cap DOMAIN t2 PROVE t2[m].parent \in U BY DEF UpClosed
        <4>1. m \in DOMAIN t OBVIOUS
        <4>2. t[m].parent \in A \cup X BY <1>4, <2>2, <3>1, <4>1 DEF UpClosed
        <4> QED BY <3>1, <4>2
      <3>3. t2[n].parent \in U BY <2>2, <3>1
      <3>4. Above(t2, n) \subseteq U BY <1>2, <3>2, <3>3, AboveFacts
      <3>5. n # x BY <1>3, <1>4, <2>1, <2>4
      <3>6. n \notin X
        <4>1. n \in X => A \subseteq X BY <1>1, <1>3, <2>1, <2>2, AboveAbove
        <4> QED BY <1>4, <2>4, <4>1
      <3> QED BY <2>2, <3>1, <3>4, <3>5, <3>6
    <2> QED BY <2>3, <2>4
  <1>8. \A n \in DOMAIN t2 : t2[n].parent \in {0} \cup DOMAIN t2 BY DEF Forest
  <1> QED BY <1>1, <1>2, <1>3, <1>6, <1>7, <1>8 DEF Forest

-----------------------------------------------------------------------------
(* The live rows, and what the additive operations do to them.             *)

Tree(c) == [n \in LiveNodes(c) |-> c.node[n]]

\* The tree is a forest and the live links hang from it.
Sound(c) ==
    /\ Forest(Tree(c))
    /\ \A l \in LiveRows(c.link) : c.link[l].node \in LiveNodes(c)

LEMMA TreeIs ==
    ASSUME NEW c
    PROVE  /\ DOMAIN Tree(c) = LiveNodes(c) /\ \A n \in LiveNodes(c) : Tree(c)[n] = c.node[n]
           /\ View(c).node = Tree(c)
           /\ \A n : n \in LiveNodes(c) <=> n \in DOMAIN c.node /\ c.node[n].by = 0
           /\ \A l : l \in LiveRows(c.link) <=> l \in DOMAIN c.link /\ c.link[l].by = 0
  BY DEF Tree, View, LiveNodes, LiveRows

LEMMA TreeFinite ==
    ASSUME NEW c, NEW K \in Nat, NEW L, Bounded(c, K, L)
    PROVE  IsFiniteSet(DOMAIN Tree(c)) /\ 0 \notin DOMAIN Tree(c)
  <1>1. DOMAIN Tree(c) \in SUBSET (1..K) BY TreeIs DEF Bounded
  <1>2. IsFiniteSet(1..K) BY FS_Interval
  <1>3. IsFiniteSet(DOMAIN Tree(c)) BY <1>1, <1>2, FS_Subset
  <1>4. 0 \notin 1..K OBVIOUS
  <1> QED BY <1>1, <1>3, <1>4

\* The nodes stay, and so do the links, but for those that are marked or hung
\* from another live node.
LEMMA SoundLinks ==
    ASSUME NEW c, Sound(c), NEW c2, c2.node = c.node,
           \A l \in LiveRows(c2.link) :
              \/ l \in LiveRows(c.link) /\ c2.link[l].node = c.link[l].node
              \/ c2.link[l].node \in LiveNodes(c)
    PROVE  Sound(c2)
  <1>1. LiveNodes(c2) = LiveNodes(c) /\ Tree(c2) = Tree(c) BY DEF Tree, LiveNodes
  <1> QED BY <1>1 DEF Sound

LEMMA SoundCreate ==
    ASSUME NEW K \in Nat, NEW L \in Nat, NEW c, Table(c), Bounded(c, K, L), Sound(c),
           NEW parent \in LiveNodes(c), NEW title
    PROVE  /\ Sound(Create(c, K + 1, parent, title).c)
           /\ K + 1 \in LiveNodes(Create(c, K + 1, parent, title).c)
  <1> DEFINE N == Put(c.node, K + 1, NewNode(parent, title, "node"))
  <1>1. Create(c, K + 1, parent, title).c = [c EXCEPT !.node = N] BY DEF Create, Result
  <1>2. c = [node |-> c.node, link |-> c.link, sup |-> c.sup] BY DEF Table
  <1>3. PICK x : x = NewNode(parent, title, "node") OBVIOUS
  <1>4. x.parent = parent /\ x.by = 0 BY <1>3 DEF NewNode
  <1>5. /\ DOMAIN N = DOMAIN c.node \cup {K + 1} /\ N[K + 1] = x
        /\ \A k \in DOMAIN c.node : k # K + 1 => N[k] = c.node[k]
    BY <1>3 DEF Put
  <1> HIDE DEF N
  <1>6. Create(c, K + 1, parent, title).c = [node |-> N, link |-> c.link, sup |-> c.sup] BY <1>1, <1>2, CatChanged
  <1>7. PICK d : d = Create(c, K + 1, parent, title).c /\ d.node = N /\ d.link = c.link BY <1>6
  <1>8. K + 1 \notin DOMAIN c.node
    <2>1. K + 1 \notin 1..K OBVIOUS
    <2> QED BY <2>1 DEF Bounded
  <1>9. LiveNodes(d) = LiveNodes(c) \cup {K + 1}
    <2>1. \A n : n \in LiveNodes(c) <=> n \in DOMAIN c.node /\ c.node[n].by = 0 BY TreeIs
    <2>2. \A n : n \in LiveNodes(d) <=> n \in DOMAIN N /\ N[n].by = 0 BY <1>7, TreeIs
    <2>3. ASSUME NEW n PROVE n \in LiveNodes(d) <=> n \in LiveNodes(c) \cup {K + 1}
      <3>1. CASE n = K + 1 BY <1>4, <1>5, <2>2, <3>1
      <3>2. CASE n # K + 1
        <4>1. n \in DOMAIN N <=> n \in DOMAIN c.node BY <1>5, <3>2
        <4>2. n \in DOMAIN c.node => N[n] = c.node[n] BY <1>5, <3>2
        <4> QED BY <2>1, <2>2, <3>2, <4>1, <4>2
      <3> QED BY <3>1, <3>2
    <2> QED BY <2>3
  <1>10. \A n \in LiveNodes(c) : d.node[n] = c.node[n] BY <1>5, <1>7, <1>8, TreeIs
  <1>11. d.node[K + 1].parent = parent BY <1>4, <1>5, <1>7
  <1>12. IsFiniteSet(DOMAIN Tree(d)) /\ 0 \notin DOMAIN Tree(d)
    <2>1. IsFiniteSet(LiveNodes(c)) /\ 0 \notin LiveNodes(c) BY TreeFinite, TreeIs
    <2>2. IsFiniteSet(LiveNodes(c) \cup {K + 1}) BY <2>1, FS_AddElement
    <2>3. 0 # K + 1 OBVIOUS
    <2>4. DOMAIN Tree(d) = LiveNodes(d) BY TreeIs
    <2> QED BY <1>9, <2>1, <2>2, <2>3, <2>4
  <1>13. PICK t, t2 : t = Tree(c) /\ t2 = Tree(d) OBVIOUS
  <1>14. /\ DOMAIN t = LiveNodes(c) /\ DOMAIN t2 = LiveNodes(c) \cup {K + 1}
         /\ \A n \in LiveNodes(c) : t[n] = c.node[n] /\ t2[n] = c.node[n]
         /\ t2[K + 1].parent = parent
    BY <1>9, <1>10, <1>11, <1>13, TreeIs
  <1>15. Forest(t) BY <1>13 DEF Sound
  <1>16. Forest(t2)
    <2>1. \A m \in DOMAIN t2 \ DOMAIN t : t2[m].parent \in {0} \cup DOMAIN t BY <1>14
    <2>2. \A m \in DOMAIN t : t2[m].parent = t[m].parent BY <1>14
    <2>3. IsFiniteSet(DOMAIN t2) /\ 0 \notin DOMAIN t2 /\ DOMAIN t \subseteq DOMAIN t2 BY <1>12, <1>13, <1>14
    <2> QED BY ONLY <1>15, <2>1, <2>2, <2>3, Grown
  <1>17. Sound(d) BY <1>7, <1>9, <1>13, <1>16 DEF Sound
  <1> QED BY <1>7, <1>9, <1>17

LEMMA SoundFile ==
    ASSUME NEW K, NEW L \in Nat, NEW c, Table(c), Bounded(c, K, L), Sound(c), NEW n \in LiveNodes(c), NEW item
    PROVE  Sound(File(c, L + 1, n, item).c)
  <1>1. c = [node |-> c.node, link |-> c.link, sup |-> c.sup] BY DEF Table
  <1>2. CASE Held(c, n, item) = {}
    <2> DEFINE M == Put(c.link, L + 1, NewLink(n, item))
    <2>1. File(c, L + 1, n, item).c = [c EXCEPT !.link = M] BY <1>2 DEF File, Result
    <2>2. PICK x : x = NewLink(n, item) OBVIOUS
    <2>3. x.node = n BY <2>2 DEF NewLink
    <2>4. /\ DOMAIN M = DOMAIN c.link \cup {L + 1} /\ M[L + 1] = x
          /\ \A k \in DOMAIN c.link : k # L + 1 => M[k] = c.link[k]
      BY <2>2 DEF Put
    <2> HIDE DEF M
    <2>5. File(c, L + 1, n, item).c = [node |-> c.node, link |-> M, sup |-> c.sup] BY <1>1, <2>1, CatChanged
    <2>6. PICK d : d = File(c, L + 1, n, item).c /\ d.node = c.node /\ d.link = M BY <2>5
    <2>7. \A l \in LiveRows(d.link) :
              \/ l \in LiveRows(c.link) /\ d.link[l].node = c.link[l].node
              \/ d.link[l].node \in LiveNodes(c)
      <3> SUFFICES ASSUME NEW k \in LiveRows(d.link)
                   PROVE  \/ k \in LiveRows(c.link) /\ d.link[k].node = c.link[k].node
                          \/ d.link[k].node \in LiveNodes(c)
        OBVIOUS
      <3>1. k \in DOMAIN M /\ M[k].by = 0 BY <2>6 DEF LiveRows
      <3>2. CASE k = L + 1 BY <2>3, <2>4, <2>6, <3>2
      <3>3. CASE k # L + 1
        <4>1. k \in DOMAIN c.link /\ M[k] = c.link[k] BY <2>4, <3>1, <3>3
        <4> QED BY <2>6, <3>1, <4>1 DEF LiveRows
      <3> QED BY <3>2, <3>3
    <2> QED BY <2>6, <2>7, SoundLinks
  <1>3. CASE Held(c, n, item) # {}
    <2> DEFINE l == CHOOSE l \in Held(c, n, item) : TRUE
               M == [c.link EXCEPT ![l] = [@ EXCEPT !.by = 0]]
    <2>1. l \in DOMAIN c.link /\ c.link[l].node = n BY <1>3 DEF Held
    <2>2. File(c, L + 1, n, item).c = [c EXCEPT !.link[l].by = 0] BY <1>3 DEF File, Result
    <2>3. [c EXCEPT !.link[l].by = 0] = [c EXCEPT !.link = M] OBVIOUS
    <2>4. /\ DOMAIN M = DOMAIN c.link /\ M[l] = [c.link[l] EXCEPT !.by = 0]
          /\ \A k \in DOMAIN c.link : k # l => M[k] = c.link[k]
      BY <2>1
    <2> HIDE DEF M, l
    <2>5. PICK x : x = c.link[l] OBVIOUS
    <2>6. x = [node |-> x.node, item |-> x.item, by |-> x.by] /\ M[l] = [x EXCEPT !.by = 0]
      BY <2>1, <2>4, <2>5 DEF Table
    <2>7. M[l].node = n BY <2>1, <2>5, <2>6, LinkFields
    <2>8. File(c, L + 1, n, item).c = [node |-> c.node, link |-> M, sup |-> c.sup]
      BY <1>1, <2>2, <2>3, CatChanged
    <2>9. PICK d : d = File(c, L + 1, n, item).c /\ d.node = c.node /\ d.link = M BY <2>8
    <2>10. \A k \in LiveRows(d.link) :
              \/ k \in LiveRows(c.link) /\ d.link[k].node = c.link[k].node
              \/ d.link[k].node \in LiveNodes(c)
      <3> SUFFICES ASSUME NEW k \in LiveRows(d.link)
                   PROVE  \/ k \in LiveRows(c.link) /\ d.link[k].node = c.link[k].node
                          \/ d.link[k].node \in LiveNodes(c)
        OBVIOUS
      <3>1. k \in DOMAIN M /\ M[k].by = 0 BY <2>9 DEF LiveRows
      <3>2. CASE k = l BY <2>7, <2>9, <3>2
      <3>3. CASE k # l
        <4>1. k \in DOMAIN c.link /\ M[k] = c.link[k] BY <2>4, <3>1, <3>3
        <4> QED BY <2>9, <3>1, <4>1 DEF LiveRows
      <3> QED BY <3>2, <3>3
    <2> QED BY <2>9, <2>10, SoundLinks
  <1> QED BY <1>2, <1>3

\* Two trees with the same ids, one row hung elsewhere.
LEMMA SoundPromote ==
    ASSUME NEW c, Table(c), Sound(c), NEW p, p.node \in LiveNodes(c),
           p.to = 0 \/ (p.to \in LiveNodes(c) /\ p.to # p.node /\ p.node \notin Above(Tree(c), p.to))
    PROVE  Sound(Promote(c, p).c)
  <1> DEFINE x == p.node
             hung == [n \in {x} |-> [c.node[n] EXCEPT !.parent = p.to]]
             N == Over(hung, c.node)
  <1>1. x \in DOMAIN c.node /\ c.node[x].by = 0 BY TreeIs
  <1>2. Promote(c, p).c = [c EXCEPT !.node = N]
    <2>1. {p.node} \cap DOMAIN c.node = {x} BY <1>1
    <2> QED BY <2>1 DEF Promote, Result
  <1>3. c = [node |-> c.node, link |-> c.link, sup |-> c.sup] BY DEF Table
  <1>4. /\ DOMAIN N = DOMAIN c.node /\ N[x] = [c.node[x] EXCEPT !.parent = p.to]
        /\ \A n \in DOMAIN c.node : n # x => N[n] = c.node[n]
    BY <1>1 DEF Over
  <1>5. N[x].parent = p.to /\ N[x].by = 0
    <2>1. c.node[x] = [parent |-> c.node[x].parent, title |-> c.node[x].title,
                       kind |-> c.node[x].kind, by |-> c.node[x].by] BY <1>1 DEF Table
    <2>2. PICK y : y = c.node[x] OBVIOUS
    <2>3. PICK z : z = [y EXCEPT !.parent = p.to] OBVIOUS
    <2>4. z.parent = p.to /\ z.by = y.by BY <2>1, <2>2, <2>3, NodeFields
    <2>5. N[x] = z BY <1>4, <2>2, <2>3
    <2> HIDE DEF N, x
    <2> QED BY <1>1, <2>2, <2>4, <2>5
  <1> HIDE DEF N
  <1>6. Promote(c, p).c = [node |-> N, link |-> c.link, sup |-> c.sup] BY <1>2, <1>3, CatChanged
  <1>7. PICK d : d = Promote(c, p).c /\ d.node = N /\ d.link = c.link BY <1>6
  <1>8. LiveNodes(d) = LiveNodes(c)
    <2>1. \A n \in DOMAIN c.node : N[n].by = c.node[n].by BY <1>1, <1>4, <1>5
    <2> QED BY <1>4, <1>7, <2>1 DEF LiveNodes, LiveRows
  <1>9. PICK t, t2 : t = Tree(c) /\ t2 = Tree(d) OBVIOUS
  <1>10. /\ DOMAIN t = LiveNodes(c) /\ DOMAIN t2 = LiveNodes(c)
         /\ \A n \in LiveNodes(c) : t[n] = c.node[n] /\ t2[n] = N[n]
    BY <1>7, <1>8, <1>9, TreeIs
  <1>11. \A n \in LiveNodes(c) : n \in DOMAIN c.node BY TreeIs
  <1>12. Forest(t) BY <1>9 DEF Sound
  <1>13. Forest(t2)
    <2>1. x \in DOMAIN t /\ t2[x].parent = p.to /\ DOMAIN t2 = DOMAIN t BY <1>5, <1>10
    <2>2. \A m \in DOMAIN t : m # x => t2[m].parent = t[m].parent BY <1>4, <1>10, <1>11
    <2>3. p.to = 0 \/ (p.to \in DOMAIN t /\ p.to # x /\ x \notin Above(t, p.to)) BY <1>9, <1>10
    <2> HIDE DEF x
    <2> QED BY ONLY <1>12, <2>1, <2>2, <2>3, Rehung
  <1>14. Sound(d)
    <2>1. LiveRows(d.link) = LiveRows(c.link) /\ \A l \in LiveRows(c.link) : c.link[l].node \in LiveNodes(c)
      BY <1>7 DEF Sound
    <2> QED BY <1>7, <1>8, <1>9, <1>13, <2>1 DEF Sound
  <1> QED BY <1>7, <1>14

\* The parts hang beside the class that is split, which is live: some of the
\* links that move hang from it.
LEMMA SoundSplit ==
    ASSUME NEW K \in Nat, NEW L \in Nat, NEW c, Table(c), Bounded(c, K, L), Sound(c),
           NEW p, IsSeq(p.parts), p.node \in LiveNodes(c)
    PROVE  Sound(Split(c, p, K).c)
  <1> DEFINE part(k) == {l \in p.parts[k].links \cap LiveRows(c.link) : c.link[l].node = p.node}
             home == [l \in UNION {part(k) : k \in 1..Len(p.parts)} |->
                        K + (CHOOSE k \in 1..Len(p.parts) : l \in part(k))]
             made == [n \in {K + k : k \in 1..Len(p.parts)} |->
                        NewNode(c.node[p.node].parent, p.parts[n - K].title, "node")]
             N == Over(made, c.node)
             M == [l \in DOMAIN c.link |-> IF l \in DOMAIN home
                                           THEN [c.link[l] EXCEPT !.node = home[l]] ELSE c.link[l]]
             parts == {K + k : k \in 1..Len(p.parts)}
  <1>1. Split(c, p, K).c = [c EXCEPT !.node = N, !.link = M] BY DEF Split, Result
  <1>2. c = [node |-> c.node, link |-> c.link, sup |-> c.sup] BY DEF Table
  <1>3. Len(p.parts) \in Nat BY SeqFacts
  <1>4. \A n \in parts : n > K /\ made[n].by = 0 /\ made[n].parent = c.node[p.node].parent
    <2> SUFFICES ASSUME NEW n \in parts
                 PROVE  n > K /\ made[n].by = 0 /\ made[n].parent = c.node[p.node].parent
      OBVIOUS
    <2>1. PICK k \in 1..Len(p.parts) : n = K + k OBVIOUS
    <2>2. PICK y : made[n] = NewNode(c.node[p.node].parent, y, "node") OBVIOUS
    <2> HIDE DEF made
    <2>3. n > K BY <1>3, <2>1
    <2>4. PICK x : x = made[n] /\ x = NewNode(c.node[p.node].parent, y, "node") BY <2>2
    <2>5. x.by = 0 /\ x.parent = c.node[p.node].parent BY <2>4 DEF NewNode
    <2> QED BY <2>3, <2>4, <2>5
  <1>5. \A l \in DOMAIN home : l \in DOMAIN c.link /\ home[l] \in parts
    <2> SUFFICES ASSUME NEW l \in DOMAIN home PROVE l \in DOMAIN c.link /\ home[l] \in parts OBVIOUS
    <2>1. l \in DOMAIN c.link BY DEF LiveRows
    <2>2. \E k \in 1..Len(p.parts) : l \in part(k) OBVIOUS
    <2> HIDE DEF part
    <2>3. PICK k : k = (CHOOSE j \in 1..Len(p.parts) : l \in part(j)) OBVIOUS
    <2>4. k \in 1..Len(p.parts) BY <2>2, <2>3
    <2>5. home[l] = K + k BY <2>3
    <2> QED BY <2>1, <2>4, <2>5
  <1>6. /\ DOMAIN N = parts \cup DOMAIN c.node /\ \A n \in parts : N[n] = made[n]
        /\ \A n \in DOMAIN c.node : n \notin parts => N[n] = c.node[n]
    <2>1. DOMAIN made = parts OBVIOUS
    <2> HIDE DEF made, parts
    <2> QED BY <2>1 DEF Over
  <1>7. /\ DOMAIN M = DOMAIN c.link
        /\ \A l \in DOMAIN c.link : M[l] = IF l \in DOMAIN home THEN [c.link[l] EXCEPT !.node = home[l]]
                                           ELSE c.link[l]
    <2> HIDE DEF home
    <2> QED OBVIOUS
  <1>8. \A n \in DOMAIN c.node : n \notin parts
    <2>1. \A n \in DOMAIN c.node : ~(n > K) BY DEF Bounded
    <2> HIDE DEF parts
    <2> QED BY <1>4, <2>1
  <1>9. IsFiniteSet(parts) /\ 0 \notin parts
    <2>1. parts \in SUBSET (1..(K + Len(p.parts)))
      <3> SUFFICES ASSUME NEW k \in 1..Len(p.parts) PROVE K + k \in 1..(K + Len(p.parts)) OBVIOUS
      <3> QED BY <1>3
    <2>2. K + Len(p.parts) \in Int /\ 1 \in Int BY <1>3
    <2>3. IsFiniteSet(1..(K + Len(p.parts))) BY <2>2, FS_Interval
    <2>4. 0 \notin 1..(K + Len(p.parts)) OBVIOUS
    <2> HIDE DEF parts
    <2> QED BY <2>1, <2>3, <2>4, FS_Subset
  <1> HIDE DEF N, M, made, home, part, parts
  <1>10. Split(c, p, K).c = [node |-> N, link |-> M, sup |-> c.sup] BY <1>1, <1>2, CatChanged
  <1>11. PICK d : d = Split(c, p, K).c /\ d.node = N /\ d.link = M BY <1>10
  <1>12. LiveNodes(d) = LiveNodes(c) \cup parts
    <2> SUFFICES ASSUME NEW n PROVE n \in LiveNodes(d) <=> n \in LiveNodes(c) \cup parts OBVIOUS
    <2>1. n \in LiveNodes(d) <=> n \in DOMAIN N /\ N[n].by = 0 BY <1>11, TreeIs
    <2>2. n \in LiveNodes(c) <=> n \in DOMAIN c.node /\ c.node[n].by = 0 BY TreeIs
    <2>3. CASE n \in parts BY <1>4, <1>6, <2>1, <2>3
    <2>4. CASE n \notin parts
      <3>1. n \in DOMAIN N <=> n \in DOMAIN c.node BY <1>6, <2>4
      <3>2. n \in DOMAIN c.node => N[n] = c.node[n] BY <1>6, <2>4
      <3> QED BY <2>1, <2>2, <2>4, <3>1, <3>2
    <2> QED BY <2>3, <2>4
  <1>13. PICK t, t2 : t = Tree(c) /\ t2 = Tree(d) OBVIOUS
  <1>14. /\ DOMAIN t = LiveNodes(c) /\ DOMAIN t2 = LiveNodes(c) \cup parts
         /\ \A n \in LiveNodes(c) : t[n] = c.node[n]
         /\ \A n \in LiveNodes(c) \cup parts : t2[n] = N[n]
    <2>1. DOMAIN t = LiveNodes(c) /\ \A n \in LiveNodes(c) : t[n] = c.node[n] BY <1>13, TreeIs
    <2>2. DOMAIN t2 = LiveNodes(d) /\ \A n \in LiveNodes(d) : t2[n] = d.node[n] BY <1>13, TreeIs
    <2> QED BY <1>11, <1>12, <2>1, <2>2
  <1>15. Forest(t) BY <1>13 DEF Sound
  <1>16. Forest(t2)
    <2>1. \A n \in LiveNodes(c) : n \in DOMAIN c.node BY TreeIs
    <2>2. \A m \in DOMAIN t : t2[m].parent = t[m].parent BY <1>6, <1>8, <1>14, <2>1
    <2>3. c.node[p.node].parent \in {0} \cup DOMAIN t BY <1>14, <1>15 DEF Forest
    <2>4. \A m \in DOMAIN t2 \ DOMAIN t : t2[m].parent \in {0} \cup DOMAIN t BY <1>4, <1>6, <1>14, <2>3
    <2>5. IsFiniteSet(DOMAIN t) /\ 0 \notin DOMAIN t BY <1>15 DEF Forest
    <2>6. IsFiniteSet(DOMAIN t \cup parts) BY <1>9, <2>5, FS_Union
    <2>7. IsFiniteSet(DOMAIN t2) /\ 0 \notin DOMAIN t2 /\ DOMAIN t \subseteq DOMAIN t2
      BY <1>9, <1>14, <2>5, <2>6
    <2> QED BY ONLY <1>15, <2>2, <2>4, <2>7, Grown
  <1>17. ASSUME NEW l \in LiveRows(d.link) PROVE d.link[l].node \in LiveNodes(d)
    <2>1. l \in DOMAIN c.link /\ M[l].by = 0 BY <1>7, <1>11, <1>17 DEF LiveRows
    <2>2. CASE l \in DOMAIN home
      <3>1. d.link[l] = [c.link[l] EXCEPT !.node = home[l]] BY <1>7, <1>11, <2>1, <2>2
      <3>2. c.link[l] = [node |-> c.link[l].node, item |-> c.link[l].item, by |-> c.link[l].by]
        BY <2>1 DEF Table
      <3>3. d.link[l].node = home[l] BY <3>1, <3>2, LinkFields
      <3> QED BY <1>5, <1>12, <2>2, <3>3
    <2>3. CASE l \notin DOMAIN home
      <3>1. M[l] = c.link[l] BY <1>7, <2>1, <2>3
      <3>2. l \in LiveRows(c.link) BY <2>1, <3>1 DEF LiveRows
      <3>3. c.link[l].node \in LiveNodes(c) BY <3>2 DEF Sound
      <3> QED BY <1>11, <1>12, <3>1, <3>3
    <2> QED BY <2>2, <2>3
  <1>18. Sound(d) BY <1>13, <1>16, <1>17 DEF Sound
  <1> QED BY <1>11, <1>18

\* The class goes with all that is below it and all that hangs there; the
\* digest takes its place.
LEMMA SoundCollapse ==
    ASSUME NEW K \in Nat, NEW L \in Nat, NEW c, Table(c), Bounded(c, K, L), Sound(c), NEW r, r # 0,
           NEW p, p.node \in LiveNodes(c)
    PROVE  Sound(Collapse(c, p, r, K, L).c)
  <1> DEFINE digest == K + 1
             first == {k \in 1..Len(p.cites) : \A j \in 1..(k - 1) : p.cites[j] # p.cites[k]}
             made == [l \in {L + k : k \in first} |-> NewLink(digest, p.cites[l - L])]
             gone == Subtree(c, p.node)
             links == LinksUnder(c, p.node)
             mark(t, ids) == [i \in DOMAIN t |-> IF i \in ids /\ t[i].by = 0 THEN [t[i] EXCEPT !.by = r] ELSE t[i]]
             node == NewNode(c.node[p.node].parent, DigestTitle, "digest")
             oldN == mark(c.node, gone)
             oldM == mark(c.link, links)
             N == Put(oldN, digest, node)
             M == Over(made, oldM)
             cites == DOMAIN made
  <1>1. Collapse(c, p, r, K, L).c = [node |-> N, link |-> M, sup |-> c.sup] BY DEF Collapse, Result
  <1>4. \A l \in cites : made[l].node = digest
    <2> SUFFICES ASSUME NEW l \in cites PROVE made[l].node = digest OBVIOUS
    <2>1. PICK x : made[l] = NewLink(digest, x) OBVIOUS
    <2> HIDE DEF made, first, digest
    <2> QED BY <2>1 DEF NewLink
  <1>5. /\ DOMAIN N = DOMAIN oldN \cup {digest} /\ N[digest] = node
        /\ \A n \in DOMAIN oldN : n # digest => N[n] = oldN[n]
    <2> HIDE DEF oldN, node
    <2> QED BY DEF Put
  <1>6. /\ DOMAIN M = cites \cup DOMAIN oldM /\ \A l \in cites : M[l] = made[l]
        /\ \A l \in DOMAIN oldM : l \notin cites => M[l] = oldM[l]
    <2> HIDE DEF oldM, made
    <2> QED BY DEF Over
  <1>7. /\ DOMAIN oldN = DOMAIN c.node
        /\ \A n \in DOMAIN c.node : oldN[n] = IF n \in gone /\ c.node[n].by = 0
                                              THEN [c.node[n] EXCEPT !.by = r] ELSE c.node[n]
    <2> HIDE DEF gone
    <2> QED OBVIOUS
  <1>8. /\ DOMAIN oldM = DOMAIN c.link
        /\ \A l \in DOMAIN c.link : oldM[l] = IF l \in links /\ c.link[l].by = 0
                                              THEN [c.link[l] EXCEPT !.by = r] ELSE c.link[l]
    <2> HIDE DEF links
    <2> QED OBVIOUS
  <1>9. \A n \in gone : \A l : l \in LinksAt(c, n) => l \in links BY DEF LinksUnder
  <1>10. node.by = 0 /\ node.parent = c.node[p.node].parent BY DEF NewNode
  <1>11. digest \notin 1..K /\ digest # 0 OBVIOUS
  <1>12. \A n \in DOMAIN c.node : n # digest BY <1>11 DEF Bounded
  <1>13. \A n : n \in gone <=> n = p.node \/ (n \in LiveNodes(c) /\ p.node \in Above(Tree(c), n))
    BY TreeIs DEF Subtree
  <1> HIDE DEF N, M, oldN, oldM, node, gone, links, digest, cites, made
  <1>17. PICK d : d = Collapse(c, p, r, K, L).c /\ d.node = N /\ d.link = M BY <1>1
  <1>18. ASSUME NEW n \in DOMAIN c.node
         PROVE  /\ d.node[n].parent = c.node[n].parent
                /\ d.node[n].by = 0 <=> (c.node[n].by = 0 /\ n \notin gone)
    <2>1. d.node[n] = IF n \in gone /\ c.node[n].by = 0 THEN [c.node[n] EXCEPT !.by = r] ELSE c.node[n]
      BY <1>5, <1>7, <1>12, <1>17
    <2>2. CASE n \in gone /\ c.node[n].by = 0
      <3>1. d.node[n] = [c.node[n] EXCEPT !.by = r] BY <2>1, <2>2
      <3>2. c.node[n] = [parent |-> c.node[n].parent, title |-> c.node[n].title,
                         kind |-> c.node[n].kind, by |-> c.node[n].by] BY DEF Table
      <3> QED BY <2>2, <3>1, <3>2, NodeFields
    <2>3. CASE ~(n \in gone /\ c.node[n].by = 0)
      <3>1. d.node[n] = c.node[n] BY <2>1, <2>3
      <3> QED BY <2>3, <3>1
    <2> QED BY <2>2, <2>3
  <1>19. LiveNodes(d) = (LiveNodes(c) \ gone) \cup {digest}
    <2> SUFFICES ASSUME NEW n PROVE n \in LiveNodes(d) <=> n \in (LiveNodes(c) \ gone) \cup {digest} OBVIOUS
    <2>1. n \in LiveNodes(d) <=> n \in DOMAIN N /\ d.node[n].by = 0 BY <1>17, TreeIs
    <2>2. n \in LiveNodes(c) <=> n \in DOMAIN c.node /\ c.node[n].by = 0 BY TreeIs
    <2>3. CASE n = digest BY <1>5, <1>10, <1>17, <2>1, <2>3
    <2>4. CASE n # digest
      <3>1. n \in DOMAIN N <=> n \in DOMAIN c.node BY <1>5, <1>7, <2>4
      <3> QED BY <1>18, <2>1, <2>2, <2>4, <3>1
    <2> QED BY <2>3, <2>4
  <1>20. PICK t, t2 : t = Tree(c) /\ t2 = Tree(d) OBVIOUS
  <1>21. /\ DOMAIN t = LiveNodes(c) /\ DOMAIN t2 = (LiveNodes(c) \ gone) \cup {digest}
         /\ \A n \in LiveNodes(c) : t[n] = c.node[n]
         /\ \A n \in (LiveNodes(c) \ gone) \cup {digest} : t2[n] = d.node[n]
    BY <1>19, <1>20, TreeIs
  <1>22. Forest(t) BY <1>20 DEF Sound
  <1>23. IsFiniteSet(DOMAIN t) /\ 0 \notin DOMAIN t BY <1>22 DEF Forest
  <1>24. PICK t1 : t1 = [n \in LiveNodes(c) \ gone |-> t[n]] OBVIOUS
  <1>25. ASSUME NEW n \in LiveNodes(c) \ gone PROVE t[n].parent \in {0} \cup (LiveNodes(c) \ gone)
    <2>1. n \in DOMAIN t BY <1>21
    <2>2. t[n].parent \in {0} \cup DOMAIN t BY <1>22, <2>1 DEF Forest
    <2>3. t[n].parent \in Above(t, n) BY <1>23, <2>1, AboveFacts
    <2>4. p.node \notin Above(t, n) BY <1>13, <1>20, <1>25
    <2>5. PICK m : m = t[n].parent OBVIOUS
    <2>6. m \in DOMAIN t => Above(t, m) \subseteq Above(t, n) BY <1>23, <2>1, <2>3, <2>5, AboveAbove
    <2> QED BY <1>13, <1>20, <1>21, <2>2, <2>3, <2>4, <2>5, <2>6
  <1>26. Forest(t1)
    <2>1. DOMAIN t1 \subseteq DOMAIN t BY <1>21, <1>24
    <2>2. \A m \in DOMAIN t1 : t1[m].parent = t[m].parent /\ t1[m].parent \in {0} \cup DOMAIN t1
      BY <1>24, <1>25
    <2> QED BY ONLY <1>22, <2>1, <2>2, Thinned
  <1>27. c.node[p.node].parent \in {0} \cup (LiveNodes(c) \ gone)
    <2>1. p.node \in DOMAIN t /\ p.node \notin Above(t, p.node) BY <1>21, <1>22 DEF Forest
    <2>2. PICK m : m = t[p.node].parent OBVIOUS
    <2>3. m \in {0} \cup DOMAIN t BY <1>22, <2>1, <2>2 DEF Forest
    <2>4. m \in Above(t, p.node) BY <1>23, <2>1, <2>2, AboveFacts
    <2>5. m \in DOMAIN t => Above(t, m) \subseteq Above(t, p.node) BY <1>23, <2>1, <2>4, AboveAbove
    <2>6. m \in DOMAIN t => m \notin gone BY <1>13, <1>20, <2>1, <2>4, <2>5
    <2> QED BY <1>21, <2>1, <2>2, <2>3, <2>6
  <1>28. Forest(t2)
    <2>1. \A n \in LiveNodes(c) : n \in DOMAIN c.node BY TreeIs
    <2>2. DOMAIN t1 = LiveNodes(c) \ gone BY <1>24
    <2>3. \A m \in DOMAIN t1 : t2[m].parent = t1[m].parent BY <1>18, <1>21, <1>24, <2>1, <2>2
    <2>4. t2[digest].parent \in {0} \cup DOMAIN t1 BY <1>5, <1>10, <1>17, <1>21, <1>27, <2>2
    <2>5. \A m \in DOMAIN t2 \ DOMAIN t1 : t2[m].parent \in {0} \cup DOMAIN t1 BY <1>21, <2>2, <2>4
    <2>6. IsFiniteSet(DOMAIN t1) /\ 0 \notin DOMAIN t1 BY <1>26 DEF Forest
    <2>7. IsFiniteSet(DOMAIN t1 \cup {digest}) BY <2>6, FS_AddElement
    <2>8. IsFiniteSet(DOMAIN t2) /\ 0 \notin DOMAIN t2 /\ DOMAIN t1 \subseteq DOMAIN t2
      BY <1>11, <1>21, <2>2, <2>6, <2>7
    <2> QED BY ONLY <1>26, <2>3, <2>5, <2>8, Grown
  <1>29. ASSUME NEW l \in LiveRows(d.link) PROVE d.link[l].node \in LiveNodes(d)
    <2>1. l \in DOMAIN M /\ M[l].by = 0 BY <1>17, <1>29 DEF LiveRows
    <2>2. CASE l \in cites BY <1>4, <1>6, <1>17, <1>19, <2>2
    <2>3. CASE l \notin cites
      <3>1. l \in DOMAIN c.link /\ M[l] = oldM[l] BY <1>6, <1>8, <2>1, <2>3
      <3>2. M[l] = IF l \in links /\ c.link[l].by = 0 THEN [c.link[l] EXCEPT !.by = r] ELSE c.link[l]
        BY <1>8, <3>1
      <3>3. c.link[l] = [node |-> c.link[l].node, item |-> c.link[l].item, by |-> c.link[l].by]
        BY <3>1 DEF Table
      <3>4. ~(l \in links /\ c.link[l].by = 0)
        <4> SUFFICES ASSUME l \in links /\ c.link[l].by = 0 PROVE FALSE OBVIOUS
        <4>1. M[l] = [c.link[l] EXCEPT !.by = r] BY <3>2
        <4>2. M[l].by = r BY <3>3, <4>1, LinkFields
        <4> QED BY <2>1, <4>2
      <3>5. M[l] = c.link[l] /\ c.link[l].by = 0 /\ l \notin links BY <2>1, <3>2, <3>4
      <3>6. l \in LiveRows(c.link) BY <3>1, <3>5 DEF LiveRows
      <3>7. c.link[l].node \in LiveNodes(c) BY <3>6 DEF Sound
      <3>8. l \in LinksAt(c, c.link[l].node) BY <3>6 DEF LinksAt
      <3>9. c.link[l].node \notin gone BY <1>9, <3>5, <3>8
      <3> QED BY <1>17, <1>19, <3>5, <3>7, <3>9
    <2> QED BY <2>2, <2>3
  <1>30. Sound(d) BY <1>20, <1>28, <1>29 DEF Sound
  <1> QED BY <1>17, <1>30

\* What a merge has made of the tree: nothing but V is above its target.
MergedSound(c, target, V) ==
    Sound(c) /\ target \in LiveNodes(c) /\ Above(Tree(c), target) \subseteq V

LEMMA SoundStart ==
    ASSUME NEW c, Table(c), Sound(c), NEW p, Head(p.ids) \in LiveNodes(c),
           p.to # 0 => /\ p.to \in LiveNodes(c) /\ p.to # Head(p.ids)
                       /\ Head(p.ids) \notin Above(Tree(c), p.to)
    PROVE  /\ p.to = 0 => MergedSound(MergeStart(c, p).c, Head(p.ids), Above(Tree(c), Head(p.ids)))
           /\ p.to # 0 => MergedSound(MergeStart(c, p).c, Head(p.ids), {p.to} \cup Above(Tree(c), p.to))
  <1> DEFINE target == Head(p.ids)
             old == c.node[target]
             title == IF p.title = "" THEN old.title ELSE p.title
             parent == IF p.to = 0 THEN old.parent ELSE p.to
             named == [old EXCEPT !.title = title, !.parent = parent]
             start == MergeStart(c, p)
             N == [c.node EXCEPT ![target] = named]
  <1>1. target \in DOMAIN c.node /\ old.by = 0 BY TreeIs
  <1>2. start.c = [c EXCEPT !.node[target] = named] BY DEF MergeStart, Result
  <1>3. [c EXCEPT !.node[target] = named] = [c EXCEPT !.node = N]
    <2> HIDE DEF named, target
    <2> QED OBVIOUS
  <1>4. DOMAIN N = DOMAIN c.node /\ \A n \in DOMAIN c.node : N[n] = IF n = target THEN named ELSE c.node[n]
    <2> HIDE DEF named, target
    <2> QED OBVIOUS
  <1>5. named.parent = parent /\ named.by = 0
    <2>1. old = [parent |-> old.parent, title |-> old.title, kind |-> old.kind, by |-> old.by]
      BY <1>1 DEF Table
    <2> HIDE DEF title, parent, old, N, start
    <2> DEFINE mid == [old EXCEPT !.title = title]
    <2>2. named = [mid EXCEPT !.parent = parent] OBVIOUS
    <2>3. PICK x : x = mid OBVIOUS
    <2>4. x.by = old.by /\ x = [parent |-> x.parent, title |-> x.title, kind |-> x.kind, by |-> x.by]
      BY <2>1, <2>3, NodeFields
    <2>5. PICK y : y = named /\ y = [x EXCEPT !.parent = parent] BY <2>2, <2>3
    <2>6. y.parent = parent /\ y.by = x.by BY <2>4, <2>5, NodeFields
    <2> QED BY <1>1, <2>4, <2>5, <2>6
  <1> HIDE DEF N, named, start
  <1>6. c = [node |-> c.node, link |-> c.link, sup |-> c.sup] BY DEF Table
  <1>7. start.c = [node |-> N, link |-> c.link, sup |-> c.sup] BY <1>2, <1>3, <1>6, CatChanged
  <1>8. PICK d : d = MergeStart(c, p).c /\ d.node = N /\ d.link = c.link BY <1>7 DEF start
  <1>9. PICK x : x = target OBVIOUS
  <1>10. /\ x \in DOMAIN c.node /\ N[x].parent = parent /\ N[x].by = 0
         /\ \A n \in DOMAIN c.node : n # x => N[n] = c.node[n]
    BY <1>1, <1>4, <1>5, <1>9
  <1>11. LiveNodes(d) = LiveNodes(c)
    <2>1. \A n \in DOMAIN c.node : N[n].by = c.node[n].by BY <1>1, <1>9, <1>10
    <2> QED BY <1>4, <1>8, <2>1 DEF LiveNodes, LiveRows
  <1>12. PICK t, t2 : t = Tree(c) /\ t2 = Tree(d) OBVIOUS
  <1>13. /\ DOMAIN t = LiveNodes(c) /\ DOMAIN t2 = LiveNodes(c)
         /\ \A n \in LiveNodes(c) : t[n] = c.node[n] /\ t2[n] = N[n]
    BY <1>8, <1>11, <1>12, TreeIs
  <1>14. \A n \in LiveNodes(c) : n \in DOMAIN c.node BY TreeIs
  <1>15. Forest(t) BY <1>12 DEF Sound
  <1>16. x \in DOMAIN t /\ DOMAIN t2 = DOMAIN t /\ \A m \in DOMAIN t : m # x => t2[m].parent = t[m].parent
    BY <1>9, <1>10, <1>13, <1>14
  <1>17. Forest(t2) => Sound(d) /\ x \in LiveNodes(d) BY <1>8, <1>11, <1>12, <1>13, <1>16 DEF Sound
  <1>18. CASE p.to = 0
    <2>1. \A m \in DOMAIN t : t2[m].parent = t[m].parent
      <3>1. t2[x].parent = old.parent BY <1>10, <1>13, <1>16, <1>18
      <3>2. t[x].parent = old.parent BY <1>9, <1>13, <1>16
      <3> QED BY <1>16, <3>1, <3>2
    <2>2. IsFiniteSet(DOMAIN t2) /\ 0 \notin DOMAIN t2 /\ DOMAIN t \subseteq DOMAIN t2
      BY <1>15, <1>16 DEF Forest
    <2>3. Forest(t2)
      <3>1. \A m \in DOMAIN t2 \ DOMAIN t : t2[m].parent \in {0} \cup DOMAIN t BY <1>16
      <3> QED BY ONLY <1>15, <2>1, <2>2, <3>1, Grown
    <2>4. PICK U : U = Above(t, x) OBVIOUS
    <2>5. t[x].parent \in U /\ UpClosed(t, U) BY <1>16, <2>2, <2>4, AboveFacts
    <2>6. t2[x].parent \in U /\ UpClosed(t2, U) BY <1>16, <2>1, <2>5 DEF UpClosed
    <2>7. Above(t2, x) \subseteq U BY <1>16, <2>2, <2>6, AboveFacts
    <2>8. MergedSound(d, x, U) BY <1>12, <1>17, <2>3, <2>7 DEF MergedSound
    <2> QED BY <1>8, <1>9, <1>12, <1>18, <2>4, <2>8
  <1>19. CASE p.to # 0
    <2>1. PICK q : q = p.to OBVIOUS
    <2>2. t2[x].parent = q BY <1>10, <1>13, <1>16, <1>19, <2>1
    <2>3. q \in DOMAIN t /\ q # x /\ x \notin Above(t, q) BY <1>9, <1>12, <1>13, <1>19, <2>1
    <2>4. Forest(t2) /\ Above(t2, x) \subseteq {q} \cup Above(t, q)
      BY ONLY <1>15, <1>16, <2>2, <2>3, Rehung
    <2>5. PICK U : U = {q} \cup Above(t, q) OBVIOUS
    <2>6. MergedSound(d, x, U) BY <1>12, <1>17, <2>4, <2>5 DEF MergedSound
    <2> QED BY <1>8, <1>9, <1>12, <1>19, <2>1, <2>5, <2>6
  <1> QED BY <1>18, <1>19

LEMMA SoundAbsorb ==
    ASSUME NEW s, Table(s.c), NEW r, r # 0, NEW target, NEW V, MergedSound(s.c, target, V),
           NEW other, other # target, other \notin V
    PROVE  MergedSound(Absorb(s, target, other, r).c, target, V)
  <1> DEFINE c == s.c
             links == LinksAt(c, other)
             left == Twins(c, target, links)
             moved == links \ left
             kids == Children(c, other)
             hung == [n \in DOMAIN c.node |-> IF n \in kids THEN [c.node[n] EXCEPT !.parent = target]
                                                            ELSE c.node[n]]
             M == [l \in DOMAIN c.link |-> IF l \in left THEN [c.link[l] EXCEPT !.by = r]
                                           ELSE IF l \in moved THEN [c.link[l] EXCEPT !.node = target]
                                           ELSE c.link[l]]
             N == [hung EXCEPT ![other].by = r]
             res == Absorb(s, target, other, r)
  <1>1. CASE other \notin LiveNodes(c)
    <2>1. res = s BY <1>1 DEF Absorb
    <2> QED BY <2>1
  <1>2. CASE other \in LiveNodes(c)
    <2>1. res.c = [c EXCEPT !.link = M, !.node = N] BY <1>2 DEF Absorb, Result
    <2>2. c = [node |-> c.node, link |-> c.link, sup |-> c.sup] BY DEF Table
    <2>3. \A n \in DOMAIN c.node : c.node[n] = [parent |-> c.node[n].parent, title |-> c.node[n].title,
                                                kind |-> c.node[n].kind, by |-> c.node[n].by]
      BY DEF Table
    <2>4. \A l \in DOMAIN c.link : c.link[l] = [node |-> c.link[l].node, item |-> c.link[l].item,
                                                by |-> c.link[l].by]
      BY DEF Table
    <2>5. other \in DOMAIN c.node /\ c.node[other].by = 0 BY <1>2, TreeIs
    <2>6. left \cup moved = links
      <3>1. left \subseteq links BY DEF Twins
      <3> QED BY <3>1
    <2>7. \A n : n \in kids <=> n \in LiveNodes(c) /\ c.node[n].parent = other BY DEF Children
    <2>8. /\ DOMAIN M = DOMAIN c.link
          /\ \A l \in DOMAIN c.link : M[l] = IF l \in left THEN [c.link[l] EXCEPT !.by = r]
                                             ELSE IF l \in moved THEN [c.link[l] EXCEPT !.node = target]
                                             ELSE c.link[l]
      <3> HIDE DEF left, moved
      <3> QED OBVIOUS
    <2>10. /\ DOMAIN hung = DOMAIN c.node
           /\ \A n \in DOMAIN c.node : hung[n] = IF n \in kids THEN [c.node[n] EXCEPT !.parent = target]
                                                               ELSE c.node[n]
      <3> HIDE DEF kids
      <3> QED OBVIOUS
    <2>11. /\ DOMAIN N = DOMAIN hung
           /\ \A n \in DOMAIN hung : N[n] = IF n = other THEN [hung[other] EXCEPT !.by = r] ELSE hung[n]
      <3> HIDE DEF hung
      <3> QED OBVIOUS
    <2>12. \A l : l \in links <=> l \in LiveRows(c.link) /\ c.link[l].node = other BY DEF LinksAt
    <2> HIDE DEF links, left, moved, kids, hung, M, N
    <2>13. res.c = [node |-> N, link |-> M, sup |-> c.sup]
      <3>1. PICK x : x = c OBVIOUS
      <3>2. res.c = [x EXCEPT !.link = M, !.node = N] BY <2>1, <3>1
      <3>3. x = [node |-> x.node, link |-> x.link, sup |-> x.sup] BY <2>2, <3>1
      <3> HIDE DEF res
      <3> QED BY <3>1, <3>2, <3>3, CatChanged
    <2>20. PICK d : d = res.c /\ d.node = N /\ d.link = M BY <2>13
    <2> HIDE DEF res
    <2>26. ASSUME NEW n \in DOMAIN c.node
           PROVE  /\ d.node[n].parent = IF n \in kids THEN target ELSE c.node[n].parent
                  /\ d.node[n].by = IF n = other THEN r ELSE c.node[n].by
      <3>1. PICK x, y : x = c.node[n] /\ y = hung[n] OBVIOUS
      <3>2. x = [parent |-> x.parent, title |-> x.title, kind |-> x.kind, by |-> x.by] BY <2>3, <2>26, <3>1
      <3>3. /\ y.parent = IF n \in kids THEN target ELSE x.parent
            /\ y.by = x.by
            /\ y = [parent |-> y.parent, title |-> y.title, kind |-> y.kind, by |-> y.by]
        <4>1. CASE n \in kids
          <5>1. y = [x EXCEPT !.parent = target] BY <2>10, <2>26, <3>1, <4>1
          <5> QED BY <3>2, <4>1, <5>1, NodeFields
        <4>2. CASE n \notin kids
          <5>1. y = x BY <2>10, <2>26, <3>1, <4>2
          <5> QED BY <3>2, <4>2, <5>1
        <4> QED BY <4>1, <4>2
      <3>4. CASE n = other
        <4>1. d.node[n] = [y EXCEPT !.by = r] BY <2>10, <2>11, <2>20, <2>26, <3>1, <3>4
        <4>2. d.node[n].parent = y.parent /\ d.node[n].by = r BY <3>3, <4>1, NodeFields
        <4> QED BY <3>1, <3>3, <3>4, <4>2
      <3>5. CASE n # other
        <4>1. d.node[n] = y BY <2>10, <2>11, <2>20, <2>26, <3>1, <3>5
        <4> QED BY <3>1, <3>3, <3>5, <4>1
      <3> QED BY <3>4, <3>5
    <2>27. LiveNodes(d) = LiveNodes(c) \ {other}
      <3> SUFFICES ASSUME NEW n PROVE n \in LiveNodes(d) <=> n \in LiveNodes(c) \ {other} OBVIOUS
      <3>1. n \in LiveNodes(d) <=> n \in DOMAIN N /\ d.node[n].by = 0 BY <2>20, TreeIs
      <3>2. n \in LiveNodes(c) <=> n \in DOMAIN c.node /\ c.node[n].by = 0 BY TreeIs
      <3>3. n \in DOMAIN N <=> n \in DOMAIN c.node BY <2>10, <2>11
      <3> QED BY <2>26, <3>1, <3>2, <3>3
    <2>28. PICK t, t2 : t = Tree(c) /\ t2 = Tree(d) OBVIOUS
    <2>29. /\ DOMAIN t = LiveNodes(c) /\ DOMAIN t2 = LiveNodes(c) \ {other}
           /\ \A n \in LiveNodes(c) : t[n] = c.node[n]
           /\ \A n \in LiveNodes(c) \ {other} : t2[n] = d.node[n]
      BY <2>27, <2>28, TreeIs
    <2>30. Forest(t) /\ target \in DOMAIN t /\ Above(t, target) \subseteq V
      BY <2>28, <2>29 DEF MergedSound, Sound
    <2>31. Forest(t2) /\ Above(t2, target) \subseteq Above(t, target)
      <3>1. \A m \in DOMAIN t2 : t2[m].parent = (IF t[m].parent = other THEN target ELSE t[m].parent)
        <4>1. \A n \in LiveNodes(c) : n \in DOMAIN c.node BY TreeIs
        <4> QED BY <2>7, <2>26, <2>29, <4>1
      <3>2. other \in DOMAIN t /\ other # target /\ other \notin Above(t, target) BY <1>2, <2>29, <2>30
      <3>3. DOMAIN t2 = DOMAIN t \ {other} BY <2>29
      <3> QED BY ONLY <2>30, <3>1, <3>2, <3>3, Taken
    <2>32. ASSUME NEW l \in LiveRows(d.link) PROVE d.link[l].node \in LiveNodes(d)
      <3>1. l \in DOMAIN c.link /\ M[l].by = 0 BY <2>8, <2>20, <2>32 DEF LiveRows
      <3>2. PICK x : x = c.link[l] OBVIOUS
      <3>3. x = [node |-> x.node, item |-> x.item, by |-> x.by] BY <2>4, <3>1, <3>2
      <3>4. l \notin left
        <4> SUFFICES ASSUME l \in left PROVE FALSE OBVIOUS
        <4>1. M[l] = [x EXCEPT !.by = r] BY <2>8, <3>1, <3>2
        <4>2. M[l].by = r BY <3>3, <4>1, LinkFields
        <4> QED BY <3>1, <4>2
      <3>5. CASE l \in moved
        <4>1. M[l] = [x EXCEPT !.node = target] BY <2>8, <3>1, <3>2, <3>4, <3>5
        <4>2. M[l].node = target BY <3>3, <4>1, LinkFields
        <4>3. target \in LiveNodes(d) BY <2>27, <2>29, <2>30
        <4> QED BY <2>20, <4>2, <4>3
      <3>6. CASE l \notin moved
        <4>1. M[l] = c.link[l] BY <2>8, <3>1, <3>4, <3>6
        <4>2. l \in LiveRows(c.link) BY <3>1, <4>1 DEF LiveRows
        <4>3. c.link[l].node \in LiveNodes(c) BY <4>2 DEF MergedSound, Sound
        <4>4. c.link[l].node # other BY <2>6, <2>12, <3>4, <3>6, <4>2
        <4> QED BY <2>20, <2>27, <4>1, <4>3, <4>4
      <3> QED BY <3>5, <3>6
    <2>33. Sound(d) BY <2>28, <2>31, <2>32 DEF Sound
    <2>34. target \in LiveNodes(d) BY <2>27, <2>29, <2>30
    <2>35. MergedSound(d, target, V) BY <2>28, <2>30, <2>31, <2>33, <2>34 DEF MergedSound
    <2> QED BY <2>20, <2>35 DEF res
  <1> QED BY <1>1, <1>2

\* Of a merge the second and later nodes are others than its target and the
\* node it hangs it from.
LEMMA MergeOthers ==
    ASSUME NEW p, p.op = "merge", IsSeq(p.ids), p.ids # << >>, ~Tangled(p),
           NEW k \in 1..Len(p.ids), k # 1
    PROVE  p.ids[k] # Head(p.ids) /\ p.ids[k] # p.to
  <1>1. PICK n : n = Len(p.ids) OBVIOUS
  <1>2. p.ids \in Seq(Range(p.ids)) BY DEF IsSeq
  <1>3. n \in Nat BY <1>1, <1>2, LenProperties
  <1>4. Head(p.ids) = p.ids[1] BY <1>2
  <1>5. PICK q : q = p.ids OBVIOUS
  <1>6. q \in Seq(Range(q)) /\ q # << >> BY <1>2, <1>5
  <1>7. Tail(p.ids) \in Seq(Range(p.ids)) /\ Len(Tail(p.ids)) = n - 1
        /\ \A j \in 1..(n - 1) : Tail(p.ids)[j] = p.ids[j + 1]
    <2>1. /\ Tail(q) \in Seq(Range(q)) /\ Len(Tail(q)) = Len(q) - 1
          /\ \A j \in 1..Len(Tail(q)) : Tail(q)[j] = q[j + 1]
      BY <1>6, HeadTailProperties
    <2> QED BY <1>1, <1>5, <2>1
  <1>8. k - 1 \in 1..(n - 1) /\ (k - 1) + 1 = k BY <1>1, <1>3
  <1>9. DOMAIN Tail(p.ids) = 1..(n - 1) BY <1>7, LenProperties
  <1>10. p.ids[k] = Tail(p.ids)[k - 1] BY <1>7, <1>8
  <1>11. p.ids[k] \in Range(Tail(p.ids)) BY <1>8, <1>9, <1>10 DEF Range
  <1>12. Range(Tail(p.ids)) \cap {p.ids[1], p.to} = {} BY DEF Tangled
  <1> QED BY <1>4, <1>11, <1>12

\* The nodes V are those above the place the target of a merge gets; the
\* merge takes in none of them.
Beside(c, p, V) ==
    /\ p.to \in {0} \cup LiveNodes(c)
    /\ p.to = 0 => V = Above(Tree(c), Head(p.ids))
    /\ p.to # 0 => V = {p.to} \cup Above(Tree(c), p.to)
    /\ Range(p.ids) \cap V = {}

LEMMA SoundMerge ==
    ASSUME NEW K \in Nat, NEW L \in Nat, NEW R \in Nat, NEW r \in 0..R, r # 0,
           NEW c, RowsOK(c, K, L, K, R), Sound(c),
           NEW p, p.op = "merge", IsSeq(p.ids), p.ids # << >>, Head(p.ids) \in LiveNodes(c), ~Tangled(p),
           NEW V, Beside(c, p, V)
    PROVE  Sound(Merge(c, p, r).c)
  <1>0. /\ p.to \in {0} \cup LiveNodes(c)
        /\ p.to = 0 => V = Above(Tree(c), Head(p.ids))
        /\ p.to # 0 => V = {p.to} \cup Above(Tree(c), p.to)
        /\ Range(p.ids) \cap V = {}
    BY DEF Beside
  <1>1. PICK target, n : target = Head(p.ids) /\ n = Len(p.ids) OBVIOUS
  <1>2. n \in Nat /\ 1 <= n BY <1>1, MergeSteps
  <1>3. PICK f : Merging(f, c, p, r, n) /\ Merge(c, p, r) = f[n] BY <1>1, MergeSteps
  <1>4. \A k \in 1..n : f[k] = IF k = 1 THEN MergeStart(c, p) ELSE Absorb(f[k - 1], target, p.ids[k], r)
    BY <1>1, <1>3 DEF Merging
  <1>5. \A k \in 1..n : MergedOK(f[k], target, L, K, R)
    <2>1. target \in DOMAIN c.node BY <1>1, TreeIs
    <2> QED BY <1>1, <1>3, <2>1, MergingFacts
  <1>6. ASSUME NEW k \in 1..n PROVE p.ids[k] \in Range(p.ids)
    <2>1. p.ids \in Seq(Range(p.ids)) BY DEF IsSeq
    <2> QED BY <1>1, <1>6, <2>1
  <1> DEFINE G == {k \in 1..n : MergedSound(f[k].c, target, V)}
  <1>7. 1 \in G
    <2>1. 1 \in 1..n /\ f[1] = MergeStart(c, p) BY <1>2, <1>4
    <2>2. target \in Range(p.ids)
      <3>1. p.ids \in Seq(Range(p.ids)) BY DEF IsSeq
      <3>2. target = p.ids[1] BY <1>1, <3>1
      <3> QED BY <1>6, <2>1, <3>2
    <2>3. p.to # 0 => p.to \in LiveNodes(c) /\ p.to # Head(p.ids) /\ Head(p.ids) \notin Above(Tree(c), p.to)
      BY <1>0, <1>1, <2>2
    <2>4. Table(c) BY RowsAreTable
    <2>5. /\ p.to = 0 => MergedSound(MergeStart(c, p).c, Head(p.ids), Above(Tree(c), Head(p.ids)))
          /\ p.to # 0 => MergedSound(MergeStart(c, p).c, Head(p.ids), {p.to} \cup Above(Tree(c), p.to))
      BY <2>3, <2>4, SoundStart
    <2>6. MergedSound(MergeStart(c, p).c, target, V) BY <1>0, <1>1, <2>5
    <2> QED BY <2>1, <2>6
  <1>8. ASSUME NEW k \in 1..n, k < n, k \in G PROVE k + 1 \in G
    <2>1. k + 1 \in 1..n /\ k + 1 # 1 /\ (k + 1) - 1 = k BY <1>2, <1>8
    <2>2. PICK s, o : s = f[k] /\ o = p.ids[k + 1] OBVIOUS
    <2>3. f[k + 1] = Absorb(s, target, o, r) BY <1>4, <2>1, <2>2
    <2>4. MergedSound(s.c, target, V) BY <1>8, <2>2
    <2>5. Table(s.c)
      <3>1. RowsOK(s.c, K, L, K, R) BY <1>5, <2>2 DEF MergedOK
      <3> QED BY <3>1, RowsAreTable
    <2>6. o # target BY <1>1, <2>1, <2>2, MergeOthers
    <2>7. o \notin V BY <1>0, <1>6, <2>1, <2>2
    <2>8. MergedSound(Absorb(s, target, o, r).c, target, V) BY <2>4, <2>5, <2>6, <2>7, SoundAbsorb
    <2> QED BY <2>1, <2>3, <2>8
  <1>9. 1..n \subseteq G
    <2> HIDE DEF G
    <2>1. \A k \in 1..n : k < n /\ k \in G => k + 1 \in G BY <1>8
    <2>2. 1 \in Int /\ n \in Int BY <1>2
    <2> QED BY <1>7, <2>1, <2>2, IntervalInduction
  <1>10. MergedSound(f[n].c, target, V) BY <1>2, <1>9
  <1> QED BY <1>3, <1>10 DEF MergedSound

-----------------------------------------------------------------------------
(* The invariant, and what each step does to it.                           *)

\* A proposal that the verifier is asked about: a merge of classes of the
\* tree that the pass read, or a supersession.
Judged(p, t) == p.op \in {"merge", "supersede"} /\ (p.op = "merge" => Range(p.ids) \subseteq DOMAIN t)
PassJudged(x) == \A q \in x.verify : x.pc = "queue" /\ Judged(q.p, x.tree)
JudgedOK == \A w \in Workers : PassJudged(pass[w])

\* The rows are sound, and so are those that each run which can still be
\* reverted began with.
ForestInv ==
    /\ JudgedOK
    /\ Orderly => Sound(cat) /\ \A k \in DOMAIN undo : Sound(undo[k].cat)

LEMMA OrderlyClean == Orderly => Clean
  BY DEF Orderly, Clean

\* Rows of which readers see the same nodes and no other links.
LEMMA SoundStands ==
    ASSUME NEW c, Sound(c), NEW u, View(u).node = View(c).node,
           \A l \in LiveRows(u.link) : l \in LiveRows(c.link) /\ u.link[l] = c.link[l]
    PROVE  Sound(u)
  <1>1. Tree(u) = Tree(c) BY TreeIs
  <1>2. DOMAIN Tree(u) = LiveNodes(u) /\ DOMAIN Tree(c) = LiveNodes(c) BY TreeIs
  <1>3. LiveNodes(u) = LiveNodes(c) BY <1>1, <1>2
  <1> QED BY <1>1, <1>3 DEF Sound

\* One pass moves.
LEMMA JudgedMoves ==
    ASSUME CatInv, ForestInv, NEW w \in Workers, NEW x, pass' = [pass EXCEPT ![w] = x],
           PassJudged(x)
    PROVE  JudgedOK'
  <1>1. DOMAIN pass = Workers BY DEF CatInv, PassesOK
  <1>2. JudgedOK BY DEF ForestInv
  <1>3. ASSUME NEW v \in Workers PROVE PassJudged(pass'[v])
    <2>1. CASE v = w
      <3>1. pass'[v] = x BY <1>1, <2>1
      <3> QED BY <3>1
    <2>2. CASE v # w
      <3>1. pass'[v] = pass[v] BY <1>1, <2>2
      <3> QED BY <1>2, <3>1 DEF JudgedOK
    <2> QED BY <2>1, <2>2
  <1> QED BY <1>3 DEF JudgedOK, PassJudged, Workers

\* A record of a pass, and what it is when one field is another.
LEMMA PassFields ==
    ASSUME CatInv, NEW w \in Workers
    PROVE  pass[w] = [pc |-> pass[w].pc, run |-> pass[w].run, staged |-> pass[w].staged,
                      due |-> pass[w].due, verify |-> pass[w].verify,
                      tree |-> pass[w].tree, kept |-> pass[w].kept]
  BY DEF CatInv, PassesOK, IsPass

LEMMA ForestKept ==
    ASSUME ForestInv, UNCHANGED <<cat, undo, slips>>, JudgedOK'
    PROVE  ForestInv'
  BY DEF ForestInv, Orderly

\* Rows are written by a run: by the newest, when all is in order.
LEMMA ForestWritten ==
    ASSUME ForestInv, JudgedOK', NEW r, Remember(r), slips \subseteq slips',
           Orderly' => (Orderly /\ Sound(cat) => Sound(cat'))
    PROVE  ForestInv'
  <1> SUFFICES ASSUME Orderly' PROVE Sound(cat') /\ \A k \in DOMAIN undo' : Sound(undo'[k].cat)
    BY DEF ForestInv
  <1>1. Orderly BY DEF Orderly
  <1>2. Sound(cat) /\ \A k \in DOMAIN undo : Sound(undo[k].cat) BY <1>1 DEF ForestInv
  <1>3. Sound(cat') BY <1>1, <1>2
  <1>4. PICK b : b = [cat |-> cat, new |-> newest] OBVIOUS
  <1>5. undo' = (IF r \in DOMAIN undo THEN undo ELSE Put(undo, r, b)) /\ b.cat = cat BY <1>4 DEF Remember
  <1>6. ASSUME NEW k \in DOMAIN undo' PROVE Sound(undo'[k].cat)
    <2>1. CASE r \in DOMAIN undo BY <1>2, <1>5, <1>6, <2>1
    <2>2. CASE r \notin DOMAIN undo
      <3>1. undo' = Put(undo, r, b) BY <1>5, <2>2
      <3>2. k \in DOMAIN undo \cup {r} BY <1>6, <3>1 DEF Put
      <3>3. CASE k = r
        <4>1. undo'[k] = b BY <3>1, <3>3 DEF Put
        <4> QED BY <1>2, <1>5, <4>1
      <3>4. CASE k # r
        <4>1. undo'[k] = undo[k] BY <3>1, <3>2, <3>4 DEF Put
        <4> QED BY <1>2, <3>2, <3>4, <4>1
      <3> QED BY <3>3, <3>4
    <2> QED BY <2>1, <2>2
  <1> QED BY <1>3, <1>6

\* The steps that write no row.
LEMMA QuietForest ==
    ASSUME CatInv, ForestInv, NEW w \in Workers,
           StartRun(w) \/ Crash(w) \/ Finish(w) \/ CanaryHolds(w) \/ LoadQueue(w)
    PROVE  ForestInv'
  <1>1. UNCHANGED <<cat, undo, slips>> BY DEF StartRun, Crash, Finish, CanaryHolds, LoadQueue
  <1>2. PassJudged(pass[w]) BY DEF ForestInv, JudgedOK
  <1>3. Idle.verify = {} BY DEF Idle
  <1>4. CASE Crash(w) \/ CanaryHolds(w)
    <2>1. PICK x : x = Idle OBVIOUS
    <2>2. pass' = [pass EXCEPT ![w] = x] BY <1>4, <2>1 DEF Crash, CanaryHolds
    <2>3. PassJudged(x) BY <1>3, <2>1 DEF PassJudged
    <2>4. JudgedOK' BY <2>2, <2>3, JudgedMoves
    <2> QED BY <1>1, <2>4, ForestKept
  <1>5. CASE StartRun(w)
    <2>1. PICK x : x = [Idle EXCEPT !.pc = "open", !.run = Len(runs) + 1] OBVIOUS
    <2>2. pass' = [pass EXCEPT ![w] = x] BY <1>5, <2>1 DEF StartRun
    <2>3. x = [[Idle EXCEPT !.pc = "open"] EXCEPT !.run = Len(runs) + 1] BY <2>1
    <2>4. x.verify = {} BY <2>3 DEF Idle
    <2>5. PassJudged(x) BY <2>4 DEF PassJudged
    <2>6. JudgedOK' BY <2>2, <2>5, JudgedMoves
    <2> QED BY <1>1, <2>6, ForestKept
  <1>6. CASE Finish(w)
    <2>1. PICK r, canary : r = pass[w].run /\ canary = [Idle EXCEPT !.pc = "canary", !.run = r] OBVIOUS
    <2>2. PICK x : pass' = [pass EXCEPT ![w] = x] /\ (x = canary \/ x = Idle) BY <1>6, <2>1 DEF Finish
    <2>3. canary = [[Idle EXCEPT !.pc = "canary"] EXCEPT !.run = r] BY <2>1
    <2>4. canary.verify = {} BY <2>3 DEF Idle
    <2>5. PassJudged(x) BY <1>3, <2>2, <2>4 DEF PassJudged
    <2>6. JudgedOK' BY <2>2, <2>5, JudgedMoves
    <2> QED BY <1>1, <2>6, ForestKept
  <1>7. CASE LoadQueue(w)
    \* Nothing is asked before the queue is loaded.
    <2>1. pass[w].verify = {} BY <1>2, <1>7 DEF LoadQueue, PassJudged
    <2> DEFINE x == [pass[w] EXCEPT !.pc = "queue",
                                    !.due = {q \in queue : q.after <= pass[w].run},
                                    !.tree = View(cat).node,
                                    !.kept = {n \in DOMAIN kept : kept[n] > pass[w].run}]
    <2>2. pass' = [pass EXCEPT ![w] = x] BY <1>7 DEF LoadQueue
    <2>3. x.verify = {}
      <3>1. pass[w] = [pc |-> pass[w].pc, run |-> pass[w].run, staged |-> pass[w].staged,
                      due |-> pass[w].due, verify |-> pass[w].verify,
                      tree |-> pass[w].tree, kept |-> pass[w].kept]
        BY PassFields
      <3> QED BY <2>1, <3>1
    <2> HIDE DEF x
    <2>4. PassJudged(x) BY <2>3 DEF PassJudged
    <2>5. JudgedOK' BY <2>2, <2>4, JudgedMoves
    <2> QED BY <1>1, <2>5, ForestKept
  <1> QED BY <1>4, <1>5, <1>6, <1>7

\* What a verdict to apply a proposal says of the tree it is given on.
Fits(t, p) ==
    /\ p.op = "promote" =>
         p.node \in DOMAIN t
         /\ (p.to # 0 => p.to # p.node /\ p.to \in DOMAIN t /\ p.node \notin Above(t, p.to))
    /\ p.op = "merge" => Range(p.ids) \subseteq DOMAIN t
    /\ p.op = "split" => LinksAt(cat, p.node) # {}
    /\ p.op = "collapse" => p.node \in DOMAIN t

LEMMA JudgedFits ==
    ASSUME NEW t, NEW p, Judged(p, t)
    PROVE  Fits(t, p)
  BY DEF Judged, Fits

\* Only a node of the tree has a root.
LEMMA RootsKnown ==
    ASSUME NEW t, NEW n, Roots(t, n) # {}
    PROVE  n \in DOMAIN t
  <1>1. n \notin DOMAIN t => Above(t, n) = {} BY DEF Above
  <1> QED BY <1>1 DEF Roots

LEMMA MergeJudged ==
    ASSUME NEW t, NEW p, MergeVerdicts(t, p) # {"refuse"}
    PROVE  Range(p.ids) \subseteq DOMAIN t
  <1>1. \A n \in Range(p.ids) : Roots(t, n) # {} BY DEF MergeVerdicts
  <1> QED BY <1>1, RootsKnown

LEMMA VerifyJudged ==
    ASSUME NEW t, NEW p, WellFormed(p), "verify" \in Verdicts(t, p)
    PROVE  Judged(p, t)
  <1>1. p.op \in {"promote", "merge", "split", "collapse", "supersede"} BY DEF WellFormed
  <1>2. CASE p.op = "promote"
    <2>1. Verdicts(t, p) = PromoteVerdicts(t, p) BY <1>2 DEF Verdicts
    <2>2. "verify" \notin PromoteVerdicts(t, p) BY DEF PromoteVerdicts
    <2> QED BY <2>1, <2>2
  <1>3. CASE p.op = "merge"
    <2>1. Verdicts(t, p) = MergeVerdicts(t, p) BY <1>3 DEF Verdicts
    <2>2. MergeVerdicts(t, p) # {"refuse"} BY <2>1
    <2> QED BY <1>3, <2>2, MergeJudged DEF Judged
  <1>4. CASE p.op = "split"
    <2>1. Verdicts(t, p) = SplitVerdicts(p) BY <1>4 DEF Verdicts
    <2>2. "verify" \notin SplitVerdicts(p) BY DEF SplitVerdicts
    <2> QED BY <2>1, <2>2
  <1>5. CASE p.op = "collapse"
    <2>1. Verdicts(t, p) = CollapseVerdicts(t, p) BY <1>5 DEF Verdicts
    <2>2. "verify" \notin CollapseVerdicts(t, p) BY DEF CollapseVerdicts
    <2> QED BY <2>1, <2>2
  <1>6. CASE p.op = "supersede" BY <1>6 DEF Judged
  <1> QED BY <1>1, <1>2, <1>3, <1>4, <1>5, <1>6

LEMMA ApplyFits ==
    ASSUME NEW t, NEW p, WellFormed(p), "apply" \in Verdicts(t, p)
    PROVE  Fits(t, p)
  <1>1. p.op \in {"promote", "merge", "split", "collapse", "supersede"} BY DEF WellFormed
  <1>2. CASE p.op = "promote"
    <2>1. Verdicts(t, p) = PromoteVerdicts(t, p) BY <1>2 DEF Verdicts
    <2>2. PromoteVerdicts(t, p) # {"refuse"} BY <2>1
    <2>3. p.node \in DOMAIN t
          /\ (p.to # 0 => p.to # p.node /\ p.to \in DOMAIN t /\ p.node \notin Above(t, p.to))
      BY <2>2 DEF PromoteVerdicts
    <2> QED BY <1>2, <2>3 DEF Fits
  <1>3. CASE p.op = "merge"
    <2>1. Verdicts(t, p) = MergeVerdicts(t, p) BY <1>3 DEF Verdicts
    <2>2. MergeVerdicts(t, p) # {"refuse"} BY <2>1
    <2> QED BY <1>3, <2>2, MergeJudged DEF Fits
  <1>4. CASE p.op = "split"
    <2>1. Verdicts(t, p) = SplitVerdicts(p) BY <1>4 DEF Verdicts
    <2>2. SplitVerdicts(p) # {"refuse"} BY <2>1
    <2>3. /\ Len(p.parts) >= 2
          /\ \A k \in DOMAIN p.parts : /\ Cardinality(p.parts[k].links) >= MinPart
                                       /\ p.parts[k].links \subseteq LinksAt(cat, p.node)
      BY <2>2 DEF SplitVerdicts
    <2>4. 1 \in DOMAIN p.parts
      <3>1. p.parts \in Seq(Range(p.parts)) BY <1>4 DEF WellFormed
      <3> QED BY <2>3, <3>1
    <2>5. PICK S : S = p.parts[1].links OBVIOUS
    <2>6. Cardinality(S) >= MinPart /\ S \subseteq LinksAt(cat, p.node) BY <2>3, <2>4, <2>5
    <2>7. S # {}
      <3>1. MinPart \in Nat \ {0} BY CatalogAssumptions
      <3>2. Cardinality({}) = 0 BY FS_EmptySet
      <3>3. ~(0 >= MinPart) BY <3>1
      <3> QED BY <2>6, <3>2, <3>3
    <2> QED BY <1>4, <2>6, <2>7 DEF Fits
  <1>5. CASE p.op = "collapse"
    <2>1. Verdicts(t, p) = CollapseVerdicts(t, p) BY <1>5 DEF Verdicts
    <2>2. CollapseVerdicts(t, p) # {"refuse"} BY <2>1
    <2>3. p.node \in DOMAIN t BY <2>2 DEF CollapseVerdicts
    <2> QED BY <1>5, <2>3 DEF Fits
  <1>6. CASE p.op = "supersede" BY <1>6 DEF Fits
  <1> QED BY <1>1, <1>2, <1>3, <1>4, <1>5, <1>6

\* A proposal that fits the tree of the rows keeps them sound.
LEMMA EffectSound ==
    ASSUME CatInv, Sound(cat), NEW p, WellFormed(p), Fits(View(cat).node, p), ~Nested(p), ~Tangled(p),
           NEW r \in 1..Len(runs)
    PROVE  Sound(Effect(p, r).c)
  <1>1. PICK c, K, L, R : c = cat /\ K = newest.node /\ L = newest.link /\ R = Len(runs) OBVIOUS
  <1>2. /\ K \in Nat /\ L \in Nat /\ R \in Nat /\ RowsOK(c, K, L, K, R) /\ Table(c) /\ Bounded(c, K, L)
    BY <1>1, States
  <1>3. r \in 0..R /\ r # 0 BY <1>1, <1>2
  <1>4. PICK t : t = Tree(c) OBVIOUS
  <1>5. Fits(t, p) /\ Sound(c) /\ DOMAIN t = LiveNodes(c) /\ View(cat).node = t BY <1>1, <1>4, TreeIs
  <1>6. p.op \in {"promote", "merge", "split", "collapse", "supersede"} BY DEF WellFormed
  <1>7. CASE p.op = "promote"
    <2>1. p.node \in LiveNodes(c)
          /\ (p.to = 0 \/ (p.to \in LiveNodes(c) /\ p.to # p.node /\ p.node \notin Above(Tree(c), p.to)))
      BY <1>4, <1>5, <1>7 DEF Fits
    <2>2. Sound(Promote(c, p).c) BY <1>2, <1>5, <2>1, SoundPromote
    <2> QED BY <1>1, <1>7, <2>2 DEF Effect
  <1>8. CASE p.op = "merge"
    <2>1. IsSeq(p.ids) /\ p.ids # << >> BY <1>8 DEF WellFormed, IsSeq
    <2>2. Range(p.ids) \subseteq LiveNodes(c) BY <1>5, <1>8 DEF Fits
    <2>3. Head(p.ids) = p.ids[1] /\ Head(p.ids) \in Range(p.ids)
      <3>1. p.ids \in Seq(Range(p.ids)) BY <2>1 DEF IsSeq
      <3>2. 1 \in DOMAIN p.ids BY <2>1, <3>1
      <3> QED BY <3>1, <3>2 DEF Range
    <2>4. PICK V : V = IF p.to = 0 THEN Above(t, p.ids[1]) ELSE {p.to} \cup Above(t, p.to) OBVIOUS
    <2>5. Range(p.ids) \cap V = {} /\ p.to \in {0} \cup LiveNodes(c)
      BY <1>5, <1>8, <2>4 DEF Nested
    <2>6. Beside(c, p, V) BY <1>4, <2>3, <2>4, <2>5 DEF Beside
    <2>7. Head(p.ids) \in LiveNodes(c) /\ ~Tangled(p) BY <2>2, <2>3
    <2>8. Sound(Merge(c, p, r).c)
      BY ONLY <1>2, <1>3, <1>5, <1>8, <2>1, <2>6, <2>7, SoundMerge, SMTT(60)
    <2> QED BY <1>1, <1>8, <2>8 DEF Effect
  <1>9. CASE p.op = "split"
    <2>1. IsSeq(p.parts) BY <1>9 DEF WellFormed, IsSeq
    <2>2. p.node \in LiveNodes(c)
      <3>1. PICK l : l \in LinksAt(c, p.node) BY <1>1, <1>5, <1>9 DEF Fits
      <3>2. l \in LiveRows(c.link) /\ c.link[l].node = p.node BY <3>1 DEF LinksAt
      <3> QED BY <1>5, <3>2 DEF Sound
    <2>3. Sound(Split(c, p, K).c) BY <1>2, <1>5, <2>1, <2>2, SoundSplit
    <2> QED BY <1>1, <1>9, <2>3 DEF Effect
  <1>10. CASE p.op = "collapse"
    <2>1. p.node \in LiveNodes(c) BY <1>5, <1>10 DEF Fits
    <2>2. Sound(Collapse(c, p, r, K, L).c) BY <1>2, <1>3, <1>5, <2>1, SoundCollapse
    <2> QED BY <1>1, <1>10, <2>2 DEF Effect
  <1>11. CASE p.op = "supersede"
    <2>1. PICK S : Supersede(c, p).c = [c EXCEPT !.sup = S] BY DEF Supersede, Result
    <2>2. c = [node |-> c.node, link |-> c.link, sup |-> c.sup] BY <1>2 DEF Table
    <2>3. Supersede(c, p).c = [node |-> c.node, link |-> c.link, sup |-> S] BY <2>1, <2>2, CatChanged
    <2>4. PICK d : d = Supersede(c, p).c /\ d.node = c.node /\ d.link = c.link BY <2>3
    <2>5. Sound(d) BY <1>5, <2>4, SoundLinks
    <2> QED BY <1>1, <1>11, <2>4, <2>5 DEF Effect
  <1> QED BY <1>6, <1>7, <1>8, <1>9, <1>10, <1>11

\* A proposal is applied, or not.
LEMMA ApplyForest ==
    ASSUME CatInv, ForestInv, JudgedOK', NEW w \in Workers, pass[w].pc # "idle",
           NEW q, WellFormed(q.p), NEW t, Fits(t, q.p), Apply(w, q, t)
    PROVE  ForestInv'
  <1> DEFINE r == pass[w].run
             res == Effect(q.p, r)
  <1>1. CASE UNCHANGED <<cat, undo, slips>> BY <1>1, ForestKept
  <1>2. CASE ~UNCHANGED <<cat, undo, slips>>
    <2>1. Readable(q.p) BY <1>2 DEF Apply
    <2>2. /\ Commit(r, q.p.op, res, q.id)
          /\ slips' = slips \cup Disorder(r)
                       \cup (IF t = View(cat).node THEN {} ELSE {"stale"})
                       \cup (IF Nested(q.p) THEN {"nested"} ELSE {})
                       \cup (IF Tangled(q.p) THEN {"tangled"} ELSE {})
      BY <1>2 DEF Apply
    <2>3. r \in 1..Len(runs)
      <3>1. r \in DOMAIN runs /\ DOMAIN runs = 1..Len(runs) BY States
      <3> QED BY <3>1
    <2>4. cat' = res.c /\ Remember(r) BY <2>2 DEF Commit
    <2>5. slips \subseteq slips' /\ (t # View(cat).node => "stale" \in slips')
          /\ (Nested(q.p) => "nested" \in slips') /\ (Tangled(q.p) => "tangled" \in slips')
      <3> HIDE DEF res, r
      <3> QED BY <2>2
    <2>6. ASSUME Orderly', Sound(cat) PROVE Sound(cat')
      <3>1. t = View(cat).node /\ ~Nested(q.p) /\ ~Tangled(q.p) BY <2>5, <2>6 DEF Orderly
      <3>2. PICK p, run : p = q.p /\ run = r OBVIOUS
      <3>3. WellFormed(p) /\ Fits(View(cat).node, p) /\ ~Nested(p) /\ ~Tangled(p) /\ run \in 1..Len(runs)
        BY <2>3, <3>1, <3>2
      <3>4. Sound(Effect(p, run).c) BY ONLY CatInv, <2>6, <3>3, EffectSound
      <3> QED BY <2>4, <3>2, <3>4
    <2> HIDE DEF res, r
    <2> QED BY <2>4, <2>5, <2>6, ForestWritten
  <1> QED BY <1>1, <1>2

LEMMA AdjudicateForest ==
    ASSUME CatInv, ForestInv, NEW w \in Workers, Adjudicate(w)
    PROVE  ForestInv'
  <1> DEFINE q == Oldest(pass[w].due)
             r == pass[w].run
             next == [pass[w] EXCEPT !.due = @ \ {q}]
             asked == [next EXCEPT !.verify = @ \cup {q}]
             t == pass[w].tree
  <1>1. \A o \in pass[w].due \cup pass[w].verify : IsProposal(o, newest.prop) BY Passes
  <1>2. q \in pass[w].due
    <2>1. pass[w].due # {} BY DEF Adjudicate
    <2> QED BY <1>1, <2>1, OldestFacts
  <1>3. WellFormed(q.p) BY <1>1, <1>2 DEF IsProposal
  <1>4. /\ next.verify = pass[w].verify /\ next.tree = t /\ next.pc = pass[w].pc
        /\ asked.verify = pass[w].verify \cup {q} /\ asked.tree = t /\ asked.pc = pass[w].pc
    <2>1. PICK y, o : y = pass[w] /\ o = q OBVIOUS
    <2>2. y = [pc |-> y.pc, run |-> y.run, staged |-> y.staged, due |-> y.due, verify |-> y.verify,
               tree |-> y.tree, kept |-> y.kept]
      BY <2>1, PassFields
    <2>3. next = [y EXCEPT !.due = y.due \ {o}] BY <2>1, <2>2
    <2> HIDE DEF q
    <2>4. next = [pc |-> y.pc, run |-> y.run, staged |-> y.staged, due |-> y.due \ {o}, verify |-> y.verify,
                  tree |-> y.tree, kept |-> y.kept]
      BY <2>2, <2>3
    <2>5. asked = [next EXCEPT !.verify = y.verify \cup {o}] BY <2>1, <2>4
    <2> HIDE DEF next
    <2>6. asked = [pc |-> y.pc, run |-> y.run, staged |-> y.staged, due |-> y.due \ {o},
                   verify |-> y.verify \cup {o}, tree |-> y.tree, kept |-> y.kept]
      BY <2>4, <2>5
    <2> HIDE DEF asked
    <2> QED BY <2>1, <2>4, <2>6
  <1>5. /\ \/ Settle(r, q, "expired") /\ pass' = [pass EXCEPT ![w] = next]
           \/ Wait(q, q.attempts, r + 1) /\ pass' = [pass EXCEPT ![w] = next]
           \/ "apply" \in Verdicts(t, q.p) /\ Apply(w, q, t) /\ pass' = [pass EXCEPT ![w] = next]
           \/ Settle(r, q, "refused") /\ pass' = [pass EXCEPT ![w] = next]
           \/ "verify" \in Verdicts(t, q.p) /\ pass' = [pass EXCEPT ![w] = asked]
              /\ UNCHANGED <<cat, newest, runs, queue, undo, slips>>
        /\ pass[w].pc = "queue"
    BY Zenon DEF Adjudicate
  <1>6. \A o \in pass[w].verify : Judged(o.p, t) BY DEF ForestInv, JudgedOK, PassJudged
  <1> HIDE DEF q, r, next, asked, t
  <1>7. ASSUME pass' = [pass EXCEPT ![w] = next] PROVE JudgedOK'
    <2>1. PassJudged(next) BY <1>4, <1>5, <1>6 DEF PassJudged
    <2> QED BY <1>7, <2>1, JudgedMoves
  <1>8. CASE "verify" \in Verdicts(t, q.p) /\ pass' = [pass EXCEPT ![w] = asked]
             /\ UNCHANGED <<cat, newest, runs, queue, undo, slips>>
    <2>1. Judged(q.p, t) BY <1>3, <1>8, VerifyJudged
    <2>2. PassJudged(asked) BY <1>4, <1>5, <1>6, <2>1 DEF PassJudged
    <2>3. JudgedOK' BY <1>8, <2>2, JudgedMoves
    <2> QED BY <1>8, <2>3, ForestKept
  <1>9. CASE "apply" \in Verdicts(t, q.p) /\ Apply(w, q, t) /\ pass' = [pass EXCEPT ![w] = next]
    <2>1. Fits(t, q.p) BY <1>3, <1>9, ApplyFits
    <2>2. JudgedOK' BY <1>7, <1>9
    <2>3. pass[w].pc # "idle" BY <1>5
    <2> QED BY <1>3, <1>9, <2>1, <2>2, <2>3, ApplyForest
  <1>10. CASE (Settle(r, q, "expired") \/ Wait(q, q.attempts, r + 1) \/ Settle(r, q, "refused"))
              /\ pass' = [pass EXCEPT ![w] = next]
    <2>1. JudgedOK' BY <1>7, <1>10
    <2>2. UNCHANGED <<cat, undo, slips>> BY <1>10 DEF Settle, Wait
    <2> QED BY <2>1, <2>2, ForestKept
  <1> QED BY <1>5, <1>8, <1>9, <1>10

LEMMA VerifiedForest ==
    ASSUME CatInv, ForestInv, NEW w \in Workers, Verified(w)
    PROVE  ForestInv'
  <1> DEFINE q == NextAsked(pass[w].verify)
             r == pass[w].run
             t == pass[w].tree
             x == [pass[w] EXCEPT !.verify = @ \ {q}]
  <1>1. \A o \in pass[w].due \cup pass[w].verify : IsProposal(o, newest.prop) BY Passes
  <1>2. q \in pass[w].verify
    <2>1. pass[w].verify # {} BY DEF Verified
    <2> QED BY <1>1, <2>1, NextAskedFacts
  <1>3. WellFormed(q.p) BY <1>1, <1>2 DEF IsProposal
  <1>4. /\ \/ Apply(w, q, t) \/ Settle(r, q, "refused") \/ Defer(r, q)
        /\ pass' = [pass EXCEPT ![w].verify = @ \ {q}]
        /\ pass[w].pc = "queue"
    BY DEF Verified
  <1> HIDE DEF q
  <1>5. pass' = [pass EXCEPT ![w] = x] BY <1>4
  <1>6. x.verify = pass[w].verify \ {q} /\ x.tree = t /\ x.pc = pass[w].pc
    <2>1. pass[w] = [pc |-> pass[w].pc, run |-> pass[w].run, staged |-> pass[w].staged,
                     due |-> pass[w].due, verify |-> pass[w].verify,
                     tree |-> pass[w].tree, kept |-> pass[w].kept]
      BY PassFields
    <2> QED BY <2>1
  <1>7. \A o \in pass[w].verify : Judged(o.p, t) BY DEF ForestInv, JudgedOK, PassJudged
  <1> HIDE DEF r, t, x
  <1>8. JudgedOK'
    <2>1. PassJudged(x) BY <1>4, <1>6, <1>7 DEF PassJudged
    <2> QED BY <1>5, <2>1, JudgedMoves
  <1>9. CASE Apply(w, q, t)
    <2>1. Fits(t, q.p) BY <1>2, <1>7, JudgedFits
    <2>2. pass[w].pc # "idle" BY <1>4
    <2> QED BY <1>3, <1>8, <1>9, <2>1, <2>2, ApplyForest
  <1>10. CASE Settle(r, q, "refused") \/ Defer(r, q)
    <2>1. UNCHANGED <<cat, undo, slips>> BY <1>10 DEF Settle, Defer, Wait
    <2> QED BY <1>8, <2>1, ForestKept
  <1> QED BY <1>4, <1>9, <1>10

LEMMA StagedJudged ==
    ASSUME CatInv, ForestInv, NEW w \in Workers, Staged(w)
    PROVE  JudgedOK'
  <1>1. PICK y : y = pass[w] OBVIOUS
  <1>2. y = [pc |-> y.pc, run |-> y.run, staged |-> y.staged, due |-> y.due, verify |-> y.verify,
             tree |-> y.tree, kept |-> y.kept]
    BY <1>1, PassFields
  <1>3. PICK x : x = [y EXCEPT !.staged = @ + 1] OBVIOUS
  <1>4. pass' = [pass EXCEPT ![w] = x] BY <1>1, <1>3 DEF Staged
  <1>5. x.pc = y.pc /\ x.verify = y.verify /\ x.tree = y.tree BY <1>2, <1>3
  <1>6. PassJudged(y) BY <1>1 DEF ForestInv, JudgedOK
  <1>7. PassJudged(x) BY <1>5, <1>6 DEF PassJudged
  <1> QED BY <1>4, <1>7, JudgedMoves

LEMMA StageStructuralForest ==
    ASSUME CatInv, ForestInv, NEW w \in Workers, NEW p, StageStructural(w, p)
    PROVE  ForestInv'
  <1>1. UNCHANGED <<cat, undo, slips>> /\ Staged(w) BY DEF StageStructural
  <1>2. JudgedOK' BY <1>1, StagedJudged
  <1> QED BY <1>1, <1>2, ForestKept

LEMMA StageCreateForest ==
    ASSUME CatInv, ForestInv, NEW w \in Workers, NEW a, StageCreate(w, a)
    PROVE  ForestInv'
  <1>1. PICK r, res : r = pass[w].run /\ res = Create(cat, newest.node + 1, a.parent, a.title) OBVIOUS
  <1>2. /\ Staged(w) /\ a.parent \in LiveNodes(cat)
        /\ \/ Commit(r, "create", res, 0) /\ slips' = slips \cup Disorder(r)
           \/ UNCHANGED <<cat, runs, undo, slips>>
    BY <1>1 DEF StageCreate, Alive
  <1>3. JudgedOK' BY <1>2, StagedJudged
  <1>4. CASE UNCHANGED <<cat, runs, undo, slips>> BY <1>3, <1>4, ForestKept
  <1>5. CASE Commit(r, "create", res, 0) /\ slips' = slips \cup Disorder(r)
    <2>1. cat' = res.c /\ Remember(r) /\ slips \subseteq slips' BY <1>5 DEF Commit
    <2>2. ASSUME Sound(cat) PROVE Sound(cat')
      <3>1. PICK c, K, L, parent, title : c = cat /\ K = newest.node /\ L = newest.link
                                          /\ parent = a.parent /\ title = a.title
        OBVIOUS
      <3>2. K \in Nat /\ L \in Nat /\ Table(c) /\ Bounded(c, K, L) /\ Sound(c) /\ parent \in LiveNodes(c)
        BY <1>2, <2>2, <3>1, States
      <3>3. Sound(Create(c, K + 1, parent, title).c) BY <3>2, SoundCreate
      <3> QED BY <1>1, <2>1, <3>1, <3>3
    <2> QED BY <1>3, <2>1, <2>2, ForestWritten
  <1> QED BY <1>2, <1>4, <1>5

\* An item is filed under a live class, and the links parked in an inbox are
\* marked.
LEMMA StageFileForest ==
    ASSUME CatInv, ForestInv, NEW w \in Workers, NEW a, StageFile(w, a)
    PROVE  ForestInv'
  <1> DEFINE nb == newest.node
             L == newest.link
             R == Len(runs)
             r == pass[w].run
             subs == IF a.sub = "" THEN {a.parent} ELSE Siblings(cat, a.parent, a.sub)
             made == Create(cat, nb + 1, a.parent, a.sub)
             base == IF subs = {} THEN made.c ELSE cat
             class == IF subs = {} THEN nb + 1 ELSE Min(subs)
             res == File(base, L + 1, class, a.item)
             parked == {l \in LiveRows(cat.link) : a.refile /\ cat.link[l].item = a.item
                                                   /\ cat.node[cat.link[l].node].title = "~inbox"}
             M == [l \in DOMAIN res.c.link |->
                     IF l \in parked THEN [res.c.link[l] EXCEPT !.by = r] ELSE res.c.link[l]]
  <1>1. /\ nb \in Nat /\ L \in Nat /\ R \in Nat /\ RowsOK(cat, nb, L, nb, R)
        /\ Table(cat) /\ Bounded(cat, nb, L) /\ TablesOK
    BY States, Passes, TablesParts
  <1>2. /\ Alive(a.parent) /\ pass[w].pc # "idle"
        /\ cat' = [res.c EXCEPT !.link = M]
        /\ Staged(w) /\ Remember(r)
        /\ slips' = slips \cup Disorder(r) \cup (IF parked = {} THEN {} ELSE {"refile"})
    BY DEF StageFile, Staging
  <1>3. r # 0
    <2>1. r \in DOMAIN runs /\ DOMAIN runs = 1..R BY <1>2, States
    <2> QED BY <1>1, <2>1
  <1>4. RowsOK(res.c, newest'.node, newest'.link, newest'.node, R) BY FiledRows
  <1>5. JudgedOK' BY <1>2, StagedJudged
  <1>6. slips \subseteq slips'
    <2> HIDE DEF r, parked
    <2> QED BY <1>2
  <1>7. ASSUME Sound(cat) PROVE Sound(cat')
    <2>1. \E K : Table(base) /\ Bounded(base, K, L) /\ Sound(base) /\ class \in LiveNodes(base)
      <3>1. CASE subs = {}
        <4>1. PICK c, K, p, t : c = cat /\ K = nb /\ p = a.parent /\ t = a.sub OBVIOUS
        <4>2. K \in Nat /\ L \in Nat /\ R \in Nat /\ RowsOK(c, K, L, K, R) /\ Table(c) /\ Bounded(c, K, L)
              /\ Sound(c) /\ p \in LiveNodes(c)
          BY <1>1, <1>2, <1>7, <4>1 DEF Alive
        <4>3. Table(Create(c, K + 1, p, t).c) /\ Bounded(Create(c, K + 1, p, t).c, K + 1, L)
          BY ONLY <4>2, CreatedTable
        <4>4. Sound(Create(c, K + 1, p, t).c) /\ K + 1 \in LiveNodes(Create(c, K + 1, p, t).c)
          BY ONLY <4>2, SoundCreate
        <4>5. base = Create(c, K + 1, p, t).c /\ class = K + 1 BY <3>1, <4>1
        <4> QED BY <4>3, <4>4, <4>5
      <3>2. CASE subs # {}
        <4>1. Min(subs) \in LiveNodes(cat) BY <1>1, <1>2, <3>2, FiledUnder
        <4>2. base = cat /\ class = Min(subs) BY <3>2
        <4> QED BY <1>1, <1>7, <4>1, <4>2
      <3> QED BY <3>1, <3>2
    <2> HIDE DEF subs, made, base, class
    <2>2. PICK K : Table(base) /\ Bounded(base, K, L) /\ Sound(base) /\ class \in LiveNodes(base) BY <2>1
    <2>3. PICK b, k, item, d : b = base /\ k = class /\ item = a.item /\ d = res.c OBVIOUS
    <2>4. d = File(b, L + 1, k, item).c /\ Table(b) /\ Bounded(b, K, L) /\ Sound(b) /\ k \in LiveNodes(b)
          /\ L \in Nat
      BY <1>1, <2>2, <2>3
    <2>5. Sound(d) BY ONLY <2>4, SoundFile
    <2>6. d = [node |-> d.node, link |-> d.link, sup |-> d.sup]
          /\ \A l \in DOMAIN d.link : d.link[l] = [node |-> d.link[l].node, item |-> d.link[l].item,
                                                   by |-> d.link[l].by]
      BY <1>4, <2>3 DEF RowsOK, IsLink
    <2>7. DOMAIN M = DOMAIN d.link
          /\ \A l \in DOMAIN d.link : M[l] = IF l \in parked THEN [d.link[l] EXCEPT !.by = r] ELSE d.link[l]
      BY <2>3
    <2>8. cat' = [d EXCEPT !.link = M] BY <1>2, <2>3
    <2> HIDE DEF res, parked, M, r
    <2>9. cat' = [node |-> d.node, link |-> M, sup |-> d.sup] BY <2>6, <2>8, CatChanged
    <2>10. PICK d2 : d2 = cat' /\ d2.node = d.node /\ d2.link = M BY <2>9
    <2>11. ASSUME NEW l \in LiveRows(d2.link) PROVE l \in LiveRows(d.link) /\ d2.link[l].node = d.link[l].node
      <3>1. l \in DOMAIN d.link /\ M[l].by = 0 BY <2>7, <2>10, <2>11 DEF LiveRows
      <3>2. PICK x : x = d.link[l] OBVIOUS
      <3>3. x = [node |-> x.node, item |-> x.item, by |-> x.by] BY <2>6, <3>1, <3>2
      <3>4. l \notin parked
        <4> SUFFICES ASSUME l \in parked PROVE FALSE OBVIOUS
        <4>1. M[l] = [x EXCEPT !.by = r] BY <2>7, <3>1, <3>2
        <4>2. M[l].by = r BY <3>3, <4>1, LinkFields
        <4> QED BY <1>3, <3>1, <4>2
      <3>5. M[l] = d.link[l] BY <2>7, <3>1, <3>4
      <3> QED BY <2>10, <3>1, <3>5 DEF LiveRows
    <2>12. Sound(d2) BY <2>5, <2>10, <2>11, SoundLinks
    <2> QED BY <2>10, <2>12
  <1> HIDE DEF res, r, parked, M
  <1> QED BY <1>2, <1>5, <1>6, <1>7, ForestWritten

\* A revert of the last run that wrote leads back to rows that were sound.
LEMMA RevertRunForest ==
    ASSUME CatInv, UndoInv, ForestInv, NEW r \in DOMAIN runs, RevertRun(r), JudgedOK'
    PROVE  ForestInv'
  <1>1. /\ newest.node \in Nat /\ newest.link \in Nat /\ Len(runs) \in Nat /\ horizon \in Nat
        /\ DOMAIN runs = 1..Len(runs) /\ \A k \in DOMAIN runs : k \in Nat
    BY States
  <1>2. Known(runs, undo) BY DEF UndoInv
  <1>3. /\ Applied(r) # {} /\ ~(r <= horizon)
        /\ cat' = Undone(r, Len(runs) + 1).c
        /\ undo' = [k \in DOMAIN undo \ {r} |-> undo[k]]
        /\ slips' = slips \cup IF Later(r) THEN {"skipped"} ELSE {}
    BY DEF RevertRun, Refused
  <1>4. r \in DOMAIN undo BY <1>2, <1>3 DEF Known, Applied
  <1> SUFFICES ASSUME Orderly' PROVE Sound(cat') /\ \A k \in DOMAIN undo' : Sound(undo'[k].cat)
    BY DEF ForestInv
  <1>5. slips \subseteq slips' /\ (Later(r) => "skipped" \in slips') BY <1>3
  <1>6. Orderly /\ ~Later(r) BY <1>5 DEF Orderly
  <1>7. Clean BY <1>6, OrderlyClean
  <1>8. Newest(undo, r) BY <1>6 DEF Newest, Later
  <1>9. Sound(cat) /\ \A k \in DOMAIN undo : Sound(undo[k].cat) BY <1>6 DEF ForestInv
  <1>10. PICK c, u, K, L, h, S, loose :
           /\ c = undo[r].cat /\ u = cat' /\ K = undo[r].new.node /\ L = undo[r].new.link /\ h = horizon
           /\ S = Reverts(runs) \cup {Len(runs) + 1} /\ loose = ("refile" \in slips)
    OBVIOUS
  <1>11. Table(u) /\ Stands(u, c, K, L, h, 0, S, loose)
    <2>1. r > horizon BY <1>1, <1>3
    <2>2. /\ Table(Undone(r, Len(runs) + 1).c)
          /\ Stands(Undone(r, Len(runs) + 1).c, undo[r].cat, undo[r].new.node, undo[r].new.link, horizon, 0,
                    Reverts(runs) \cup {Len(runs) + 1}, "refile" \in slips)
      BY <1>4, <1>7, <1>8, <2>1, LastUndone
    <2> QED BY <1>3, <1>10, <2>2
  <1>12. Table(c)
    <2>1. PastOK(cat, newest.node, newest.link, runs, undo, horizon, "refile" \in slips) BY <1>7 DEF UndoInv
    <2> QED BY <1>4, <1>10, <2>1 DEF PastOK, Begun
  <1>13. h \in Nat /\ 0 \notin S /\ loose \in BOOLEAN
    <2>1. loose \in BOOLEAN BY <1>10
    <2>2. 0 \notin S BY <1>1, <1>10 DEF Reverts
    <2> QED BY <1>1, <1>10, <2>1, <2>2
  <1>14. /\ View(u).node = View(c).node
         /\ \A l \in LiveRows(u.link) : l \in LiveRows(c.link) /\ u.link[l] = c.link[l]
    BY ONLY <1>11, <1>12, <1>13, StandsView
  <1>15. Sound(c) BY <1>4, <1>9, <1>10
  <1>16. Sound(u) BY ONLY <1>14, <1>15, SoundStands
  <1> QED BY <1>3, <1>9, <1>10, <1>16

LEMMA RevertForest ==
    ASSUME CatInv, UndoInv, ForestInv, Revert
    PROVE  ForestInv'
  <1>1. PICK r \in DOMAIN runs : RevertRun(r) /\ UNCHANGED <<kept, pass>> BY DEF Revert
  <1>2. JudgedOK' BY <1>1 DEF ForestInv, JudgedOK, PassJudged, Workers
  <1> QED BY <1>1, <1>2, RevertRunForest

LEMMA CanaryRevertsForest ==
    ASSUME CatInv, UndoInv, ForestInv, NEW w \in Workers, CanaryReverts(w)
    PROVE  ForestInv'
  <1>1. pass[w].pc = "canary" /\ RevertRun(pass[w].run) /\ pass' = [pass EXCEPT ![w] = Idle] BY DEF CanaryReverts
  <1>2. pass[w].run \in DOMAIN runs BY <1>1, States
  <1>3. PassJudged(Idle) BY DEF PassJudged, Idle
  <1>4. JudgedOK' BY <1>1, <1>3, JudgedMoves
  <1> QED BY <1>1, <1>2, <1>4, RevertRunForest

LEMMA VacuumForest ==
    ASSUME CatInv, CatInv', ForestInv, Vacuum
    PROVE  ForestInv'
  <1>1. /\ newest.node \in Nat /\ newest.link \in Nat /\ Len(runs) \in Nat /\ horizon \in Nat
        /\ RowsOK(cat, newest.node, newest.link, newest.node, Len(runs)) /\ Table(cat)
    BY States
  <1>2. PICK h : h = Len(runs) - HorizonRuns OBVIOUS
  <1>3. h > horizon /\ cat' = Vacuumed(cat, h) /\ UNCHANGED <<pass, undo, slips>> BY <1>2 DEF Vacuum
  <1>4. h \in Nat
    <2>1. HorizonRuns \in Nat BY CatalogAssumptions
    <2> QED BY <1>1, <1>2, <1>3, <2>1
  <1>5. JudgedOK' BY <1>3 DEF ForestInv, JudgedOK, PassJudged, Workers
  <1>6. Table(cat)' BY States, PTL
  <1>7. ASSUME Sound(cat) PROVE Sound(cat')
    <2>1. PICK c, u, K, L, R, S, loose : c = cat /\ u = cat' /\ K = newest.node /\ L = newest.link /\ R = Len(runs)
                                         /\ S = {} /\ loose = FALSE
      OBVIOUS
    <2>2. K \in Nat /\ L \in Nat /\ R \in Nat /\ RowsOK(c, K, L, K, R) /\ h \in Nat BY <1>1, <1>4, <2>1
    <2>3. Stands(Vacuumed(c, h), c, K, L, h, 0, S, loose) BY ONLY <2>2, VacuumStands
    <2>4. u = Vacuumed(c, h) /\ Table(u) /\ Table(c) BY <1>1, <1>3, <1>6, <2>1
    <2>5. Stands(u, c, K, L, h, 0, S, loose) BY <2>3, <2>4
    <2>6. 0 \notin S /\ loose \in BOOLEAN BY <2>1
    <2>7. /\ View(u).node = View(c).node
          /\ \A l \in LiveRows(u.link) : l \in LiveRows(c.link) /\ u.link[l] = c.link[l]
      BY ONLY <2>2, <2>4, <2>5, <2>6, StandsView
    <2>8. Sound(c) BY <1>7, <2>1
    <2>9. Sound(u) BY ONLY <2>7, <2>8, SoundStands
    <2> QED BY <2>1, <2>9
  <1> QED BY <1>3, <1>5, <1>7 DEF ForestInv, Orderly

LEMMA ForestStep == CatInv /\ CatInv' /\ UndoInv /\ ForestInv /\ [Next]_vars => ForestInv'
  <1> SUFFICES ASSUME CatInv, CatInv', UndoInv, ForestInv, [Next]_vars PROVE ForestInv' OBVIOUS
  <1>1. ASSUME NEW w \in Workers,
               \/ StartRun(w) \/ Crash(w) \/ LoadQueue(w) \/ Adjudicate(w) \/ Verified(w)
               \/ Finish(w) \/ CanaryHolds(w) \/ CanaryReverts(w)
        PROVE  ForestInv'
    BY <1>1, QuietForest, AdjudicateForest, VerifiedForest, CanaryRevertsForest
  <1>2. ASSUME NEW w \in Workers, NEW a \in menu.filings, StageCreate(w, a) \/ StageFile(w, a)
        PROVE  ForestInv'
    BY <1>2, StageCreateForest, StageFileForest
  <1>3. ASSUME NEW w \in Workers, NEW p \in menu.proposals, StageStructural(w, p)
        PROVE  ForestInv'
    BY <1>3, StageStructuralForest
  <1>4. CASE Revert BY <1>4, RevertForest
  <1>5. CASE Vacuum BY <1>5, VacuumForest
  <1>6. CASE UNCHANGED vars
    <2>1. UNCHANGED <<cat, undo, slips, pass>> BY <1>6 DEF vars
    <2>2. JudgedOK' BY <2>1 DEF ForestInv, JudgedOK, PassJudged, Workers
    <2> QED BY <2>1, <2>2, ForestKept
  <1> QED BY <1>1, <1>2, <1>3, <1>4, <1>5, <1>6 DEF Next

LEMMA ForestInit == Init => ForestInv
  <1> SUFFICES ASSUME Init PROVE ForestInv OBVIOUS
  <1>1. cat = FirstCatalog /\ undo = << >> /\ pass = [w \in Workers |-> Idle] BY DEF Init
  <1>2. DOMAIN << >> = {} OBVIOUS
  <1>3. JudgedOK BY <1>1 DEF JudgedOK, PassJudged, Idle
  <1>4. PICK c, t : c = FirstCatalog /\ t = FirstCatalog.node OBVIOUS
  <1>5. /\ IsFiniteSet(DOMAIN t) /\ 0 \notin DOMAIN t
        /\ \A n \in DOMAIN t : t[n].parent \in {0} \cup DOMAIN t /\ n \notin Above(t, n)
    <2>1. IsFiniteSet(DOMAIN t) BY <1>4, CatalogAssumptions
    <2>2. 0 \notin DOMAIN t BY <1>4, CatalogAssumptions
    <2>3. \A n \in DOMAIN t : t[n].parent \in {0} \cup DOMAIN t /\ n \notin Above(t, n)
      BY <1>4, FirstForest
    <2> QED BY <2>1, <2>2, <2>3
  <1>6. ASSUME NEW n \in DOMAIN c.node PROVE c.node[n].by = 0
    <2>1. PICK p, title, k : c.node[n] = NewNode(p, title, k) BY <1>4, <1>6, CatalogAssumptions
    <2> QED BY <2>1 DEF NewNode
  <1>7. LiveNodes(c) = DOMAIN c.node BY <1>6, TreeIs
  <1>8. PICK t2 : t2 = Tree(c) OBVIOUS
  <1>9. Forest(t2)
    <2>1. DOMAIN t2 = DOMAIN t /\ \A n \in DOMAIN t : t2[n] = t[n] BY <1>4, <1>7, <1>8, TreeIs
    <2>2. ASSUME NEW n \in DOMAIN t PROVE n \notin Above(t2, n)
      <3>1. PICK U : U = Above(t, n) OBVIOUS
      <3>2. t[n].parent \in U /\ UpClosed(t, U) BY <1>5, <3>1, AboveFacts
      <3>3. t2[n].parent \in U /\ UpClosed(t2, U) BY <2>1, <3>2 DEF UpClosed
      <3>4. n \in DOMAIN t2 /\ IsFiniteSet(DOMAIN t2) BY <1>5, <2>1
      <3>5. Above(t2, n) \subseteq U BY <3>3, <3>4, AboveFacts
      <3> QED BY <1>5, <3>1, <3>5
    <2> QED BY <1>5, <2>1, <2>2 DEF Forest
  <1>10. ASSUME NEW l \in LiveRows(c.link) PROVE c.link[l].node \in LiveNodes(c)
    <2>1. l \in DOMAIN c.link BY <1>10, TreeIs
    <2> QED BY <1>4, <1>7, <2>1, CatalogAssumptions
  <1>11. Sound(c) BY <1>8, <1>9, <1>10 DEF Sound
  <1> QED BY <1>1, <1>2, <1>3, <1>4, <1>11 DEF ForestInv

\* The live rows are a forest, and so are the rows that each run which can
\* still be reverted began with; what a pass is to ask its verifier about is
\* on the tree it read.  The inductive invariant of the two theorems below.
THEOREM ForestStands == Spec => [](CatInv /\ UndoInv /\ ForestInv)
  <1>1. Init => ForestInv BY ForestInit
  <1>2. CatInv /\ CatInv' /\ UndoInv /\ ForestInv /\ [Next]_vars => ForestInv' BY ForestStep
  <1> QED BY <1>1, <1>2, JournalLeadsBack, PTL DEF Spec

\* No class is its own ancestor, and none hangs from a class that is retired
\* or deleted: filing, the structural operations of catalog.rs on the tree a
\* pass read, reverts (runs.rs), crashes and vacuums keep a forest.
THEOREM CatalogIsForest == Spec => []TreeSound
  <1>1. ASSUME ForestInv PROVE TreeSound
    <2> SUFFICES ASSUME Orderly, NEW n \in LiveNodes(cat)
                 PROVE  ~Loops(View(cat).node, n) /\ cat.node[n].parent \in {0} \cup LiveNodes(cat)
      BY DEF TreeSound
    <2>1. PICK t : t = Tree(cat) OBVIOUS
    <2>2. Forest(t) BY <1>1, <2>1 DEF ForestInv, Sound
    <2>3. View(cat).node = t /\ DOMAIN t = LiveNodes(cat) /\ t[n] = cat.node[n] BY <2>1, TreeIs
    <2> QED BY <2>2, <2>3 DEF Forest, Loops
  <1> QED BY <1>1, ForestStands, PTL

\* Every live link hangs from a live class: what a merge, a split or a
\* collapse retires keeps no live link, and neither does a node that a revert
\* takes back (catalog.rs, runs.rs).
THEOREM LinksHangLive == Spec => []LinksHang
  <1>1. ASSUME ForestInv PROVE LinksHang BY <1>1 DEF ForestInv, Sound, LinksHang
  <1> QED BY <1>1, ForestStands, PTL
================================================================================
