----------------------------- MODULE CatalogOps -----------------------------
(***************************************************************************)
(* What the operations of polis-store/src/catalog.rs do to the rows of the *)
(* class catalog, what they journal, and how runs.rs undoes them.  Pure:   *)
(* every operator takes the rows and returns the rows; Catalog makes the   *)
(* transactions and runs of them.                                          *)
(*                                                                         *)
(* The rows are a record c of three tables.                                *)
(*   c.node  class_nodes by id: parent (0 is NULL, a root), title, kind    *)
(*           and retired_by_run (`by`, 0 is NULL: the row is live)         *)
(*   c.link  class_links by id: node, item (target_kind and target_id), by *)
(*   c.sup   supersessions: old_seq to new_seq                             *)
(* Ids are numbers; a node's id is really random, only its being new       *)
(* counts.  Observations, claims and compactions of a run are left out:    *)
(* what a compaction does to the bodies is in Forget.                      *)
(***************************************************************************)
EXTENDS Integers, Sequences, FiniteSets

CONSTANT DigestTitle  \* the title a collapse gives its digest

-----------------------------------------------------------------------------
(* Reading the rows.                                                       *)

\* A table with a row put in, or with the rows of another written over its own.
Put(t, i, row) == [k \in DOMAIN t \cup {i} |-> IF k = i THEN row ELSE t[k]]
Over(new, t) == [k \in DOMAIN t \cup DOMAIN new |-> IF k \in DOMAIN new THEN new[k] ELSE t[k]]

LiveRows(t) == {i \in DOMAIN t : t[i].by = 0}
LiveNodes(c) == LiveRows(c.node)

\* What every reader sees: no row that is marked.
View(c) ==
    [node |-> [n \in LiveNodes(c) |-> c.node[n]],
     link |-> [l \in LiveRows(c.link) |-> c.link[l]],
     sup |-> c.sup]

LinksAt(c, n) == {l \in LiveRows(c.link) : c.link[l].node = n}
Children(c, n) == {k \in LiveNodes(c) : c.node[k].parent = n}
Siblings(c, n, title) == {k \in Children(c, n) : c.node[k].title = title}

\* The ids met going up from n through the rows of t, n not included unless
\* the way comes back to it; 0 is above every root.
Above(t, n) ==
    LET up[k \in 0..Cardinality(DOMAIN t)] ==
          IF k = 0 THEN {t[n].parent}
          ELSE up[k - 1] \cup {t[m].parent : m \in up[k - 1] \cap DOMAIN t}
    IN  IF n \in DOMAIN t THEN up[Cardinality(DOMAIN t)] ELSE {}

Subtree(c, n) == {n} \cup {k \in LiveNodes(c) : n \in Above(View(c).node, k)}

\* Mutant: only the links of the node itself.
LinksOfTop(c, n) == LinksAt(c, n)
LinksUnder(c, n) == UNION {LinksAt(c, k) : k \in Subtree(c, n)}

-----------------------------------------------------------------------------
(* The journal's pre-image: one shape for every operation, the rows its    *)
(* inverse puts back.  An operation fills in the fields it needs.          *)

NoImage ==
    [made |-> {},        \* nodes to retire: created, a digest, the parts
     cites |-> {},       \* links to retire: a digest's citations
     drop |-> {},        \* links to delete
     remark |-> << >>,   \* links to mark again, and with which run
     parent |-> << >>,   \* nodes to hang back, and from where
     title |-> << >>,    \* nodes to name back
     moved |-> << >>,    \* links to move back: from where, and where to find
                         \* them (0: wherever they are)
     nodes |-> {},       \* nodes whose mark is cleared
     links |-> {},       \* links whose mark is cleared
     sup |-> {}]         \* supersessions to delete

\* subject_ids: what a later run must not have touched.
Node(n) == <<"node", n>>
Link(l) == <<"link", l>>
Seqn(s) == <<"seq", s>>

Result(c, image, subjects) == [c |-> c, image |-> image, subjects |-> subjects]

NewNode(parent, title, kind) == [parent |-> parent, title |-> title, kind |-> kind, by |-> 0]
NewLink(n, item) == [node |-> n, item |-> item, by |-> 0]

-----------------------------------------------------------------------------
(* The additive operations.                                                *)

Create(c, id, parent, title) ==
    Result([c EXCEPT !.node = Put(@, id, NewNode(parent, title, "node"))],
           [NoImage EXCEPT !.made = {id}],
           {Node(id)})

\* The links of n to the item, marked ones too: the dedup index sees them.
Held(c, n, item) == {l \in DOMAIN c.link : c.link[l].node = n /\ c.link[l].item = item}

File(c, id, n, item) ==
    IF Held(c, n, item) = {}
    THEN Result([c EXCEPT !.link = Put(@, id, NewLink(n, item))],
                [NoImage EXCEPT !.drop = {id}],
                {Node(n), Link(id)})
    ELSE LET l == CHOOSE l \in Held(c, n, item) : TRUE
         IN  Result([c EXCEPT !.link[l].by = 0],
                    [NoImage EXCEPT !.remark = [k \in {l} |-> c.link[l].by]],
                    {Node(n), Link(l)})

-----------------------------------------------------------------------------
(* The structural operations: p is the proposal, r the run it is journaled *)
(* under, nid and lid the newest ids.                                      *)

Promote(c, p) ==
    LET known == {p.node} \cap DOMAIN c.node
    IN  Result([c EXCEPT !.node = Over([n \in known |-> [c.node[n] EXCEPT !.parent = p.to]], @)],
               [NoImage EXCEPT !.parent = [n \in known |-> c.node[n].parent]],
               {Node(p.node)})

Collapse(c, p, r, nid, lid) ==
    LET digest == nid + 1
        first == {k \in 1..Len(p.cites) : \A j \in 1..(k - 1) : p.cites[j] # p.cites[k]}
        made == [l \in {lid + k : k \in first} |-> NewLink(digest, p.cites[l - lid])]
        gone == Subtree(c, p.node)
        links == LinksUnder(c, p.node)
        mark(t, ids) == [i \in DOMAIN t |-> IF i \in ids /\ t[i].by = 0 THEN [t[i] EXCEPT !.by = r] ELSE t[i]]
    IN  Result([node |-> Put(mark(c.node, gone), digest, NewNode(c.node[p.node].parent, DigestTitle, "digest")),
                link |-> Over(made, mark(c.link, links)),
                sup |-> c.sup],
               [NoImage EXCEPT !.made = {digest}, !.cites = DOMAIN made,
                               !.nodes = gone, !.links = links],
               {Node(n) : n \in gone \cup {digest}})

\* The links that cannot move to the target: its link to the item is there
\* already, marked or not.  Mutant: one that is marked is overlooked.
TwinsLive(c, target, links) ==
    {l \in links : \E k \in LinksAt(c, target) \ {l} : c.link[k].item = c.link[l].item}
Twins(c, target, links) == {l \in links : Held(c, target, c.link[l].item) \ {l} # {}}

Absorb(s, target, other, r) ==
    LET links == LinksAt(s.c, other)
        left == Twins(s.c, target, links)
        moved == links \ left
        kids == Children(s.c, other)
        hung == [n \in DOMAIN s.c.node |-> IF n \in kids THEN [s.c.node[n] EXCEPT !.parent = target]
                                                         ELSE s.c.node[n]]
    IN  IF other \notin LiveNodes(s.c)
        THEN s
        ELSE Result([s.c EXCEPT
                       !.link = [l \in DOMAIN @ |->
                                   IF l \in left THEN [@[l] EXCEPT !.by = r]
                                   ELSE IF l \in moved THEN [@[l] EXCEPT !.node = target]
                                   ELSE @[l]],
                       !.node = [hung EXCEPT ![other].by = r]],
                    [s.image EXCEPT
                       !.moved = Over([l \in moved |-> [from |-> other, at |-> 0]], @),
                       !.links = @ \cup left,
                       !.parent = Over([k \in kids |-> other], @),
                       !.nodes = @ \cup {other}],
                    s.subjects \cup {Node(other)} \cup {Link(l) : l \in links})

\* p.ids[1] absorbs the others; it takes p.title and p.to when they are given.
Merge(c, p, r) ==
    LET target == Head(p.ids)
        old == c.node[target]
        named == [old EXCEPT !.title = IF p.title = "" THEN @ ELSE p.title,
                             !.parent = IF p.to = 0 THEN @ ELSE p.to]
        start == Result([c EXCEPT !.node[target] = named],
                        [NoImage EXCEPT !.title = [n \in {target} |-> old.title],
                                        !.parent = [n \in {target} |-> old.parent]],
                        {Node(target)})
        after[k \in 1..Len(p.ids)] ==
            IF k = 1 THEN start ELSE Absorb(after[k - 1], target, p.ids[k], r)
    IN  after[Len(p.ids)]

\* p.parts is a sequence of [title, links]; a link moves if it is still there.
Split(c, p, nid) ==
    LET part(k) == {l \in p.parts[k].links \cap LiveRows(c.link) : c.link[l].node = p.node}
        home == [l \in UNION {part(k) : k \in 1..Len(p.parts)} |->
                   nid + (CHOOSE k \in 1..Len(p.parts) : l \in part(k))]
        made == [n \in {nid + k : k \in 1..Len(p.parts)} |->
                   NewNode(c.node[p.node].parent, p.parts[n - nid].title, "node")]
    IN  Result([c EXCEPT !.node = Over(made, @),
                         !.link = [l \in DOMAIN @ |-> IF l \in DOMAIN home
                                                      THEN [@[l] EXCEPT !.node = home[l]] ELSE @[l]]],
               [NoImage EXCEPT !.made = DOMAIN made,
                               !.moved = [l \in DOMAIN home |-> [from |-> p.node, at |-> home[l]]]],
               {Node(n) : n \in {p.node} \cup DOMAIN made})

\* An edge goes from the head of the old decision's chain, forward only.
ChainHead(sup, s) ==
    LET up[k \in 0..Cardinality(DOMAIN sup)] ==
          IF k = 0 THEN s
          ELSE IF up[k - 1] \in DOMAIN sup THEN sup[up[k - 1]] ELSE up[k - 1]
    IN  up[Cardinality(DOMAIN sup)]

Supersedable(c, p) == ChainHead(c.sup, p.old) < p.new

Supersede(c, p) ==
    LET old == ChainHead(c.sup, p.old)
    IN  Result([c EXCEPT !.sup = Put(@, old, p.new)],
               [NoImage EXCEPT !.sup = {old}],
               {Seqn(old), Seqn(p.new)})

-----------------------------------------------------------------------------
(* The inverse of one operation of run r, by the revert's own run.         *)

Undo(c, image, r, by) ==
    [node |-> [n \in DOMAIN c.node |->
                 [c.node[n] EXCEPT
                    !.parent = IF n \in DOMAIN image.parent THEN image.parent[n] ELSE @,
                    !.title = IF n \in DOMAIN image.title THEN image.title[n] ELSE @,
                    !.by = IF n \in image.made /\ @ = 0 THEN by
                           ELSE IF n \in image.nodes /\ @ = r THEN 0 ELSE @]],
     link |-> [l \in DOMAIN c.link \ image.drop |->
                 [c.link[l] EXCEPT
                    !.node = IF l \in DOMAIN image.moved /\ image.moved[l].at \in {0, @}
                             THEN image.moved[l].from ELSE @,
                    !.by = IF l \in DOMAIN image.remark THEN image.remark[l]
                           ELSE IF l \in image.cites /\ @ = 0 THEN by
                           ELSE IF l \in image.links /\ @ = r THEN 0 ELSE @]],
     sup |-> [s \in DOMAIN c.sup \ image.sup |-> c.sup[s]]]

\* The dedup index: a statement that breaks it fails the whole revert.
LinksUnique(c) ==
    \A l, k \in DOMAIN c.link : (c.link[l].node = c.link[k].node /\ c.link[l].item = c.link[k].item) => l = k

\* Physically delete what was marked at or before the horizon.  Mutant: the
\* marks of the first run after it go too.
SweptPast(t, horizon) == [i \in {i \in DOMAIN t : t[i].by = 0 \/ t[i].by > horizon + 1} |-> t[i]]
Swept(t, horizon) == [i \in {i \in DOMAIN t : t[i].by = 0 \/ t[i].by > horizon} |-> t[i]]
Vacuumed(c, horizon) == [c EXCEPT !.node = Swept(@, horizon), !.link = Swept(@, horizon)]
=============================================================================
