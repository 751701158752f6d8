------------------------------ MODULE MCCatalog ------------------------------
(* Model values for Catalog: a small catalog and the answers a behaviour's  *)
(* models may give.                                                         *)
EXTENDS Catalog, TLC

\* 1 the root; 2 "a" and 3 "b" under it; 4 "a" under 3; 5 the inbox.
\* The item 1 is filed in 2 and in 3, the item 2 in 4, the item 3 parked.
MCFirstCatalog ==
    [node |-> (1 :> NewNode(0, "root", "node")) @@ (2 :> NewNode(1, "a", "node"))
           @@ (3 :> NewNode(1, "b", "node")) @@ (4 :> NewNode(3, "a", "node"))
           @@ (5 :> NewNode(1, "~inbox", "node")),
     link |-> (1 :> NewLink(2, 1)) @@ (2 :> NewLink(3, 1)) @@ (3 :> NewLink(4, 2)) @@ (4 :> NewLink(5, 3)),
     sup |-> << >>]

CreateOf(parent, title) == [op |-> "create", parent |-> parent, title |-> title]
FileOf(parent, sub, item) == [op |-> "file", parent |-> parent, sub |-> sub, item |-> item, refile |-> FALSE]
RefileOf(parent, item) == [op |-> "file", parent |-> parent, sub |-> "", item |-> item, refile |-> TRUE]
PromoteOf(node, to) == [op |-> "promote", node |-> node, to |-> to]
MergeOf(ids, title) == [op |-> "merge", node |-> 0, ids |-> ids, title |-> title, to |-> 0]
CollapseOf(node, cites) == [op |-> "collapse", node |-> node, cites |-> cites]
SplitOf(node, parts) == [op |-> "split", node |-> node, parts |-> parts]
SupersedeOf(old, new) == [op |-> "supersede", old |-> old, new |-> new]
Part(title, links) == [title |-> title, links |-> links]

Menu(filings, proposals) ==
    [filings |-> filings, proposals |-> proposals, late |-> FALSE, canary |-> FALSE, fails |-> {},
     workers |-> Filers \cup {CHOOSE w \in Organizers : TRUE}]

MCMenus ==
    {Menu({FileOf(1, "b", 2)}, {MergeOf(<<2, 3>>, "ab")}),
     Menu({FileOf(3, "", 1)}, {CollapseOf(3, <<1, 2>>), PromoteOf(4, 1)}),
     Menu({CreateOf(2, "c"), CreateOf(1, "a")}, {PromoteOf(2, 4), PromoteOf(4, 2)}),
     Menu({FileOf(1, "~inbox", 2), RefileOf(2, 3)}, {MergeOf(<<5, 2>>, "")}),
     Menu({FileOf(2, "", 3)}, {SplitOf(2, <<Part("p", {1}), Part("q", {5})>>), MergeOf(<<3, 2>>, "")}),
     Menu({}, {MergeOf(<<4, 3>>, ""), MergeOf(<<3, 2>>, "")}),
     Menu({}, {MergeOf(<<2, 4, 2>>, ""), [MergeOf(<<2, 4>>, "") EXCEPT !.to = 3]}),
     [Menu({}, {MergeOf(<<3, 2>>, ""), PromoteOf(3, 2)}) EXCEPT !.workers = Organizers],
     Menu({}, {SupersedeOf(1, 2), SupersedeOf(1, 3), SupersedeOf(2, 3)}),
     [Menu({FileOf(2, "", 3)}, {PromoteOf(4, 2), MergeOf(<<2, 3>>, "")}) EXCEPT
        !.canary = TRUE, !.fails = {2}, !.late = TRUE]}

MCBackoff == <<1, 2>>
=============================================================================
