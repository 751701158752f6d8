------------------------------- MODULE Catalog -------------------------------
(***************************************************************************)
(* The class catalog under its runs: polis-store/src/runs.rs and           *)
(* catalog.rs, driven by organize_once (polis-memory/src/organize.rs),     *)
(* basic filing and file_delta (gardener.rs, filing.rs), judged by         *)
(* adjudicate.rs, undone by revert_run and by the canary.                  *)
(*                                                                         *)
(* One action is one transaction.  Between the transactions of a pass a    *)
(* model is asked or another process works, so passes interleave, with     *)
(* each other and with reverts; what a pass read before (the due           *)
(* proposals, the tree it judges them on, the quarantine) is its own copy. *)
(* What the models answer is taken from the behaviour's menu.              *)
(***************************************************************************)
EXTENDS CatalogOps, SequencesExt, FiniteSetsExt

CONSTANTS
    Organizers,   \* calls of organize_once that can be in progress
    Filers,       \* calls of basic_filing_once
    Menus,        \* which calls are made in one behaviour and what the models
                  \* may answer: filings, structural proposals, the canary's
                  \* verdicts
    FirstCatalog, \* the catalog as earlier runs, all vacuumed, left it
    MinPart,      \* MIN_PART_LINKS
    CollapseMin,  \* COLLAPSE_MIN_ITEMS
    MaxDepth,     \* MAX_DEPTH
    HorizonRuns,  \* REVERT_HORIZON_RUNS
    Quarantine,   \* quarantine_runs of the gardener's config
    Backoff,      \* PROPOSAL_BACKOFF_RUNS, a sequence
    MaxAttempts,  \* PROPOSAL_TTL_ATTEMPTS
    MaxRuns,      \* bound: runs, reverts included
    MaxStaged,    \* bound: filings and proposals of one run
    MaxProposals  \* bound: proposals ever queued

\* What a model may propose: a merge of some nodes, a split in some parts.
WellFormed(p) ==
    /\ p.op \in {"promote", "merge", "split", "collapse", "supersede"}
    /\ p.op = "merge" => p.ids \in Seq(Range(p.ids)) /\ p.ids # << >>
    /\ p.op = "split" => p.parts \in Seq(Range(p.parts))
    /\ p.op = "collapse" => p.cites \in Seq(Range(p.cites))
    /\ p.op = "supersede" => p.old \in Nat /\ p.new \in Nat

ASSUME CatalogAssumptions ==
    /\ IsFiniteSet(DOMAIN FirstCatalog.node) /\ IsFiniteSet(DOMAIN FirstCatalog.link)
    /\ FirstCatalog = [node |-> FirstCatalog.node, link |-> FirstCatalog.link, sup |-> FirstCatalog.sup]
    /\ \A n \in DOMAIN FirstCatalog.node :
         LET x == FirstCatalog.node[n] IN n \in Nat \ {0} /\ x = NewNode(x.parent, x.title, x.kind)
    /\ \A l \in DOMAIN FirstCatalog.link :
         LET x == FirstCatalog.link[l]
         IN  l \in Nat \ {0} /\ x = NewLink(x.node, x.item) /\ x.node \in DOMAIN FirstCatalog.node
    /\ LinksUnique(FirstCatalog)
    /\ IsFiniteSet(DOMAIN FirstCatalog.sup)
    /\ FirstCatalog.sup \in [DOMAIN FirstCatalog.sup -> Nat]
    /\ \A s \in DOMAIN FirstCatalog.sup : s \in Nat /\ s < FirstCatalog.sup[s]
    /\ \A m \in Menus : \A p \in m.proposals : WellFormed(p)
    /\ Organizers \cap Filers = {}
    /\ MinPart \in Nat \ {0} /\ CollapseMin \in Nat /\ MaxDepth \in Nat
    /\ HorizonRuns \in Nat /\ Quarantine \in Nat
    /\ MaxAttempts \in Nat \ {0}
    /\ Backoff \in Seq(Nat) /\ Len(Backoff) > 0
    /\ MaxRuns \in Nat /\ MaxStaged \in Nat /\ MaxProposals \in Nat

\* The earlier runs left a forest, as `TreeSound` promises of runs in order.
ASSUME FirstForest ==
    \A n \in DOMAIN FirstCatalog.node :
       /\ FirstCatalog.node[n].parent \in {0} \cup DOMAIN FirstCatalog.node
       /\ n \notin Above(FirstCatalog.node, n)

VARIABLES
    cat,       \* the rows: class_nodes, class_links, supersessions
    newest,    \* the newest ids given: [node, link, prop]
    runs,      \* class_runs and, in each, its class_run_ops
    queue,     \* class_proposals; the older has the smaller id
    horizon,   \* polis.revert.horizonRun
    kept,      \* the canary's quarantine: node to the run it is kept until
    pass,      \* pass[w]: where w is, and what it has read
    menu,      \* the menu of this behaviour
    undo,      \* the rows and ids that each run which wrote, and was not
               \* reverted, began with (history: the code keeps images)
    slips      \* what happened that the code does not guard (history)

vars == <<cat, newest, runs, queue, horizon, kept, pass, menu, undo, slips>>

Workers == Organizers \cup Filers

Idle == [pc |-> "idle", run |-> 0, staged |-> 0, due |-> {}, verify |-> {},
         tree |-> << >>, kept |-> {}]

Init ==
    /\ cat = FirstCatalog
    /\ newest = [node |-> Max({0} \cup DOMAIN FirstCatalog.node),
                 link |-> Max({0} \cup DOMAIN FirstCatalog.link), prop |-> 0]
    /\ runs = << >>
    /\ queue = {}
    /\ horizon = 0
    /\ kept = << >>
    /\ pass = [w \in Workers |-> Idle]
    /\ menu \in Menus
    /\ undo = << >>
    /\ slips = {}

-----------------------------------------------------------------------------
(* The journal.                                                            *)

OpRow(op, outcome, subjects, image, prop) ==
    [op |-> op, outcome |-> outcome, subjects |-> subjects, image |-> image, prop |-> prop]
Row(op, res, prop) == OpRow(op, "applied", res.subjects, res.image, prop)

Journal(rs, r, row) == [rs EXCEPT ![r].ops = Append(@, row)]

Applied(r) == {i \in DOMAIN runs[r].ops : runs[r].ops[i].outcome = "applied"}
Touched(r) == UNION {runs[r].ops[i].subjects : i \in Applied(r)}

\* History.  A run below one that wrote works out of order.
Remember(r) ==
    undo' = IF r \in DOMAIN undo THEN undo ELSE Put(undo, r, [cat |-> cat, new |-> newest])
Later(r) == \E k \in DOMAIN undo : k > r
Disorder(r) == IF Later(r) THEN {"disorder"} ELSE {}

\* The rows res stands for, journaled under r.
Commit(r, op, res, prop) ==
    /\ cat' = res.c
    /\ runs' = Journal(runs, r, Row(op, res, prop))
    /\ Remember(r)

NewIds(c, props) ==
    newest' = [node |-> Max({newest.node} \cup DOMAIN c.node),
               link |-> Max({newest.link} \cup DOMAIN c.link), prop |-> newest.prop + props]

-----------------------------------------------------------------------------
(* A pass begins: an organize run, or a basic filing run.                  *)

\* The lease of an abandoned run is over: its row is closed.
Interrupted(w) ==
    [r \in DOMAIN runs |->
       IF runs[r].outcome = "open" /\ runs[r].mode = IF w \in Organizers THEN "organize" ELSE "basic_filing"
       THEN [runs[r] EXCEPT !.outcome = "interrupted"] ELSE runs[r]]

\* A second organizer starts while one is still in its pass only when the
\* first outlives its lease: a process that was suspended.
StartRun(w) ==
    /\ pass[w].pc = "idle" /\ w \in menu.workers
    /\ Len(runs) < MaxRuns
    /\ runs' = Append(Interrupted(w),
                 [mode |-> IF w \in Organizers THEN "organize" ELSE "basic_filing",
                  outcome |-> "open", ops |-> << >>])
    /\ pass' = [pass EXCEPT ![w] = [Idle EXCEPT !.pc = "open", !.run = Len(runs) + 1]]
    /\ UNCHANGED <<cat, newest, queue, horizon, kept, menu, undo, slips>>

\* The process dies, or the pass is past its deadline.
Crash(w) ==
    /\ pass[w].pc # "idle"
    /\ pass' = [pass EXCEPT ![w] = Idle]
    /\ UNCHANGED <<cat, newest, runs, queue, horizon, kept, menu, undo, slips>>

-----------------------------------------------------------------------------
(* Staging: filings and creates are made live, the rest is queued.         *)

Staging(w) == pass[w].pc = "open" /\ pass[w].staged < MaxStaged
Staged(w) == pass' = [pass EXCEPT ![w].staged = @ + 1]

Queued(id, run, p) == [id |-> id, run |-> run, p |-> p, attempts |-> 0, after |-> 0]

Alive(n) == n \in LiveNodes(cat)

\* The ids of a set, smallest first.
InOrder(S) == [k \in 1..Cardinality(S) |-> CHOOSE n \in S : Cardinality({m \in S : m < n}) = k - 1]

\* A create whose twin is there is refused; of two twins the merge is queued.
StageCreate(w, a) ==
    LET twins == Siblings(cat, a.parent, a.title)
        classes == {n \in twins : cat.node[n].kind = "node"}
        r == pass[w].run
        merge == [op |-> "merge", node |-> 0, ids |-> InOrder(classes), title |-> a.title, to |-> 0]
    IN  /\ w \in Organizers
        /\ Staging(w) /\ a.op = "create" /\ Alive(a.parent)
        /\ \/ /\ twins = {}
              /\ Commit(r, "create", Create(cat, newest.node + 1, a.parent, a.title), 0)
              /\ NewIds(cat', 0)
              /\ slips' = slips \cup Disorder(r)
              /\ UNCHANGED queue
           \/ /\ Cardinality(classes) > 1 /\ newest.prop < MaxProposals
              /\ queue' = queue \cup {Queued(newest.prop + 1, r, merge)}
              /\ NewIds(cat, 1)
              /\ UNCHANGED <<cat, runs, undo, slips>>
        /\ Staged(w)
        /\ UNCHANGED <<horizon, kept, menu>>

\* Files an item under a live class, or under its sub-class a.sub (the inbox
\* is one), which is made when it is not there.  `refile` is an inbox link
\* whose item is filed elsewhere: the link is marked, and not journaled.
StageFile(w, a) ==
    LET r == pass[w].run
        subs == IF a.sub = "" THEN {a.parent} ELSE Siblings(cat, a.parent, a.sub)
        made == Create(cat, newest.node + 1, a.parent, a.sub)
        base == IF subs = {} THEN made.c ELSE cat
        class == IF subs = {} THEN newest.node + 1 ELSE Min(subs)
        live == Held(base, class, a.item) \cap LiveRows(base.link) # {}
        res == File(base, newest.link + 1, class, a.item)
        parked == {l \in LiveRows(cat.link) : a.refile /\ cat.link[l].item = a.item
                                              /\ cat.node[cat.link[l].node].title = "~inbox"}
        rs == IF subs = {} THEN Journal(runs, r, Row("create", made, 0)) ELSE runs
    IN  /\ Staging(w) /\ a.op = "file" /\ Alive(a.parent) /\ ~live
        /\ a.refile => w \in Organizers /\ parked # {}
        /\ cat' = [res.c EXCEPT !.link = [l \in DOMAIN @ |-> IF l \in parked THEN [@[l] EXCEPT !.by = r] ELSE @[l]]]
        /\ runs' = Journal(rs, r, Row("file", res, 0))
        /\ Remember(r)
        /\ NewIds(res.c, 0)
        /\ slips' = slips \cup Disorder(r) \cup (IF parked = {} THEN {} ELSE {"refile"})
        /\ Staged(w)
        /\ UNCHANGED <<queue, horizon, kept, menu>>

\* The nodes a proposal of each kind must find live to be queued.
Named(p) == IF p.op = "merge" THEN Range(p.ids)
            ELSE IF p.op = "supersede" THEN {} ELSE {p.node}
StageStructural(w, p) ==
    /\ w \in Organizers /\ Staging(w)
    /\ newest.prop < MaxProposals
    /\ \A n \in Named(p) : Alive(n)
    /\ p.op = "supersede" => p.old < p.new /\ \A q \in queue : q.p # p
    /\ queue' = queue \cup {Queued(newest.prop + 1, pass[w].run, p)}
    /\ NewIds(cat, 1)
    /\ Staged(w)
    /\ UNCHANGED <<cat, runs, horizon, kept, menu, undo, slips>>

-----------------------------------------------------------------------------
(* Adjudication: the verdicts a proposal can get, on the tree the pass     *)
(* read.  Warmth, notes and what a decision is about are not modelled, so  *)
(* where only they decide, every verdict they can give is possible.        *)

Loops(t, n) == n \in Above(t, n)
Depth(t, n) == IF \E m \in {n} \cup Above(t, n) : Loops(t, m)
               THEN MaxDepth + 1 ELSE Cardinality(Above(t, n) \ {0})
Height(t, n) ==
    IF Loops(t, n) THEN MaxDepth + 1
    ELSE Max({0} \cup {Depth(t, m) - Depth(t, n) : m \in {m \in DOMAIN t : n \in Above(t, m)}})

\* root_of: none for a node that is not in the tree or does not reach a root.
Roots(t, n) == {m \in (({n} \cup Above(t, n)) \cap DOMAIN t) : t[m].parent = 0}

\* Mutant: the cycle check is left out.
PromoteUnchecked(t, p) ==
    IF p.node \in DOMAIN t /\ (p.to # 0 => p.to # p.node /\ p.to \in DOMAIN t)
    THEN {"apply"} ELSE {"refuse"}
PromoteVerdicts(t, p) ==
    IF /\ p.node \in DOMAIN t
       /\ p.to # 0 => /\ p.to # p.node
                      /\ p.to \in DOMAIN t
                      /\ p.node \notin Above(t, p.to)
                      /\ Depth(t, p.to) + 1 + Height(t, p.node) <= MaxDepth
    THEN {"apply"} ELSE {"refuse"}

MergeVerdicts(t, p) ==
    IF \/ Len(p.ids) < 2
       \/ \E n \in Range(p.ids) : Roots(t, n) = {}
       \/ Cardinality(UNION {Roots(t, n) : n \in Range(p.ids)}) > 1
    THEN {"refuse"}
    ELSE IF t[p.ids[1]].title = t[p.ids[2]].title THEN {"apply"} ELSE {"verify"}

SplitVerdicts(p) ==
    IF /\ Len(p.parts) >= 2
       /\ \A k \in DOMAIN p.parts : /\ Cardinality(p.parts[k].links) >= MinPart
                                    /\ p.parts[k].links \subseteq LinksAt(cat, p.node)
    THEN {"apply"} ELSE {"refuse"}

CollapseVerdicts(t, p) ==
    IF /\ p.node \in DOMAIN t
       /\ Cardinality(LinksUnder(cat, p.node)) >= CollapseMin
    THEN {"apply", "refuse"} ELSE {"refuse"}

Verdicts(t, p) ==
    CASE p.op = "promote" -> PromoteVerdicts(t, p)
      [] p.op = "merge" -> MergeVerdicts(t, p)
      [] p.op = "split" -> SplitVerdicts(p)
      [] p.op = "collapse" -> CollapseVerdicts(t, p)
      [] p.op = "supersede" -> {"apply", "verify", "refuse"}

-----------------------------------------------------------------------------
(* The work queue.                                                         *)

\* The due proposals, the tree and the quarantine are read once for the pass.
LoadQueue(w) ==
    /\ w \in Organizers
    /\ pass[w].pc = "open"
    /\ pass' = [pass EXCEPT ![w] =
                  [@ EXCEPT !.pc = "queue",
                            !.due = {q \in queue : q.after <= pass[w].run},
                            !.tree = View(cat).node,
                            !.kept = {n \in DOMAIN kept : kept[n] > pass[w].run}]]
    /\ UNCHANGED <<cat, newest, runs, queue, horizon, kept, menu, undo, slips>>

\* Mutant of Without: the proposal stays in the queue.
WithoutNone(id) == queue
ById(id) == {q \in queue : q.id = id}
Without(id) == {q \in queue : q.id # id}

\* prop_subjects: the subjects a verdict on the proposal is journaled with.
Subjects(p) == IF p.op = "supersede" THEN {Seqn(p.old), Seqn(p.new)} ELSE {Node(n) : n \in Named(p)}

Settle(r, q, outcome) ==
    /\ runs' = Journal(runs, r, OpRow(q.p.op, outcome, Subjects(q.p), NoImage, q.id))
    /\ queue' = Without(q.id)
    /\ UNCHANGED <<cat, newest, undo, slips>>

Wait(q, attempts, after) ==
    /\ queue' = Without(q.id)
                 \cup {[o EXCEPT !.attempts = attempts, !.after = after] : o \in ById(q.id)}
    /\ UNCHANGED <<cat, newest, runs, undo, slips>>

BackoffRuns(attempts) == Backoff[Min({attempts, Len(Backoff)})]

\* No verdict came: try again in a later run, or give up.
Defer(r, q) ==
    IF q.attempts + 1 >= MaxAttempts
    THEN Settle(r, q, "expired")
    ELSE Wait(q, q.attempts + 1, r + BackoffRuns(q.attempts + 1))

\* The rows the proposal needs to be there, marked or not.
Readable(p) ==
    CASE p.op = "merge" -> Head(p.ids) \in DOMAIN cat.node
      [] p.op \in {"collapse", "split"} -> p.node \in DOMAIN cat.node
      [] OTHER -> TRUE

Effect(p, r) ==
    CASE p.op = "promote" -> Promote(cat, p)
      [] p.op = "merge" -> Merge(cat, p, r)
      [] p.op = "split" -> Split(cat, p, newest.node)
      [] p.op = "collapse" -> Collapse(cat, p, r, newest.node, newest.link)
      [] p.op = "supersede" -> Supersede(cat, p)

\* A merge of nodes one of which is above the place of its target, or whose
\* target gets a place that is not there.
Nested(p) ==
    LET t == View(cat).node
        above == IF p.to = 0 THEN Above(t, p.ids[1]) ELSE {p.to} \cup Above(t, p.to)
    IN  p.op = "merge" /\ (Range(p.ids) \cap above # {} \/ p.to \notin {0} \cup DOMAIN t)

\* A merge that takes in its own target, or the node it hangs it from.  Its
\* image then has two entries for a row, and the later one wins.
Tangled(p) == p.op = "merge" /\ Range(Tail(p.ids)) \cap {p.ids[1], p.to} # {}

\* Applies a proposal that was judged on the tree t - if it is still queued:
\* another pass may have settled it.  A row that cannot be read fails the
\* transaction and leaves it queued.
Apply(w, q, t) ==
    LET r == pass[w].run
    IN  IF ById(q.id) = {} \/ ~Readable(q.p)
        THEN UNCHANGED <<cat, newest, runs, queue, undo, slips>>
        ELSE IF q.p.op = "supersede" /\ ~Supersedable(cat, q.p)
        THEN queue' = Without(q.id) /\ UNCHANGED <<cat, newest, runs, undo, slips>>
        ELSE /\ Commit(r, q.p.op, Effect(q.p, r), q.id)
             /\ queue' = Without(q.id)
             /\ NewIds(cat', 0)
             /\ slips' = slips \cup Disorder(r)
                          \cup (IF t = View(cat).node THEN {} ELSE {"stale"})
                          \cup (IF Nested(q.p) THEN {"nested"} ELSE {})
                          \cup (IF Tangled(q.p) THEN {"tangled"} ELSE {})

Oldest(qs) == CHOOSE q \in qs : \A o \in qs : q.id <= o.id

\* The next due proposal: out of lake-days, quarantined, or judged.
Adjudicate(w) ==
    LET q == Oldest(pass[w].due)
        r == pass[w].run
        next == [pass[w] EXCEPT !.due = @ \ {q}]
    IN  /\ pass[w].pc = "queue" /\ pass[w].due # {}
        /\ \/ /\ menu.late
              /\ Settle(r, q, "expired") /\ pass' = [pass EXCEPT ![w] = next]
           \/ /\ Named(q.p) \cap pass[w].kept # {}
              /\ Wait(q, q.attempts, r + 1) /\ pass' = [pass EXCEPT ![w] = next]
           \/ /\ Named(q.p) \cap pass[w].kept = {}
              /\ \/ /\ "apply" \in Verdicts(pass[w].tree, q.p)
                    /\ Apply(w, q, pass[w].tree) /\ pass' = [pass EXCEPT ![w] = next]
                 \/ /\ "refuse" \in Verdicts(pass[w].tree, q.p)
                    /\ Settle(r, q, "refused") /\ pass' = [pass EXCEPT ![w] = next]
                 \/ /\ "verify" \in Verdicts(pass[w].tree, q.p)
                    /\ pass' = [pass EXCEPT ![w] = [next EXCEPT !.verify = @ \cup {q}]]
                    /\ UNCHANGED <<cat, newest, runs, queue, undo, slips>>
        /\ UNCHANGED <<horizon, kept, menu>>

\* The verifier answered for the next proposal, refuted it, or said nothing;
\* supersessions are asked about before merges.
NextAsked(qs) ==
    LET first == {q \in qs : q.p.op = "supersede"} IN Oldest(IF first = {} THEN qs ELSE first)

Verified(w) ==
    LET q == NextAsked(pass[w].verify)
    IN  /\ pass[w].pc = "queue" /\ pass[w].due = {} /\ pass[w].verify # {}
        /\ \/ Apply(w, q, pass[w].tree)
           \/ Settle(pass[w].run, q, "refused")
           \/ Defer(pass[w].run, q)
        /\ pass' = [pass EXCEPT ![w].verify = @ \ {q}]
        /\ UNCHANGED <<horizon, kept, menu>>

\* A plain organize run and a filing run never look at the queue.  The
\* outcome is written over whatever it was.
Finish(w) ==
    /\ \/ pass[w].pc = "open"
       \/ pass[w].pc = "queue" /\ pass[w].due = {} /\ pass[w].verify = {}
    /\ runs' = [runs EXCEPT ![pass[w].run].outcome = "done"]
    /\ pass' = [pass EXCEPT ![w] =
                  IF w \in Organizers /\ menu.canary THEN [Idle EXCEPT !.pc = "canary", !.run = pass[w].run] ELSE Idle]
    /\ UNCHANGED <<cat, newest, queue, horizon, kept, menu, undo, slips>>

-----------------------------------------------------------------------------
(* Undoing.                                                                *)

\* Why revert_run refuses: nothing to undo, done already, past the horizon,
\* or a later run touched what this one touched.
\* Mutant: later runs are not looked at.
RefusedBlind(r) == runs[r].outcome = "reverted" \/ r <= horizon \/ Applied(r) = {}
Refused(r) ==
    \/ runs[r].outcome = "reverted"
    \/ r <= horizon
    \/ Applied(r) = {}
    \/ \E k \in (r + 1)..Len(runs) : Touched(k) \cap Touched(r) # {}

\* The rows with the applied operations of r undone, newest first; the
\* dedup index must hold after each.
Undone(r, by) ==
    LET n == Len(runs[r].ops)
        step(s, i) == IF ~s.ok \/ i \notin Applied(r) THEN s
                      ELSE LET c == Undo(s.c, runs[r].ops[i].image, r, by) IN [c |-> c, ok |-> LinksUnique(c)]
        after[k \in 0..n] == IF k = 0 THEN [c |-> cat, ok |-> TRUE] ELSE step(after[k - 1], n + 1 - k)
    IN  after[n]

Reverted(r) ==
    LET marked == [runs EXCEPT ![r].outcome = "reverted",
                               ![r].ops = [i \in DOMAIN @ |-> IF i \in Applied(r)
                                             THEN [@[i] EXCEPT !.outcome = "reverted"] ELSE @[i]]]
    IN  Append(marked, [mode |-> "revert", outcome |-> "done", ops |-> << >>])

RevertRun(r) ==
    LET out == Undone(r, Len(runs) + 1)
    IN  /\ ~Refused(r) /\ out.ok
        /\ Len(runs) < MaxRuns
        /\ cat' = out.c
        /\ runs' = Reverted(r)
        /\ undo' = [k \in DOMAIN undo \ {r} |-> undo[k]]
        /\ slips' = slips \cup IF Later(r) THEN {"skipped"} ELSE {}
        /\ UNCHANGED <<newest, queue, horizon, menu>>

\* Asked for by a user, at any time.
Revert == \E r \in DOMAIN runs : RevertRun(r) /\ UNCHANGED <<kept, pass>>

\* The canary after an organize run: recall held, or the run is reverted and
\* the nodes that failed are quarantined.
CanaryHolds(w) ==
    /\ pass[w].pc = "canary"
    /\ pass' = [pass EXCEPT ![w] = Idle]
    /\ UNCHANGED <<cat, newest, runs, queue, horizon, kept, menu, undo, slips>>

CanaryReverts(w) ==
    /\ pass[w].pc = "canary"
    /\ RevertRun(pass[w].run)
    /\ kept' = [n \in {n \in DOMAIN kept : kept[n] > pass[w].run} \cup menu.fails |->
                  IF n \in menu.fails THEN pass[w].run + Quarantine ELSE kept[n]]
    /\ pass' = [pass EXCEPT ![w] = Idle]

\* The gardener's housekeeping, between its organize runs.
Vacuum ==
    LET h == Len(runs) - HorizonRuns
    IN  /\ \A w \in Organizers : pass[w].pc = "idle"
        /\ h > horizon
        /\ cat' = Vacuumed(cat, h)
        /\ runs' = [r \in DOMAIN runs |->
                      IF r > h THEN runs[r]
                      ELSE [runs[r] EXCEPT !.ops = [i \in DOMAIN @ |-> [@[i] EXCEPT !.image = NoImage]]]]
        /\ horizon' = h
        /\ UNCHANGED <<newest, queue, kept, pass, menu, undo, slips>>

-----------------------------------------------------------------------------
Next ==
    \/ \E w \in Workers :
         \/ StartRun(w) \/ Crash(w) \/ LoadQueue(w) \/ Adjudicate(w) \/ Verified(w)
         \/ Finish(w) \/ CanaryHolds(w) \/ CanaryReverts(w)
         \/ \E a \in menu.filings : StageCreate(w, a) \/ StageFile(w, a)
         \/ \E p \in menu.proposals : StageStructural(w, p)
    \/ Revert
    \/ Vacuum

Spec == Init /\ [][Next]_vars

-----------------------------------------------------------------------------
(* Properties.                                                             *)

Modes == {"organize", "basic_filing", "revert"}
Outcomes == {"open", "interrupted", "done", "reverted"}
OpOutcomes == {"applied", "refused", "expired", "reverted"}
Slips == {"disorder", "stale", "nested", "tangled", "refile", "skipped"}

\* Ids, runs and proposals are what the tables can hold; no two rows of
\* class_links hang one item from one node (idx_class_links_dedup).
TypeOK ==
    /\ \A n \in DOMAIN cat.node : n \in 1..newest.node /\ cat.node[n].by \in 0..Len(runs)
    /\ \A l \in DOMAIN cat.link : l \in 1..newest.link /\ cat.link[l].by \in 0..Len(runs)
    /\ LinksUnique(cat)
    /\ \A r \in DOMAIN runs :
         /\ runs[r].mode \in Modes /\ runs[r].outcome \in Outcomes
         /\ \A i \in DOMAIN runs[r].ops : runs[r].ops[i].outcome \in OpOutcomes
    /\ \A q \in queue :
         /\ q.id \in 1..newest.prop /\ q.attempts \in 0..(MaxAttempts - 1)
         /\ \A o \in queue : q.id = o.id => q = o
    /\ horizon \in 0..Len(runs)
    /\ \A w \in Workers : pass[w].run \in 0..Len(runs)
    /\ slips \subseteq Slips

\* Undoing the runs newest first goes back, step by step, to the catalog each
\* found (docs/ledger.md, the gate of B2): the last run that wrote can be
\* reverted - no refusal, no missing image, no row vacuumed away - and every
\* reader then sees what it saw before.  A run whose outcome a revert set
\* while it was still working can be reverted again when it has finished.
\* Not so after a refile, and after a merge whose image has a row twice.
LastRunUndoable ==
    slips \cap {"disorder", "tangled", "refile", "skipped"} = {} =>
        \A r \in DOMAIN undo : (~Later(r) /\ r > horizon /\ runs[r].outcome # "reverted") =>
            LET out == Undone(r, Len(runs) + 1)
            IN  ~Refused(r) /\ out.ok /\ View(out.c) = View(undo[r].cat)

\* The same, whatever the run did: "nothing a gardener run does to the
\* catalog is beyond undoing for as long as its journal lives"
\* (docs/ledger.md:65).  A filing that resolves an inbox item marks the inbox
\* link under the run and journals nothing for it, so no revert clears it.
EveryLastRunUndoable ==
    slips \cap {"disorder", "skipped"} = {} =>
        \A r \in DOMAIN undo : (~Later(r) /\ r > horizon /\ runs[r].outcome # "reverted") =>
            LET out == Undone(r, Len(runs) + 1)
            IN  ~Refused(r) /\ out.ok /\ View(out.c) = View(undo[r].cat)

RowsOf(c, s) ==
    CASE s[1] = "node" -> {c.node[n] : n \in {s[2]} \cap DOMAIN c.node}
      [] s[1] = "link" -> {c.link[l] : l \in {s[2]} \cap DOMAIN c.link}
      [] s[1] = "seq" -> {c.sup[d] : d \in {s[2]} \cap DOMAIN c.sup}

\* What the inverses of a run write without its operations naming it: the
\* children a merge re-hung, the links a split moved, and those a collapse
\* marked or made.
HungBack(r) == UNION {DOMAIN runs[r].ops[i].image.parent : i \in Applied(r)}
PutBack(r) ==
    UNION {LET image == runs[r].ops[i].image
           IN  image.links \cup image.cites \cup DOMAIN image.moved : i \in Applied(r)}

\* Reverting a run leaves every row that a later run touched as it is
\* (docs/ledger.md, the "revert run #K first" rule): the subject check is
\* made on what the operations name, this on the rows the inverses write.
\* The children of a merged node are excepted: they are hung back although
\* the merge does not name them.  So are the links of a split or a collapse
\* once a run wrote after a later one, which may bring them away from where
\* the later run touches them, or a merge's image had a row twice, so that its
\* revert left them somewhere else.
RevertSparesLaterRuns ==
    [][\A r \in DOMAIN runs :
         (runs[r].outcome # "reverted" /\ runs'[r].outcome = "reverted") =>
            LET unnamed == {Node(n) : n \in HungBack(r)}
                            \cup {Link(l) : l \in IF slips \cap {"disorder", "tangled"} # {} THEN PutBack(r) ELSE {}}
            IN  \A k \in (r + 1)..Len(runs) : \A s \in Touched(k) \ unnamed :
                    RowsOf(cat', s) = RowsOf(cat, s)]_vars

\* What only this behaviour's runs, taken in order, did: no run wrote after a
\* later one or was reverted under it, no proposal was applied on a tree that
\* had changed since it was judged, no merge took in a node above its target.
Orderly == slips \cap {"disorder", "skipped", "stale", "nested", "tangled"} = {}

\* What the live rows are is a forest: filing, the five structural operations,
\* reverts, crashes between them and vacuums never make a class its own
\* ancestor, nor leave one under a class that is retired or deleted.
TreeSound ==
    Orderly => \A n \in LiveNodes(cat) :
                 /\ ~Loops(View(cat).node, n)
                 /\ cat.node[n].parent \in {0} \cup LiveNodes(cat)

\* No item hangs, live, from a class that readers do not see: merges, splits
\* and collapses take every link along, and so do their inverses.
LinksHang == Orderly => \A l \in LiveRows(cat.link) : cat.link[l].node \in LiveNodes(cat)

\* A queued proposal is applied at most once and is out of the queue from
\* then on, whatever crashes between its adjudication and its verifier's
\* answer, and however many runs find it due; a verdict written twice would
\* give a revert two inverses for one change.
SettledOnce ==
    \A id \in 1..newest.prop :
       LET done == {x \in UNION {{r} \X DOMAIN runs[r].ops : r \in DOMAIN runs} :
                      LET op == runs[x[1]].ops[x[2]]
                      IN  op.prop = id /\ op.outcome \in {"applied", "reverted"}}
       IN  Cardinality(done) <= 1 /\ (done # {} => ById(id) = {})
=============================================================================
