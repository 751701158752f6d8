# A TLA+ development of polis-memory

polis-memory is a local-first memory for people and their agents: captured
prompts, pages, decisions and claims live in one SQLite file, every one of
them committed to by a hash chain; a gardener files and condenses them in the
background; devices exchange signed segments of their chains. This directory
models the parts of it in which order, failure or concurrency decide whether
the memory can be trusted, checks them with TLC, and proves the central ones
with TLAPS.

Paths below are relative to `src/crates/`.

## 1. Inventory

One file is opened by several processes: the daemon `polis serve`, `polis mcp`
servers, the command line, a host application. Inside one process all access
goes through one connection behind a mutex (`PolisStore::conn`); between
processes only SQLite's file lock orders writers. Nothing above the store is
transactional unless it opens a transaction itself, so the question asked
everywhere is *what can happen between two statements*.

| component | state | operations | interacts through | hard behaviour |
|---|---|---|---|---|
| ledger append (`polis-store/src/ledger.rs`) | `ledger_events` | `append_event`, joining a caller's transaction | SQLite's write lock | two writers, busy retries, rollback, death |
| record entry points (`record.rs`, `browse.rs`, `prompts.rs`, `claims.rs`) | prompts, browse_events, claim_records | `record_*`, `write_claim`, `retire_claim` | ledger append | row and event in one or in two transactions; deduplication under another lock |
| chain verification (`chain.rs`) | the anchor pair in `meta` | full walk, incremental walk | reads the ledger while it grows | pair read and written in halves; faults between |
| background jobs (`jobs.rs`) | `background_jobs` | enqueue, lease, checkpoint, finish, retry, list | workers of `gardener.rs`, `organize.rs` | leases, stale clocks, late finishers, retry |
| basic filing, organize (`polis-memory/src/gardener.rs`, `organize.rs`, `filing.rs`) | cursor in `meta`, `class_runs`, catalog | one job per window | jobs, catalog, model | cursor and run rows written without the job's fence |
| proposals and work queue (`adjudicate.rs`, `polis-store/src/catalog.rs`) | `class_proposals` | stage, attempt, defer, expire, accept | runs, journal | backoff and expiry boundaries |
| run journal and revert (`polis-store/src/runs.rs`) | `class_runs`, `class_run_ops` | journal, revert, vacuum | catalog, claims, ledger | revert against later runs, vacuum and other reverts |
| gardener step and canary (`gardener.rs`, `canary.rs`) | gates, canary score | step, canary revert | organize, runs | a revert after the job is finished |
| class catalog (`catalog.rs`, `supersessions.rs`) | `class_nodes`, `class_links`, `supersessions` | stage, create, file, promote, merge, split, collapse, supersede, and their inverses | runs, proposals | every operation and its inverse between other runs' |
| compaction and forget (`polis-store/src/compaction.rs`) | bodies, archive, `forgotten_sources`, outboxes, `<db>.forgotten` | compact, restore, forget | ledger, redactions | marker before commit; two transactions for swap and journal |
| backup and restore (`polis-memory/src/backup.rs`) | snapshot directory, live file | snapshot, prune, restore | file system | two renames; pruning before knowing the new snapshot verifies |
| foreign chains, sync (`foreign.rs`, `sharing.rs`, `sync.rs`, `transport.rs`, `orgnode.rs`) | `foreign_*`, published marks, acks | publish, import, purge, tombstone | transports | check and import in different transactions; replay, reordering, forks |
| consume-once guards (`polis-core/src/ledger.rs`) | in-process map | register, claim | capture paths | expiry racing the claim |
| retrieval, embeddings, LLM backends, HTTP and MCP servers, CLI | none of their own, or caches | read paths and I/O | store | not part of this development |

What makes each correct, in one sentence:

* **ledger**: the committed chain always links, a row and its event exist
  together, a receipt names its own event for ever, nobody keeps the lock;
* **verification**: a chain is vouched for only as far as it was walked, an
  unaltered chain is never accused, the anchor catches up;
* **jobs**: one job of a kind runs, a superseded worker changes nothing,
  progress is kept, attempts are bounded, everything settles;
* **filing, organize**: nothing below a mark was skipped, and what is captured
  comes below the mark or a job shows why not;
* **catalog and runs**: the tree stays a forest with its items, a proposal is
  settled once, a revert restores what readers saw before the run and touches
  nothing a later run built;
* **forget, backup**: what was forgotten never comes back - from an archive, a
  snapshot, a late model answer, a replayed segment; nothing else is lost by a
  restore, and every redaction is finally appended;
* **foreign chains**: what we hold of a peer's chain is a chain, and only its
  prefix-consistent extension is accepted.

## 2. Modules

| module | models | state and actions |
|---|---|---|
| `Ledger` | `append_event` and the six transaction patterns of its callers, over several processes | `ledger`, `prompts`, `trail`, `claims`, `retired`, `reverted` are the committed tables; `writer` is the file's write lock; `pend[c]` what `c` has inserted and not committed. `Submit` enters a `record_*` call, `PageLookup`/`PageInsert`/`Check` are the statements before the transaction, `Begin`, `AppendInTxn`, `Commit`, `Rollback`, `ReturnExisting`, `GiveUp` those of it, `Crash` the death of the process |
| `ChainLog` | what the ledger promises: a numbered history that only grows | `log`, `Grow` |
| `Jobs` | `jobs.rs` statement by statement, and the call order of its two users | `jobs` is the table; a worker's `pc`, its copy of the job (`mine`) and the age of its clock reading (`ago`) are its locals; `leases` counts leases per key as history |
| `ChainVerify` | `verify_ledger_chain_incremental` and `verify_ledger_chain`, one action per statement | `rows` the chain, `meta` the stored anchor pair, the locals of each call; `walked` is history: the rows a walk has found in order |
| `ForeignSync` | one peer's chain from its store over a folder of segments into the receiver's store: `sync`, `envelope::build`, `publish_to`, `import`, `import_foreign_segment`, purge, fork marks, acknowledgements, and what `forget` and `restore` do to a chain | `chain`, `forgotten`, `published`, `acked` are the peer's store, `files` the folder, `row`, `events`, `bodies`, `markers` the receiver's; `draft` and `stage` follow one publication, `pc`, `seg`, `seen` the imports under way; `stale` and `raced` are history |
| `CatalogOps` | the catalog's operations on one set of rows: `stage_proposal`'s create and file, `apply_class_proposal_in_run`'s promote, collapse, merge and split, `apply_supersession`, `invert_op_locked`, the sweep of `vacuum_retired` | operators only; a catalog is a record of nodes, links and supersessions, each row with the run that retired it; `View` is what readers see |
| `Catalog` | the runs over it: `organize_once`, `basic_filing_once`, `process_queue` with `adjudicate_structural`, the journal, `revert_run`, the canary and its quarantine, vacuum | `cat` the rows, `runs` with their `class_run_ops`, `queue` the proposals, `horizon`, `kept` the quarantine, `pass[w]` what a pass has read. One action is one transaction; between two, a model is asked or another process works. `undo` and `slips` are history |
| `Windows` | what `basic_filing_once` and `organize_once` do with the leases of `Jobs`: floor, job key, window, cursor or run row, interruption of earlier runs, classifier retries, canary release | extends `Jobs`; `head` and `items` the ledger, `cursor`, `staged`, `linked` the filer's, `rows`, `failures`, `wait` the organizer's; `at[w]`, `win[w]` the locals of a call; `scenario` fixes the user of a behaviour |
| `Forget` | compaction with archive and journal, `forget` with its marker, the redaction outbox, the organizer's late answers, snapshot, prune, restore | a database file is a record (`live`, `bad`, `snaps`); `marks` and `torn` are the registry file; `keeper`, `organizer`, `restore` what is in memory; an action is a transaction or a file operation |
| `MC*` | - | model values, symmetry sets and scenarios; other constants are in the `.cfg` files |
| `LedgerProofs`, `ChainVerifyProofs`, `WindowsProofs`, `CatalogProofs`, `ForgetProofs`, `ForeignSyncProofs` | - | theorems about the module of that name; `WindowsProofs` also holds those about `Jobs`, which `Windows` extends |
| `CatalogHistoryProofs` | - | theorems about `Catalog` that compare its rows at two times: what reverts lead back to, and the tree |
| `Induction` | - | least elements and induction over an interval of numbers, for the proofs |

### Abstractions

* A hash is the sequence of all it commits to: two hashes are equal exactly
  when everything under them is (SHA-256 taken as injective).
* Prompts, pages, decisions and claims are model values; what the code
  compares of them (a body hash, a tab's last content hash, a descriptor) is
  equality of the values.
* In `Ledger` a claim is the one op of the organizer run that recorded it, so
  reverting the run retires the claim. `revert_run` also refuses past its
  horizon and below a later run; the model lets it refuse at any time.
* In `Ledger` any statement of a transaction may fail (`Rollback`), and a
  lock may stay taken beyond all retries (`GiveUp`).
* In `Jobs` times are relative to the present: `avail` and `until` count down
  and a clock reading has an age, so that the state space is finite although
  time goes on for ever. Times further past than `MaxAge` are not told apart,
  which is sound because no reading is older. A worker is one call and is its
  own `lease_owner` (`pid:now` in the code).
* In `ChainVerify` an alteration of a stored row from outside the program
  changes its content, its link or its hash. Readings that the code turns
  into "no anchor" on failure (`.ok().flatten()`) do so in the model.
* In `ForeignSync` a history is the sequence of its entries and stands for its
  last hash; an entry carries the era it was written in (the timestamp of the
  code), so that what a restored peer writes hashes differently. Every segment
  verifies, its signer is trusted, the policy ships every body; notes, cards,
  vectors and the peer's catalog are left out. A peer is restored while it is
  not publishing (`serve` is stopped), and its marks come from the snapshot:
  they have values they had earlier. Fetching is free to choose any file at
  any time, which contains every order in which `sync` does.
* In `Catalog` a run's observations, claims and compactions, its window and
  forgotten sources are left out (they are in `Ledger`, `Forget` and
  `Windows`). Titles are equal or different (`NoOracle`; the Jaccard rule as
  title equality); warmth and notes are a free verdict. The journal keeps one
  uniform image per operation. `refuse` journals and rejects in one step,
  revert's refusals and its transaction are one step (`ledger_undo` shows what
  comes of that), a refile is one action. Operations refused while staging are
  not journaled. The queue is a set whose ids give its order. The `prop` of a
  journal row is history, and so is `undo`: for each run that wrote, the rows
  and newest ids it began with, which the code does not keep. Supersessions
  lead forward (`supersessions.rs`: an edge goes from the head of the old
  decision's chain to a later decision), so the walk along a chain ends; its
  64-hop guard is not modelled. The catalog that earlier runs left is a forest
  (`FirstForest`), which is what `TreeSound` promises of such runs. A second
  organizer works beside the first only where its menu says so: the lease (240 s)
  outlives the deadline (180 s), so it takes a suspended process.
* In `Windows` every item of the ledger that is lake material is fileable, and
  whether it is linked is all that is kept of filing. A pass reads floor and
  head one by one, and loads its delta and inserts its run in one step; the
  retry counters are read and written in one step. Runs of other modes use up
  run ids, so a backoff may end early. Rows that nobody reads again leave the
  state. A death before the job is enqueued changes nothing and is left out.
  A revert by hand is not modelled (it keeps the run's window). Late clock
  readings are bounded by the scenario; `Jobs` covers them.
* In `Forget` one process has the file open: the command line refuses to
  restore under a running daemon. The store's lock is held from a body's swap
  to its journal row, but `VACUUM INTO` has a connection of its own, so a
  snapshot may fall between. Pages, notes and foreign captures are forgotten
  like prompts and are not modelled; nor are a compaction whose reason is not
  `cold`, and the side file of a staged copy. Once a marker line is torn every
  restore refuses, so what else the file holds does not matter.

## 3. Runs

| run | question | instance | result |
|---|---|---|---|
| `ledger` | do chain, tables, receipts and lock survive every interleaving, rollback and death? | 2 processes, one item of each kind, 5 calls | holds, about 512,000 states |
| `ledger_decision` | is a decision recorded once? | 2 processes, 2 calls | violated: looked up under one lock, appended under another |
| `ledger_undo` | is a run reverted once? | 2 processes, 3 calls | violated: refusals are read before the transaction |
| `ledger_page` | does every stored page get its event? | 2 processes, 1 call | violated: two transactions, and the retry is deduplicated |
| `jobs` | one running job, fencing, progress, bounded attempts | 2 workers, 2 keys, 2 attempts, lease 2, clock readings up to 1 tick old, 1 explicit retry | holds, about 2,015,000 states |
| `jobs_live` | is a window ever skipped, is what is captured taken up, does every job settle? | 7 scenarios: one loop asking for any of 2 keys; a filer, alone (2 mishaps) and two; an organizer, alone (2 or 3 mishaps, with and without a capped window) and two (with and without mishaps); 2 events, 2 attempts, 3 classifier failures, backoff 1 and 2 | holds, about 414,000 states |
| `chain_verify` | is a verdict earned, is there a false alarm, does the anchor heal? | 2 calls, 2 rows, 1 alteration, 1 fault | holds, about 1,057,000 states |
| `foreign_sync` | is what is held a chain, is a fork ever called falsely, does an acknowledged redaction stay carried out? | 2 imports, 3 events, 2 segments, 1 restore or purge | holds, about 1,883,000 states |
| `foreign_fork` | is a forked chain frozen? | the same, without symmetry | violated: the mark is read before the transaction |
| `catalog` | is the last run undoable, does a revert spare later runs, does the tree stay sound, is a proposal settled once? | 10 menus over 5 classes and 3 items, 3 runs, 2 staged operations a run, 2 proposals, 2 organizers and a filer, 2 attempts, quarantine 3 | holds, about 1,462,000 states |
| `catalog_refile` | is every last run undoable? | the same | violated: the mark on an inbox link is not journaled |
| `forget` | do forgotten words stay away, is anything quoted, lost, unrecoverable; are redactions appended? | 6 scenarios: up to 2 prompts, 2 compaction runs, an organizer run, 3 snapshots, 2 restores, 1 crash, 1 damage of the live file | holds, about 435,000 states |

Why the bounds are enough. Five calls let one claim be recorded, retired and
reverted by two processes with one duplicate left over, and every pair of
items race; only two processes can contend at a time for one lock. Two keys
and two workers are the smallest instance in which a key can be leased anew
while its earlier worker still runs and another key waits; two attempts give
both a retry and a last attempt, and one explicit retry lets an attempt number
occur twice - which is how an unfenced owner would be confused. A reading one
tick old is on the wrong side of a boundary as well as an older one is. Two
rows, two overlapping calls and one append in between produce an anchor pair
made of two calls' halves. Three events are a prompt, its compaction and its
redaction; two segments are a stale one that carries the body and one with the
redaction, or one of each history; a third import would do nothing a second
cannot do to the first.

Three runs of the catalog are the smallest history with a run, a later run
over the same rows and the revert of either, and each menu pairs operations
that meet: a merge with a filing under its loser, a collapse with a promote
out of it, two promotes that would close a cycle, a split and a merge of its
node, a merge with an inbox, chained supersessions, the canary with a late
second organizer. Three classes deep is where `MAX_DEPTH` bites. In `Windows`
two events with windows of one item give a window that is capped and a rest
behind it; two workers and a lease of one tick give a worker that outlives its
lease; three mishaps are three failures of the classifier, or a failure, a
death and a retry. In `Forget` each scenario bounds what does not meet in it:
two prompts are needed where one may be forgotten and the other must not, two
restores where the second meets what the first set aside, three snapshots
where pruning must choose.

`TreeSound` and `LinksHang` are stated for orderly histories, and the
condition is needed: a proposal applied on a tree that changed after it was
judged (`stale`), a merge of a node with one above it (`nested`), a merge that
takes in its own target (`tangled`) and a revert under a later run (`skipped`)
each break them - section 5. So does a run that writes after a later one
(`disorder`): it creates a class, the later run promotes another under it, the
first writes again and is reverted as the last one to write.

`RevertSparesLaterRuns` excepts the children of merged nodes, and, once a run
wrote after a later one or a merge was tangled, the links of a split or a
collapse and a digest's citations. The second exception needs four runs and a
filer that outlives two organizer runs: run 3 files, the older run 1 merges
the link's node away, run 2 collapses the target, and the revert of 2 clears
the mark it had set on a link that run 3 had filed. In the same way an older
run's merge brings a digest's citation into an inbox, from where a later run
refiles it. A merge with its target named twice is reverted to other places
than its links came from, so that the links of an earlier split stay where
nothing of the split's subjects is. The instance with `MaxRuns = 4` that shows
the first of these has 5.1 million states, too many for a regular run; the
other two were found by the attempt to prove the property without them, and
take still larger ones.
`NothingSkipped` excepts a window that the canary released after another
process had moved the mark past it, and `NothingQuoted` a forget that commits
between the organizer's reading and its run row; both are in section 5.
`CapturesSettle` is stated for one process: with two, a stalled filer can move
the cursor back to a floor whose job is done. `OneRestoreLosesNothing` counts
restores, because the second one overwrites what the first set aside.

`HeldIsChain` is stated under a condition, and the condition is needed: an
import that writes under a row it has not read - because another import wrote,
or a purge deleted, in between - keeps a chain only as long as there is one
history and no purge. After a purge it leaves a hole, after a restore of the
peer two histories can be mixed. `foreign_fork` is the case of this that the
documentation rules out.

### Fairness

* `Ledger`: a caller inside a call keeps executing it (straight-line code
  with bounded retries). Nobody has to submit, and no transaction has to
  succeed. Death and rollback stay possible.
* `Windows`: time passes; the daemon's loop (`cli/serve.rs`, every two
  seconds) keeps calling the filer, and `gardener::step` the organizer while
  its growth gate sees a backlog; a call keeps running; strong fairness of
  the lease says that not *every* process dies before its lease for ever.
  Failures and deaths of the two users are bounded; the loop that asks for any
  key may die every time it works, checkpoints or finishes.
* `ChainVerify`: a call keeps running and the poll is repeated. Faults are
  bounded, so they stop.
* `Forget`: a restore command that lives goes on, the daemon is started again,
  a compaction that holds the lock writes its journal row; strong fairness of
  `Redact` says that the ticks which flush the outbox (`cli/serve.rs:273`,
  `sync.rs:67`, `orgnode.rs:59`, `envelope.rs:354`) reach every entry, however
  often the daemon is stopped.
* `Jobs` by itself, `Catalog`, `ForeignSync`: none; only safety is checked.

## 4. Proofs

All theorems hold for every value of the constants that satisfies the named
assumptions of the module. Every safety property of a passing run is proved,
except `RevertSparesLaterRuns` of `Catalog`; liveness is not. In brackets: the property of the
run that the theorem states for all instances.

`Induction`
: The induction theorems of the library take an operator, which the installed
  provers cannot instantiate. The module states the principle for sets
  instead: a set of naturals that is not empty has a least element
  (`LeastNat`), so a set that holds 0 and is closed under successor within
  `0..n` holds `0..n` (`IntervalInduction`). The recursive functions of the
  models (`Merge`, `Undone`, walks along a chain) are reasoned about with it,
  through the sets of their steps.

`LedgerProofs`
: The chain property is not inductive by itself: a commit turns pending rows
  into the chain, so those must already continue it. `LedgerInv` adds that a
  caller holds the write lock exactly while it is in a transaction
  (`LockHeld`), that only the holder has pending rows (`OneWriter`), and that
  every view - committed rows, then one's own - links (`ViewsLinked`). Then
  `LedgerInvariant` gives `LedgerTypeCorrect`, `ChainAlwaysIntact` and
  `NoAppendEverLost`. `InCall` is there for types: an undo past its check is
  about a recorded claim, which is why `reverted \subseteq retired \subseteq
  claims` survives a commit. With `ViewsLinked` a commit is an append to one
  history and everything else a stutter: `LedgerImplementsChainLog`
  [`ImplementsChainLog`].
: A second invariant, `RecordInv`, is about the tables beside the chain: what
  a transaction has pending follows from the act its caller still has to make
  (`PendFollowsActs`), and the events of each item and kind, committed and
  pending, are counted against its row (`EventsMatch`). It gives
  `RowsAlwaysMatchChain` [`RowsMatchChain`] and `ReceiptsStayTrue`
  [`ReceiptNamesOwnEvent`].

`ChainVerifyProofs`
: Two calls can write the two halves of the anchor pair, so no invariant says
  that the stored pair belongs together. What holds is a property of each
  half: a stored or held hash of events alone was earned by walking as many
  rows as it is long (`HashesEarned`) - the hash commits to its seq -, and a
  call that goes on from an anchor has compared it with the row at its seq
  (`PlaceKept`). Hence `AnchorAlwaysEarned` [`AnchorIsEarned`] and
  `VerdictAlwaysEarned` [`VerdictIsEarned`]. While nobody altered a row the
  chain links and a compared anchor stays good (`Untouched`), hence
  `NeverFalseAlarm` [`NoFalseAlarm`]. The lemmas `WalkEnd` and those beside it
  say what a walk from a hash to the end of the chain returns.

`WindowsProofs`
: First, of `Jobs`: the fence compares owner and attempt number, and an explicit retry starts
  the numbers again. What saves it is that a row which names `w` as owner was
  last leased by `w`: `OwnersAreLatest`. With `OneRunning` this is inductive
  (`JobsInvariant`), and gives that superseded workers change nothing
  (`StaleWorkersFenced`). `CheckpointsLeased` - a checkpoint comes from a
  lease the key has had - makes progress monotone (`ProgressKept`), and
  `LeasesCounted` - every lease is a counted attempt or one forgiven by a
  retry - bounds the leases (`LeasesAreBounded`).
: Then, of `Windows`: the users of the jobs write cursor and run rows without the job's fence, so
  the argument cannot use that one worker works at a time. It is about rows:
  every row that may become a mark was inserted over a delta that began at a
  mark, and what lies below that mark is settled (`Begun`, `Based`,
  `Claimed`); the items that another process adds or settles meanwhile only
  help. For the filer, what is linked, staged or in its window reaches as far
  as the cursor it will write, at each place of its pass (`Filing`).
  `NothingIsSkipped` [`NothingSkipped`] follows, for any workers, windows,
  failures, deaths and expired leases. `WindowsImplementsJobs`: every step is
  one of `Jobs` or leaves the job table alone, so the theorems about `Jobs`
  hold while the users file and organize. Assumed:
  `WindowsAssumptions`, where a scenario has finitely many workers.

`CatalogProofs`
: For any first catalog whose links are unique, any passes and any
  proposals of the right form. `RowsOK` says that rows are well shaped, that
  ids and marks are below the newest, and that no two links, marked ones
  included, hang one item from one node: the index that a merge, a split or an
  inverse could break, which would fail the whole transaction. There is one
  lemma per operation - create, file, promote, collapse, split, merge,
  supersede, the inverse, the vacuum - that from such rows it makes such rows
  and a usable image; merges and reverts, which fold over a sequence, by
  `IntervalInduction`. `CatInv` adds the journal, the queue and what each pass
  has read, and that a proposal journaled as done is out of the queue and
  journaled once (`OnceIn`). It gives `CatalogTypeCorrect` [`TypeOK`] and
  `AppliedOnce` [`SettledOnce`]: two passes that read the same proposal,
  deferrals, crashes between verdict and answer, reverts and vacuums included.

`CatalogHistoryProofs`
: That the last run can be undone speaks of the rows of now and of those the
  run found, and between them lie all its operations, so the invariant must
  say for every run in the journal what its inverses lead to. It does so as a
  stack (`PastOK`): the inverses of the last run that wrote lead from the rows
  of now to those it began with, the inverses of the run before it from there
  to those it began with itself (`LeadsBack`). Rows do not come back as they
  were - retired rows stay, with other marks, and a vacuum may have taken some
  -, so *lead to* is up to `Stands`: the same live rows, and of the others
  only what an inverse still needs. `Stands` implies equal views
  (`StandsView`); it is kept by each inverse (one lemma per operation that
  applying it and then `Undo` stands for the rows before; for a merge by
  induction over the nodes taken in), by a revert of the last run, which pops
  the stack, and by the vacuum, which shortens it. `UndoInv` holds this as long as no run
  wrote under a later one and no merge was tangled; `JournalLeadsBack` is its
  invariance and `LastRunCanBeUndone` [`LastRunUndoable`] what follows.
: `ForestInv` says that the live classes are a forest with the live links on
  it (`Sound`), now and in each state the stack can lead back to - so a revert
  needs no argument of its own. For the operations it is shown by what `Above`
  of one tree says of `Above` of the next (`AboveFacts`: the least set that is
  closed upwards): a promote judged on this tree hangs a class under none of
  its own descendants, a merge takes in none that is above its place, parts
  and digests take the place of what they replace. A merge waits for its
  verifier, so `JudgedOK` remembers what was judged. `ForestStands` is the
  invariance; `CatalogIsForest` [`TreeSound`] and `LinksHangLive`
  [`LinksHang`] follow. Assumed beside `CatalogAssumptions`: `FirstForest`.

`ForgetProofs`
: The properties speak of one file at a time, and the actions move files
  about. So every file - the live one, the one set aside, every snapshot, a
  staged copy - is sound by itself (`Sound`: its tombstones are blank, what
  its journal offers to undo is gisted, and offered by one run only) and fits
  what is around it (`Fits`: the registry holds the hash of each tombstone,
  and what it quotes of them raced with the forget). Only the live file knows
  all that was forgotten (`Remembers`), a restore carries that knowledge over
  from the registry (`RestoreKnows`), what the compactor and the organizer
  still have to write fits the live file (`KeeperFine`, `OrganizerFine`),
  memory dies with its process (`NobodyHome`), every capture is in the live
  file or the one set aside (`NoneLost`), and the snapshot just taken verifies
  if the live file does (`SnapshotFresh`). Lemmas of the first kind are about
  records; then there is one lemma per action, and one each for what deaths,
  live-file transactions and steps of a restore have in common. `Invariance`
  holds for any captures and hashes - colliding ones included -, any number of
  kept snapshots and any bounds, from `ForgetAssumptions` alone, and gives
  `Typed`, `ForgottenForGood`, `DerivedTextGoes`, `RestoreIsSafe`,
  `UndoFindsGists` and `PruningIsSafe`.

`ForeignSyncProofs`
: There are two reasons why what is held is a chain, and the invariant keeps
  both. While the peer has one history, everything that travels - drafts,
  files, what is held, what an import has read - is a prefix of it
  (`OneHistory`), and it does not matter how old a reading is. And an import
  whose row nobody wrote since it read it continues just the chain it compared
  itself with (`ReadingsHold`), whatever happened to the peer. So
  `HeldIsAChain` [`HeldIsChain`], `NeverFalseFork` [`NoFalseFork`], and, as a
  redaction at or below any head that was reached is carried out
  (`RedactionsCarried`, `MarkersKept`), `AcknowledgedIsApplied`
  [`AckMeansApplied`]. Assumed: `ForeignSyncAssumptions`, where the value
  that stands for no segment is none.

Only model-checked:

* Liveness (`LockReleased`, `Settles`, `CapturesSettle`, `Reanchors`,
  `RedactionsReachTheChain`), which like `ENABLED` is beyond the prover.
* `RevertSparesLaterRuns` of `Catalog`. It follows from what the journal says
  of each link between the runs that concern it - where it hung before and
  after each of them, and that both nodes are subjects -, an invariant beside
  `PastOK` that no proof here establishes (section 6).
* `EveryLastRunUndoable` and the properties of the other runs that find a
  violation, of course.

## 5. Divergences found

* **A decision can be recorded twice.** `record_decision` is documented as
  idempotent per descriptor (`record.rs:277`); two processes that both look
  before either appends record it twice (run `ledger_decision`).
* **A run can be reverted twice.** `revert_run` refuses a run that "was
  already reverted" (`runs.rs:336`), but reads that before its transaction;
  the chain can carry two `gardener_revert` events for one run (run
  `ledger_undo`).
* **A page can stay without its event.** `record_browse_event` stores a page
  "and emit[s] a `browse_event` ledger event" (`record.rs:195`) in two
  transactions; after a death in between, the repeat is dropped as a duplicate
  and the row stays unchained (run `ledger_page`).
* **A forked chain can grow.** "Nothing newer from that chain lands until an
  operator clears the mark" (`foreign.rs:199-200`, `docs/sharing.md:54`); an
  import that read the row before the mark was set still writes newer events
  (run `foreign_fork`).
* **A refile cannot be undone.** "Nothing a gardener run does to the catalog
  is beyond undoing" (`docs/ledger.md:65-66`); the mark that a refile puts on
  the inbox link is in no journal (`centroids.rs:287`), so a revert leaves the
  item nowhere (run `catalog_refile`).

Met while modelling, and visible in the models as exceptions or conditions of
the properties rather than as runs of their own:

* *Catalog.* `process_queue` judges every proposal of a pass on the tree it
  read at the start (`organize.rs:915-996`), so two promotes of one pass can
  close a cycle, although a promote is admitted only with "no cycle"
  (`adjudicate.rs:12`). A merge of a node with its own parent is not
  refused. Nor is a merge that names its target twice or hangs it from a node
  it takes in: neither the parser nor staging removes repeated ids
  (`polis-core/src/proposal.rs:153-170`, `polis-store/src/catalog.rs:960-1034`),
  the merge then retires its own target, and a revert does not give back what
  readers saw, because its pre-image has two entries for one row
  (`runs.rs:497-503`). The children a merge re-hangs are not among its subjects, so a
  revert can overwrite a later promote of one of them. The quarantine is
  checked against the subjects of proposals only (`organize.rs:605-606`).
  When runs write out of order, the links that a split or a collapse took
  along and does not name can be those of a later run, and a revert puts them
  back under it. A revert of a run that is still working sets its outcome, and the run's own
  `finish_class_run_with` overwrites it. The third entry of the backoff table
  is never reached.
* *Windows.* A filer that finds nothing new returns before it leases, so the
  job a crashed filer left stays open until something is captured. A pass in
  the classifier's backoff finishes its key as done, and the delta waits for
  the next ledger event rather than for "1 / 2 / 4 runs" (`organize.rs:774`);
  the waiting is counted in run ids of all modes, and the first backoff (1)
  skips no run. A full window (40 items) whose key failed for good keeps its
  key whatever is captured, and `retry_job` has no caller outside tests. A
  stalled filer's late cursor write can move the cursor back to a floor whose
  job is done. The canary can release a window below a mark that another
  process has set meanwhile, and a crash between `revert_run` and
  `mark_run_canary_reverted` keeps a reverted run's window; both leave
  evidence unorganized.
* *Forget.* A forget that commits after the organizer read its delta and
  before it inserted its run row marks no run, and the answer is written
  (`organize.rs:676-683`, against `docs/temporal-autonomy.md:129-131`). A run
  that touched a forgotten source drops its later journal rows silently
  (`runs.rs:179`). One forgotten prompt makes its whole compaction run
  unrevertable. A forget that died after its marker and before its commit is
  carried out by the next restore; a restore forgets by body hash, equal words
  elsewhere included. A torn marker line makes every restore refuse.
* *Backup.* Pruning keeps the newest snapshots whether they verify or not:
  with a live chain that no longer verifies it can delete the last one that
  does. A crash between the renames of a restore, and a start of the daemon
  after it, leave an empty store whose snapshots count as the newest; the next
  restore overwrites what the first set aside.

## 6. Plan

Done: `Ledger`, `Jobs`, `ChainVerify`, `ForeignSync`, `CatalogOps`, `Catalog`,
`Windows`, `Forget`, and the proofs of section 4. Next, in this order:

1. `CatalogHistoryProofs`: `RevertSparesLaterRuns`, from an invariant on the
   places of each link between the runs of the journal.
2. `ForeignSync`: vectors of redacted bodies, trust and subscription, and the
   liveness of forgetting under repeated syncs.
3. The connection's own transaction state in `Ledger` (a COMMIT that fails),
   and the consume-once map.

## 7. Not modelled

Scoring and retrieval (floating-point, read-only), embeddings, language-model
backends, HTTP and MCP parsing, the command line's output, installation and
service management, cryptography (hashes are injective, signatures are
unforgeable), centroid arithmetic, which class an item is filed under, the
screen of model output, the canary's probes (a free verdict), SQLite itself
beyond its write lock and atomic commits (with `synchronous=NORMAL` a power
loss may also drop the last commits; the models crash processes, not
machines). Of the hazards in `PROJECT.json` four have no property: a failing
COMMIT that leaves the connection in its transaction, the vector stored after
its body was redacted, the delivery of a redaction to a receiver, and the
consume-once registration that expires; the plan names each.
