------------------------------- MODULE Forget -------------------------------
(***************************************************************************)
(* Letting the words of a capture go, for good: cold compaction and its    *)
(* archive, forget and its durable marker (polis-store/src/compaction.rs), *)
(* the redaction outbox (polis-memory/src/sharing.rs), and the backups     *)
(* that could bring words back (polis-memory/src/backup.rs).               *)
(*                                                                         *)
(* A database file is one record: what of the prompts is still readable,   *)
(* what text was derived from them, and whether the file is sound.  The    *)
(* live file, the file a restore set aside and the snapshots are such      *)
(* records; the marker registry is a file of its own beside the live one.  *)
(* An action is a transaction or a file operation, so that a process can   *)
(* die between any two, and where it matters inside one.  A prompt is a    *)
(* capture; its body_hash is all that the registry knows of it.            *)
(***************************************************************************)
EXTENDS Naturals, Sequences

CONSTANTS
    Captures,   \* the prompts ever recorded
    Hashes,     \* body hashes
    HashOf,     \* the body_hash of each capture: equal bodies, equal hashes
    Missing,    \* no file
    Keep,       \* snapshots kept by prune
    Bounds      \* bounds of a behaviour: the captures recorded in it, the
                \* compaction and the organizer passes, the snapshots there may
                \* be at once, the times a restore sets the live file aside, the
                \* crashes, and what may happen to the live file, once ("chain":
                \* its chain no longer verifies; "file": it cannot be opened)

-----------------------------------------------------------------------------
(* A database file.                                                        *)

\* prompts: words (body), archive (a prompt_archive row), gist.
Warm == [words |-> TRUE, archive |-> FALSE, gist |-> "none"]
Blank == [words |-> FALSE, archive |-> FALSE, gist |-> "forgotten"]
Gisted(archived) == [words |-> FALSE, archive |-> archived, gist |-> "quote"]

Prompts == {Warm, Blank, Gisted(TRUE), Gisted(FALSE)}
Tables == UNION {[D -> Prompts] : D \in SUBSET Captures}
Runs == [subjects : SUBSET Captures, applied : SUBSET Captures, image : BOOLEAN,
         outcome : {"open", "done", "reverted"}]

File ==
    [rows : Tables,                \* prompts
     gone : SUBSET Captures,       \* forgotten_sources
     quoted : SUBSET Captures,     \* captures that observations, proposals,
                                   \* link notes or run summaries may quote
     runs : Seq(Runs),             \* compaction runs and their operations
     outbox : SUBSET Captures,     \* redaction_outbox, delivered_at NULL
     damage : {"none", "chain", "file"}]

Empty == [rows |-> [c \in {} |-> Warm], gone |-> {}, quoted |-> {}, runs |-> << >>,
          outbox |-> {}, damage |-> "none"]

BoundSet ==
    [captures : SUBSET Captures, passes : Nat, reads : Nat, snaps : Nat, asides : Nat,
     crashes : Nat, damages : SUBSET {"chain", "file"}]

ASSUME ForgetAssumptions ==
    /\ HashOf \in [Captures -> Hashes]
    /\ Missing \notin File
    /\ Keep \in Nat \ {0}
    /\ Bounds \subseteq BoundSet

VARIABLES
    live,      \* the database file in use, or Missing
    bad,       \* <live>.bad, or Missing
    snaps,     \* the snapshot files, newest first
    marks,     \* the hashes in <live>.forgotten
    torn,      \* that file holds a line that is no marker
    up,        \* a process has the live file open
    backup,    \* a snapshot is written, not yet verified, nothing pruned
    keeper,    \* the compaction pass: what it read, what it has to journal
    organizer, \* the organizer pass: what it read, whether its run is marked
    restore,   \* the restore command: how far it is, and what it holds
    known,     \* captures that were recorded           (history)
    forgotten, \* captures whose forget was committed   (history)
    raced,     \* ... before the run that had read them (history)
    count,     \* asides, crashes, organizer passes and damages so far
    bound      \* the bounds of this behaviour

vars == <<live, bad, snaps, marks, torn, up, backup, keeper, organizer, restore,
          known, forgotten, raced, count, bound>>

-----------------------------------------------------------------------------
Opens(s) == s # Missing /\ s.damage # "file"
Verifies(s) == s # Missing /\ s.damage = "none"

\* A run that touched a forgotten capture loses its images, and whatever it
\* still journals is dropped.  Mutant: the journal is left alone.
StillJournaled(runs, cs) == runs
Unjournaled(runs, cs) ==
    [r \in DOMAIN runs |-> IF runs[r].subjects \cap cs # {} THEN [runs[r] EXCEPT !.image = FALSE] ELSE runs[r]]

\* What the transaction of a forget does, for the captures cs.
Purged(s, cs) ==
    LET new == (cs \cap DOMAIN s.rows) \ s.gone
    IN  [s EXCEPT !.rows = [c \in DOMAIN @ |-> IF c \in new THEN Blank ELSE @[c]],
                  !.gone = @ \cup new,
                  !.quoted = @ \ new,
                  !.runs = Unjournaled(@, new),
                  !.outbox = @ \cup new]

-----------------------------------------------------------------------------
NoKeeper == [pc |-> "idle", read |-> {}, op |-> {}]
NoOrganizer == [pc |-> "idle", read |-> {}, marked |-> FALSE]
NoRestore == [pc |-> "idle", from |-> Missing, hashes |-> {}]

Init ==
    /\ live = Empty /\ bad = Missing /\ snaps = << >>
    /\ marks = {} /\ torn = FALSE
    /\ up = TRUE
    /\ backup = FALSE
    /\ keeper = NoKeeper /\ organizer = NoOrganizer
    /\ restore = NoRestore
    /\ known = {} /\ forgotten = {} /\ raced = {}
    /\ count = [asides |-> 0, crashes |-> 0, reads |-> 0, damages |-> 0]
    /\ bound \in Bounds

files == <<bad, snaps>>
registry == <<marks, torn>>
passes == <<keeper, organizer>>
history == <<known, forgotten, raced, count, bound>>

\* A process has the file open, the file works, and the store's lock is free:
\* a compaction holds it from its swap to its journal row.
Working == up /\ Opens(live) /\ keeper.pc # "journal"

\* A prompt is captured.
Record(c) ==
    /\ Working
    /\ c \in bound.captures \ known
    /\ live' = [live EXCEPT !.rows = [d \in DOMAIN @ \cup {c} |-> IF d = c THEN Warm ELSE @[d]]]
    /\ known' = known \cup {c}
    /\ UNCHANGED <<files, registry, up, backup, passes, restore, forgotten, raced, count, bound>>

-----------------------------------------------------------------------------
(* The compaction pass of the gardener.                                    *)

Readable == {c \in DOMAIN live.rows : live.rows[c].words}
NoOps == [subjects |-> {}, applied |-> {}, image |-> TRUE, outcome |-> "open"]

\* Reads the bodies, asks for gists, opens its run.
KeeperRead ==
    /\ Working /\ keeper.pc = "idle" /\ Len(live.runs) < bound.passes
    /\ \E cs \in SUBSET Readable \ {{}} : keeper' = [pc |-> "gisting", read |-> cs, op |-> {}]
    /\ live' = [live EXCEPT !.runs = Append(@, NoOps)]
    /\ UNCHANGED <<files, registry, up, backup, organizer, restore, history>>

\* Swaps one body for its gist, if it is still there to swap.  The archive is
\* for a "cold" reason only, and best effort.
Compact(c) ==
    /\ Working /\ keeper.pc = "gisting" /\ c \in keeper.read
    /\ \/ /\ c \in Readable \ live.gone
          /\ \E archived \in BOOLEAN : live' = [live EXCEPT !.rows[c] = Gisted(archived)]
          /\ keeper' = [pc |-> "journal", read |-> keeper.read \ {c}, op |-> {c}]
       \/ /\ c \notin Readable \ live.gone
          /\ keeper' = [keeper EXCEPT !.read = @ \ {c}]
          /\ UNCHANGED live
    /\ UNCHANGED <<files, registry, up, backup, organizer, restore, history>>

\* Journals the swap in a transaction of its own, unless the run is invalid.
Journaled(run, op) ==
    IF run.image THEN [run EXCEPT !.subjects = @ \cup op, !.applied = @ \cup op] ELSE run

JournalCompaction ==
    /\ up /\ Opens(live) /\ keeper.pc = "journal"
    /\ live' = [live EXCEPT !.runs[Len(live.runs)] = Journaled(@, keeper.op)]
    /\ keeper' = [keeper EXCEPT !.pc = "gisting", !.op = {}]
    /\ UNCHANGED <<files, registry, up, backup, organizer, restore, history>>

KeeperFinish ==
    /\ Working /\ keeper.pc = "gisting" /\ keeper.read = {}
    /\ live' = [live EXCEPT !.runs[Len(live.runs)] = [@ EXCEPT !.outcome = "done"]]
    /\ keeper' = NoKeeper
    /\ UNCHANGED <<files, registry, up, backup, organizer, restore, history>>

\* revert_run of a compaction run, if no later run touched its prompts: every
\* body comes back from its archive, or the revert fails as a whole.
Revertable(r) ==
    LET run == live.runs[r]
    IN  /\ run.outcome # "reverted" /\ run.image /\ run.applied # {}
        /\ \A k \in DOMAIN live.runs : k > r => live.runs[k].applied \cap run.applied = {}
Recoverable(c) == c \notin live.gone /\ live.rows[c].archive

RevertCompaction(r) ==
    /\ Working /\ r \in DOMAIN live.runs
    /\ Revertable(r)
    /\ \A c \in live.runs[r].applied : Recoverable(c)
    /\ live' = [live EXCEPT !.rows = [c \in DOMAIN @ |-> IF c \in live.runs[r].applied THEN Warm ELSE @[c]],
                            !.runs[r] = [@ EXCEPT !.applied = {}, !.outcome = "reverted"]]
    /\ UNCHANGED <<files, registry, up, backup, passes, restore, history>>

-----------------------------------------------------------------------------
(* The organizer, as far as text is concerned: it reads the delta, opens   *)
(* its run over that window, and writes what the model made of the text.   *)

OrganizerRead ==
    /\ Working /\ organizer.pc = "idle" /\ Readable # {} /\ count.reads < bound.reads
    /\ organizer' = [pc |-> "read", read |-> Readable, marked |-> FALSE]
    /\ count' = [count EXCEPT !.reads = @ + 1]
    /\ UNCHANGED <<live, files, registry, up, backup, keeper, restore, known, forgotten, raced, bound>>

OrganizerOpens ==
    /\ Working /\ organizer.pc = "read"
    /\ organizer' = [organizer EXCEPT !.pc = "open"]
    /\ UNCHANGED <<live, files, registry, up, backup, keeper, restore, history>>

\* A staged filing, an observation, a proposal, the run's summary: refused
\* when the run is marked, whatever it would have written.
OrganizerWrites ==
    /\ Working /\ organizer.pc = "open" /\ ~organizer.marked
    /\ \E c \in organizer.read : live' = [live EXCEPT !.quoted = @ \cup {c}]
    /\ UNCHANGED <<files, registry, up, backup, passes, restore, history>>

OrganizerEnds ==
    /\ Working /\ organizer.pc = "open"
    /\ organizer' = NoOrganizer
    /\ UNCHANGED <<live, files, registry, up, backup, keeper, restore, history>>

-----------------------------------------------------------------------------
(* Forget.                                                                 *)

Forgettable(c) == Working /\ c \in DOMAIN live.rows \ live.gone

\* Mutant: the row is named, not the body.
MarkedById(c) == marks' = marks \cup {c}
Marked(c) == marks' = marks \cup {HashOf[c]}

\* A run is marked when its window holds the capture.  Mutant: when one of
\* its operations names it.
CaughtByName(c) == FALSE
Caught(c) == organizer.pc = "open" /\ c \in organizer.read

\* The marker is appended and synced, then the purge commits.
Forget(c) ==
    /\ Forgettable(c)
    /\ Marked(c)
    /\ live' = Purged(live, {c})
    /\ organizer' = [organizer EXCEPT !.marked = @ \/ Caught(c)]
    /\ forgotten' = forgotten \cup {c}
    /\ raced' = raced \cup ({c} \cap IF organizer.pc = "read" THEN organizer.read ELSE {})
    /\ UNCHANGED <<files, torn, up, backup, keeper, restore, known, count, bound>>

\* A statement after the marker fails: all but the marker is undone.
ForgetFails(c) ==
    /\ Forgettable(c)
    /\ Marked(c)
    /\ UNCHANGED <<live, files, torn, up, backup, passes, restore, history>>

\* The redaction event of a forgotten prompt, in the call that forgot it, on a
\* daemon tick, before an export or a sync.  Mutant: in that call only.
OwedAtOnce(c) == c \in live.outbox /\ count.crashes = 0
Owed(c) == c \in live.outbox

Redact(c) ==
    /\ Working /\ Owed(c)
    /\ live' = [live EXCEPT !.outbox = @ \ {c}]
    /\ UNCHANGED <<files, registry, up, backup, passes, restore, history>>

-----------------------------------------------------------------------------
(* Backups.                                                                *)

\* VACUUM INTO, by a connection of its own: a copy of what is committed.
Snapshot ==
    /\ up /\ Opens(live) /\ ~backup /\ Len(snaps) < bound.snaps
    /\ snaps' = <<live>> \o snaps
    /\ backup' = TRUE
    /\ UNCHANGED <<live, bad, registry, up, passes, restore, history>>

\* The oldest beyond Keep go, whether or not the others verify.  Mutant: the
\* newest go.
PrunedNewest(s) == SubSeq(s, IF Len(s) < Keep THEN 1 ELSE Len(s) - Keep + 1, Len(s))
Pruned(s) == SubSeq(s, 1, IF Len(s) < Keep THEN Len(s) ELSE Keep)

VerifyPrune ==
    /\ up /\ backup
    /\ snaps' = Pruned(snaps)
    /\ backup' = FALSE
    /\ UNCHANGED <<live, bad, registry, up, passes, restore, history>>

-----------------------------------------------------------------------------
(* polis restore: a command of its own, while nothing has the file open.   *)

\* A snapshot that verifies - the newest, or one the user names - or any other
\* file the user names.
Candidates == {s \in {bad} \cup {snaps[i] : i \in DOMAIN snaps} : Verifies(s)}

\* The markers, and what the live file itself still knows.
Remembered == marks \cup (IF Opens(live) THEN {HashOf[c] : c \in live.gone} ELSE {})

RestoreReads ==
    /\ ~up /\ restore.pc = "idle" /\ ~torn /\ count.asides < bound.asides
    /\ \E s \in Candidates :
         restore' = [pc |-> "read", from |-> s, hashes |-> Remembered]
    /\ UNCHANGED <<live, files, registry, up, backup, passes, history>>

\* The copy is stripped of every body remembered as forgotten.  Mutant: of
\* those that are still readable in it.
NamedWarm(s, hashes) == {c \in DOMAIN s.rows : HashOf[c] \in hashes /\ s.rows[c].words}
Named(s, hashes) == {c \in DOMAIN s.rows : HashOf[c] \in hashes}

RestoreStages ==
    /\ restore.pc = "read"
    /\ restore' = [restore EXCEPT !.pc = "staged", !.from = Purged(@, Named(@, restore.hashes))]
    /\ UNCHANGED <<live, files, registry, up, backup, passes, history>>

\* Mutant: the live file is removed.
NotSetAside(file, old) == old
SetAside(file, old) == IF file = Missing THEN old ELSE file

RestoreSetsAside ==
    /\ restore.pc = "staged"
    /\ bad' = SetAside(live, bad)
    /\ live' = Missing
    /\ count' = [count EXCEPT !.asides = @ + 1]
    /\ restore' = [restore EXCEPT !.pc = "aside"]
    /\ UNCHANGED <<snaps, registry, up, backup, passes, known, forgotten, raced, bound>>

RestoreInstalls ==
    /\ restore.pc = "aside"
    /\ live' = restore.from
    /\ restore' = NoRestore
    /\ UNCHANGED <<files, registry, up, backup, passes, history>>

-----------------------------------------------------------------------------
(* Processes and files come and go.                                        *)

\* What is in memory is lost.
Dies ==
    /\ up' = FALSE
    /\ backup' = FALSE
    /\ keeper' = NoKeeper /\ organizer' = NoOrganizer
    /\ restore' = NoRestore

Stop ==
    /\ up /\ ~backup /\ keeper.pc = "idle" /\ organizer.pc = "idle"
    /\ Dies
    /\ UNCHANGED <<live, files, registry, history>>

Crashes ==
    /\ count.crashes < bound.crashes
    /\ count' = [count EXCEPT !.crashes = @ + 1]
    /\ Dies
    /\ UNCHANGED <<live, bad, known, forgotten, raced, bound>>

Crash ==
    /\ up \/ restore.pc # "idle"
    /\ Crashes /\ UNCHANGED <<snaps, registry>>

\* After the marker of a forget and before its commit.
CrashInForget(c) ==
    /\ Forgettable(c)
    /\ Marked(c)
    /\ Crashes /\ UNCHANGED <<snaps, torn>>

\* In the middle of the marker: every restore refuses from then on, so what
\* the lines after it say no longer matters.
CrashTearsMarker ==
    /\ \E c \in Captures : Forgettable(c)
    /\ torn' = TRUE
    /\ Crashes /\ UNCHANGED <<snaps, marks>>

\* In the middle of VACUUM INTO.
CrashTearsSnapshot ==
    /\ up /\ Opens(live) /\ ~backup /\ Len(snaps) < bound.snaps
    /\ snaps' = <<[Empty EXCEPT !.damage = "file"]>> \o snaps
    /\ Crashes /\ UNCHANGED registry

\* Opening makes the file when there is none, and copies its tombstones to
\* the registry.
Start ==
    /\ ~up /\ restore.pc = "idle"
    /\ live = Missing \/ Opens(live)
    /\ up' = TRUE
    /\ live' = IF live = Missing THEN Empty ELSE live
    /\ marks' = marks \cup {HashOf[c] : c \in live'.gone}
    /\ UNCHANGED <<files, torn, backup, passes, restore, history>>

Damage(d) ==
    /\ count.damages = 0 /\ Verifies(live) /\ ~up /\ restore.pc = "idle"
    /\ live' = [live EXCEPT !.damage = d]
    /\ count' = [count EXCEPT !.damages = 1]
    /\ UNCHANGED <<files, registry, up, backup, passes, restore, known, forgotten, raced, bound>>

-----------------------------------------------------------------------------
Next ==
    \/ \E c \in Captures :
         Record(c) \/ Compact(c) \/ Forget(c) \/ ForgetFails(c) \/ CrashInForget(c) \/ Redact(c)
    \/ KeeperRead \/ JournalCompaction \/ KeeperFinish
    \/ \E r \in 1..bound.passes : RevertCompaction(r)
    \/ OrganizerRead \/ OrganizerOpens \/ OrganizerWrites \/ OrganizerEnds
    \/ Snapshot \/ VerifyPrune
    \/ RestoreReads \/ RestoreStages \/ RestoreSetsAside \/ RestoreInstalls
    \/ Stop \/ Crash \/ CrashTearsMarker \/ CrashTearsSnapshot \/ Start
    \/ \E d \in bound.damages : Damage(d)

Spec == Init /\ [][Next]_vars

\* A restore command that lives goes on; the daemon is started again when it
\* is down, and its ticks, however often it is stopped, reach every entry of
\* the outbox; a compaction that holds the lock comes to its journal row.
Fairness ==
    /\ WF_vars(RestoreStages) /\ WF_vars(RestoreSetsAside) /\ WF_vars(RestoreInstalls)
    /\ WF_vars(Start)
    /\ WF_vars(JournalCompaction)
    /\ \A c \in Captures : SF_vars(Redact(c))

FairSpec == Spec /\ Fairness

-----------------------------------------------------------------------------
(* Properties.                                                             *)

\* Every file is what the schema can hold, the registry holds hashes, and
\* memory belongs to a process.
TypeOK ==
    /\ live \in File \cup {Missing} /\ bad \in File \cup {Missing}
    /\ snaps \in Seq(File)
    /\ marks \subseteq Hashes /\ torn \in BOOLEAN
    /\ up \in BOOLEAN /\ backup \in BOOLEAN
    /\ keeper \in [pc : {"idle", "gisting", "journal"}, read : SUBSET Captures, op : SUBSET Captures]
    /\ organizer \in [pc : {"idle", "read", "open"}, read : SUBSET Captures, marked : BOOLEAN]
    /\ restore \in [pc : {"idle", "read", "staged", "aside"}, from : File \cup {Missing},
                    hashes : SUBSET Hashes]
    /\ known \subseteq Captures /\ forgotten \subseteq known /\ raced \subseteq forgotten
    /\ count \in [asides : Nat, crashes : Nat, reads : Nat, damages : Nat]
    /\ bound \in Bounds
    /\ up => live # Missing /\ restore.pc = "idle"

\* Once a forget is committed its words never come back: not by reverting the
\* compaction that archived them, not by restoring a snapshot from before,
\* whatever crashes and whatever happened to the live file, in any order
\* (docs/temporal-autonomy.md:133-137: a managed restore reads the registry
\* "even when the live SQLite file is corrupt, sanitizes a staged snapshot").
NoResurrection ==
    live # Missing =>
        \A c \in forgotten \cap DOMAIN live.rows : live.rows[c] = Blank

\* Nothing derived from a forgotten capture is left, or written again by a
\* model answer that was asked for before and arrives after
\* (docs/temporal-autonomy.md:129-131).  A forget that commits between the
\* moment the organizer reads its delta and the moment it inserts its run is
\* excepted: the run it should mark does not exist yet.
NothingQuoted ==
    live # Missing => live.quoted \cap forgotten \subseteq raced

\* As long as restores have set the live file aside once at most, no capture
\* is lost to them, wherever the command or a crash stopped: each has its row
\* in the live file or in <live>.bad, and what compaction left of its words,
\* unless the registry says that they were forgotten.
OneRestoreLosesNothing ==
    count.asides <= 1 =>
        \A c \in known : \E s \in {live, bad} \ {Missing} :
            c \in DOMAIN s.rows /\ (s.rows[c] = Blank => HashOf[c] \in marks)

\* While the live chain verifies, a backup never leaves the directory without
\* a snapshot that does, torn snapshots of crashed backups included.
PruneKeepsOne ==
    [][(\E i \in DOMAIN snaps : Verifies(snaps[i])) /\ Verifies(live)
         => \E i \in DOMAIN snaps' : Verifies(snaps'[i])]_vars

\* What the journal offers to undo is there to be undone: a compaction that
\* stands as applied, image and all, finds its prompt still gisted - after
\* forgets, reverts, crashes between the swap and its journal row, and
\* restores.  Otherwise the inverse finds no archive and the whole run's
\* revert fails.
ArchivesStay ==
    \A s \in {live, bad} \ {Missing} :
        \A r \in DOMAIN s.runs : \A c \in s.runs[r].applied :
            s.runs[r].image => s.rows[c].gist = "quote"

\* The redaction event that peers wait for is appended in the end, if the file
\* that owes it stays in use: the outbox outlives the call, and the process,
\* that failed to append it (docs/temporal-autonomy.md:102-105).
Owing(c) == Opens(live) /\ c \in live.outbox
RedactionsReachTheChain ==
    \A c \in Captures : Owing(c) ~> ~Owing(c)
=============================================================================
