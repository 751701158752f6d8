------------------------------ MODULE Windows ------------------------------
(***************************************************************************)
(* What the two users of Jobs do with their leases: the windows of ledger  *)
(* seqs that basic_filing_once (polis-memory/src/gardener.rs) and          *)
(* organize_once / organize_window (polis-memory/src/organize.rs, with the *)
(* canary around it in gardener::step) take, work on and consume.          *)
(*                                                                         *)
(* Both floors live outside the job: a cursor in the meta table, which the *)
(* filer sets without a fence, and the greatest seq_to of a done run, from *)
(* which a window is taken back by setting its row's seq_to to NULL - by a *)
(* pass that classified nothing and by the canary, after the job is over.  *)
(* The key of a job names the window its caller saw; the job a caller is   *)
(* leased may be one of another window.                                    *)
(*                                                                         *)
(* A behaviour is of one scenario: calls with any key, as in Jobs, or one  *)
(* of the two users.                                                       *)
(***************************************************************************)
EXTENDS Jobs, FiniteSetsExt

CONSTANTS
    MaxSeq,       \* bound: the greatest seq of the ledger
    Ttl,          \* PROPOSAL_TTL_ATTEMPTS: failures before a delta is given up
    Backoffs,     \* PROPOSAL_BACKOFF_RUNS, as far as failures below Ttl need it
    Scenarios     \* the scenarios: the user, its workers, and bounds

\* A job key names a window (floor, to); a scenario names what happens in it.
ASSUME WindowsAssumptions ==
    /\ MaxSeq \in Nat
    /\ Ttl \in Nat \ {0}
    /\ Backoffs \in [1..(Ttl - 1) -> Nat \ {0}]
    /\ Keys = {k \in (0..MaxSeq) \X (0..MaxSeq) : k[1] <= k[2]}
    /\ \A s \in Scenarios :
        /\ s.user \in {"any", "basic_filing", "organize"}
        /\ s.workers \subseteq Workers /\ IsFiniteSet(s.workers)
        /\ s.keys \subseteq Keys      \* the keys of "any" calls
        /\ s.seqs \in 0..MaxSeq       \* bound on the ledger
        /\ s.lake \subseteq 1..MaxSeq  \* the seqs that captures get
        /\ s.cap \in Nat \ {0}        \* the user's window: 40, MAX_DELTA_ITEMS (400)
        /\ s.late \in BOOLEAN         \* whether readings of the clock get old
        /\ s.mishaps \in Nat          \* bound on deaths and failures

VARIABLES
    scenario,  \* the scenario of this behaviour
    head,      \* the ledger's greatest seq
    items,     \* the seqs that are lake items
    cursor,    \* meta 'polis.freshness.filedSeq'
    staged,    \* items with a pending link of basic filing
    linked,    \* items with an accepted link of basic filing
    rows,      \* class_runs of mode organize, as far as their windows matter
    failures,  \* setting CLASSIFIER_ATTEMPTS_KEY
    wait,      \* how many run ids CLASSIFIER_NEXT_RUN_KEY is ahead
    mishaps,   \* deaths and failures so far (bounds the model)
    at,        \* at[w]: where w is, inside a call's work and around the call
    win        \* win[w]: the window w read, and how its work ended

ledger == <<head, items>>
filing == <<cursor, staged, linked>>
runs == <<rows, failures, wait>>
locals == <<at, win>>
wvars == <<vars, scenario, ledger, filing, runs, mishaps, locals>>

NoWindow == [from |-> 0, to |-> 0, items |-> {}, ok |-> TRUE]

WindowsInit ==
    /\ Init
    /\ scenario \in Scenarios
    /\ head = 0 /\ items = {}
    /\ cursor = 0 /\ staged = {} /\ linked = {}
    /\ rows = {} /\ failures = 0 /\ wait = 0
    /\ mishaps = 0
    /\ at = [w \in Workers |-> "free"]
    /\ win = [w \in Workers |-> NoWindow]

User(u) == scenario.user = u

-----------------------------------------------------------------------------
(* What the statements read.                                               *)

\* list_lake_items_since: the first items past the floor, up to the limit.
ItemsSince(floor) ==
    {i \in items : /\ i > floor
                   /\ Cardinality({j \in items : floor < j /\ j <= i}) <= scenario.cap}

\* A class_runs row: its worker while it is being worked on or graded, its
\* seq_to (0 for NULL), the items its pass loaded, its status and outcome.
Row(w, to, delta) ==
    [by |-> w, to |-> to, delta |-> delta, status |-> "running", outcome |-> "none"]

\* Mutant of Mark: every run's window counts.
MarkOfAnyRun == Max({0} \cup {r.to : r \in rows})

\* last_run_seq_to: MAX(seq_to) of the done runs.
Mark == Max({0} \cup {r.to : r \in {q \in rows : q.status = "done"}})

Floor == IF User("organize") THEN Mark ELSE cursor

\* The rows of w's own pass, with new columns; the other rows stay.
Own(w) == {r \in rows : r.by = w}
Update(w, status, outcome, to) ==
    (rows \ Own(w)) \cup
    {[r EXCEPT !.status = status, !.outcome = outcome, !.to = to] : r \in Own(w)}

\* Rows that no worker has and that have no window are never read again; they
\* leave the model, but for those the canary released.
Read(rs) ==
    {r \in rs : \/ r.by # Nobody
                \/ r.status # "error" /\ r.to # 0
                \/ r.outcome = "reverted_by_canary"}

\* Mutant of Disown: the row stays its worker's when the call is over.
DisownNot(w) == Read(rows)
Disown(w) == Read((rows \ Own(w)) \cup {[r EXCEPT !.by = Nobody] : r \in Own(w)})

At(w, place) == at' = [at EXCEPT ![w] = place]
Forgets(w) == At(w, "free") /\ win' = [win EXCEPT ![w] = NoWindow]

-----------------------------------------------------------------------------
(* Before the lease.                                                       *)

\* An event is appended: a capture, or one that is no lake item.
Append ==
    /\ ~User("any")
    /\ head < scenario.seqs
    /\ head' = head + 1
    /\ items' = items \cup ({head + 1} \cap scenario.lake)
    /\ UNCHANGED <<vars, scenario, mishaps, filing, runs, locals>>

\* A call begins and reads its floor; the gardener makes none to organize
\* while nothing is past the mark.
Look(w) ==
    /\ w \in scenario.workers /\ ~User("any")
    /\ User("organize") => head > Mark
    /\ pc[w] = "idle" /\ at[w] = "free"
    /\ win' = [win EXCEPT ![w].from = Floor]
    /\ At(w, "looked")
    /\ UNCHANGED <<vars, scenario, mishaps, ledger, filing, runs>>

\* basic_filing_once loads its window and names its job; with nothing to file
\* it returns, whatever jobs are left.
AskToFile(w) ==
    /\ User("basic_filing") /\ at[w] = "looked"
    /\ LET window == ItemsSince(win[w].from)
       IN  IF window = {}
           THEN Forgets(w) /\ UNCHANGED vars
           ELSE /\ Wake(w, <<win[w].from, Max(window)>>)
                /\ win' = [win EXCEPT ![w].to = Max(window), ![w].items = window]
                /\ At(w, "asked")
    /\ UNCHANGED <<scenario, mishaps, ledger, filing, runs>>

\* Mutant of OrganizeKey: the floor alone names the job.
FloorKey(floor) == <<floor, floor>>

\* organize_once names its job after the floor and the head.
OrganizeKey(floor) == <<floor, head>>
AskToOrganize(w) ==
    /\ User("organize") /\ at[w] = "looked"
    /\ Wake(w, OrganizeKey(win[w].from))
    /\ At(w, "asked")
    /\ UNCHANGED <<scenario, mishaps, ledger, filing, runs, win>>

AskAny(w) ==
    /\ User("any") /\ w \in scenario.workers
    /\ \E k \in scenario.keys : Wake(w, k)
    /\ UNCHANGED <<scenario, mishaps, ledger, filing, runs, locals>>

EnqueueAsked(w) ==
    /\ Enqueue(w)
    /\ UNCHANGED <<scenario, mishaps, ledger, filing, runs, locals>>

\* The runs that a worker with a new lease calls interrupted: those running
\* that started before it read its clock.
Interrupted(old) == Read((rows \ old) \cup {[r EXCEPT !.status = "error"] : r \in old})

\* Without a lease the call is over.  With one, earlier runs are given up.
Lease1(w) ==
    /\ LeaseJob(w)
    /\ IF pc'[w] = "idle"
       THEN Forgets(w) /\ UNCHANGED rows
       ELSE /\ UNCHANGED win
            /\ CASE User("any") -> UNCHANGED <<at, rows>>
                 [] User("basic_filing") -> At(w, "stage") /\ UNCHANGED rows
                 [] User("organize") ->
                    /\ At(w, "floor")
                    /\ \E old \in SUBSET {r \in rows : r.status = "running"} :
                        rows' = Interrupted(old)
    /\ UNCHANGED <<scenario, mishaps, ledger, filing, failures, wait>>

-----------------------------------------------------------------------------
(* basic_filing_once, under the lease.                                     *)

\* A step of w's work: the job stays leased to it, or not, and time is Tick's.
Works(w, from, to) ==
    /\ pc[w] = "work" /\ at[w] = from /\ At(w, to)
    /\ UNCHANGED <<vars, scenario, mishaps, ledger>>

Mishap == mishaps < scenario.mishaps /\ mishaps' = mishaps + 1

\* What no live class links is staged into an inbox.
Stage(w) ==
    /\ Works(w, "stage", "accept")
    /\ staged' = staged \cup (win[w].items \ linked)
    /\ UNCHANGED <<cursor, linked, runs, win>>

\* accept_all_pending: every pending link, whoever staged it.
Accept(w) ==
    /\ Works(w, "accept", "mark")
    /\ linked' = linked \cup staged /\ staged' = {}
    /\ UNCHANGED <<cursor, runs, win>>

\* Mutant of Reached: the cursor follows the ledger.
ReachedHead(w) == head
Reached(w) == win[w].to

\* The run is finished and the cursor set, with no look at the lease.
SetCursor(w) ==
    /\ Works(w, "mark", "end")
    /\ cursor' = Reached(w)
    /\ UNCHANGED <<staged, linked, runs, win>>

-----------------------------------------------------------------------------
(* organize_window, under the lease.                                       *)

ReadFloor(w) ==
    /\ Works(w, "floor", "head")
    /\ win' = [win EXCEPT ![w].from = Mark]
    /\ UNCHANGED <<filing, runs>>

ReadHead(w) ==
    /\ Works(w, "head", "delta")
    /\ win' = [win EXCEPT ![w].to = head]
    /\ UNCHANGED <<filing, runs>>

\* Mutant of SeqTo: the whole head counts as consumed.
SeqToHead(delta, to) == to

\* A capped window ends with the last item it loaded.
SeqTo(delta, to) == IF Cardinality(delta) >= scenario.cap THEN Max(delta) ELSE to

\* The delta is loaded and the run inserted.  Runs of other modes use up run
\* ids as well, so that any number of them may have passed.
InsertRun(w) ==
    /\ Works(w, "delta", "judge")
    /\ LET delta == ItemsSince(win[w].from)
       IN  /\ rows' = rows \cup {Row(w, SeqTo(delta, win[w].to), delta)}
           /\ win' = [win EXCEPT ![w].items = delta]
    /\ \E left \in 0..(IF wait = 0 THEN 0 ELSE wait - 1) : wait' = left
    /\ UNCHANGED <<filing, failures>>

To(w) == CHOOSE t \in {r.to : r \in Own(w)} : TRUE

\* Nothing new; or the plain run, in which every item is filed or parked; or
\* the classifier's answer, which resets its retries.
Organized(w) ==
    /\ Works(w, "judge", "end")
    /\ rows' = Update(w, "done", "done", To(w))
    /\ \/ UNCHANGED failures
       \/ failures' = 0 /\ win[w].items # {}
    /\ UNCHANGED <<filing, wait, win>>

InBackoff(w) == win[w].items # {} /\ failures > 0 /\ wait > 0

\* Mutant of SkippedRow: done before the window is taken back.
SkippedRowDone(w) == Update(w, "done", "skipped", To(w))
SkippedRow(w) == Update(w, "running", "skipped", 0)

\* A consolidation run in the classifier's backoff takes its window back ...
SkipRelease(w) ==
    /\ InBackoff(w)
    /\ Works(w, "judge", "skip")
    /\ rows' = SkippedRow(w)
    /\ UNCHANGED <<filing, failures, wait, win>>

\* ... and is then done.
SkipDone(w) ==
    /\ Works(w, "skip", "end")
    /\ rows' = Update(w, "done", "skipped", 0)
    /\ UNCHANGED <<filing, failures, wait, win>>

Spent == failures + 1 >= Ttl

\* Mutant of FailedRow: the failed run keeps its window and is done.
FailedRowDone(w) == Update(w, "done", "error", To(w))
FailedRow(w) == Update(w, "error", "error", 0)

\* The classifier fails: the pass takes its window back and waits, or, after
\* Ttl failures, consumes it ("the delta is skipped").
ClassifierFails(w) ==
    /\ pc[w] = "work" /\ at[w] = "judge" /\ At(w, "end")
    /\ win[w].items # {} /\ ~InBackoff(w)
    /\ Mishap
    /\ IF Spent
       THEN /\ rows' = Update(w, "done", "expired", To(w))
            /\ failures' = 0 /\ wait' = 0
       ELSE /\ rows' = FailedRow(w)
            /\ failures' = failures + 1 /\ wait' = Backoffs[failures + 1]
    /\ win' = [win EXCEPT ![w].ok = FALSE]
    /\ UNCHANGED <<vars, scenario, ledger, filing>>

\* Any other error, the deadline, or no model: the pass stops where it is and
\* its row, if it has one, is still running.
WorkFails(w) ==
    /\ at[w] \in {"stage", "accept", "mark", "floor", "head", "delta", "judge", "skip"}
    /\ pc[w] = "work" /\ At(w, "end")
    /\ Mishap
    /\ win' = [win EXCEPT ![w].ok = FALSE]
    /\ UNCHANGED <<vars, scenario, ledger, filing, runs>>

\* After the work the clock is read; a failed worker calls every running run
\* of the mode failed, whoever is working on it.
EndWork(w) ==
    /\ at[w] = "end"
    /\ WorkEnds(w)
    /\ pc'[w] = IF win[w].ok THEN "checkpoint" ELSE "fail"
    /\ rows' = IF win[w].ok THEN rows ELSE Interrupted({r \in rows : r.status = "running"})
    /\ UNCHANGED <<scenario, mishaps, ledger, filing, failures, wait, locals>>

EndAnyWork(w) ==
    /\ User("any")
    /\ WorkEnds(w)
    /\ UNCHANGED <<scenario, mishaps, ledger, filing, runs, locals>>

CheckpointWork(w) ==
    /\ Checkpoint(w)
    /\ UNCHANGED <<scenario, mishaps, ledger, filing, runs, locals>>

\* Whether gardener::step grades the pass: it ran, and ended well.
Graded(w) ==
    /\ User("organize") /\ win[w].ok
    /\ \E r \in Own(w) : r.outcome = "done" /\ r.delta # {}

\* finish_job; a pass that ran is then graded, with no lease.
FinishWork(w) ==
    /\ Finish(w)
    /\ \/ Forgets(w) /\ rows' = Disown(w)
       \/ Graded(w) /\ At(w, "grade") /\ UNCHANGED <<rows, win>>
    /\ UNCHANGED <<scenario, mishaps, ledger, filing, failures, wait>>

-----------------------------------------------------------------------------
(* The canary, and death.                                                  *)

\* No regression, or a run that cannot be reverted.
GradeWell(w) ==
    /\ at[w] = "grade"
    /\ Forgets(w) /\ rows' = Disown(w)
    /\ UNCHANGED <<vars, scenario, mishaps, ledger, filing, failures, wait>>

\* revert_run, with the event it appends.
RevertRun(w) ==
    /\ at[w] = "grade" /\ At(w, "release")
    /\ head < scenario.seqs /\ head' = head + 1
    /\ rows' = {IF r.by = w THEN [r EXCEPT !.outcome = "reverted"] ELSE r : r \in rows}
    /\ UNCHANGED <<vars, scenario, mishaps, items, filing, failures, wait, win>>

\* mark_run_canary_reverted.
ReleaseWindow(w) ==
    /\ at[w] = "release"
    /\ rows' = (rows \ Own(w)) \cup
        {[r EXCEPT !.by = Nobody, !.outcome = "reverted_by_canary", !.to = 0] : r \in Own(w)}
    /\ Forgets(w)
    /\ UNCHANGED <<vars, scenario, mishaps, ledger, filing, failures, wait>>

\* The process dies: in the call, once it has changed something, or while the
\* pass is graded.
Die(w) ==
    /\ \/ pc[w] # "enqueue" /\ Crash(w)
       \/ pc[w] = "idle" /\ at[w] \in {"grade", "release"} /\ UNCHANGED vars
    /\ IF User("any") THEN UNCHANGED mishaps ELSE Mishap
    /\ Forgets(w) /\ rows' = Disown(w)
    /\ UNCHANGED <<scenario, ledger, filing, failures, wait>>

-----------------------------------------------------------------------------
(* The scenario's jobs and its time.                                       *)

RetryAny ==
    /\ User("any")
    /\ \E k \in scenario.keys : Retry(k)
    /\ UNCHANGED <<scenario, mishaps, ledger, filing, runs, locals>>

Doctor ==
    /\ User("any")
    /\ ListJobs
    /\ UNCHANGED <<scenario, mishaps, ledger, filing, runs, locals>>

TimePasses ==
    /\ scenario.late \/ \A w \in Workers : pc[w] \in {"idle", "work"}
    /\ Tick
    /\ UNCHANGED <<scenario, mishaps, ledger, filing, runs, locals>>

Ask(w) == AskToFile(w) \/ AskToOrganize(w) \/ AskAny(w)

Proceed(w) ==
    \/ EnqueueAsked(w)
    \/ Lease1(w)
    \/ Stage(w) \/ Accept(w) \/ SetCursor(w)
    \/ ReadFloor(w) \/ ReadHead(w) \/ InsertRun(w)
    \/ Organized(w) \/ SkipRelease(w) \/ SkipDone(w)
    \/ ClassifierFails(w) \/ WorkFails(w)
    \/ EndWork(w) \/ EndAnyWork(w) \/ CheckpointWork(w) \/ FinishWork(w)
    \/ GradeWell(w) \/ RevertRun(w) \/ ReleaseWindow(w)

WindowsNext ==
    \/ Append
    \/ \E w \in Workers : Look(w) \/ Ask(w) \/ Proceed(w) \/ Die(w)
    \/ RetryAny
    \/ Doctor
    \/ TimePasses

WindowsSpec == WindowsInit /\ [][WindowsNext]_wvars

\* Time passes (strongly fair, for a scenario may let it pass only outside calls
\* and during their work); a worker's task keeps running; although any process
\* may die at any point, not every one dies, for ever, before it reaches its
\* lease; and the loops call the filer at every turn
\* (cli/serve.rs:342) and the organizer when there is a backlog
\* (gardener.rs:909-915).
FairWindowsSpec ==
    /\ WindowsSpec
    /\ SF_wvars(TimePasses)
    /\ \A w \in Workers :
        /\ WF_wvars(Look(w) \/ Ask(w) \/ Proceed(w))
        /\ SF_wvars(Lease1(w))

-----------------------------------------------------------------------------
(* Properties.                                                             *)

OneProcess == Cardinality(scenario.workers) = 1

\* The locals, links and rows have their shape; a worker has one row of
\* class_runs at most, one that has a lease is inside its work, and every
\* window ends at a seq the ledger has.
WindowsTypeOK ==
    /\ TypeOK
    /\ scenario \in Scenarios /\ mishaps \in 0..scenario.mishaps
    /\ head \in 0..scenario.seqs /\ items \subseteq 1..head
    /\ cursor \in 0..head /\ staged \subseteq items /\ linked \subseteq items
    /\ \A r \in rows :
        /\ r.by \in Workers \cup {Nobody} /\ r.to \in 0..head /\ r.delta \subseteq items
        /\ r.status \in {"running", "done", "error"}
        /\ r.outcome \in {"none", "done", "error", "skipped", "expired", "reverted",
                          "reverted_by_canary"}
    /\ failures \in 0..(Ttl - 1) /\ wait \in Nat
    /\ \A w \in Workers :
        /\ Cardinality(Own(w)) <= 1
        /\ pc[w] = "work" /\ ~User("any") => at[w] \notin {"free", "looked", "asked"}
        /\ win[w].from \in 0..head /\ win[w].to \in 0..head /\ win[w].items \subseteq items

\* "Interrupted class runs do not consume their source window. Capped
\* organization windows now advance only through the evidence actually loaded"
\* (docs/temporal-autonomy.md:67-68).  However calls overlap, die, lose their
\* leases or move the cursor back: a filed mark has every item below it linked,
\* and an organized mark has every item below it in the delta of a pass that is
\* done - one that was given up after Ttl failures, or reverted and not
\* released, included.  A released window is read again, unless another process
\* has taken the mark past it meanwhile.
NothingSkipped ==
    /\ User("basic_filing") => \A i \in items : i <= cursor => i \in linked
    /\ User("organize") =>
        \A i \in items : i <= Mark =>
            \E r \in rows :
                /\ i \in r.delta
                /\ r.status = "done"
                /\ \/ r.outcome \in {"done", "expired", "reverted"}
                   \/ r.outcome = "reverted_by_canary" /\ ~OneProcess

\* The job a call would now ask for, and whether asking for it is in vain: it
\* failed for good, or a pass in the classifier's backoff finished it.
KeyNow ==
    IF User("organize") THEN <<Mark, head>>
    ELSE <<cursor, Max({cursor} \cup ItemsSince(cursor))>>
InVain ==
    \/ jobs[KeyNow].st = "failed"
    \/ User("organize") /\ jobs[KeyNow].st = "done" /\ failures > 0

\* "Newly captured unfiled evidence gets an inbox link immediately"
\* (gardener.rs:697-699): with one process, whatever dies and fails, every
\* captured item comes below the mark, or the job of its window shows as failed
\* - or, while the classifier is in backoff, as done, until the next event.
CapturesSettle ==
    LET Behind == \E i \in items : i > Floor
    IN  OneProcess /\ Behind ~> ~Behind \/ InVain

\* "Expired attempts are reclaimed, bounded retries end visibly" (jobs.rs:2-4),
\* for a user that goes on asking for its keys: once there is work that is
\* pending or running, a time comes when all of it is done or failed, whatever
\* crashes.
Settles ==
    LET Open == \E k \in Keys : jobs[k].st \in {"pending", "running"}
    IN  User("any") /\ Open ~> ~Open
=============================================================================
