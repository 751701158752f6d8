--------------------------- MODULE WindowsProofs ---------------------------
(***************************************************************************)
(* Proofs about Jobs, and about Windows, which extends it.                 *)
(*                                                                         *)
(* Jobs, for any number of workers, keys and attempts and for clock        *)
(* readings of any age: one job runs at a time, and what a worker does     *)
(* after its key was leased again has no effect.  The fence compares a row *)
(* with a worker's copy of it.  That it suffices is OwnersAreLatest: while *)
(* a row names w as its owner and w believes to hold it, w's lease is the  *)
(* key's latest.                                                           *)
(*                                                                         *)
(* Windows, for any workers, keys, windows and failures: what the users do *)
(* with their leases keeps every promise of Jobs, and neither the filer's  *)
(* cursor nor the organizer's mark passes an item that no pass has         *)
(* settled.  The argument for the mark: a pass covers, from the floor it   *)
(* read to the seq its row claims, every item there is (Claimed), and what *)
(* was settled below a floor stays settled (Based).  Only the canary's     *)
(* release undoes a pass; with one process nothing newer was built on it,  *)
(* because every other done window ends below the items of the pass        *)
(* released (Fresh).                                                       *)
(***************************************************************************)
EXTENDS Windows, TLAPS, FiniteSetTheorems, Induction

-----------------------------------------------------------------------------
(* Jobs.                                                                   *)

\* The AUTOINCREMENT id is a number.
LEMMA NextIdTyped == NextId \in Nat
  <1> DEFINE Present == {k \in Keys : jobs[k].st # "absent"}
  <1>1. IsFiniteSet(Present)
    <2>1. Present \subseteq Keys OBVIOUS
    <2> QED BY <2>1, JobsAssumptions, FS_Subset
  <1>2. Cardinality(Present) \in Nat BY <1>1, FS_CardinalityType
  <1> HIDE DEF Present
  <1>3. Cardinality(Present) + 1 \in Nat BY <1>2
  <1> QED BY <1>3 DEF NextId, Present

\* Reclaiming keeps a row's shape, starts nothing and gives nobody a row.
LEMMA ReclaimFacts ==
    ASSUME NEW j \in JobType, NEW a \in Int,
           j.st = "running" <=> j.owner # Nobody
    PROVE  /\ Reclaim(j, a) \in JobType
           /\ Reclaim(j, a).st = "running" <=> Reclaim(j, a).owner # Nobody
           /\ Reclaim(j, a).st = "running" => j.st = "running"
           /\ Reclaim(j, a).owner \in {j.owner, Nobody}
           /\ Reclaim(j, a).attempts = j.attempts
           /\ Reclaim(j, a).checkpoint = j.checkpoint
           /\ j.st = "done" => Reclaim(j, a).st = "done"
  <1>1. CASE ~LeaseOver(j, a)
    <2>1. Reclaim(j, a) = j BY <1>1 DEF Reclaim
    <2> QED BY <2>1
  <1>2. CASE LeaseOver(j, a)
    <2> DEFINE st == IF OutOfAttempts(j) THEN "failed" ELSE "pending"
    <2>1. st \in {"failed", "pending"} OBVIOUS
    <2>2. j.st = "running" BY <1>2 DEF LeaseOver
    <2>3. Reclaim(j, a) = [j EXCEPT !.st = st, !.owner = Nobody, !.until = 0]
      BY <1>2 DEF Reclaim
    <2> HIDE DEF st
    <2>4. Reclaim(j, a) \in JobType
      <3>1. Reclaim(j, a) = [st |-> st, attempts |-> j.attempts, avail |-> j.avail, until |-> 0,
                             owner |-> Nobody, checkpoint |-> j.checkpoint, id |-> j.id]
        BY <2>3 DEF JobType
      <3>2. st \in Statuses BY <2>1 DEF Statuses
      <3> QED BY <3>1, <3>2 DEF JobType
    <2>5. /\ Reclaim(j, a).st = st
          /\ Reclaim(j, a).owner = Nobody
          /\ Reclaim(j, a).attempts = j.attempts
          /\ Reclaim(j, a).checkpoint = j.checkpoint
      BY <2>3 DEF JobType
    <2> QED BY <2>1, <2>2, <2>4, <2>5
  <1> QED BY <1>1, <1>2

\* The same of the whole table.
LEMMA ReclaimedFacts ==
    ASSUME TypeOK, NEW a \in Int
    PROVE  /\ Reclaimed(a) \in [Keys -> JobType]
           /\ \A k \in Keys :
                /\ Reclaimed(a)[k].st = "running" <=> Reclaimed(a)[k].owner # Nobody
                /\ Reclaimed(a)[k].st = "running" => jobs[k].st = "running"
                /\ Reclaimed(a)[k].owner \in {jobs[k].owner, Nobody}
                /\ Reclaimed(a)[k].attempts = jobs[k].attempts
                /\ Reclaimed(a)[k].checkpoint = jobs[k].checkpoint
                /\ jobs[k].st = "done" => Reclaimed(a)[k].st = "done"
  BY ReclaimFacts DEF Reclaimed, TypeOK

\* What leasing makes of a row.
LEMMA LeasedFacts ==
    ASSUME NEW j \in JobType, NEW w \in Workers, ago[w] \in Int, ~OutOfAttempts(j)
    PROVE  /\ Leased(j, w) \in JobType
           /\ Leased(j, w).st = "running"
           /\ Leased(j, w).owner = w
           /\ Leased(j, w).attempts = j.attempts + 1
           /\ Leased(j, w).checkpoint = j.checkpoint
  <1> DEFINE until == Lease - ago[w]
             attempts == j.attempts + 1
  <1>1. Leased(j, w) = [j EXCEPT !.st = "running", !.attempts = attempts, !.owner = w,
                                 !.until = until]
    BY DEF Leased
  <1>2. until \in Int BY JobsAssumptions
  <1>3. attempts \in 0..MaxAttempts BY JobsAssumptions DEF OutOfAttempts, JobType
  <1>4. attempts = j.attempts + 1 OBVIOUS
  <1> HIDE DEF until, attempts
  <1>5. Leased(j, w) = [st |-> "running", attempts |-> attempts, avail |-> j.avail,
                        until |-> until, owner |-> w, checkpoint |-> j.checkpoint, id |-> j.id]
    BY <1>1 DEF JobType
  <1>6. "running" \in Statuses BY DEF Statuses
  <1>7. Leased(j, w) \in JobType BY <1>2, <1>3, <1>5, <1>6 DEF JobType
  <1> QED BY <1>4, <1>5, <1>7

\* A worker's copy has its type.
LEMMA CopyTyped ==
    ASSUME NEW k \in Keys \cup {NoKey}, NEW a \in 0..MaxAttempts, NEW n \in Nat
    PROVE  /\ Copy(k, a, n) \in CopyType
           /\ Copy(k, a, n).key = k
           /\ Copy(k, a, n).attempts = a
           /\ Copy(k, a, n).lease = n
  BY DEF Copy, CopyType

\* A worker outside a call has the type of one.
LEMMA NoJobTyped == NoJob \in CopyType
  BY JobsAssumptions DEF NoJob, Copy, CopyType

\* The initial state.
LEMMA JobsInit == Init => JobsInv
  <1> SUFFICES ASSUME Init PROVE JobsInv OBVIOUS
  <1>1. Absent \in JobType /\ Absent.st # "running" /\ Absent.owner = Nobody
        /\ Absent.checkpoint = 0 /\ Absent.attempts = 0
    BY JobsAssumptions DEF Absent, JobType, Statuses
  <1>2. TypeOK BY <1>1, NoJobTyped, JobsAssumptions DEF Init, TypeOK, Places
  <1>3. OneRunning BY <1>1 DEF Init, OneRunning
  <1>4. OwnersAreLatest BY DEF Init, OwnersAreLatest, PastLease
  <1>5. CheckpointsLeased /\ LeasesCounted
    BY <1>1, JobsAssumptions DEF Init, CheckpointsLeased, LeasesCounted
  <1> QED BY <1>2, <1>3, <1>4, <1>5 DEF JobsInv

-----------------------------------------------------------------------------
(* Most steps are quiet: they start no row, give nobody a row, and leave   *)
(* attempts, checkpoints and the leases alone.                             *)

QuietRow(r, j) ==
    /\ r \in JobType
    /\ r.st = "running" <=> r.owner # Nobody
    /\ r.st = "running" => j.st = "running"
    /\ r.owner \in {j.owner, Nobody}
    /\ r.attempts = j.attempts
    /\ r.checkpoint = j.checkpoint
    /\ j.st = "done" => r.st = "done"

\* No row changes, or one does, quietly.
QuietJobs ==
    /\ jobs' = [k \in Keys |-> jobs'[k]]
    /\ \A k \in Keys : QuietRow(jobs'[k], jobs[k])

LocalsOK ==
    /\ pc' \in [Workers -> Places]
    /\ ago' \in [Workers -> 0..MaxAge]
    /\ mine' \in [Workers -> CopyType]
    /\ \A w \in Workers :
        \/ pc'[w] = "idle"
        \/ pc'[w] \in {"enqueue", "lease"} /\ mine'[w].key \in Keys
        \/ PastLease(w) /\ mine'[w] = mine[w]

\* A row as it is is a quiet row.
LEMMA SameRow == ASSUME JobsInv, NEW k \in Keys PROVE QuietRow(jobs[k], jobs[k])
  BY DEF JobsInv, TypeOK, QuietRow

\* Replacing one row by a quiet one is quiet.
LEMMA OneQuietRow ==
    ASSUME JobsInv, NEW k \in Keys, NEW r, QuietRow(r, jobs[k]),
           jobs' = [jobs EXCEPT ![k] = r]
    PROVE  QuietJobs
  BY SameRow DEF QuietJobs, JobsInv, TypeOK

\* Replacing none is.
LEMMA NoRow == ASSUME JobsInv, jobs' = jobs PROVE QuietJobs
  BY SameRow DEF QuietJobs, JobsInv, TypeOK

\* So is reclaiming.
LEMMA QuietReclaim == ASSUME JobsInv, NEW a \in Int, jobs' = Reclaimed(a) PROVE QuietJobs
  <1>1. \A k \in Keys : QuietRow(Reclaim(jobs[k], a), jobs[k])
    BY ReclaimFacts DEF QuietRow, JobsInv, TypeOK
  <1> QED BY <1>1 DEF QuietJobs, Reclaimed

\* Quiet steps keep the invariant.
LEMMA QuietStep ==
    ASSUME JobsInv, QuietJobs, LocalsOK, leases' = leases, retries' = retries
    PROVE  JobsInv'
  <1>1. TypeOK' BY DEF JobsInv, TypeOK, QuietJobs, QuietRow, LocalsOK
  <1>2. OneRunning' /\ CheckpointsLeased' /\ LeasesCounted'
    BY DEF JobsInv, OneRunning, CheckpointsLeased, LeasesCounted, QuietJobs, QuietRow
  <1>3. OwnersAreLatest'
    <2> SUFFICES ASSUME NEW w \in Workers
                 PROVE  /\ pc'[w] # "idle" => mine'[w].key \in Keys
                        /\ \A k \in Keys : PastLease(w)' /\ mine'[w].key = k /\ jobs'[k].owner = w
                               => mine'[w].lease = leases'[k]
      BY DEF OwnersAreLatest
    <2>1. CASE PastLease(w) /\ mine'[w] = mine[w]
      BY <2>1, JobsAssumptions DEF JobsInv, OwnersAreLatest, PastLease, QuietJobs, QuietRow
    <2>2. CASE pc'[w] = "idle" \/ (pc'[w] \in {"enqueue", "lease"} /\ mine'[w].key \in Keys)
      BY <2>2 DEF PastLease
    <2> QED BY <2>1, <2>2 DEF LocalsOK
  <1> QED BY <1>1, <1>2, <1>3 DEF JobsInv

\* A call that moves to place l keeping its copy: the locals stay right.
LEMMA MoveLocals ==
    ASSUME JobsInv, NEW w \in Workers, NEW l \in Places, Goto(w, l), mine' = mine,
           ago' \in [Workers -> 0..MaxAge],
           \/ pc[w] = "enqueue" /\ l = "lease"
           \/ PastLease(w)
    PROVE  LocalsOK
  <1>1. \A v \in Workers : pc[v] \in Places BY DEF JobsInv, TypeOK
  <1>2. \A v \in Workers : pc[v] # "idle" => mine[v].key \in Keys
    BY DEF JobsInv, OwnersAreLatest
  <1> QED BY <1>1, <1>2 DEF LocalsOK, Goto, JobsInv, TypeOK, PastLease, Places

\* A call that ends.
LEMMA LeaveLocals ==
    ASSUME JobsInv, NEW w \in Workers, Leave(w)
    PROVE  LocalsOK
  <1>1. \A v \in Workers : pc[v] \in Places BY DEF JobsInv, TypeOK
  <1>2. \A v \in Workers : pc[v] # "idle" => mine[v].key \in Keys
    BY DEF JobsInv, OwnersAreLatest
  <1> QED BY <1>1, <1>2, NoJobTyped, JobsAssumptions
        DEF LocalsOK, Goto, Leave, JobsInv, TypeOK, PastLease, Places

\* Nothing happens to any call.
LEMMA SameLocals ==
    ASSUME JobsInv, pc' = pc, mine' = mine, ago' \in [Workers -> 0..MaxAge]
    PROVE  LocalsOK
  <1>1. \A v \in Workers : pc[v] \in Places BY DEF JobsInv, TypeOK
  <1>2. \A v \in Workers : pc[v] # "idle" => mine[v].key \in Keys
    BY DEF JobsInv, OwnersAreLatest
  <1> QED BY <1>1, <1>2 DEF LocalsOK, JobsInv, TypeOK, PastLease, Places

-----------------------------------------------------------------------------
(* The quiet actions.                                                      *)

\* A call starts.
LEMMA WakeStep ==
    ASSUME JobsInv, NEW w \in Workers, NEW k \in Keys, Wake(w, k)
    PROVE  JobsInv'
  <1>1. Copy(k, 0, 0) \in CopyType /\ Copy(k, 0, 0).key = k
    BY CopyTyped, JobsAssumptions
  <1>2. \A v \in Workers : pc[v] \in Places BY DEF JobsInv, TypeOK
  <1>3. \A v \in Workers : pc[v] # "idle" => mine[v].key \in Keys
    BY DEF JobsInv, OwnersAreLatest
  <1>4. LocalsOK
    BY <1>1, <1>2, <1>3 DEF Wake, LocalsOK, Goto, JobsInv, TypeOK, PastLease, Places
  <1> QED BY <1>4, NoRow, QuietStep DEF Wake

\* A job is enqueued, or was already.
LEMMA EnqueueQuiet ==
    ASSUME JobsInv, NEW w \in Workers, Enqueue(w)
    PROVE  QuietJobs
  <1> DEFINE k == mine[w].key
             avail == -ago[w]
             id == NextId
  <1>1. k \in Keys BY DEF Enqueue, JobsInv, OwnersAreLatest
  <1>2. CASE jobs[k].st = "absent"
    <2> DEFINE row == [jobs[k] EXCEPT !.st = "pending", !.avail = avail, !.id = id]
    <2>1. jobs' = [jobs EXCEPT ![k] = row] BY <1>2 DEF Enqueue
    <2>2. avail \in Int BY JobsAssumptions DEF JobsInv, TypeOK
    <2>3. id \in Nat BY NextIdTyped
    <2>4. jobs[k] \in JobType BY <1>1 DEF JobsInv, TypeOK
    <2>5. jobs[k].st = "running" <=> jobs[k].owner # Nobody BY <1>1 DEF JobsInv, TypeOK
    <2>6. row = [jobs[k] EXCEPT !.st = "pending", !.avail = avail, !.id = id] OBVIOUS
    <2> HIDE DEF avail, id, k, row
    <2>7. row = [st |-> "pending", attempts |-> jobs[k].attempts, avail |-> avail,
                 until |-> jobs[k].until, owner |-> jobs[k].owner,
                 checkpoint |-> jobs[k].checkpoint, id |-> id]
      BY <2>4, <2>6 DEF JobType
    <2>8. "pending" \in Statuses BY DEF Statuses
    <2>9. row \in JobType BY <2>2, <2>3, <2>4, <2>7, <2>8 DEF JobType
    <2>10. QuietRow(row, jobs[k]) BY <1>2, <2>4, <2>5, <2>7, <2>9 DEF QuietRow
    <2> QED BY <1>1, <2>1, <2>10, OneQuietRow
  <1>3. CASE jobs[k].st # "absent" BY <1>3, NoRow DEF Enqueue
  <1> QED BY <1>2, <1>3

\* An enqueue keeps the invariant.
LEMMA EnqueueStep ==
    ASSUME JobsInv, NEW w \in Workers, Enqueue(w)
    PROVE  JobsInv'
  <1>1. LocalsOK BY MoveLocals DEF Enqueue, JobsInv, TypeOK, Places
  <1> QED BY <1>1, EnqueueQuiet, QuietStep DEF Enqueue

\* Work ends.
LEMMA WorkEndsStep ==
    ASSUME JobsInv, NEW w \in Workers, WorkEnds(w)
    PROVE  JobsInv'
  <1>1. PICK l \in {"checkpoint", "fail"} : Goto(w, l) BY DEF WorkEnds
  <1>2. l \in Places /\ PastLease(w) BY DEF Places, WorkEnds, PastLease
  <1>3. ago' \in [Workers -> 0..MaxAge] BY JobsAssumptions DEF WorkEnds, JobsInv, TypeOK
  <1>4. LocalsOK BY <1>1, <1>2, <1>3, MoveLocals DEF WorkEnds
  <1> QED BY <1>4, NoRow, QuietStep DEF WorkEnds

\* What finish_job makes of a table.
LEMMA FinishedQuiet ==
    ASSUME JobsInv, NEW w \in Workers, PastLease(w), NEW st \in {"done", "failed", "pending"},
           jobs' = Finished(w, st)
    PROVE  QuietJobs
  <1> DEFINE k == mine[w].key
             avail == Backoff * mine[w].attempts - ago[w]
             row == [jobs[k] EXCEPT !.st = st, !.owner = Nobody, !.until = 0, !.avail = avail]
  <1>1. k \in Keys BY DEF PastLease, JobsInv, OwnersAreLatest
  <1>2. CASE Holds(w)
    <2>1. jobs' = [jobs EXCEPT ![k] = row] BY <1>1, <1>2 DEF Finished, JobsInv, TypeOK
    <2>2. avail \in Int
      <3>1. mine[w].attempts \in Int /\ ago[w] \in Int /\ Backoff \in Int
        BY JobsAssumptions DEF JobsInv, TypeOK, CopyType
      <3> QED BY <3>1
    <2>3. jobs[k] \in JobType BY <1>1 DEF JobsInv, TypeOK
    <2>4. jobs[k].st = "running" BY <1>2 DEF Holds
    <2>5. row = [jobs[k] EXCEPT !.st = st, !.owner = Nobody, !.until = 0, !.avail = avail]
      OBVIOUS
    <2> HIDE DEF k, avail, row
    <2>6. row = [st |-> st, attempts |-> jobs[k].attempts, avail |-> avail, until |-> 0,
                 owner |-> Nobody, checkpoint |-> jobs[k].checkpoint, id |-> jobs[k].id]
      BY <2>3, <2>5 DEF JobType
    <2>7. st \in Statuses BY DEF Statuses
    <2>8. row \in JobType BY <2>2, <2>3, <2>6, <2>7 DEF JobType
    <2>9. QuietRow(row, jobs[k]) BY <2>3, <2>4, <2>6, <2>8 DEF QuietRow
    <2> QED BY <1>1, <2>1, <2>9, OneQuietRow
  <1>3. CASE ~Holds(w) BY <1>3, NoRow DEF Finished
  <1> QED BY <1>2, <1>3

\* A job is finished, or the fence refuses.
LEMMA FinishStep ==
    ASSUME JobsInv, NEW w \in Workers, Finish(w)
    PROVE  JobsInv'
  <1>1. PastLease(w) BY DEF Finish, PastLease
  <1>2. \E st \in {"done", "failed", "pending"} : jobs' = Finished(w, st) BY DEF Finish
  <1>3. QuietJobs BY <1>1, <1>2, FinishedQuiet
  <1>4. LocalsOK BY LeaveLocals DEF Finish
  <1> QED BY <1>3, <1>4, QuietStep DEF Finish

\* A worker dies.
LEMMA CrashStep ==
    ASSUME JobsInv, NEW w \in Workers, Crash(w)
    PROVE  JobsInv'
  <1>1. LocalsOK BY LeaveLocals DEF Crash
  <1> QED BY <1>1, NoRow, QuietStep DEF Crash

\* The jobs are listed.
LEMMA ListJobsStep == ASSUME JobsInv, ListJobs PROVE JobsInv'
  <1>1. LocalsOK BY SameLocals DEF ListJobs, JobsInv, TypeOK
  <1> QED BY <1>1, QuietReclaim, QuietStep DEF ListJobs

\* Time passes for the rows.
LEMMA TickQuiet == ASSUME JobsInv, Tick PROVE QuietJobs
  <1>1. \A t \in Int : Earlier(t) \in Int BY JobsAssumptions DEF Earlier
  <1> SUFFICES ASSUME NEW k \in Keys PROVE QuietRow(jobs'[k], jobs[k])
    BY DEF QuietJobs, Tick
  <1> DEFINE avail == IF jobs[k].st = "pending" THEN Earlier(jobs[k].avail) ELSE jobs[k].avail
             until == IF jobs[k].st = "running" THEN Earlier(jobs[k].until) ELSE jobs[k].until
  <1>2. jobs'[k] = [jobs[k] EXCEPT !.avail = avail, !.until = until] BY DEF Tick
  <1>3. jobs[k] \in JobType BY DEF JobsInv, TypeOK
  <1>4. avail \in Int /\ until \in Int BY <1>1, <1>3 DEF JobType
  <1>5. jobs[k].st = "running" <=> jobs[k].owner # Nobody BY DEF JobsInv, TypeOK
  <1> HIDE DEF avail, until
  <1>6. jobs'[k] = [st |-> jobs[k].st, attempts |-> jobs[k].attempts, avail |-> avail,
                    until |-> until, owner |-> jobs[k].owner,
                    checkpoint |-> jobs[k].checkpoint, id |-> jobs[k].id]
    BY <1>2, <1>3 DEF JobType
  <1>7. jobs'[k] \in JobType BY <1>3, <1>4, <1>6 DEF JobType
  <1> QED BY <1>3, <1>5, <1>6, <1>7 DEF QuietRow

\* Time passes.
LEMMA TickStep == ASSUME JobsInv, Tick PROVE JobsInv'
  <1>1. ago' \in [Workers -> 0..MaxAge]
    <2>1. \A w \in Workers : ago[w] \in 0..MaxAge BY DEF JobsInv, TypeOK
    <2>2. \A n \in 0..MaxAge : n < MaxAge => n + 1 \in 0..MaxAge BY JobsAssumptions
    <2> QED BY <2>1, <2>2 DEF Tick
  <1>2. LocalsOK BY <1>1, SameLocals DEF Tick
  <1> QED BY <1>2, TickQuiet, QuietStep DEF Tick

-----------------------------------------------------------------------------
(* The actions that change what quiet steps keep: a checkpoint, a lease,   *)
(* an explicit retry.                                                      *)

\* A worker that holds its row holds it under the key's latest lease.
LEMMA HoldersAreLatest ==
    ASSUME JobsInv, NEW w \in Workers, PastLease(w), Holds(w)
    PROVE  mine[w].key \in Keys /\ mine[w].lease = leases[mine[w].key]
  BY DEF JobsInv, OwnersAreLatest, PastLease, Holds

\* A checkpoint is written, or the fence refuses.
LEMMA CheckpointStep ==
    ASSUME JobsInv, NEW w \in Workers, Checkpoint(w)
    PROVE  JobsInv'
  <1>1. PastLease(w) BY DEF Checkpoint, PastLease
  <1>2. LocalsOK BY <1>1, MoveLocals DEF Checkpoint, JobsInv, TypeOK, Places
  <1>3. CASE ~Holds(w) BY <1>2, <1>3, NoRow, QuietStep DEF Checkpoint
  <1>4. CASE Holds(w)
    <2> DEFINE k == mine[w].key
               row == [jobs[k] EXCEPT !.checkpoint = mine[w].lease]
    <2>1. k \in Keys /\ mine[w].lease = leases[k] BY <1>1, <1>4, HoldersAreLatest
    <2>2. mine[w].lease \in Nat BY DEF JobsInv, TypeOK, CopyType
    <2>3. jobs' = [jobs EXCEPT ![k] = row] BY <1>4 DEF Checkpoint
    <2>4. row = [jobs[k] EXCEPT !.checkpoint = mine[w].lease] OBVIOUS
    <2>5. jobs[k] \in JobType BY <2>1 DEF JobsInv, TypeOK
    <2> HIDE DEF k, row
    <2>6. /\ row \in JobType
          /\ row.st = jobs[k].st /\ row.owner = jobs[k].owner
          /\ row.attempts = jobs[k].attempts /\ row.checkpoint = leases[k]
      BY <2>1, <2>2, <2>4, <2>5 DEF JobType
    <2>7. /\ jobs' \in [Keys -> JobType]
          /\ jobs'[k] = row
          /\ \A m \in Keys : m # k => jobs'[m] = jobs[m]
      BY <2>1, <2>3, <2>6 DEF JobsInv, TypeOK
    <2>8. \A m \in Keys : /\ jobs'[m].st = jobs[m].st
                          /\ jobs'[m].owner = jobs[m].owner
                          /\ jobs'[m].attempts = jobs[m].attempts
      BY <2>6, <2>7
    <2>9. TypeOK' BY <1>2, <2>7, <2>8 DEF JobsInv, TypeOK, LocalsOK, Checkpoint
    <2>10. OneRunning' /\ LeasesCounted' BY <2>8 DEF Checkpoint, JobsInv, OneRunning, LeasesCounted
    <2>11. CheckpointsLeased'
      <3>1. leases[k] \in Int BY <2>1 DEF JobsInv, TypeOK
      <3>2. leases' = leases BY DEF Checkpoint
      <3> QED BY <2>1, <2>6, <2>7, <3>1, <3>2 DEF JobsInv, CheckpointsLeased
    <2>12. OwnersAreLatest'
      <3>1. pc' = [pc EXCEPT ![w] = "finish"] BY DEF Checkpoint, Goto
      <3>2. \A v \in Workers : /\ PastLease(v)' => PastLease(v)
                               /\ pc'[v] # "idle" => pc[v] # "idle"
        BY <1>1, <3>1 DEF PastLease, JobsInv, TypeOK
      <3> QED BY <2>8, <3>2 DEF Checkpoint, JobsInv, OwnersAreLatest
    <2> QED BY <2>9, <2>10, <2>11, <2>12 DEF JobsInv
  <1> QED BY <1>3, <1>4

\* A job is leased, or none is due.
LEMMA LeaseStep ==
    ASSUME JobsInv, NEW w \in Workers, LeaseJob(w)
    PROVE  JobsInv'
  <1> DEFINE js == Reclaimed(ago[w])
             ks == Leasable(js, ago[w])
  <1>1. ago[w] \in Int BY JobsAssumptions DEF JobsInv, TypeOK
  <1>2. CASE ks = {} /\ jobs' = js /\ Leave(w) /\ UNCHANGED <<leases, retries>>
    <2>1. LocalsOK BY <1>2, LeaveLocals
    <2> QED BY <1>1, <1>2, <2>1, QuietReclaim, QuietStep
  <1>3. ASSUME NEW k \in ks,
               jobs' = [js EXCEPT ![k] = Leased(js[k], w)],
               leases' = [leases EXCEPT ![k] = @ + 1],
               mine' = [mine EXCEPT ![w] = Copy(k, js[k].attempts + 1, leases[k] + 1)],
               Goto(w, "work"),
               UNCHANGED <<ago, retries>>
        PROVE  JobsInv'
    <2> DEFINE n == js[k].attempts + 1
               row == Leased(js[k], w)
    <2>1. /\ k \in Keys
          /\ ~OutOfAttempts(js[k])
          /\ \A r \in Keys : js[r].st # "running"
      BY DEF Leasable
    <2>2. /\ js \in [Keys -> JobType]
          /\ \A m \in Keys :
               /\ js[m].st = "running" <=> js[m].owner # Nobody
               /\ js[m].owner \in {jobs[m].owner, Nobody}
               /\ js[m].attempts = jobs[m].attempts
               /\ js[m].checkpoint = jobs[m].checkpoint
      BY <1>1, ReclaimedFacts DEF JobsInv
    <2>3. /\ row \in JobType
          /\ row.st = "running" /\ row.owner = w
          /\ row.attempts = n /\ row.checkpoint = jobs[k].checkpoint
      BY <1>1, <2>1, <2>2, LeasedFacts
    <2>4. n = jobs[k].attempts + 1 BY <2>1, <2>2
    <2>5. leases[k] \in Nat /\ leases' \in [Keys -> Nat] BY <1>3, <2>1 DEF JobsInv, TypeOK
    <2>6. n \in 0..MaxAttempts BY <2>3 DEF JobType
    <2>7. /\ Copy(k, n, leases[k] + 1) \in CopyType
          /\ Copy(k, n, leases[k] + 1).key = k
          /\ Copy(k, n, leases[k] + 1).lease = leases[k] + 1
      BY <2>1, <2>5, <2>6, CopyTyped
    <2>8. w # Nobody BY JobsAssumptions
    <2>9. /\ mine' \in [Workers -> CopyType]
          /\ mine'[w].key = k /\ mine'[w].lease = leases[k] + 1
          /\ \A v \in Workers : v # w => mine'[v] = mine[v]
      BY <1>3, <2>7 DEF JobsInv, TypeOK
    <2> HIDE DEF row, n
    <2>10. jobs' = [js EXCEPT ![k] = row] BY <1>3 DEF row
    <2> HIDE DEF js, ks
    <2>11. /\ jobs' \in [Keys -> JobType]
           /\ jobs'[k] = row
           /\ \A m \in Keys : m # k => jobs'[m] = js[m]
      BY <2>1, <2>2, <2>3, <2>10
    <2>12. pc' \in [Workers -> Places] /\ \A v \in Workers : v # w => pc'[v] = pc[v]
      BY <1>3 DEF Goto, Places, JobsInv, TypeOK
    <2>13. TypeOK'
      BY <1>3, <2>2, <2>3, <2>5, <2>8, <2>9, <2>11, <2>12 DEF JobsInv, TypeOK
    <2>14. OneRunning' BY <2>1, <2>11 DEF OneRunning
    <2>15. CheckpointsLeased'
      BY <1>3, <2>1, <2>2, <2>3, <2>5, <2>11 DEF JobsInv, TypeOK, JobType, CheckpointsLeased
    <2>16. LeasesCounted'
      <3> DEFINE granted == MaxAttempts * retries
      <3>1. granted \in Int BY JobsAssumptions DEF JobsInv, TypeOK
      <3>2. \A m \in Keys : jobs[m].attempts \in Int /\ leases[m] \in Int
                            /\ leases[m] <= granted + jobs[m].attempts
        BY DEF JobsInv, TypeOK, JobType, LeasesCounted
      <3> HIDE DEF granted
      <3>3. \A m \in Keys : leases'[m] <= granted + jobs'[m].attempts
        BY <1>3, <2>1, <2>2, <2>3, <2>4, <2>5, <2>11, <3>1, <3>2 DEF JobsInv, TypeOK
      <3> QED BY <1>3, <3>3 DEF granted, LeasesCounted
    <2>17. OwnersAreLatest'
      <3> SUFFICES ASSUME NEW v \in Workers
                   PROVE  /\ pc'[v] # "idle" => mine'[v].key \in Keys
                          /\ \A m \in Keys : PastLease(v)' /\ mine'[v].key = m /\ jobs'[m].owner = v
                                 => mine'[v].lease = leases'[m]
        BY DEF OwnersAreLatest
      <3>1. CASE v = w BY <1>3, <2>1, <2>5, <2>9, <3>1 DEF JobsInv, TypeOK
      <3>2. CASE v # w
        <4>1. v # Nobody BY JobsAssumptions
        <4> QED BY <1>3, <2>1, <2>2, <2>3, <2>9, <2>11, <2>12, <3>2, <4>1
              DEF JobsInv, TypeOK, OwnersAreLatest, PastLease
      <3> QED BY <3>1, <3>2
    <2> QED BY <2>13, <2>14, <2>15, <2>16, <2>17 DEF JobsInv
  <1> QED BY <1>2, <1>3 DEF LeaseJob

\* A failed job is retried.
LEMMA RetryStep ==
    ASSUME JobsInv, NEW k \in Keys, Retry(k)
    PROVE  JobsInv'
  <1> DEFINE row == [jobs[k] EXCEPT !.st = "pending", !.attempts = 0, !.avail = 0]
  <1>1. jobs' = [jobs EXCEPT ![k] = row] BY DEF Retry
  <1>2. row = [jobs[k] EXCEPT !.st = "pending", !.attempts = 0, !.avail = 0] OBVIOUS
  <1>3. jobs[k] \in JobType /\ jobs[k].st = "failed" BY DEF Retry, JobsInv, TypeOK
  <1>4. 0 \in 0..MaxAttempts /\ "pending" \in Statuses BY JobsAssumptions DEF Statuses
  <1> HIDE DEF row
  <1>5. row = [st |-> "pending", attempts |-> 0, avail |-> 0, until |-> jobs[k].until,
               owner |-> jobs[k].owner, checkpoint |-> jobs[k].checkpoint, id |-> jobs[k].id]
    BY <1>2, <1>3 DEF JobType
  <1>6. row \in JobType BY <1>3, <1>4, <1>5 DEF JobType
  <1>7. row.st = "pending" /\ row.owner = Nobody /\ row.attempts = 0
        /\ row.checkpoint = jobs[k].checkpoint
    BY <1>3, <1>5 DEF JobsInv, TypeOK
  <1>8. /\ jobs' \in [Keys -> JobType]
        /\ jobs'[k] = row
        /\ \A m \in Keys : m # k => jobs'[m] = jobs[m]
    BY <1>1, <1>6 DEF JobsInv, TypeOK
  <1>9. /\ leases' = leases /\ pc' = pc /\ mine' = mine /\ ago' = ago
        /\ retries' = retries + 1 /\ retries < MaxRetries
    BY DEF Retry
  <1>10. TypeOK' BY <1>7, <1>8, <1>9, JobsAssumptions DEF JobsInv, TypeOK
  <1>11. OneRunning' BY <1>7, <1>8 DEF JobsInv, OneRunning
  <1>12. CheckpointsLeased' BY <1>7, <1>8, <1>9 DEF JobsInv, CheckpointsLeased
  <1>13. OwnersAreLatest'
    BY <1>7, <1>8, <1>9, JobsAssumptions DEF JobsInv, OwnersAreLatest, PastLease
  <1>14. LeasesCounted'
    <2> DEFINE granted == MaxAttempts * retries
    <2>1. granted \in Int /\ MaxAttempts * retries' = granted + MaxAttempts
      BY <1>9, JobsAssumptions DEF JobsInv, TypeOK
    <2>2. \A m \in Keys : /\ jobs[m].attempts \in 0..MaxAttempts /\ leases[m] \in Int
                          /\ leases[m] <= granted + jobs[m].attempts
      BY DEF JobsInv, TypeOK, JobType, LeasesCounted
    <2> HIDE DEF granted
    <2>3. \A m \in Keys : leases'[m] <= (granted + MaxAttempts) + jobs'[m].attempts
      BY <1>7, <1>8, <1>9, <2>1, <2>2, JobsAssumptions
    <2> QED BY <2>1, <2>3 DEF LeasesCounted
  <1> QED BY <1>10, <1>11, <1>12, <1>13, <1>14 DEF JobsInv

-----------------------------------------------------------------------------
(* The theorems.                                                           *)

\* Every step keeps the invariant, stuttering ones included.
LEMMA JobsStep == JobsInv /\ [Next]_vars => JobsInv'
  <1> SUFFICES ASSUME JobsInv, [Next]_vars PROVE JobsInv' OBVIOUS
  <1>1. ASSUME NEW w \in Workers, NEW k \in Keys, Wake(w, k) PROVE JobsInv'
    BY <1>1, WakeStep
  <1>2. ASSUME NEW w \in Workers, Step(w) PROVE JobsInv'
    BY <1>2, EnqueueStep, LeaseStep, WorkEndsStep, CheckpointStep, FinishStep DEF Step
  <1>3. ASSUME NEW w \in Workers, Crash(w) PROVE JobsInv' BY <1>3, CrashStep
  <1>4. ASSUME NEW k \in Keys, Retry(k) PROVE JobsInv' BY <1>4, RetryStep
  <1>5. CASE ListJobs BY <1>5, ListJobsStep
  <1>6. CASE Tick BY <1>6, TickStep
  <1>7. CASE UNCHANGED vars
    BY <1>7 DEF vars, JobsInv, TypeOK, OneRunning, OwnersAreLatest, PastLease,
                CheckpointsLeased, LeasesCounted
  <1> QED BY <1>1, <1>2, <1>3, <1>4, <1>5, <1>6, <1>7 DEF Next

\* The invariant of jobs.rs: rows are typed and only running ones have an
\* owner, one job runs, holders hold the latest lease, checkpoints come from
\* leases, and every lease is a counted or forgiven attempt.
THEOREM JobsInvariant == Spec => []JobsInv
  BY JobsInit, JobsStep, PTL DEF Spec

\* Every row and local keeps its shape, and exactly the running rows of
\* background_jobs have an owner.
THEOREM JobsTypeCorrect == Spec => []TypeOK
  <1>1. JobsInv => TypeOK BY DEF JobsInv
  <1> QED BY <1>1, JobsInvariant, PTL

\* lease_job lets one job of a kind run at a time, however stale the clocks
\* its callers read.
THEOREM OneJobRuns == Spec => []OneRunning
  <1>1. JobsInv => OneRunning BY DEF JobsInv
  <1> QED BY <1>1, JobsInvariant, PTL

\* Between two explicit retries a key is leased at most max_attempts times.
THEOREM LeasesAreBounded == Spec => []AttemptsBounded
  <1>1. JobsInv => AttemptsBounded
    <2> SUFFICES ASSUME JobsInv, NEW k \in Keys PROVE leases[k] <= MaxAttempts * (1 + retries)
      BY DEF AttemptsBounded
    <2> DEFINE granted == MaxAttempts * retries
    <2>1. granted \in Int /\ MaxAttempts * (1 + retries) = granted + MaxAttempts
      BY JobsAssumptions DEF JobsInv, TypeOK
    <2>2. jobs[k].attempts \in 0..MaxAttempts /\ leases[k] \in Int
          /\ leases[k] <= granted + jobs[k].attempts
      BY DEF JobsInv, TypeOK, JobType, LeasesCounted
    <2> HIDE DEF granted
    <2> QED BY <2>1, <2>2, JobsAssumptions
  <1> QED BY <1>1, JobsInvariant, PTL

\* A worker whose key was leased again since changes no job: checkpoint_job
\* and finish_job fence it.
THEOREM StaleWorkersFenced == Spec => StaleWorkersAreFenced
  <1> DEFINE Fenced == \A w \in Workers :
                Superseded(w) /\ (Checkpoint(w) \/ Finish(w)) => UNCHANGED jobs
  <1>1. JobsInv /\ [Next]_vars => Fenced
    <2> SUFFICES ASSUME JobsInv, NEW w \in Workers, Superseded(w), Checkpoint(w) \/ Finish(w)
                 PROVE  UNCHANGED jobs
      OBVIOUS
    <2>1. PastLease(w) BY DEF Superseded, PastLease
    <2>2. ~Holds(w) BY <2>1, HoldersAreLatest DEF Superseded
    <2> QED BY <2>2 DEF Checkpoint, Finish, Finished
  <1>2. Spec => [][Fenced]_vars BY <1>1, JobsInvariant, PTL DEF Spec
  <1> QED BY <1>2 DEF StaleWorkersAreFenced

\* Progress is never lost: the checkpoint of a key only moves to that of a
\* later lease, and done stays done.
THEOREM ProgressKept == Spec => ProgressIsKept
  <1> DEFINE Kept == \A k \in Keys : /\ jobs'[k].checkpoint >= jobs[k].checkpoint
                                     /\ jobs[k].st = "done" => jobs'[k].st = "done"
  <1>1. JobsInv /\ [Next]_vars => Kept
    <2> SUFFICES ASSUME JobsInv, [Next]_vars PROVE Kept OBVIOUS
    <2>1. \A k \in Keys : jobs[k].checkpoint \in Int
      BY DEF JobsInv, TypeOK, JobType
    <2>2. QuietJobs => Kept BY <2>1 DEF QuietJobs, QuietRow
    <2>3. jobs' = jobs => Kept BY <2>1
    <2>4. ASSUME NEW w \in Workers, Enqueue(w) PROVE Kept BY <2>2, <2>4, EnqueueQuiet
    <2>5. ASSUME NEW w \in Workers, LeaseJob(w) PROVE Kept
      <3> DEFINE js == Reclaimed(ago[w])
                 ks == Leasable(js, ago[w])
      <3>1. ago[w] \in Int BY JobsAssumptions DEF JobsInv, TypeOK
      <3>2. CASE jobs' = js BY <2>2, <3>1, <3>2, QuietReclaim
      <3>3. ASSUME NEW k \in ks, jobs' = [js EXCEPT ![k] = Leased(js[k], w)] PROVE Kept
        <4>1. k \in Keys /\ js[k].st = "pending" /\ ~OutOfAttempts(js[k]) BY DEF Leasable
        <4>2. /\ js \in [Keys -> JobType]
              /\ \A m \in Keys : /\ js[m].checkpoint = jobs[m].checkpoint
                                 /\ jobs[m].st = "done" => js[m].st = "done"
          BY <3>1, ReclaimedFacts DEF JobsInv
        <4>3. Leased(js[k], w).checkpoint = js[k].checkpoint
          BY <3>1, <4>1, <4>2, LeasedFacts
        <4> QED BY <2>1, <3>3, <4>1, <4>2, <4>3
      <3> QED BY <2>5, <3>2, <3>3 DEF LeaseJob
    <2>6. ASSUME NEW w \in Workers, Checkpoint(w) PROVE Kept
      <3>1. CASE Holds(w)
        <4>1. PastLease(w) BY <2>6 DEF Checkpoint, PastLease
        <4>2. mine[w].key \in Keys /\ mine[w].lease = leases[mine[w].key]
          BY <3>1, <4>1, HoldersAreLatest
        <4>3. jobs[mine[w].key].checkpoint <= mine[w].lease
          BY <4>2 DEF JobsInv, CheckpointsLeased
        <4>4. jobs' = [jobs EXCEPT ![mine[w].key].checkpoint = mine[w].lease]
          BY <2>6, <3>1 DEF Checkpoint
        <4>5. jobs \in [Keys -> JobType] BY DEF JobsInv, TypeOK
        <4> QED BY <2>1, <4>2, <4>3, <4>4, <4>5 DEF JobType
      <3> QED BY <2>3, <2>6, <3>1 DEF Checkpoint
    <2>7. ASSUME NEW w \in Workers, Finish(w) PROVE Kept
      <3>1. PastLease(w) BY <2>7 DEF Finish, PastLease
      <3>2. \E st \in {"done", "failed", "pending"} : jobs' = Finished(w, st)
        BY <2>7 DEF Finish
      <3> QED BY <2>2, <3>1, <3>2, FinishedQuiet
    <2>8. ASSUME NEW k \in Keys, Retry(k) PROVE Kept
      <3>1. jobs[k].st = "failed" /\ jobs \in [Keys -> JobType] BY <2>8 DEF Retry, JobsInv, TypeOK
      <3> QED BY <2>1, <2>8, <3>1 DEF Retry, JobType
    <2>9. ListJobs => Kept BY <2>2, QuietReclaim DEF ListJobs
    <2>10. Tick => Kept BY <2>2, TickQuiet
    <2> HIDE DEF Kept
    <2> QED BY <2>3, <2>4, <2>5, <2>6, <2>7, <2>8, <2>9, <2>10
          DEF Next, Step, Wake, WorkEnds, Crash, vars
  <1>2. Spec => [][Kept]_vars BY <1>1, JobsInvariant, PTL DEF Spec
  <1> QED BY <1>2 DEF ProgressIsKept

-----------------------------------------------------------------------------
(* Windows: the strengthening.                                             *)

FilerPlaces == {"stage", "accept", "mark"}
OrganizerPlaces == {"floor", "head", "delta", "judge", "skip"}
CanaryPlaces == {"grade", "release"}
RowPlaces == {"judge", "skip", "end"} \cup CanaryPlaces
WindowPlaces == {"free", "looked", "asked", "end"} \cup FilerPlaces \cup OrganizerPlaces
                \cup CanaryPlaces

RunType == [by : Workers \cup {Nobody}, to : Nat, delta : SUBSET Nat,
            status : {"running", "done", "error"},
            outcome : {"none", "done", "error", "skipped", "expired", "reverted",
                       "reverted_by_canary"}]
WindowType == [from : Nat, to : Nat, items : SUBSET Nat, ok : BOOLEAN]

LocalShapes ==
    /\ at \in [Workers -> WindowPlaces]
    /\ win \in [Workers -> WindowType]
    /\ \A w \in Workers :
        win[w].from <= head /\ win[w].to <= head /\ win[w].items \subseteq items
RunShapes ==
    /\ rows \subseteq RunType
    /\ \A r \in rows : r.to <= head /\ r.delta \subseteq items
    /\ failures \in 0..(Ttl - 1) /\ wait \in Nat
FilingShapes == cursor \in 0..head /\ staged \subseteq items /\ linked \subseteq items
LedgerShapes ==
    /\ scenario \in Scenarios /\ mishaps \in 0..scenario.mishaps
    /\ head \in 0..scenario.seqs /\ items \subseteq 1..head
Shapes == LedgerShapes /\ FilingShapes /\ RunShapes /\ LocalShapes

\* Where a worker is inside its call and where it is around it go together.
Fits(place, around) ==
    /\ User("any") => around = "free"
    /\ User("basic_filing") => around \in {"free", "looked", "asked", "end"} \cup FilerPlaces
    /\ User("organize") => around \notin FilerPlaces
    /\ ~User("any") =>
        /\ place = "idle" => around \in {"free", "looked"} \cup CanaryPlaces
        /\ place \in {"enqueue", "lease"} => around = "asked"
        /\ place = "work" => around \in FilerPlaces \cup OrganizerPlaces \cup {"end"}
        /\ place \in {"checkpoint", "finish", "fail"} => around = "end"
CallPlaces ==
    \A w \in Workers :
        /\ Fits(pc[w], at[w])
        /\ w \notin scenario.workers => pc[w] = "idle" /\ at[w] = "free"

\* A worker has a row from its pass's start to its call's end, and one only.
OwnRows ==
    \A w \in Workers :
        /\ \A r, q \in Own(w) : r = q
        /\ Own(w) # {} => at[w] \in RowPlaces

\* The row of a pass under way is not done; the one being graded ran.  Only a
\* window that was taken back ends at 0.
GoodRow(r) ==
    /\ r.status = "done" => r.to = 0 \/ r.outcome \in {"done", "expired", "reverted"}
    /\ r.outcome \in {"none", "done", "expired", "reverted"} /\ r.delta # {} => r.to # 0
InPlace(r, place) ==
    /\ place \in {"judge", "skip"} => r.status # "done"
    /\ place = "judge" => r.outcome = "none"
    /\ place = "grade" => r.outcome = "done"
RowsFollow ==
    /\ ~User("organize") => rows = {}
    /\ \A r \in rows :
        /\ GoodRow(r)
        /\ \A w \in Workers : r.by = w => InPlace(r, at[w])

\* The organizer is called when something is past its mark, so its windows
\* end past 0.
Begun ==
    \A w \in Workers : User("organize") =>
        /\ at[w] # "free" => head # 0
        /\ at[w] = "delta" => win[w].to # 0

\* A pass that counts for the items it loaded.
Counts(r) ==
    /\ r.status = "done"
    /\ \/ r.outcome \in {"done", "expired", "reverted"}
       \/ r.outcome = "reverted_by_canary" /\ ~OneProcess
Settled(i) == \E r \in rows : i \in r.delta /\ Counts(r)
SettledTo(n) == \A i \in items : i <= n => Settled(i)

\* Everything below the floor of a pass under way is settled; a row whose
\* window counts, or may come to, covers what is below its end.
Based == \A w \in Workers : at[w] \in {"head", "delta"} => SettledTo(win[w].from)
Claimed ==
    \A r \in rows : r.by # Nobody \/ r.status = "done" =>
        \A i \in items : i <= r.to => i \in r.delta \/ Settled(i)

\* With one process the floor of its pass is the mark, and the items of its
\* pass are past every other window that is done.
Fresh ==
    OneProcess =>
        /\ \A w \in Workers : at[w] \in {"head", "delta"} => win[w].from = Mark
        /\ \A r, q \in rows : r.by # Nobody /\ q # r /\ q.status = "done" =>
            \A i \in r.delta : i > q.to

\* What the filer has read, staged and accepted on its way to the cursor.
Filed(S, n) == \A i \in items : i <= n => i \in S
Filing ==
    User("basic_filing") =>
        /\ Filed(linked, cursor)
        /\ \A w \in Workers :
            /\ at[w] = "looked" => Filed(linked, win[w].from)
            /\ at[w] \in {"asked", "stage"} => Filed(linked \cup win[w].items, win[w].to)
            /\ at[w] = "accept" => Filed(linked \cup staged, win[w].to)
            /\ at[w] = "mark" => Filed(linked, win[w].to)

Organizing == RowsFollow /\ Begun /\ Based /\ Claimed /\ Fresh

WindowsInv == JobsInv /\ Shapes /\ CallPlaces /\ OwnRows /\ Organizing /\ Filing

-----------------------------------------------------------------------------
(* What the statements read.                                               *)

\* The scenario is one the model allows.
LEMMA ScenarioFacts ==
    ASSUME Shapes
    PROVE  /\ scenario.user \in {"any", "basic_filing", "organize"}
           /\ scenario.workers \subseteq Workers /\ IsFiniteSet(scenario.workers)
           /\ scenario.seqs \in Nat /\ scenario.seqs <= MaxSeq /\ MaxSeq \in Nat
           /\ scenario.cap \in Nat /\ scenario.cap # 0
           /\ scenario.mishaps \in Nat /\ mishaps \in Nat
           /\ head \in Nat /\ head <= scenario.seqs
           /\ Ttl \in Nat /\ Ttl # 0
  BY WindowsAssumptions DEF Shapes, LedgerShapes, FilingShapes, RunShapes, LocalShapes

\* The greatest of some numbers that have a bound.
LEMMA MaxFacts ==
    ASSUME NEW S, S \subseteq Nat, S # {}, NEW n \in Nat, \A x \in S : x <= n
    PROVE  Max(S) \in S /\ \A y \in S : y <= Max(S)
  <1> DEFINE T == {n - x : x \in S}
  <1>1. T \subseteq Nat /\ T # {}
    <2>1. \A x \in S : n - x \in Nat OBVIOUS
    <2> QED BY <2>1
  <1>2. PICK t \in T : \A u \in T : t <= u
    <2> HIDE DEF T
    <2> QED BY <1>1, LeastNat
  <1>3. PICK m \in S : t = n - m BY <1>2
  <1>4. ASSUME NEW y \in S PROVE m >= y
    <2>1. n - y \in T BY <1>4
    <2>2. n - m <= n - y BY <1>2, <1>3, <2>1
    <2> QED BY <2>2
  <1>5. Max(S) \in S /\ \A y \in S : Max(S) >= y
    <2>1. \E x \in S : \A y \in S : x >= y BY <1>4
    <2> QED BY <2>1 DEF Max
  <1> QED BY <1>5

\* The mark is the end of a done window, or 0, and no done window ends past it.
LEMMA MarkFacts ==
    ASSUME Shapes
    PROVE  /\ Mark \in Nat /\ Mark <= head
           /\ Mark = 0 \/ \E r \in rows : r.status = "done" /\ r.to = Mark
           /\ \A r \in rows : r.status = "done" => r.to <= Mark
  <1> DEFINE S == {0} \cup {r.to : r \in {q \in rows : q.status = "done"}}
  <1>1. S \subseteq Nat /\ S # {} /\ head \in Nat /\ \A x \in S : x <= head
    BY ScenarioFacts DEF Shapes, LedgerShapes, FilingShapes, RunShapes, LocalShapes, RunType
  <1>2. Mark = Max(S) BY DEF Mark
  <1>3. Max(S) \in S /\ \A y \in S : y <= Max(S)
    <2> HIDE DEF S
    <2> QED BY <1>1, MaxFacts
  <1> QED BY <1>1, <1>2, <1>3

\* A window is a part of the items past its floor without gaps, and all of
\* them if the limit does not cut it.
LEMMA ItemsSinceFacts ==
    ASSUME Shapes, NEW floor \in Nat
    PROVE  LET window == ItemsSince(floor)
           IN  /\ window \subseteq items /\ \A i \in window : i > floor
               /\ \A i \in items, m \in window : floor < i /\ i <= m => i \in window
               /\ Cardinality(window) < scenario.cap => \A i \in items : i > floor => i \in window
               /\ window # {} =>
                    Max(window) \in window /\ \A i \in window : i <= Max(window)
               /\ IsFiniteSet(window)
  <1> DEFINE window == ItemsSince(floor)
             Upto(n) == {j \in items : floor < j /\ j <= n}
             cap == scenario.cap
  <1>1. items \subseteq Nat /\ head \in Nat /\ cap \in Nat /\ cap # 0 /\ \A i \in items : i <= head
    BY ScenarioFacts DEF Shapes, LedgerShapes, FilingShapes, RunShapes, LocalShapes
  <1>2. window = {i \in items : i > floor /\ Cardinality(Upto(i)) <= cap} BY DEF ItemsSince
  <1>3. ASSUME NEW n \in Nat PROVE IsFiniteSet(Upto(n)) /\ Cardinality(Upto(n)) \in Nat
    <2>1. IsFiniteSet(0..n) BY FS_Interval
    <2>2. \A j \in items : j <= n => j \in 0..n BY <1>1, <1>3
    <2>3. Upto(n) \subseteq 0..n BY <2>2
    <2> HIDE DEF Upto
    <2>4. IsFiniteSet(Upto(n)) BY <2>1, <2>3, FS_Subset
    <2> QED BY <2>4, FS_CardinalityType
  <1>4. IsFiniteSet(window)
    <2>1. IsFiniteSet(0..head) BY <1>1, FS_Interval
    <2>2. \A i \in items : i \in 0..head BY <1>1
    <2>3. window \subseteq 0..head BY <1>2, <2>2
    <2> HIDE DEF window
    <2> QED BY <2>1, <2>3, FS_Subset
  <1>5. ASSUME NEW i \in items, NEW m \in window, floor < i, i <= m PROVE i \in window
    <2>1. m \in Nat /\ i \in Nat /\ Cardinality(Upto(m)) <= cap BY <1>1, <1>2
    <2>2. Upto(i) \subseteq Upto(m)
      <3>1. \A j \in items : j <= i => j <= m BY <1>1, <1>5, <2>1
      <3> QED BY <3>1
    <2>3. Cardinality(Upto(i)) <= Cardinality(Upto(m))
      <3> HIDE DEF Upto
      <3> QED BY <1>3, <2>1, <2>2, FS_Subset
    <2>4. Cardinality(Upto(i)) <= cap
      <3> HIDE DEF Upto
      <3> QED BY <1>1, <1>3, <2>1, <2>3
    <2> QED BY <1>2, <1>5, <2>4
  <1>6. ASSUME Cardinality(window) < cap, NEW i \in items, i > floor, i \notin window
        PROVE  FALSE
    <2> DEFINE Left == {j \in items : j > floor /\ j \notin window}
    <2>1. PICK k \in Left : \A j \in Left : k <= j
      <3>1. Left \subseteq Nat /\ Left # {} BY <1>1, <1>6
      <3> HIDE DEF Left
      <3> QED BY <3>1, LeastNat
    <2>2. k \in Nat /\ k > floor /\ k \in items /\ k \notin window BY <1>1, <2>1
    <2>3. Upto(k) \subseteq window \cup {k}
      <3>1. \A j \in items : j > floor /\ j <= k /\ j \notin window => j = k
        BY <1>1, <2>1, <2>2
      <3>2. \A j \in items : floor < j <=> j > floor BY <1>1
      <3> HIDE DEF window, Left
      <3> QED BY <3>1, <3>2
    <2>4. IsFiniteSet(window \cup {k}) /\ Cardinality(window \cup {k}) = Cardinality(window) + 1
          /\ Cardinality(window) \in Nat
      <3> HIDE DEF window
      <3> QED BY <1>4, <2>2, FS_AddElement, FS_CardinalityType
    <2>5. Cardinality(Upto(k)) <= cap
      <3> HIDE DEF window, Upto
      <3>1. Cardinality(Upto(k)) <= Cardinality(window \cup {k}) BY <2>3, <2>4, FS_Subset
      <3> QED BY <1>1, <1>3, <1>6, <2>2, <2>4, <3>1
    <2> QED BY <1>2, <2>2, <2>5
  <1>7. window # {} => Max(window) \in window /\ \A i \in window : i <= Max(window)
    <2>1. window \subseteq Nat /\ \A i \in window : i <= head BY <1>1, <1>2
    <2> HIDE DEF window
    <2> QED BY <1>1, <2>1, MaxFacts
  <1>8. window \subseteq items /\ \A i \in window : i > floor BY <1>2
  <1> HIDE DEF window
  <1> QED BY <1>4, <1>5, <1>6, <1>7, <1>8 DEF window

-----------------------------------------------------------------------------
(* Every step is a step of Jobs.                                           *)

\* The keys that calls ask for are keys of Jobs.
LEMMA KeysAsked ==
    ASSUME WindowsInv, NEW w \in Workers
    PROVE  /\ ItemsSince(win[w].from) # {} => <<win[w].from, Max(ItemsSince(win[w].from))>> \in Keys
           /\ OrganizeKey(win[w].from) \in Keys
           /\ scenario.keys \subseteq Keys
  <1> DEFINE from == win[w].from
             window == ItemsSince(from)
             last == Max(window)
  <1>1. /\ from \in Nat /\ from <= head /\ head \in Nat /\ head <= MaxSeq /\ MaxSeq \in Nat
        /\ items \subseteq 1..head
    BY ScenarioFacts DEF WindowsInv, Shapes, LedgerShapes, FilingShapes, RunShapes, LocalShapes, WindowType
  <1>2. Keys = {k \in (0..MaxSeq) \X (0..MaxSeq) : k[1] <= k[2]} /\ scenario.keys \subseteq Keys
    BY WindowsAssumptions DEF WindowsInv, Shapes, LedgerShapes, FilingShapes, RunShapes, LocalShapes
  <1>3. ASSUME window # {} PROVE last \in Nat /\ from < last /\ last <= head
    <2>1. window \subseteq items /\ (\A i \in window : i > from) /\ last \in window
      BY <1>1, <1>3, ItemsSinceFacts DEF WindowsInv
    <2> HIDE DEF window, last
    <2> QED BY <1>1, <2>1
  <1>4. \A a, b \in Nat : a <= b /\ b <= MaxSeq => <<a, b>> \in Keys BY <1>1, <1>2
  <1>5. window # {} => <<from, last>> \in Keys
    <2> HIDE DEF window, last, from
    <2> QED BY <1>1, <1>3, <1>4
  <1>6. OrganizeKey(from) \in Keys BY <1>1, <1>4 DEF OrganizeKey
  <1> QED BY <1>2, <1>5, <1>6

\* What the users do around and inside a lease leaves the jobs alone.
Inner(w) ==
    \/ Look(w) \/ Stage(w) \/ Accept(w) \/ SetCursor(w)
    \/ ReadFloor(w) \/ ReadHead(w) \/ InsertRun(w)
    \/ Organized(w) \/ SkipRelease(w) \/ SkipDone(w) \/ ClassifierFails(w) \/ WorkFails(w)
    \/ GradeWell(w) \/ RevertRun(w) \/ ReleaseWindow(w)

LEMMA InnerKeepsJobs == ASSUME NEW w \in Workers, Inner(w) PROVE UNCHANGED vars
  <1>1. Look(w) => UNCHANGED vars BY DEF Look
  <1>2. \A a, b : Works(w, a, b) => UNCHANGED vars BY DEF Works
  <1>3. Stage(w) \/ Accept(w) \/ SetCursor(w) => UNCHANGED vars
    BY <1>2 DEF Stage, Accept, SetCursor
  <1>4. ReadFloor(w) \/ ReadHead(w) \/ InsertRun(w) => UNCHANGED vars
    BY <1>2 DEF ReadFloor, ReadHead, InsertRun
  <1>5. Organized(w) \/ SkipRelease(w) \/ SkipDone(w) => UNCHANGED vars
    BY <1>2 DEF Organized, SkipRelease, SkipDone
  <1>6. ClassifierFails(w) \/ WorkFails(w) => UNCHANGED vars BY DEF ClassifierFails, WorkFails
  <1>7. GradeWell(w) \/ RevertRun(w) \/ ReleaseWindow(w) => UNCHANGED vars
    BY DEF GradeWell, RevertRun, ReleaseWindow
  <1> QED BY <1>1, <1>3, <1>4, <1>5, <1>6, <1>7 DEF Inner

\* The steps, sorted.
LEMMA WindowsCases ==
    ASSUME WindowsNext
    PROVE  \/ Append \/ RetryAny \/ Doctor \/ TimePasses
           \/ \E w \in Workers :
                \/ Inner(w) \/ AskToFile(w) \/ AskToOrganize(w) \/ AskAny(w) \/ EnqueueAsked(w)
                \/ Lease1(w) \/ EndWork(w) \/ EndAnyWork(w) \/ CheckpointWork(w)
                \/ FinishWork(w) \/ Die(w)
  BY DEF WindowsNext, Ask, Proceed, Inner

\* Windows uses Jobs as it may be used.
LEMMA WindowsStepOfJobs == WindowsInv /\ [WindowsNext]_wvars => [Next]_vars
  <1> SUFFICES ASSUME WindowsInv, WindowsNext PROVE Next \/ UNCHANGED vars
    BY DEF wvars
  <1>1. Append => UNCHANGED vars BY DEF Append
  <1>2. RetryAny => Next
    <2>1. \A k \in scenario.keys : k \in Keys
      BY WindowsAssumptions DEF WindowsInv, Shapes, LedgerShapes, FilingShapes, RunShapes, LocalShapes
    <2> QED BY <2>1 DEF RetryAny, Next
  <1>3. Doctor \/ TimePasses => Next BY DEF Doctor, TimePasses, Next
  <1>4. ASSUME NEW w \in Workers, Inner(w) PROVE UNCHANGED vars BY <1>4, InnerKeepsJobs
  <1>5. ASSUME NEW w \in Workers, AskToFile(w) PROVE Next \/ UNCHANGED vars
    BY <1>5, KeysAsked DEF AskToFile, Next
  <1>6. ASSUME NEW w \in Workers, AskToOrganize(w) PROVE Next
    BY <1>6, KeysAsked DEF AskToOrganize, Next
  <1>7. ASSUME NEW w \in Workers, AskAny(w) PROVE Next
    BY <1>7, KeysAsked DEF AskAny, Next
  <1>8. ASSUME NEW w \in Workers, EnqueueAsked(w) \/ Lease1(w) PROVE Next
    BY <1>8 DEF EnqueueAsked, Lease1, Next, Step
  <1>9. ASSUME NEW w \in Workers,
               EndWork(w) \/ EndAnyWork(w) \/ CheckpointWork(w) \/ FinishWork(w)
        PROVE  Next
    BY <1>9 DEF EndWork, EndAnyWork, CheckpointWork, FinishWork, Next, Step
  <1>10. ASSUME NEW w \in Workers, Die(w) PROVE Next \/ UNCHANGED vars
    BY <1>10 DEF Die, Next
  <1> QED BY <1>1, <1>2, <1>3, <1>4, <1>5, <1>6, <1>7, <1>8, <1>9, <1>10, WindowsCases

-----------------------------------------------------------------------------
(* Where the workers are.                                                  *)

\* A worker that is in a call, or around one, is one of the scenario's.
LEMMA MoveFits ==
    ASSUME WindowsInv, UNCHANGED scenario, NEW w \in Workers, NEW p, NEW l,
           pc' = [pc EXCEPT ![w] = p], at' = [at EXCEPT ![w] = l], Fits(p, l),
           w \in scenario.workers \/ pc[w] # "idle" \/ at[w] # "free"
    PROVE  CallPlaces'
  <1>1. w \in scenario.workers BY DEF WindowsInv, CallPlaces
  <1>2. at \in [Workers -> WindowPlaces] /\ pc \in [Workers -> Places]
    BY DEF WindowsInv, Shapes, LedgerShapes, FilingShapes, RunShapes, LocalShapes, JobsInv, TypeOK
  <1>3. ASSUME NEW v \in Workers
        PROVE  /\ Fits(pc'[v], at'[v])
               /\ v \notin scenario.workers => pc'[v] = "idle" /\ at'[v] = "free"
    <2>1. CASE v = w BY <1>1, <1>2, <2>1
    <2>2. CASE v # w
      <3>1. pc'[v] = pc[v] /\ at'[v] = at[v] BY <1>2, <2>2
      <3> QED BY <3>1 DEF WindowsInv, CallPlaces
    <2> QED BY <2>1, <2>2
  <1>4. \A a, b : Fits(a, b) => Fits(a, b)' BY DEF Fits, User
  <1>5. \A v \in Workers : Fits(pc[v], at[v])' <=> Fits(pc'[v], at'[v]) BY DEF Fits, User
  <1> QED BY <1>3, <1>5 DEF CallPlaces

\* The job's part of a step.
LEMMA SamePc == ASSUME UNCHANGED vars, NEW w \in Workers, WindowsInv
                PROVE  pc' = [pc EXCEPT ![w] = pc[w]]
  BY DEF vars, WindowsInv, JobsInv, TypeOK
LEMMA SameAt == ASSUME UNCHANGED at, NEW w \in Workers, WindowsInv
                PROVE  at' = [at EXCEPT ![w] = at[w]]
  BY DEF WindowsInv, Shapes, LedgerShapes, FilingShapes, RunShapes, LocalShapes

LEMMA InnerFits ==
    ASSUME WindowsInv, NEW w \in Workers, Inner(w)
    PROVE  CallPlaces'
  <1>1. pc' = [pc EXCEPT ![w] = pc[w]] BY InnerKeepsJobs, SamePc
  <1>2. Fits(pc[w], at[w]) BY DEF WindowsInv, CallPlaces
  <1> USE DEF FilerPlaces, OrganizerPlaces, CanaryPlaces
  <1>3. CASE Look(w)
    <2>1. Fits(pc[w], "looked") BY <1>2, <1>3 DEF Look, Fits, User
    <2> QED BY <1>1, <1>3, <2>1, MoveFits DEF Look, At
  <1>4. ASSUME NEW a, NEW b, Works(w, a, b), UNCHANGED scenario,
               \/ a \in FilerPlaces /\ b \in FilerPlaces \cup {"end"}
               \/ a \in OrganizerPlaces /\ b \in OrganizerPlaces \cup {"end"}
        PROVE  CallPlaces'
    <2>1. pc[w] = "work" /\ at[w] = a /\ at' = [at EXCEPT ![w] = b] BY <1>4 DEF Works, At
    <2>2. Fits("work", a) BY <1>2, <2>1
    <2>3. CASE a \in FilerPlaces /\ b \in FilerPlaces \cup {"end"}
      <3>1. User("basic_filing") /\ ~User("any") /\ ~User("organize")
        BY <2>2, <2>3, ScenarioFacts DEF Fits, User, WindowsInv
      <3>2. Fits("work", b) BY <2>3, <3>1 DEF Fits
      <3> QED BY <1>1, <1>4, <2>1, <3>2, MoveFits
    <2>4. CASE a \in OrganizerPlaces /\ b \in OrganizerPlaces \cup {"end"}
      <3>1. ~User("basic_filing") /\ ~User("any") BY <2>2, <2>4 DEF Fits, User
      <3>2. Fits("work", b) BY <2>4, <3>1 DEF Fits
      <3> QED BY <1>1, <1>4, <2>1, <3>2, MoveFits
    <2> QED BY <1>4, <2>3, <2>4
  <1>5. CASE Stage(w) \/ Accept(w) \/ SetCursor(w)
    BY <1>4, <1>5 DEF Stage, Accept, SetCursor, Works
  <1>6. CASE ReadFloor(w) \/ ReadHead(w) \/ InsertRun(w)
    BY <1>4, <1>6 DEF ReadFloor, ReadHead, InsertRun, Works
  <1>7. CASE Organized(w) \/ SkipRelease(w) \/ SkipDone(w)
    BY <1>4, <1>7 DEF Organized, SkipRelease, SkipDone, Works
  <1>8. CASE ClassifierFails(w) \/ WorkFails(w)
    <2>1. pc[w] = "work" /\ at' = [at EXCEPT ![w] = "end"] /\ UNCHANGED scenario
      BY <1>8 DEF ClassifierFails, WorkFails, At
    <2>2. ~User("any")
      <3>1. at[w] # "free" BY <1>8 DEF ClassifierFails, WorkFails
      <3> QED BY <1>2, <3>1 DEF Fits
    <2>3. Fits(pc[w], "end") BY <2>1, <2>2 DEF Fits, User
    <2> QED BY <1>1, <2>1, <2>3, MoveFits
  <1>9. CASE GradeWell(w) \/ RevertRun(w) \/ ReleaseWindow(w)
    <2>1. /\ UNCHANGED scenario /\ at[w] \in {"grade", "release"}
          /\ at' = [at EXCEPT ![w] = "free"] \/ at' = [at EXCEPT ![w] = "release"]
      BY <1>9 DEF GradeWell, RevertRun, ReleaseWindow, Forgets, At
    <2>2. pc[w] = "idle" /\ ~User("any") /\ ~User("basic_filing")
      <3>1. pc[w] \in Places BY DEF WindowsInv, JobsInv, TypeOK
      <3> QED BY <1>2, <2>1, <3>1 DEF Fits, User, Places
    <2>3. Fits(pc[w], "free") /\ Fits(pc[w], "release") BY <2>2 DEF Fits, User
    <2> QED BY <1>1, <2>1, <2>3, MoveFits
  <1> QED BY <1>3, <1>5, <1>6, <1>7, <1>8, <1>9 DEF Inner

LEMMA AskFits ==
    ASSUME WindowsInv, NEW w \in Workers, AskToFile(w) \/ AskToOrganize(w) \/ AskAny(w)
    PROVE  CallPlaces'
  <1> USE DEF FilerPlaces, OrganizerPlaces, CanaryPlaces
  <1>1. Fits(pc[w], at[w]) /\ pc[w] \in Places
    BY DEF WindowsInv, CallPlaces, JobsInv, TypeOK
  <1>2. \A k : Wake(w, k) => pc[w] = "idle" /\ pc' = [pc EXCEPT ![w] = "enqueue"]
    BY DEF Wake, Goto
  <1>3. CASE AskAny(w)
    <2>1. Fits("enqueue", at[w]) BY <1>1, <1>3 DEF AskAny, Fits, User
    <2> QED BY <1>2, <1>3, <2>1, SameAt, MoveFits DEF AskAny, locals
  <1>4. CASE AskToOrganize(w)
    <2>1. Fits("enqueue", "asked") BY <1>4 DEF AskToOrganize, Fits, User
    <2> QED BY <1>2, <1>4, <2>1, MoveFits DEF AskToOrganize, At
  <1>5. CASE AskToFile(w)
    <2>1. CASE ItemsSince(win[w].from) = {}
      <3>1. pc' = [pc EXCEPT ![w] = pc[w]] BY <1>5, <2>1, SamePc DEF AskToFile
      <3>2. at' = [at EXCEPT ![w] = "free"] /\ UNCHANGED scenario /\ at[w] = "looked"
        BY <1>5, <2>1 DEF AskToFile, Forgets, At
      <3>3. Fits(pc[w], "free")
        BY <1>1, <1>5, <3>2 DEF AskToFile, Fits, User, Places
      <3> QED BY <3>1, <3>2, <3>3, MoveFits
    <2>2. CASE ItemsSince(win[w].from) # {}
      <3>1. Fits("enqueue", "asked") BY <1>5 DEF AskToFile, Fits, User
      <3> QED BY <1>2, <1>5, <2>2, <3>1, MoveFits DEF AskToFile, At
    <2> QED BY <2>1, <2>2
  <1> QED BY <1>3, <1>4, <1>5

LEMMA CallFits ==
    ASSUME WindowsInv, NEW w \in Workers,
           \/ EnqueueAsked(w) \/ Lease1(w) \/ EndWork(w) \/ EndAnyWork(w) \/ CheckpointWork(w)
           \/ FinishWork(w) \/ Die(w)
    PROVE  CallPlaces'
  <1> USE DEF FilerPlaces, OrganizerPlaces, CanaryPlaces
  <1>1. Fits(pc[w], at[w]) /\ pc[w] \in Places
    BY DEF WindowsInv, CallPlaces, JobsInv, TypeOK
  <1>2. pc \in [Workers -> Places] /\ scenario.user \in {"any", "basic_filing", "organize"}
    BY ScenarioFacts DEF WindowsInv, JobsInv, TypeOK
  <1>3. CASE EnqueueAsked(w)
    <2>1. pc[w] = "enqueue" /\ pc' = [pc EXCEPT ![w] = "lease"] /\ UNCHANGED <<scenario, at>>
      BY <1>3 DEF EnqueueAsked, Enqueue, Goto, locals
    <2>2. Fits("lease", at[w]) BY <1>1, <2>1 DEF Fits
    <2> QED BY <2>1, <2>2, SameAt, MoveFits
  <1>4. CASE Lease1(w)
    <2>1. pc[w] = "lease" /\ UNCHANGED scenario BY <1>4 DEF Lease1, LeaseJob
    <2>2. pc' = [pc EXCEPT ![w] = "idle"] \/ pc' = [pc EXCEPT ![w] = "work"]
      BY <1>4 DEF Lease1, LeaseJob, Leave, Goto
    <2>3. CASE pc' = [pc EXCEPT ![w] = "idle"]
      <3>1. pc'[w] = "idle" BY <1>2, <2>3
      <3>2. at' = [at EXCEPT ![w] = "free"] BY <1>4, <3>1 DEF Lease1, Forgets, At
      <3>3. Fits("idle", "free") BY DEF Fits
      <3> QED BY <2>1, <2>3, <3>2, <3>3, MoveFits
    <2>4. CASE pc' = [pc EXCEPT ![w] = "work"]
      <3>1. pc'[w] # "idle" BY <1>2, <2>4
      <3>2. CASE User("any")
        <4>1. UNCHANGED at BY <1>4, <3>1, <3>2 DEF Lease1, User
        <4>2. Fits("work", at[w]) BY <1>1, <3>2 DEF Fits, User
        <4> QED BY <2>1, <2>4, <4>1, <4>2, SameAt, MoveFits
      <3>3. CASE User("basic_filing")
        <4>1. at' = [at EXCEPT ![w] = "stage"] BY <1>4, <3>1, <3>3 DEF Lease1, At, User
        <4>2. Fits("work", "stage") BY <3>3 DEF Fits, User
        <4> QED BY <2>1, <2>4, <4>1, <4>2, MoveFits
      <3>4. CASE User("organize")
        <4>1. at' = [at EXCEPT ![w] = "floor"] BY <1>4, <3>1, <3>4 DEF Lease1, At, User
        <4>2. Fits("work", "floor") BY <3>4 DEF Fits, User
        <4> QED BY <2>1, <2>4, <4>1, <4>2, MoveFits
      <3> QED BY <1>2, <3>2, <3>3, <3>4 DEF User
    <2> QED BY <2>2, <2>3, <2>4
  <1>5. CASE EndWork(w) \/ EndAnyWork(w)
    <2>1. pc[w] = "work" /\ UNCHANGED <<scenario, at>>
      BY <1>5 DEF EndWork, EndAnyWork, WorkEnds, locals
    <2>2. PICK p \in {"checkpoint", "fail"} : pc' = [pc EXCEPT ![w] = p]
      BY <1>5 DEF EndWork, EndAnyWork, WorkEnds, Goto
    <2>3. Fits(p, at[w])
      BY <1>1, <1>5, <2>1 DEF Fits, EndWork, EndAnyWork, User
    <2> QED BY <2>1, <2>2, <2>3, SameAt, MoveFits
  <1>6. CASE CheckpointWork(w)
    <2>1. pc[w] = "checkpoint" /\ pc' = [pc EXCEPT ![w] = "finish"] /\ UNCHANGED <<scenario, at>>
      BY <1>6 DEF CheckpointWork, Checkpoint, Goto, locals
    <2>2. Fits("finish", at[w]) BY <1>1, <2>1 DEF Fits
    <2> QED BY <2>1, <2>2, SameAt, MoveFits
  <1>7. CASE FinishWork(w)
    <2>1. /\ pc[w] \in {"finish", "fail"} /\ pc' = [pc EXCEPT ![w] = "idle"]
          /\ UNCHANGED scenario
      BY <1>7 DEF FinishWork, Finish, Leave, Goto
    <2>2. CASE at' = [at EXCEPT ![w] = "free"]
      <3>1. Fits("idle", "free") BY DEF Fits
      <3> QED BY <2>1, <2>2, <3>1, MoveFits
    <2>3. CASE Graded(w) /\ at' = [at EXCEPT ![w] = "grade"]
      <3>1. Fits("idle", "grade") BY <2>3 DEF Graded, Fits, User
      <3> QED BY <2>1, <2>3, <3>1, MoveFits
    <2> QED BY <1>7, <2>2, <2>3 DEF FinishWork, Forgets, At
  <1>8. CASE Die(w)
    <2>1. at' = [at EXCEPT ![w] = "free"] /\ UNCHANGED scenario BY <1>8 DEF Die, Forgets, At
    <2>2. pc' = [pc EXCEPT ![w] = "idle"] /\ (pc[w] # "idle" \/ at[w] # "free")
      <3>1. CASE UNCHANGED vars /\ pc[w] = "idle" /\ at[w] \in {"grade", "release"}
        BY <3>1, SamePc
      <3>2. CASE Crash(w) BY <3>2 DEF Crash, Leave, Goto
      <3> QED BY <1>8, <3>1, <3>2 DEF Die
    <2>3. Fits("idle", "free") BY DEF Fits
    <2> QED BY <2>1, <2>2, <2>3, MoveFits
  <1> QED BY <1>3, <1>4, <1>5, <1>6, <1>7, <1>8

\* Wherever nobody moves, everybody fits.
LEMMA SameFits == ASSUME WindowsInv, UNCHANGED <<scenario, pc, at>> PROVE CallPlaces'
  BY DEF WindowsInv, CallPlaces, Fits, User

LEMMA CallPlacesStep == WindowsInv /\ WindowsNext => CallPlaces'
  <1> SUFFICES ASSUME WindowsInv, WindowsNext PROVE CallPlaces' OBVIOUS
  <1>1. CASE Append BY <1>1, SameFits DEF Append, vars, locals
  <1>2. CASE RetryAny BY <1>2, SameFits DEF RetryAny, Retry, locals
  <1>3. CASE Doctor BY <1>3, SameFits DEF Doctor, ListJobs, locals
  <1>4. CASE TimePasses BY <1>4, SameFits DEF TimePasses, Tick, locals
  <1> QED BY <1>1, <1>2, <1>3, <1>4, InnerFits, AskFits, CallFits, WindowsCases

-----------------------------------------------------------------------------
(* How a step of a worker changes the rows: each becomes one row or is     *)
(* forgotten, and the rows of the others at most fail.                     *)

Forgotten(r) ==
    /\ r.by = Nobody
    /\ r.status = "error" \/ r.to = 0
    /\ r.outcome # "reverted_by_canary"

RowStep(f, w) ==
    /\ f \in [rows -> RunType]
    /\ \A r \in rows' : \E q \in rows : r = f[q]
    /\ \A q \in rows :
        /\ f[q] \in rows' \/ Forgotten(f[q])
        /\ f[q].delta = q.delta
        /\ f[q].to \in {q.to, 0}
        /\ q.by = w => f[q].by \in {w, Nobody}
        /\ q.by # w =>
            /\ f[q].by = q.by /\ f[q].outcome = q.outcome /\ f[q].to = q.to
            /\ f[q].status = q.status \/ (q.status = "running" /\ f[q].status = "error")

\* What becomes of a row in each of the statements.
Kept == [q \in rows |-> q]
Updated(w, status, outcome, to) ==
    [q \in rows |-> IF q.by = w
                    THEN [q EXCEPT !.status = status, !.outcome = outcome, !.to = to] ELSE q]
Disowned(w) == [q \in rows |-> IF q.by = w THEN [q EXCEPT !.by = Nobody] ELSE q]
Errored(old) == [q \in rows |-> IF q \in old THEN [q EXCEPT !.status = "error"] ELSE q]
Reverted(w) == [q \in rows |-> IF q.by = w THEN [q EXCEPT !.outcome = "reverted"] ELSE q]
Released(w) ==
    [q \in rows |-> IF q.by = w
                    THEN [q EXCEPT !.by = Nobody, !.outcome = "reverted_by_canary", !.to = 0]
                    ELSE q]

LEMMA RowsAreRuns == ASSUME Shapes PROVE rows \subseteq RunType
  BY DEF Shapes, LedgerShapes, FilingShapes, RunShapes, LocalShapes

LEMMA KeptStep ==
    ASSUME Shapes, NEW w \in Workers, UNCHANGED rows
    PROVE  RowStep(Kept, w)
  BY DEF Kept, RowStep, Shapes, LedgerShapes, FilingShapes, RunShapes, LocalShapes

\* The end of a pass's own window is a number.
LEMMA ToTyped ==
    ASSUME Shapes, NEW w \in Workers, \A r, q \in Own(w) : r = q
    PROVE  \A q \in Own(w) : To(w) = q.to
  BY DEF To

LEMMA UpdatedStep ==
    ASSUME Shapes, NEW w \in Workers, NEW s \in {"running", "done", "error"},
           NEW o \in {"none", "done", "error", "skipped", "expired"}, NEW t,
           \A q \in Own(w) : t \in {q.to, 0}, rows' = Update(w, s, o, t)
    PROVE  /\ RowStep(Updated(w, s, o, t), w)
           /\ \A q \in Own(w) :
                LET r == Updated(w, s, o, t)[q]
                IN  r.by = w /\ r.status = s /\ r.outcome = o /\ r.to = t
  <1> DEFINE f == Updated(w, s, o, t)
             New(q) == [q EXCEPT !.status = s, !.outcome = o, !.to = t]
  <1>1. ASSUME NEW q \in Own(w)
        PROVE  /\ New(q) \in RunType /\ New(q).by = w /\ New(q).status = s /\ New(q).outcome = o
               /\ New(q).to = t /\ New(q).delta = q.delta /\ t \in {q.to, 0}
    <2>1. q \in RunType /\ q.by = w /\ t \in {q.to, 0} BY <1>1 DEF Own, Shapes, LedgerShapes, FilingShapes, RunShapes, LocalShapes
    <2>2. t \in Nat BY <2>1 DEF RunType
    <2> QED BY <2>1, <2>2 DEF RunType
  <1>2. Own(w) = {q \in rows : q.by = w} BY DEF Own
  <1>3. f = [q \in rows |-> IF q.by = w THEN New(q) ELSE q] BY DEF Updated
  <1>4. rows' = (rows \ Own(w)) \cup {New(q) : q \in Own(w)} BY DEF Update
  <1> HIDE DEF f, New
  <1> QED BY <1>1, <1>2, <1>3, <1>4, RowsAreRuns DEF RowStep, f

LEMMA DisownedStep ==
    ASSUME Shapes, NEW w \in Workers, rows' = Disown(w)
    PROVE  /\ RowStep(Disowned(w), w)
           /\ \A q \in Own(w) :
                LET r == Disowned(w)[q]
                IN  r.by = Nobody /\ r.status = q.status /\ r.outcome = q.outcome /\ r.to = q.to
  <1> DEFINE f == Disowned(w)
             New(q) == [q EXCEPT !.by = Nobody]
             all == (rows \ Own(w)) \cup {New(q) : q \in Own(w)}
  <1>1. ASSUME NEW q \in Own(w)
        PROVE  /\ New(q) \in RunType /\ New(q).by = Nobody /\ New(q).status = q.status
               /\ New(q).outcome = q.outcome /\ New(q).to = q.to /\ New(q).delta = q.delta
    <2>1. q \in RunType /\ q.by = w BY <1>1 DEF Own, Shapes, LedgerShapes, FilingShapes, RunShapes, LocalShapes
    <2> QED BY <2>1 DEF RunType
  <1>2. Own(w) = {q \in rows : q.by = w} BY DEF Own
  <1>3. f = [q \in rows |-> IF q.by = w THEN New(q) ELSE q] BY DEF Disowned
  <1>4. rows' = Read(all) BY DEF Disown
  <1> HIDE DEF f, New, all
  <1>5. rows' \subseteq all /\ \A r \in all : r \in rows' \/ Forgotten(r)
    <2>1. all \subseteq RunType BY <1>1, RowsAreRuns DEF all
    <2> QED BY <1>4, <2>1 DEF Read, Forgotten, RunType
  <1>6. \A q \in rows : f[q] \in all BY <1>1, <1>2, <1>3 DEF all
  <1> QED BY <1>1, <1>2, <1>3, <1>5, <1>6, RowsAreRuns DEF RowStep, f, all

LEMMA ErroredStep ==
    ASSUME Shapes, NEW w \in Workers, NEW old, old \subseteq {r \in rows : r.status = "running"},
           rows' = Interrupted(old)
    PROVE  /\ RowStep(Errored(old), w)
           /\ \A q \in Own(w) :
                LET r == Errored(old)[q]
                IN  /\ r.by = w /\ r.outcome = q.outcome /\ r.to = q.to
                    /\ r.status = q.status \/ r.status = "error"
  <1> DEFINE f == Errored(old)
             New(q) == [q EXCEPT !.status = "error"]
             all == (rows \ old) \cup {New(q) : q \in old}
  <1>1. ASSUME NEW q \in old
        PROVE  /\ New(q) \in RunType /\ New(q).by = q.by /\ New(q).status = "error"
               /\ New(q).outcome = q.outcome /\ New(q).to = q.to /\ New(q).delta = q.delta
               /\ q \in rows /\ q.status = "running"
    <2>1. q \in RunType /\ q \in rows /\ q.status = "running" BY <1>1 DEF Shapes, LedgerShapes, FilingShapes, RunShapes, LocalShapes
    <2> QED BY <2>1 DEF RunType
  <1>2. Own(w) = {q \in rows : q.by = w} BY DEF Own
  <1>3. f = [q \in rows |-> IF q \in old THEN New(q) ELSE q] BY DEF Errored
  <1>4. rows' = Read(all) BY DEF Interrupted
  <1> HIDE DEF f, New, all
  <1>5. rows' \subseteq all /\ \A r \in all : r \in rows' \/ Forgotten(r)
    <2>1. all \subseteq RunType BY <1>1, RowsAreRuns DEF all
    <2> QED BY <1>4, <2>1 DEF Read, Forgotten, RunType
  <1>6. \A q \in rows : f[q] \in all BY <1>1, <1>3 DEF all
  <1> QED BY <1>1, <1>2, <1>3, <1>5, <1>6, RowsAreRuns DEF RowStep, f, all

LEMMA RevertedStep ==
    ASSUME Shapes, NEW w \in Workers,
           rows' = {IF r.by = w THEN [r EXCEPT !.outcome = "reverted"] ELSE r : r \in rows}
    PROVE  /\ RowStep(Reverted(w), w)
           /\ \A q \in Own(w) :
                LET r == Reverted(w)[q]
                IN  r.by = w /\ r.status = q.status /\ r.outcome = "reverted" /\ r.to = q.to
  <1> DEFINE f == Reverted(w)
             New(q) == [q EXCEPT !.outcome = "reverted"]
  <1>1. ASSUME NEW q \in Own(w)
        PROVE  /\ New(q) \in RunType /\ New(q).by = w /\ New(q).status = q.status
               /\ New(q).outcome = "reverted" /\ New(q).to = q.to /\ New(q).delta = q.delta
    <2>1. q \in RunType /\ q.by = w BY <1>1 DEF Own, Shapes, LedgerShapes, FilingShapes, RunShapes, LocalShapes
    <2> QED BY <2>1 DEF RunType
  <1>2. Own(w) = {q \in rows : q.by = w} BY DEF Own
  <1>3. f = [q \in rows |-> IF q.by = w THEN New(q) ELSE q] BY DEF Reverted
  <1>4. rows' = {IF r.by = w THEN New(r) ELSE r : r \in rows} OBVIOUS
  <1> HIDE DEF f, New
  <1> QED BY <1>1, <1>2, <1>3, <1>4, RowsAreRuns DEF RowStep, f

LEMMA ReleasedStep ==
    ASSUME Shapes, NEW w \in Workers,
           rows' = (rows \ Own(w)) \cup
             {[r EXCEPT !.by = Nobody, !.outcome = "reverted_by_canary", !.to = 0] : r \in Own(w)}
    PROVE  /\ RowStep(Released(w), w)
           /\ \A q \in Own(w) :
                LET r == Released(w)[q]
                IN  r.by = Nobody /\ r.status = q.status /\ r.outcome = "reverted_by_canary"
                    /\ r.to = 0 /\ r \in rows'
  <1> DEFINE f == Released(w)
             New(q) == [q EXCEPT !.by = Nobody, !.outcome = "reverted_by_canary", !.to = 0]
  <1>1. ASSUME NEW q \in Own(w)
        PROVE  /\ New(q) \in RunType /\ New(q).by = Nobody /\ New(q).status = q.status
               /\ New(q).outcome = "reverted_by_canary" /\ New(q).to = 0
               /\ New(q).delta = q.delta
    <2>1. q \in RunType /\ q.by = w BY <1>1 DEF Own, Shapes, LedgerShapes, FilingShapes, RunShapes, LocalShapes
    <2> QED BY <2>1 DEF RunType
  <1>2. Own(w) = {q \in rows : q.by = w} BY DEF Own
  <1>3. f = [q \in rows |-> IF q.by = w THEN New(q) ELSE q] BY DEF Released
  <1>4. rows' = (rows \ Own(w)) \cup {New(q) : q \in Own(w)} OBVIOUS
  <1> HIDE DEF f, New
  <1>5. \A q \in rows : f[q] \in rows' BY <1>2, <1>3, <1>4
  <1>6. \A r \in rows' : \E q \in rows : r = f[q] BY <1>2, <1>3, <1>4
  <1>7. \A q \in Own(w) : f[q] = New(q) /\ q \in rows BY <1>2, <1>3
  <1>8. RowStep(f, w) BY <1>1, <1>2, <1>3, <1>5, <1>6, RowsAreRuns DEF RowStep
  <1> QED BY <1>1, <1>5, <1>7, <1>8 DEF f

-----------------------------------------------------------------------------
(* What such a step keeps.                                                 *)

OthersStay(w) == \A v \in Workers : v # w => at'[v] = at[v] /\ win'[v] = win[v]

LedgerGrows ==
    /\ UNCHANGED scenario
    /\ items \subseteq items' /\ items' \subseteq Nat
    /\ head <= head' /\ head' \in Nat
    /\ \A i \in items' : i \in items \/ i > head

\* What w's own row became fits where w now is.
Moved(f, w) ==
    \A q \in Own(w) :
        /\ GoodRow(f[q])
        /\ f[q].by = w => at'[w] \in RowPlaces /\ InPlace(f[q], at'[w])

LEMMA RowShapes ==
    ASSUME WindowsInv, LedgerGrows, NEW w \in Workers, NEW f, RowStep(f, w)
    PROVE  rows' \subseteq RunType /\ \A r \in rows' : r.to <= head' /\ r.delta \subseteq items'
  <1>1. ASSUME NEW r \in rows'
        PROVE  r \in RunType /\ r.to <= head' /\ r.delta \subseteq items'
    <2>1. PICK q \in rows : r = f[q] BY <1>1 DEF RowStep
    <2>2. f[q] \in RunType /\ f[q].delta = q.delta /\ f[q].to \in {q.to, 0} BY DEF RowStep
    <2>3. q.to \in Nat /\ q.to <= head /\ q.delta \subseteq items /\ head \in Nat
      BY ScenarioFacts DEF WindowsInv, Shapes, LedgerShapes, FilingShapes, RunShapes, LocalShapes, RunType
    <2>4. items \subseteq items' /\ head <= head' /\ head' \in Nat BY DEF LedgerGrows
    <2>5. r.to <= head'
      <3>1. r.to = q.to \/ r.to = 0 BY <2>1, <2>2
      <3> QED BY <2>3, <2>4, <3>1
    <2> QED BY <2>1, <2>2, <2>3, <2>4, <2>5
  <1> QED BY <1>1

\* Whose row a row was.
LEMMA SourceRow ==
    ASSUME NEW w \in Workers, NEW f, RowStep(f, w), NEW v \in Workers, NEW q \in rows, f[q].by = v
    PROVE  q.by = v
  BY JobsAssumptions DEF RowStep

LEMMA OwnRowsKept ==
    ASSUME WindowsInv, NEW w \in Workers, NEW f, RowStep(f, w), Moved(f, w), OthersStay(w)
    PROVE  OwnRows'
  <1>1. ASSUME NEW v \in Workers, NEW r \in rows', r.by = v
        PROVE  at'[v] \in RowPlaces /\ \E q \in Own(v) : r = f[q]
    <2>1. PICK q \in rows : r = f[q] BY <1>1 DEF RowStep
    <2>2. q \in Own(v) BY <1>1, <2>1, SourceRow DEF Own
    <2>3. CASE v = w BY <1>1, <2>1, <2>2, <2>3 DEF Moved
    <2>4. CASE v # w BY <2>1, <2>2, <2>4 DEF OthersStay, WindowsInv, OwnRows
    <2> QED BY <2>3, <2>4
  <1>2. \A v \in Workers : \A r, q \in Own(v) : r = q BY DEF WindowsInv, OwnRows
  <1>3. \A v \in Workers : Own(v)' = {r \in rows' : r.by = v} BY DEF Own
  <1>4. ASSUME NEW v \in Workers PROVE \A r, q \in Own(v)' : r = q
    <2>1. ASSUME NEW r1 \in rows', NEW r2 \in rows', r1.by = v, r2.by = v PROVE r1 = r2
      <3>1. PICK q1 \in Own(v) : r1 = f[q1] BY <1>1, <2>1
      <3>2. PICK q2 \in Own(v) : r2 = f[q2] BY <1>1, <2>1
      <3> QED BY <1>2, <3>1, <3>2
    <2> QED BY <1>3, <2>1
  <1>5. \A v \in Workers : Own(v)' # {} => at'[v] \in RowPlaces BY <1>1, <1>3
  <1> QED BY <1>4, <1>5 DEF OwnRows

LEMMA RowsFollowKept ==
    ASSUME WindowsInv, NEW w \in Workers, NEW f, RowStep(f, w), Moved(f, w), OthersStay(w),
           LedgerGrows
    PROVE  RowsFollow'
  <1>1. ~User("organize")' => rows' = {}
    BY DEF WindowsInv, Organizing, RowsFollow, RowStep, User, LedgerGrows
  <1>2. ASSUME NEW r \in rows'
        PROVE  GoodRow(r) /\ \A v \in Workers : r.by = v => InPlace(r, at'[v])
    <2>1. PICK q \in rows : r = f[q] BY <1>2 DEF RowStep
    <2>2. GoodRow(q) /\ \A v \in Workers : q.by = v => InPlace(q, at[v])
      BY DEF WindowsInv, Organizing, RowsFollow
    <2>3. CASE q.by = w
      <3>1. q \in Own(w) BY <2>3 DEF Own
      <3>2. \A v \in Workers : r.by = v => v = w
        BY <2>1, <2>3, SourceRow
      <3> QED BY <2>1, <3>1, <3>2 DEF Moved
    <2>4. CASE q.by # w
      <3>1. /\ r.by = q.by /\ r.outcome = q.outcome /\ r.to = q.to /\ r.delta = q.delta
            /\ r.status = q.status \/ r.status = "error"
        BY <2>1, <2>4 DEF RowStep
      <3>2. GoodRow(r) BY <2>2, <3>1 DEF GoodRow
      <3>3. ASSUME NEW v \in Workers, r.by = v PROVE InPlace(r, at'[v])
        <4>1. at'[v] = at[v] BY <2>4, <3>1, <3>3 DEF OthersStay
        <4> QED BY <2>2, <3>1, <3>3, <4>1 DEF InPlace
      <3> QED BY <3>2, <3>3
    <2> QED BY <2>3, <2>4
  <1> QED BY <1>1, <1>2 DEF RowsFollow

\* With one process there is one worker.
LEMMA OneWorker ==
    ASSUME Shapes, OneProcess
    PROVE  \A v, w \in scenario.workers : v = w
  <1>1. IsFiniteSet(scenario.workers) BY ScenarioFacts
  <1>2. \E x : scenario.workers = {x} BY <1>1, FS_Singleton DEF OneProcess
  <1> QED BY <1>2

\* A row that has a worker has one of the scenario's.
LEMMA RowWorkers ==
    ASSUME WindowsInv, NEW r \in rows, r.by # Nobody
    PROVE  r.by \in scenario.workers
  <1>1. r.by \in Workers BY DEF WindowsInv, Shapes, LedgerShapes, FilingShapes, RunShapes, LocalShapes, RunType
  <1>2. r \in Own(r.by) BY DEF Own
  <1>3. at[r.by] # "free" BY <1>1, <1>2 DEF WindowsInv, OwnRows, RowPlaces, CanaryPlaces
  <1> QED BY <1>1, <1>3 DEF WindowsInv, CallPlaces

LEMMA FreshKept ==
    ASSUME WindowsInv, NEW w \in scenario.workers, NEW f, RowStep(f, w), OthersStay(w), LedgerGrows,
           at'[w] \in {"head", "delta"} => (OneProcess => win'[w].from = Mark')
    PROVE  Fresh'
  <1> SUFFICES ASSUME OneProcess
               PROVE  /\ \A v \in Workers : at'[v] \in {"head", "delta"} => win'[v].from = Mark'
                      /\ \A r, q \in rows' : r.by # Nobody /\ q # r /\ q.status = "done" =>
                            \A i \in r.delta : i > q.to
    BY DEF Fresh, OneProcess, LedgerGrows
  <1>0. w \in Workers BY ScenarioFacts DEF WindowsInv
  <1>1. ASSUME NEW v \in Workers, at'[v] \in {"head", "delta"} PROVE win'[v].from = Mark'
    <2>1. CASE v = w BY <1>1, <2>1
    <2>2. CASE v # w
      <3>1. at[v] # "free" BY <1>1, <2>2 DEF OthersStay
      <3>2. v \in scenario.workers BY <3>1 DEF WindowsInv, CallPlaces
      <3> QED BY <2>2, <3>2, OneWorker DEF WindowsInv
    <2> QED BY <2>1, <2>2
  <1>2. ASSUME NEW r \in rows', NEW q \in rows', r.by # Nobody, q # r, q.status = "done",
               NEW i \in r.delta
        PROVE  i > q.to
    <2>1. PICK r0 \in rows : r = f[r0] BY DEF RowStep
    <2>2. PICK q0 \in rows : q = f[q0] BY DEF RowStep
    <2>3. r0 # q0 /\ i \in r0.delta /\ q.to \in {q0.to, 0} BY <1>2, <2>1, <2>2 DEF RowStep
    <2>4. r0.by # Nobody
      <3>1. CASE r0.by = w BY <1>0, <3>1, JobsAssumptions
      <3>2. CASE r0.by # w BY <1>2, <2>1, <3>2 DEF RowStep
      <3> QED BY <3>1, <3>2
    <2>5. r0.by = w BY <2>4, RowWorkers, OneWorker DEF WindowsInv
    <2>6. q0.by # w
      <3>1. r0 \in Own(w) /\ (q0.by = w => q0 \in Own(w)) BY <2>5 DEF Own
      <3> QED BY <1>0, <2>3, <3>1 DEF WindowsInv, OwnRows
    <2>7. q0.status = "done" BY <1>2, <2>2, <2>6 DEF RowStep
    <2>8. i > q0.to BY <2>3, <2>4, <2>7 DEF WindowsInv, Organizing, Fresh
    <2>9. i \in Nat /\ i # 0
      <3>1. i \in items /\ items \subseteq 1..head BY <2>3 DEF WindowsInv, Shapes, LedgerShapes, FilingShapes, RunShapes, LocalShapes
      <3> QED BY <3>1, ScenarioFacts DEF WindowsInv
    <2> QED BY <2>3, <2>8, <2>9
  <1> QED BY <1>1, <1>2

\* What is settled stays settled, unless w's own row ceases to count.
LEMMA SettledKept ==
    ASSUME WindowsInv, NEW w \in Workers, NEW f, RowStep(f, w), Moved(f, w), LedgerGrows,
           \A q \in Own(w) : Counts(q) => Counts(f[q])
    PROVE  \A i : Settled(i) => Settled(i)'
  <1> SUFFICES ASSUME NEW i, NEW p \in rows, i \in p.delta, Counts(p)
               PROVE  \E r \in rows' : i \in r.delta /\ Counts(r)'
    BY DEF Settled
  <1>1. f[p].delta = p.delta /\ (f[p] \in rows' \/ Forgotten(f[p])) BY DEF RowStep
  <1>2. Counts(f[p]) /\ GoodRow(f[p])
    <2>1. CASE p.by = w
      <3>1. p \in Own(w) BY <2>1 DEF Own
      <3> QED BY <3>1 DEF Moved
    <2>2. CASE p.by # w
      <3>1. f[p].outcome = p.outcome /\ f[p].to = p.to /\ f[p].status = p.status
        BY <2>2 DEF RowStep, Counts
      <3>2. GoodRow(p) BY DEF WindowsInv, Organizing, RowsFollow
      <3> QED BY <1>1, <3>1, <3>2 DEF GoodRow, Counts
    <2> QED BY <2>1, <2>2
  <1>3. ~Forgotten(f[p])
    BY <1>1, <1>2 DEF Counts, GoodRow, Forgotten
  <1>5. OneProcess' <=> OneProcess BY DEF OneProcess, LedgerGrows
  <1>6. \A r : r = f[p] => Counts(r)' BY <1>2, <1>5 DEF Counts
  <1> QED BY <1>1, <1>3, <1>6

LEMMA CoverKept ==
    ASSUME WindowsInv, NEW w \in Workers, NEW f, RowStep(f, w), OthersStay(w), LedgerGrows,
           \A i : Settled(i) => Settled(i)',
           at'[w] \in {"head", "delta"} => UNCHANGED <<rows, items>> /\ SettledTo(win'[w].from)
    PROVE  Based' /\ Claimed'
  <1>1. ASSUME NEW v \in Workers, at'[v] \in {"head", "delta"}, NEW i \in items',
               i <= win'[v].from
        PROVE  Settled(i)'
    <2>1. CASE v = w BY <1>1, <2>1 DEF SettledTo
    <2>2. CASE v # w
      <3>1. at'[v] = at[v] /\ win'[v] = win[v] BY <2>2 DEF OthersStay
      <3>2. win[v].from \in Nat /\ win[v].from <= head /\ head \in Nat /\ items \subseteq 1..head
        BY ScenarioFacts DEF WindowsInv, Shapes, LedgerShapes, FilingShapes, RunShapes, LocalShapes, WindowType
      <3>3. i \in items \/ i > head BY DEF LedgerGrows
      <3>4. CASE i \in items
        BY <1>1, <3>1, <3>4 DEF WindowsInv, Organizing, Based, SettledTo
      <3>5. CASE i > head
        <4>1. i \in Nat BY <1>1 DEF LedgerGrows
        <4> QED BY <1>1, <3>1, <3>2, <3>5, <4>1
      <3> QED BY <3>3, <3>4, <3>5
    <2> QED BY <2>1, <2>2
  <1>2. ASSUME NEW r \in rows', r.by # Nobody \/ r.status = "done", NEW i \in items', i <= r.to
        PROVE  i \in r.delta \/ Settled(i)'
    <2>1. PICK q \in rows : r = f[q] BY DEF RowStep
    <2>2. r.delta = q.delta /\ r.to \in {q.to, 0} BY <2>1 DEF RowStep
    <2>3. q.by # Nobody \/ q.status = "done" BY <1>2, <2>1, JobsAssumptions DEF RowStep
    <2>4. i \in items /\ i <= q.to
      <3>1. /\ q.to \in Nat /\ q.to <= head /\ head \in Nat /\ \A j \in items : j \in Nat /\ j # 0
        BY ScenarioFacts DEF WindowsInv, Shapes, LedgerShapes, FilingShapes, RunShapes, LocalShapes, RunType
      <3>2. i \in items \/ i > head BY DEF LedgerGrows
      <3>3. CASE i \in items BY <1>2, <2>2, <3>1, <3>3
      <3>4. CASE i > head
        <4>1. i \in Nat BY <1>2 DEF LedgerGrows
        <4> QED BY <1>2, <2>2, <3>1, <3>4, <4>1
      <3> QED BY <3>2, <3>3, <3>4
    <2> QED BY <2>2, <2>3, <2>4 DEF WindowsInv, Organizing, Claimed
  <1> QED BY <1>1, <1>2 DEF Based, SettledTo, Claimed

-----------------------------------------------------------------------------
(* The parts of the strengthening, for a step of one worker.               *)

\* Below the mark everything is settled.
LEMMA MarkSettled == ASSUME WindowsInv PROVE SettledTo(Mark)
  <1>1. ASSUME NEW i \in items, i <= Mark PROVE Settled(i)
    <2>1. i \in Nat /\ i # 0 /\ Mark \in Nat
      BY ScenarioFacts, MarkFacts
         DEF WindowsInv, Shapes, LedgerShapes
    <2>2. PICK r \in rows : r.status = "done" /\ r.to = Mark
      BY <1>1, <2>1, MarkFacts DEF WindowsInv
    <2>3. Counts(r)
      <3>1. GoodRow(r) BY DEF WindowsInv, Organizing, RowsFollow
      <3> QED BY <1>1, <2>1, <2>2, <3>1 DEF GoodRow, Counts
    <2>4. i \in r.delta \/ Settled(i)
      BY <1>1, <2>2 DEF WindowsInv, Organizing, Claimed
    <2> QED BY <2>3, <2>4 DEF Settled
  <1> QED BY <1>1 DEF SettledTo

\* Whoever is on the way to or from its pass is not free.
BegunAt(w) ==
    User("organize") =>
        /\ at'[w] # "free" => head' # 0
        /\ at'[w] = "delta" => win'[w].to # 0

LEMMA BegunKept ==
    ASSUME WindowsInv, NEW w \in Workers, OthersStay(w), LedgerGrows, BegunAt(w)
    PROVE  Begun'
  <1>1. ASSUME NEW v \in Workers, User("organize")
        PROVE  (at'[v] # "free" => head' # 0) /\ (at'[v] = "delta" => win'[v].to # 0)
    <2>1. CASE v = w BY <1>1, <2>1 DEF BegunAt
    <2>2. CASE v # w
      <3>1. head \in Nat /\ head <= head' BY ScenarioFacts DEF WindowsInv, LedgerGrows
      <3>2. at'[v] = at[v] /\ win'[v] = win[v] BY <2>2 DEF OthersStay
      <3> QED BY <1>1, <3>1, <3>2 DEF WindowsInv, Organizing, Begun, LedgerGrows
    <2> QED BY <2>1, <2>2
  <1>2. User("organize")' <=> User("organize") BY DEF User, LedgerGrows
  <1> QED BY <1>1, <1>2 DEF Begun

\* A step in which w's row does not cease to count.
LEMMA OrganizingKept ==
    ASSUME WindowsInv, NEW w \in scenario.workers, NEW f, RowStep(f, w), Moved(f, w),
           OthersStay(w), LedgerGrows, BegunAt(w),
           \A q \in Own(w) : Counts(q) => Counts(f[q]),
           at'[w] \in {"head", "delta"} =>
                /\ UNCHANGED <<rows, items>> /\ SettledTo(win'[w].from)
                /\ OneProcess => win'[w].from = Mark
    PROVE  OwnRows' /\ Organizing'
  <1>0. w \in Workers BY ScenarioFacts DEF WindowsInv
  <1>1. OwnRows' BY <1>0, OwnRowsKept
  <1>2. RowsFollow' BY <1>0, RowsFollowKept
  <1>3. Begun' BY <1>0, BegunKept
  <1>4. UNCHANGED rows => Mark' = Mark BY DEF Mark
  <1>5. Fresh' BY <1>4, FreshKept
  <1>6. \A i : Settled(i) => Settled(i)' BY <1>0, SettledKept
  <1>7. Based' /\ Claimed' BY <1>0, <1>6, CoverKept
  <1> QED BY <1>1, <1>2, <1>3, <1>5, <1>7 DEF Organizing

\* A step that changes no row.
LEMMA NoRowChanged ==
    ASSUME WindowsInv, NEW w \in scenario.workers, UNCHANGED rows, OthersStay(w), LedgerGrows,
           BegunAt(w), Own(w) # {} => at'[w] = at[w] \/ at'[w] = "end",
           at'[w] \in {"head", "delta"} =>
                /\ UNCHANGED items /\ SettledTo(win'[w].from)
                /\ OneProcess => win'[w].from = Mark
    PROVE  OwnRows' /\ Organizing'
  <1>0. w \in Workers BY ScenarioFacts DEF WindowsInv
  <1>1. RowStep(Kept, w) BY <1>0, KeptStep DEF WindowsInv
  <1>2. \A q \in Own(w) : Kept[q] = q /\ q \in rows /\ q.by = w BY DEF Kept, Own
  <1>3. Moved(Kept, w)
    <2>1. ASSUME NEW q \in Own(w) PROVE GoodRow(q) /\ at'[w] \in RowPlaces /\ InPlace(q, at'[w])
      <3>1. GoodRow(q) /\ InPlace(q, at[w])
        BY <1>0, <1>2 DEF WindowsInv, Organizing, RowsFollow
      <3>2. at[w] \in RowPlaces BY <1>0 DEF WindowsInv, OwnRows
      <3>3. at'[w] = at[w] \/ at'[w] = "end" BY <2>1
      <3> QED BY <3>1, <3>2, <3>3 DEF RowPlaces, InPlace
    <2> QED BY <1>2, <2>1 DEF Moved
  <1> QED BY <1>1, <1>2, <1>3, OrganizingKept

\* The filer's part.
LEMMA FilingKept ==
    ASSUME WindowsInv, NEW w \in Workers, OthersStay(w), UNCHANGED <<scenario, items>>,
           linked \subseteq linked', staged \subseteq staged' \cup linked',
           User("basic_filing") =>
             /\ Filed(linked', cursor')
             /\ at'[w] = "looked" => Filed(linked', win'[w].from)
             /\ at'[w] \in {"asked", "stage"} => Filed(linked' \cup win'[w].items, win'[w].to)
             /\ at'[w] = "accept" => Filed(linked' \cup staged', win'[w].to)
             /\ at'[w] = "mark" => Filed(linked', win'[w].to)
    PROVE  Filing'
  <1> SUFFICES ASSUME User("basic_filing") PROVE Filing' BY DEF Filing, User
  <1>1. ASSUME NEW v \in Workers
        PROVE  /\ at'[v] = "looked" => Filed(linked', win'[v].from)
               /\ at'[v] \in {"asked", "stage"} => Filed(linked' \cup win'[v].items, win'[v].to)
               /\ at'[v] = "accept" => Filed(linked' \cup staged', win'[v].to)
               /\ at'[v] = "mark" => Filed(linked', win'[v].to)
    <2>1. CASE v = w BY <2>1
    <2>2. CASE v # w
      <3>1. at'[v] = at[v] /\ win'[v] = win[v] BY <2>2 DEF OthersStay
      <3> QED BY <3>1 DEF WindowsInv, Filing, Filed
    <2> QED BY <2>1, <2>2
  <1> QED BY <1>1 DEF Filing, Filed

\* A step of another user, or one that leaves the filing alone.
LEMMA FilingSame ==
    ASSUME WindowsInv, NEW w \in Workers, OthersStay(w), UNCHANGED <<scenario, items, filing>>,
           \/ ~User("basic_filing")
           \/ at'[w] \in {"free", "end"}
           \/ at'[w] = at[w] /\ win'[w] = win[w]
           \/ at[w] = "asked" /\ at'[w] = "stage" /\ win'[w] = win[w]
    PROVE  Filing'
  <1> USE DEF filing
  <1>1. User("basic_filing") =>
             /\ Filed(linked', cursor')
             /\ at'[w] = "looked" => Filed(linked', win'[w].from)
             /\ at'[w] \in {"asked", "stage"} => Filed(linked' \cup win'[w].items, win'[w].to)
             /\ at'[w] = "accept" => Filed(linked' \cup staged', win'[w].to)
             /\ at'[w] = "mark" => Filed(linked', win'[w].to)
    BY DEF WindowsInv, Filing
  <1> QED BY <1>1, FilingKept

\* The shapes of the locals.
LEMMA LocalsKept ==
    ASSUME WindowsInv, NEW w \in Workers, LedgerGrows, NEW l \in WindowPlaces, NEW x \in WindowType,
           at' = [at EXCEPT ![w] = l], win' = [win EXCEPT ![w] = x],
           x.from <= head', x.to <= head', x.items \subseteq items'
    PROVE  LocalShapes' /\ OthersStay(w) /\ at'[w] = l /\ win'[w] = x
  <1>1. /\ at \in [Workers -> WindowPlaces] /\ win \in [Workers -> WindowType]
        /\ \A v \in Workers :
            win[v].from <= head /\ win[v].to <= head /\ win[v].items \subseteq items
    BY DEF WindowsInv, Shapes, LocalShapes
  <1>2. OthersStay(w) /\ at'[w] = l /\ win'[w] = x BY <1>1 DEF OthersStay
  <1>3. at' \in [Workers -> WindowPlaces] /\ win' \in [Workers -> WindowType] BY <1>1
  <1>4. ASSUME NEW v \in Workers
        PROVE  win'[v].from <= head' /\ win'[v].to <= head' /\ win'[v].items \subseteq items'
    <2>1. CASE v = w BY <1>2, <2>1
    <2>2. CASE v # w
      <3>1. win'[v] = win[v] /\ win[v] \in WindowType BY <1>1, <1>2, <2>2 DEF OthersStay
      <3>2. win[v].from \in Nat /\ win[v].to \in Nat BY <3>1 DEF WindowType
      <3>3. head \in Nat /\ head' \in Nat /\ head <= head' /\ items \subseteq items'
        BY ScenarioFacts DEF WindowsInv, LedgerGrows
      <3> QED BY <1>1, <3>1, <3>2, <3>3
    <2> QED BY <2>1, <2>2
  <1> QED BY <1>2, <1>3, <1>4 DEF LocalShapes

\* A ledger that stands still.
LEMMA LedgerSame ==
    ASSUME WindowsInv, UNCHANGED <<scenario, ledger>>
    PROVE  /\ LedgerGrows
           /\ mishaps' \in 0..scenario.mishaps => LedgerShapes'
           /\ UNCHANGED filing => FilingShapes'
           /\ UNCHANGED <<rows, failures, wait>> => RunShapes'
  <1>1. head \in Nat /\ items \subseteq Nat
    BY ScenarioFacts DEF WindowsInv, Shapes, LedgerShapes
  <1>2. LedgerGrows BY <1>1 DEF LedgerGrows, ledger
  <1> QED BY <1>2
      DEF WindowsInv, Shapes, LedgerShapes, FilingShapes, RunShapes, ledger, filing

-----------------------------------------------------------------------------
(* Step by step.                                                           *)

Rest == Shapes /\ OwnRows /\ Organizing /\ Filing

\* The jobs and the time move on their own.
LEMMA StandStill ==
    ASSUME WindowsInv, UNCHANGED <<scenario, mishaps, ledger, filing, runs, locals>>
    PROVE  Rest'
  <1> USE DEF ledger, filing, runs, locals
  <1>1. Shapes'
    BY DEF WindowsInv, Shapes, LedgerShapes, FilingShapes, RunShapes, LocalShapes
  <1>2. OwnRows' BY DEF WindowsInv, OwnRows, Own
  <1>3. RowsFollow' /\ Begun' BY DEF WindowsInv, Organizing, RowsFollow, Begun, User
  <1>4. \A i : Settled(i)' <=> Settled(i) BY DEF Settled, Counts, OneProcess
  <1>5. Based' /\ Claimed' BY <1>4 DEF WindowsInv, Organizing, Based, Claimed, SettledTo
  <1>6. Fresh'
    <2>1. Mark' = Mark /\ (OneProcess' <=> OneProcess) BY DEF Mark, OneProcess
    <2> QED BY <2>1 DEF WindowsInv, Organizing, Fresh
  <1>7. Filing' BY DEF WindowsInv, Filing, Filed, User
  <1> QED BY <1>1, <1>2, <1>3, <1>5, <1>6, <1>7 DEF Rest, Organizing

\* A new seq is past everything that anybody has read.
LEMMA AppendStep == ASSUME WindowsInv, Append PROVE Rest'
  <1> USE DEF filing, runs, locals
  <1>1. /\ head' = head + 1 /\ head + 1 <= scenario.seqs
        /\ items' = items \cup ({head + 1} \cap scenario.lake)
        /\ UNCHANGED <<scenario, mishaps, filing, runs, locals>>
    BY ScenarioFacts DEF Append, WindowsInv
  <1>2. head \in Nat /\ scenario.seqs \in Nat /\ items \subseteq 1..head
    BY ScenarioFacts DEF WindowsInv, Shapes, LedgerShapes
  <1>3. /\ items \subseteq items' /\ items' \subseteq 1..head'
        /\ \A i \in items' : i \in Nat /\ (i \in items \/ i > head)
        /\ head' \in Nat /\ head' <= scenario.seqs /\ \A n \in Nat : n <= head => n <= head'
    <2>1. \A i \in items' : i \in items \/ i = head + 1 BY <1>1
    <2>2. \A i \in items : i \in 1..(head + 1) BY <1>2
    <2>3. head + 1 \in 1..(head + 1) /\ head + 1 > head /\ \A i \in 1..(head + 1) : i \in Nat
      BY <1>2
    <2>4. ASSUME NEW i \in items'
          PROVE  i \in 1..(head + 1) /\ i \in Nat /\ (i \in items \/ i > head)
      <3>1. CASE i \in items BY <2>2, <2>3, <3>1
      <3>2. CASE i = head + 1 BY <2>3, <3>2
      <3> QED BY <2>1, <2>4, <3>1, <3>2
    <2>5. \A n \in Nat : n <= head => n <= head + 1 BY <1>2
    <2>6. items' \subseteq 1..(head + 1) BY <2>4
    <2>7. head' \in Nat BY <1>1, <1>2
    <2> QED BY <1>1, <2>4, <2>5, <2>6, <2>7
  <1>4. Shapes'
    <2>1. LedgerShapes' BY <1>1, <1>3 DEF WindowsInv, Shapes, LedgerShapes
    <2>2. FilingShapes' BY <1>1, <1>2, <1>3 DEF WindowsInv, Shapes, FilingShapes
    <2>3. RunShapes'
      <3>1. ASSUME NEW r \in rows PROVE r.to <= head' /\ r.delta \subseteq items'
        BY <1>3 DEF WindowsInv, Shapes, RunShapes, RunType
      <3> QED BY <1>1, <3>1 DEF WindowsInv, Shapes, RunShapes
    <2>4. LocalShapes'
      <3>1. ASSUME NEW w \in Workers
            PROVE  win[w].from <= head' /\ win[w].to <= head' /\ win[w].items \subseteq items'
        BY <1>3 DEF WindowsInv, Shapes, LocalShapes, WindowType
      <3> QED BY <1>1, <3>1 DEF WindowsInv, Shapes, LocalShapes
    <2> QED BY <2>1, <2>2, <2>3, <2>4 DEF Shapes
  <1>5. OwnRows' BY <1>1 DEF WindowsInv, OwnRows, Own
  <1>6. RowsFollow' /\ Begun'
    <2>1. head' # 0 BY <1>1, <1>2
    <2> QED BY <1>1, <2>1 DEF WindowsInv, Organizing, RowsFollow, Begun, User
  <1>7. \A i : Settled(i)' <=> Settled(i) BY <1>1 DEF Settled, Counts, OneProcess
  <1>8. Based'
    <2>1. ASSUME NEW w \in Workers, NEW i \in items', i <= win[w].from PROVE i \in items
      BY <1>2, <1>3, <2>1 DEF WindowsInv, Shapes, LocalShapes, WindowType
    <2> QED BY <1>1, <1>7, <2>1 DEF WindowsInv, Organizing, Based, SettledTo
  <1>9. Claimed'
    <2>1. ASSUME NEW r \in rows, NEW i \in items', i <= r.to PROVE i \in items
      BY <1>2, <1>3, <2>1 DEF WindowsInv, Shapes, RunShapes, RunType
    <2> QED BY <1>1, <1>7, <2>1 DEF WindowsInv, Organizing, Claimed
  <1>10. Fresh'
    <2>1. Mark' = Mark /\ (OneProcess' <=> OneProcess) BY <1>1 DEF Mark, OneProcess
    <2> QED BY <1>1, <2>1 DEF WindowsInv, Organizing, Fresh
  <1>11. Filing'
    <2>1. ASSUME NEW S, NEW n \in Nat, n <= head, Filed(S, n)
          PROVE  \A i \in items' : i <= n => i \in S
      BY <1>2, <1>3, <2>1 DEF Filed
    <2>2. cursor \in Nat /\ cursor <= head
          /\ \A w \in Workers : /\ win[w].from \in Nat /\ win[w].from <= head
                                /\ win[w].to \in Nat /\ win[w].to <= head
      BY <1>2 DEF WindowsInv, Shapes, FilingShapes, LocalShapes, WindowType
    <2>3. \A S : \A n \in Nat : n <= head /\ Filed(S, n) => \A i \in items' : i <= n => i \in S
      BY <2>1
    <2> QED BY <1>1, <2>2, <2>3 DEF WindowsInv, Filing, User, Filed
  <1> QED BY <1>4, <1>5, <1>6, <1>8, <1>9, <1>10, <1>11 DEF Rest, Organizing

\* A worker inside or around a call is one of the scenario's.
LEMMA Employed ==
    ASSUME WindowsInv, NEW w \in Workers, pc[w] # "idle" \/ at[w] # "free"
    PROVE  w \in scenario.workers
  BY DEF WindowsInv, CallPlaces

\* What the window of a worker is, and where it has no row.
LEMMA WinFacts ==
    ASSUME WindowsInv, NEW w \in Workers
    PROVE  /\ win[w] \in WindowType /\ win[w].from \in Nat /\ win[w].to \in Nat
           /\ win[w].from <= head /\ win[w].to <= head /\ win[w].items \subseteq items
           /\ win[w].ok \in BOOLEAN /\ head \in Nat /\ items \subseteq Nat
           /\ at[w] \in WindowPlaces /\ at \in [Workers -> WindowPlaces]
           /\ win \in [Workers -> WindowType]
           /\ at[w] \notin RowPlaces => Own(w) = {}
           /\ NoWindow \in WindowType
           /\ cursor \in Nat /\ cursor <= head
  BY ScenarioFacts
     DEF WindowsInv, Shapes, LocalShapes, LedgerShapes, FilingShapes, WindowType, OwnRows, NoWindow

\* A worker leaves, or goes on, with nothing but its locals changed.
LEMMA LocalsOnly ==
    ASSUME WindowsInv, NEW w \in scenario.workers, NEW l \in WindowPlaces, NEW x \in WindowType,
           UNCHANGED <<scenario, ledger, filing, runs>>, mishaps' \in 0..scenario.mishaps,
           at' = [at EXCEPT ![w] = l], win' = [win EXCEPT ![w] = x],
           x.from <= head, x.to <= head, x.items \subseteq items,
           Own(w) # {} => l = at[w] \/ l = "end",
           User("organize") => (l # "free" => head # 0) /\ (l = "delta" => x.to # 0),
           l \in {"head", "delta"} => SettledTo(x.from) /\ (OneProcess => x.from = Mark)
    PROVE  Shapes' /\ OwnRows' /\ Organizing' /\ OthersStay(w) /\ at'[w] = l /\ win'[w] = x
  <1>0. w \in Workers BY ScenarioFacts DEF WindowsInv
  <1>1. /\ LedgerGrows /\ LedgerShapes' /\ FilingShapes' /\ RunShapes' /\ head' = head
        /\ items' = items /\ rows' = rows
    BY LedgerSame DEF ledger, runs
  <1>2. LocalShapes' /\ OthersStay(w) /\ at'[w] = l /\ win'[w] = x BY <1>0, <1>1, LocalsKept
  <1>3. BegunAt(w) BY <1>1, <1>2 DEF BegunAt
  <1>4. OwnRows' /\ Organizing' BY <1>1, <1>2, <1>3, NoRowChanged
  <1> QED BY <1>1, <1>2, <1>4 DEF Shapes

LEMMA LookStep == ASSUME WindowsInv, NEW w \in Workers, Look(w) PROVE Rest'
  <1> DEFINE x == [win[w] EXCEPT !.from = Floor]
  <1>1. /\ w \in scenario.workers /\ at[w] = "free" /\ (User("organize") => head > Mark)
        /\ UNCHANGED <<scenario, ledger, filing, runs, mishaps>>
        /\ at' = [at EXCEPT ![w] = "looked"] /\ win' = [win EXCEPT ![w] = x]
    BY DEF Look, At
  <1>2. Floor \in Nat /\ Floor <= head
    BY MarkFacts, WinFacts DEF Floor, WindowsInv
  <1>3. x \in WindowType /\ x.from = Floor /\ x.to = win[w].to /\ x.items = win[w].items
    BY <1>2, WinFacts DEF WindowType
  <1> HIDE DEF x
  <1>4. Own(w) = {} /\ mishaps' \in 0..scenario.mishaps
    <2>1. Own(w) = {} BY <1>1, WinFacts DEF RowPlaces, CanaryPlaces
    <2>2. mishaps' \in 0..scenario.mishaps BY <1>1 DEF WindowsInv, Shapes, LedgerShapes
    <2> QED BY <2>1, <2>2
  <1>5. User("organize") => head # 0
    <2>1. Mark \in Nat /\ head \in Nat BY MarkFacts, WinFacts DEF WindowsInv
    <2> QED BY <1>1, <2>1
  <1>6. /\ "looked" \in WindowPlaces
        /\ x.from <= head /\ x.to <= head /\ x.items \subseteq items
    BY <1>2, <1>3, WinFacts DEF WindowPlaces
  <1>7. /\ Shapes' /\ OwnRows' /\ Organizing' /\ OthersStay(w)
        /\ at'[w] = "looked" /\ win'[w] = x
    BY <1>1, <1>3, <1>4, <1>5, <1>6, LocalsOnly
  <1>8. Filing'
    <2>1. User("basic_filing") => Filed(linked, cursor) /\ Floor = cursor
      BY DEF WindowsInv, Filing, Floor, User
    <2> QED BY <1>1, <1>3, <1>7, <2>1, FilingKept DEF filing, ledger
  <1> QED BY <1>7, <1>8 DEF Rest

\* A call is over before it has done anything.
LEMMA ForgetStep ==
    ASSUME WindowsInv, NEW w \in scenario.workers, Own(w) = {}, Forgets(w),
           UNCHANGED <<scenario, ledger, filing, runs>>, mishaps' \in 0..scenario.mishaps
    PROVE  Rest'
  <1>0. w \in Workers BY ScenarioFacts DEF WindowsInv
  <1>1. at' = [at EXCEPT ![w] = "free"] /\ win' = [win EXCEPT ![w] = NoWindow]
    BY DEF Forgets, At
  <1>2. /\ NoWindow \in WindowType /\ NoWindow.from = 0 /\ NoWindow.to = 0 /\ NoWindow.items = {}
        /\ "free" \in WindowPlaces
    BY <1>0, WinFacts DEF NoWindow, WindowPlaces
  <1>3. /\ NoWindow.from <= head /\ NoWindow.to <= head /\ NoWindow.items \subseteq items
    BY <1>0, <1>2, WinFacts
  <1>4. Shapes' /\ OwnRows' /\ Organizing' /\ OthersStay(w) /\ at'[w] = "free"
    BY <1>1, <1>2, <1>3, LocalsOnly
  <1>5. Filing' BY <1>0, <1>4, FilingSame DEF ledger
  <1> QED BY <1>4, <1>5 DEF Rest

LEMMA AskToFileStep == ASSUME WindowsInv, NEW w \in Workers, AskToFile(w) PROVE Rest'
  <1> DEFINE window == ItemsSince(win[w].from)
             x == [win[w] EXCEPT !.to = Max(window), !.items = window]
  <1>1. User("basic_filing") /\ at[w] = "looked" /\ UNCHANGED <<scenario, mishaps, ledger, filing, runs>>
    BY DEF AskToFile
  <1>2. w \in scenario.workers /\ Own(w) = {} /\ ~User("organize")
    BY <1>1, Employed, WinFacts DEF RowPlaces, CanaryPlaces, User
  <1>3. CASE window = {}
    <2>1. mishaps' \in 0..scenario.mishaps BY <1>1 DEF WindowsInv, Shapes, LedgerShapes
    <2> QED BY <1>1, <1>2, <1>3, <2>1, ForgetStep DEF AskToFile
  <1>4. CASE window # {}
    <2>1. at' = [at EXCEPT ![w] = "asked"] /\ win' = [win EXCEPT ![w] = x]
      <3>1. win' = [win EXCEPT ![w].to = Max(window), ![w].items = window]
            /\ at' = [at EXCEPT ![w] = "asked"]
        BY <1>4 DEF AskToFile, At
      <3>2. win' = [win EXCEPT ![w] = x] BY <3>1, WinFacts
      <3> QED BY <3>1, <3>2
    <2>2. /\ window \subseteq items /\ Max(window) \in window
          /\ \A i \in items : win[w].from < i /\ i <= Max(window) => i \in window
      BY <1>4, WinFacts, ItemsSinceFacts DEF WindowsInv
    <2>3. Max(window) \in Nat /\ Max(window) <= head
      <3>1. items \subseteq 1..head /\ head \in Nat BY WinFacts DEF WindowsInv, Shapes, LedgerShapes
      <3>2. \A i \in items : i \in Nat /\ i <= head BY <3>1
      <3>3. Max(window) \in items BY <2>2
      <3> HIDE DEF window
      <3> QED BY <3>2, <3>3
    <2>4. /\ x \in WindowType /\ x.from = win[w].from /\ x.to = Max(window) /\ x.items = window
      <3>1. window \in SUBSET Nat BY <2>2, WinFacts
      <3> QED BY <2>3, <3>1, WinFacts DEF WindowType
    <2>5. "asked" \in WindowPlaces /\ mishaps' \in 0..scenario.mishaps
      BY <1>1 DEF WindowPlaces, WindowsInv, Shapes, LedgerShapes
    <2> HIDE DEF x, window
    <2>6. /\ Shapes' /\ OwnRows' /\ Organizing' /\ OthersStay(w)
          /\ at'[w] = "asked" /\ win'[w] = x
      <3>1. /\ x.from <= head /\ x.to <= head /\ x.items \subseteq items
            /\ Own(w) # {} => "asked" = at[w] \/ "asked" = "end"
            /\ User("organize") => ("asked" # "free" => head # 0) /\ ("asked" = "delta" => x.to # 0)
            /\ "asked" \in {"head", "delta"} => SettledTo(x.from) /\ (OneProcess => x.from = Mark)
        BY <1>1, <1>2, <2>1, <2>2, <2>3, <2>4, WinFacts
      <3> QED BY <1>1, <1>2, <2>1, <2>4, <2>5, <3>1, LocalsOnly
    <2>7. Filing'
      <3>1. Filed(linked, win[w].from) BY <1>1 DEF WindowsInv, Filing
      <3>2. ASSUME NEW i \in items, i <= Max(window) PROVE i \in linked \cup window
        <4>1. i \in Nat /\ win[w].from \in Nat BY <3>2, WinFacts
        <4>2. CASE i <= win[w].from BY <3>1, <4>2 DEF Filed
        <4>3. CASE win[w].from < i BY <2>2, <3>2, <4>3
        <4> QED BY <4>1, <4>2, <4>3
      <3>3. Filed(linked \cup window, Max(window)) BY <3>2 DEF Filed
      <3>4. Filed(linked, cursor) BY <1>1 DEF WindowsInv, Filing
      <3> QED BY <1>1, <2>4, <2>6, <3>3, <3>4, FilingKept DEF filing, ledger
    <2> QED BY <2>6, <2>7 DEF Rest
  <1> QED BY <1>3, <1>4

LEMMA AskToOrganizeStep == ASSUME WindowsInv, NEW w \in Workers, AskToOrganize(w) PROVE Rest'
  <1>1. /\ User("organize") /\ at[w] = "looked"
        /\ UNCHANGED <<scenario, mishaps, ledger, filing, runs, win>>
        /\ at' = [at EXCEPT ![w] = "asked"]
    BY DEF AskToOrganize, At
  <1>2. w \in scenario.workers /\ Own(w) = {} BY <1>1, Employed, WinFacts DEF RowPlaces, CanaryPlaces
  <1>3. win' = [win EXCEPT ![w] = win[w]] BY <1>1, WinFacts
  <1>4. head # 0 BY <1>1 DEF WindowsInv, Organizing, Begun
  <1>5. "asked" \in WindowPlaces /\ mishaps' \in 0..scenario.mishaps
    BY <1>1 DEF WindowPlaces, WindowsInv, Shapes, LedgerShapes
  <1>6. Shapes' /\ OwnRows' /\ Organizing' /\ OthersStay(w)
    BY <1>1, <1>2, <1>3, <1>4, <1>5, WinFacts, LocalsOnly
  <1>7. Filing' BY <1>1, <1>6, FilingSame DEF User, ledger
  <1> QED BY <1>6, <1>7 DEF Rest

\* The steps of a call that the windows do not notice.
LEMMA UnnoticedStep ==
    ASSUME WindowsInv, NEW w \in Workers,
           AskAny(w) \/ EnqueueAsked(w) \/ EndAnyWork(w) \/ CheckpointWork(w)
    PROVE  Rest'
  BY StandStill DEF AskAny, EnqueueAsked, EndAnyWork, CheckpointWork

\* A step of the organizer that changes its rows.
LEMMA RowsChange ==
    ASSUME WindowsInv, User("organize"), NEW w \in scenario.workers,
           NEW l \in WindowPlaces, NEW x \in WindowType, NEW f, RowStep(f, w),
           UNCHANGED <<scenario, ledger, filing>>, mishaps' \in 0..scenario.mishaps,
           failures' \in 0..(Ttl - 1), wait' \in Nat,
           at' = [at EXCEPT ![w] = l], win' = [win EXCEPT ![w] = x],
           x.from <= head, x.to <= head, x.items \subseteq items,
           l # "free" => head # 0, l \notin {"head", "delta"},
           \A q \in Own(w) :
                /\ GoodRow(f[q])
                /\ f[q].by = w => l \in RowPlaces /\ InPlace(f[q], l)
                /\ Counts(q) => Counts(f[q])
    PROVE  Rest'
  <1>0. w \in Workers BY ScenarioFacts DEF WindowsInv
  <1>1. LedgerGrows /\ LedgerShapes' /\ FilingShapes' /\ head' = head /\ items' = items
    BY LedgerSame DEF ledger
  <1>2. LocalShapes' /\ OthersStay(w) /\ at'[w] = l /\ win'[w] = x BY <1>0, <1>1, LocalsKept
  <1>3. RunShapes' BY <1>0, <1>1, RowShapes DEF RunShapes
  <1>4. BegunAt(w) BY <1>1, <1>2 DEF BegunAt
  <1>5. Moved(f, w) BY <1>2 DEF Moved
  <1>6. OwnRows' /\ Organizing' BY <1>1, <1>2, <1>4, <1>5, OrganizingKept
  <1>7. Filing' BY <1>0, <1>1, <1>2, FilingSame DEF User
  <1> QED BY <1>1, <1>2, <1>3, <1>6, <1>7 DEF Rest, Shapes

LEMMA Lease1Step == ASSUME WindowsInv, NEW w \in Workers, Lease1(w) PROVE Rest'
  <1>1. pc[w] = "lease" /\ UNCHANGED <<scenario, mishaps, ledger, filing, failures, wait>>
    BY DEF Lease1, LeaseJob
  <1>2. at[w] = "asked" \/ (at[w] = "free" /\ User("any"))
    <2>1. Fits("lease", at[w]) BY <1>1 DEF WindowsInv, CallPlaces
    <2>2. "lease" \in {"enqueue", "lease"} OBVIOUS
    <2>3. (User("any") => at[w] = "free") /\ (~User("any") => at[w] = "asked")
      BY <2>1, <2>2 DEF Fits
    <2> QED BY <2>3
  <1>3. w \in scenario.workers /\ Own(w) = {}
    BY <1>1, <1>2, Employed, WinFacts DEF RowPlaces, CanaryPlaces
  <1>4. mishaps' \in 0..scenario.mishaps BY <1>1 DEF WindowsInv, Shapes, LedgerShapes
  <1>5. scenario.user \in {"any", "basic_filing", "organize"} BY ScenarioFacts DEF WindowsInv
  <1>6. CASE pc'[w] = "idle" BY <1>1, <1>3, <1>4, <1>6, ForgetStep DEF Lease1, runs
  <1>7. CASE pc'[w] # "idle"
    <2>1. UNCHANGED win /\ win' = [win EXCEPT ![w] = win[w]]
      BY <1>7, WinFacts DEF Lease1
    <2>2. CASE User("any")
      <3>1. UNCHANGED <<at, rows>> BY <1>7, <2>2 DEF Lease1, User
      <3> QED BY <1>1, <2>1, <3>1, StandStill DEF runs, locals
    <2>3. CASE User("basic_filing")
      <3>1. at' = [at EXCEPT ![w] = "stage"] /\ UNCHANGED rows
        BY <1>7, <2>3 DEF Lease1, At, User
      <3>2. "stage" \in WindowPlaces /\ at[w] = "asked" /\ ~User("organize")
        BY <1>2, <2>3 DEF WindowPlaces, FilerPlaces, User
      <3>3. Shapes' /\ OwnRows' /\ Organizing' /\ OthersStay(w) /\ at'[w] = "stage"
        BY <1>1, <1>3, <1>4, <2>1, <3>1, <3>2, WinFacts, LocalsOnly DEF runs
      <3>4. Filing' BY <1>1, <2>1, <3>2, <3>3, FilingSame DEF ledger
      <3> QED BY <3>3, <3>4 DEF Rest
    <2>4. CASE User("organize")
      <3>1. at' = [at EXCEPT ![w] = "floor"]
            /\ \E old \in SUBSET {r \in rows : r.status = "running"} : rows' = Interrupted(old)
        BY <1>7, <2>4 DEF Lease1, At, User
      <3>2. PICK old \in SUBSET {r \in rows : r.status = "running"} : rows' = Interrupted(old)
        BY <3>1
      <3>3. RowStep(Errored(old), w) BY <3>2, ErroredStep DEF WindowsInv
      <3>4. "floor" \in WindowPlaces /\ head # 0
        BY <1>2, <2>4 DEF WindowPlaces, OrganizerPlaces, User, WindowsInv, Organizing, Begun
      <3>5. failures' \in 0..(Ttl - 1) /\ wait' \in Nat
        BY <1>1 DEF WindowsInv, Shapes, RunShapes
      <3>6. /\ win[w] \in WindowType /\ win[w].from <= head /\ win[w].to <= head
            /\ win[w].items \subseteq items
        BY WinFacts
      <3> QED BY <1>1, <1>3, <1>4, <2>1, <2>4, <3>1, <3>3, <3>4, <3>5, <3>6, RowsChange
    <2> QED BY <1>5, <2>2, <2>3, <2>4 DEF User
  <1> QED BY <1>6, <1>7

-----------------------------------------------------------------------------
(* The filer.                                                              *)

LEMMA WorkFacts ==
    ASSUME WindowsInv, NEW w \in Workers, NEW a, NEW b, Works(w, a, b), a # "free"
    PROVE  /\ w \in scenario.workers /\ at[w] = a /\ at' = [at EXCEPT ![w] = b]
           /\ UNCHANGED <<scenario, mishaps, ledger>> /\ mishaps' \in 0..scenario.mishaps
           /\ LedgerGrows /\ LedgerShapes' /\ UNCHANGED <<head, items>>
           /\ User("organize") => head # 0
  <1>1. /\ at[w] = a /\ at' = [at EXCEPT ![w] = b] /\ UNCHANGED <<scenario, mishaps, ledger>>
    BY DEF Works, At
  <1>2. mishaps' \in 0..scenario.mishaps BY <1>1 DEF WindowsInv, Shapes, LedgerShapes
  <1>3. User("organize") => head # 0 BY <1>1 DEF WindowsInv, Organizing, Begun
  <1> QED BY <1>1, <1>2, <1>3, Employed, LedgerSame DEF ledger

LEMMA FilerStep ==
    ASSUME WindowsInv, NEW w \in Workers, Stage(w) \/ Accept(w) \/ SetCursor(w)
    PROVE  Rest'
  <1>1. PICK a \in FilerPlaces, b \in FilerPlaces \cup {"end"} : Works(w, a, b)
    BY DEF Stage, Accept, SetCursor, FilerPlaces
  <1>2. /\ w \in scenario.workers /\ at[w] = a /\ at' = [at EXCEPT ![w] = b]
        /\ UNCHANGED <<scenario, mishaps, ledger>> /\ mishaps' \in 0..scenario.mishaps
        /\ LedgerGrows /\ LedgerShapes' /\ UNCHANGED <<head, items>>
    BY <1>1, WorkFacts DEF FilerPlaces
  <1>3. User("basic_filing") /\ ~User("organize") /\ Own(w) = {}
    <2>1. Fits(pc[w], a) BY <1>2 DEF WindowsInv, CallPlaces
    <2>2. User("basic_filing") /\ ~User("organize")
      BY <1>1, <2>1, ScenarioFacts DEF Fits, FilerPlaces, User, WindowsInv
    <2>3. Own(w) = {} BY <1>1, <1>2, WinFacts DEF FilerPlaces, RowPlaces, CanaryPlaces
    <2> QED BY <2>2, <2>3
  <1>4. UNCHANGED <<runs, win>> /\ win' = [win EXCEPT ![w] = win[w]] /\ b \in WindowPlaces
    BY <1>1, WinFacts DEF Stage, Accept, SetCursor, FilerPlaces, WindowPlaces
  <1>5. LocalShapes' /\ OthersStay(w) /\ at'[w] = b /\ win'[w] = win[w]
    BY <1>2, <1>4, WinFacts, LocalsKept
  <1>6. BegunAt(w) BY <1>3 DEF BegunAt
  <1>7. OwnRows' /\ Organizing'
    <2>1. b \notin {"head", "delta"} BY <1>1 DEF FilerPlaces
    <2> QED BY <1>2, <1>3, <1>4, <1>5, <1>6, <2>1, NoRowChanged DEF runs
  <1>8. RunShapes' BY <1>2, <1>4 DEF WindowsInv, Shapes, RunShapes, runs
  <1>9. /\ staged \subseteq items /\ linked \subseteq items /\ cursor \in 0..head
        /\ win[w].items \subseteq items /\ win[w].to \in 0..head /\ Filed(linked, cursor)
    <2>1. Filed(linked, cursor) BY <1>3 DEF WindowsInv, Filing
    <2> QED BY <2>1, WinFacts DEF WindowsInv, Shapes, FilingShapes
  <1>10. CASE Stage(w)
    <2>1. /\ at[w] = "stage" /\ b = "accept" /\ UNCHANGED <<cursor, linked>>
          /\ staged' = staged \cup (win[w].items \ linked)
      BY <1>2, <1>5, <1>10, WinFacts DEF Stage, Works, At
    <2>2. FilingShapes' BY <1>2, <1>9, <2>1 DEF FilingShapes
    <2>3. Filed(linked \cup win[w].items, win[w].to) BY <1>3, <2>1 DEF WindowsInv, Filing
    <2>4. Filed(linked' \cup staged', win'[w].to) BY <1>5, <2>1, <2>3 DEF Filed
    <2>5. Filing' BY <1>2, <1>5, <1>9, <2>1, <2>4, FilingKept
    <2> QED BY <1>2, <1>5, <1>7, <1>8, <2>2, <2>5 DEF Rest, Shapes
  <1>11. CASE Accept(w)
    <2>1. /\ at[w] = "accept" /\ b = "mark" /\ UNCHANGED cursor
          /\ linked' = linked \cup staged /\ staged' = {}
      BY <1>2, <1>5, <1>11, WinFacts DEF Accept, Works, At
    <2>2. FilingShapes' BY <1>2, <1>9, <2>1 DEF FilingShapes
    <2>3. Filed(linked \cup staged, win[w].to) BY <1>3, <2>1 DEF WindowsInv, Filing
    <2>4. Filed(linked', cursor') BY <1>9, <2>1 DEF Filed
    <2>5. Filing' BY <1>2, <1>5, <2>1, <2>3, <2>4, FilingKept
    <2> QED BY <1>2, <1>5, <1>7, <1>8, <2>2, <2>5 DEF Rest, Shapes
  <1>12. CASE SetCursor(w)
    <2>1. /\ at[w] = "mark" /\ b = "end" /\ UNCHANGED <<staged, linked>> /\ cursor' = win[w].to
      BY <1>2, <1>5, <1>12, WinFacts DEF SetCursor, Reached, Works, At
    <2>2. FilingShapes' BY <1>2, <1>9, <2>1 DEF FilingShapes
    <2>3. Filed(linked, win[w].to) BY <1>3, <2>1 DEF WindowsInv, Filing
    <2>4. Filing' BY <1>2, <1>5, <2>1, <2>3, FilingKept
    <2> QED BY <1>2, <1>5, <1>7, <1>8, <2>2, <2>4 DEF Rest, Shapes
  <1> QED BY <1>10, <1>11, <1>12

-----------------------------------------------------------------------------
(* The organizer.                                                          *)

\* In its pass and in the canary only the organizer is.
LEMMA OrganizerFacts ==
    ASSUME WindowsInv, NEW w \in Workers, at[w] \in OrganizerPlaces \cup CanaryPlaces
    PROVE  User("organize") /\ ~User("basic_filing") /\ head # 0 /\ w \in scenario.workers
  <1>1. Fits(pc[w], at[w]) BY DEF WindowsInv, CallPlaces
  <1>2. User("organize") /\ ~User("basic_filing")
    BY <1>1, ScenarioFacts
       DEF Fits, User, FilerPlaces, OrganizerPlaces, CanaryPlaces, WindowsInv
  <1>3. at[w] # "free" BY DEF OrganizerPlaces, CanaryPlaces
  <1> QED BY <1>2, <1>3, Employed DEF WindowsInv, Organizing, Begun

\* The row of a worker's own pass.
LEMMA OwnPass ==
    ASSUME WindowsInv, NEW w \in Workers, NEW q \in Own(w)
    PROVE  /\ q \in rows /\ q.by = w /\ GoodRow(q) /\ InPlace(q, at[w])
           /\ To(w) = q.to /\ q.to \in Nat
  <1>1. q \in rows /\ q.by = w BY DEF Own
  <1>2. To(w) = q.to BY ToTyped DEF WindowsInv, OwnRows
  <1>3. q.to \in Nat BY <1>1 DEF WindowsInv, Shapes, RunShapes, RunType
  <1> QED BY <1>1, <1>2, <1>3 DEF WindowsInv, Organizing, RowsFollow

\* The counters and the mishaps of a pass have their types.
LEMMA CountersTyped ==
    ASSUME WindowsInv
    PROVE  /\ failures \in 0..(Ttl - 1) /\ wait \in Nat /\ 0 \in 0..(Ttl - 1)
           /\ Mishap => mishaps' \in 0..scenario.mishaps
           /\ UNCHANGED mishaps => mishaps' \in 0..scenario.mishaps
  <1>1. failures \in 0..(Ttl - 1) /\ wait \in Nat /\ mishaps \in 0..scenario.mishaps
    BY DEF WindowsInv, Shapes, LedgerShapes, RunShapes
  <1>2. scenario.mishaps \in Nat /\ Ttl \in Nat /\ Ttl # 0 BY ScenarioFacts DEF WindowsInv
  <1>3. Mishap => mishaps' \in 0..scenario.mishaps BY <1>1, <1>2 DEF Mishap
  <1> QED BY <1>1, <1>2, <1>3

LEMMA ReadFloorStep == ASSUME WindowsInv, NEW w \in Workers, ReadFloor(w) PROVE Rest'
  <1> DEFINE x == [win[w] EXCEPT !.from = Mark]
  <1>1. Works(w, "floor", "head") /\ UNCHANGED <<filing, runs>> /\ win' = [win EXCEPT ![w] = x]
    BY DEF ReadFloor
  <1>2. /\ w \in scenario.workers /\ at[w] = "floor" /\ at' = [at EXCEPT ![w] = "head"]
        /\ UNCHANGED <<scenario, mishaps, ledger>> /\ mishaps' \in 0..scenario.mishaps
        /\ UNCHANGED items
    BY <1>1, WorkFacts
  <1>3. ~User("basic_filing") /\ head # 0 /\ Own(w) = {} /\ "head" \in WindowPlaces
    BY <1>2, OrganizerFacts, WinFacts
       DEF OrganizerPlaces, RowPlaces, CanaryPlaces, WindowPlaces
  <1>4. Mark \in Nat /\ Mark <= head /\ SettledTo(Mark)
    BY MarkFacts, MarkSettled DEF WindowsInv
  <1>5. x \in WindowType /\ x.from = Mark /\ x.to = win[w].to /\ x.items = win[w].items
    BY <1>4, WinFacts DEF WindowType
  <1> HIDE DEF x
  <1>6. x.from <= head /\ x.to <= head /\ x.items \subseteq items BY <1>4, <1>5, WinFacts
  <1>7. Shapes' /\ OwnRows' /\ Organizing' /\ OthersStay(w)
    BY <1>1, <1>2, <1>3, <1>4, <1>5, <1>6, LocalsOnly
  <1>8. Filing' BY <1>1, <1>2, <1>3, <1>7, FilingSame
  <1> QED BY <1>7, <1>8 DEF Rest

LEMMA ReadHeadStep == ASSUME WindowsInv, NEW w \in Workers, ReadHead(w) PROVE Rest'
  <1> DEFINE x == [win[w] EXCEPT !.to = head]
  <1>1. Works(w, "head", "delta") /\ UNCHANGED <<filing, runs>> /\ win' = [win EXCEPT ![w] = x]
    BY DEF ReadHead
  <1>2. /\ w \in scenario.workers /\ at[w] = "head" /\ at' = [at EXCEPT ![w] = "delta"]
        /\ UNCHANGED <<scenario, mishaps, ledger>> /\ mishaps' \in 0..scenario.mishaps
        /\ UNCHANGED items
    BY <1>1, WorkFacts
  <1>3. ~User("basic_filing") /\ head # 0 /\ Own(w) = {} /\ "delta" \in WindowPlaces
    BY <1>2, OrganizerFacts, WinFacts
       DEF OrganizerPlaces, RowPlaces, CanaryPlaces, WindowPlaces
  <1>4. SettledTo(win[w].from) /\ (OneProcess => win[w].from = Mark)
    BY <1>2 DEF WindowsInv, Organizing, Based, Fresh
  <1>5. x \in WindowType /\ x.from = win[w].from /\ x.to = head /\ x.items = win[w].items
    BY WinFacts DEF WindowType
  <1> HIDE DEF x
  <1>6. x.from <= head /\ x.to <= head /\ x.items \subseteq items BY <1>5, WinFacts
  <1>7. Shapes' /\ OwnRows' /\ Organizing' /\ OthersStay(w)
    BY <1>1, <1>2, <1>3, <1>4, <1>5, <1>6, LocalsOnly
  <1>8. Filing' BY <1>1, <1>2, <1>3, <1>7, FilingSame
  <1> QED BY <1>7, <1>8 DEF Rest

\* What a pass does with its own row, before it ends.
LEMMA JudgeStep ==
    ASSUME WindowsInv, NEW w \in Workers, at[w] \in {"judge", "skip"},
           NEW l \in {"skip", "end"}, NEW ok \in BOOLEAN,
           NEW s \in {"running", "done", "error"},
           NEW o \in {"done", "error", "skipped", "expired"}, NEW t,
           o \in {"done", "expired"} => at[w] = "judge" /\ \A q \in Own(w) : t = q.to,
           o \in {"error", "skipped"} => t = 0,
           l = "skip" => s = "running",
           rows' = Update(w, s, o, t),
           UNCHANGED <<scenario, ledger, filing>>, mishaps' \in 0..scenario.mishaps,
           failures' \in 0..(Ttl - 1), wait' \in Nat,
           at' = [at EXCEPT ![w] = l], win' = [win EXCEPT ![w].ok = ok]
    PROVE  Rest'
  <1> DEFINE x == [win[w] EXCEPT !.ok = ok]
             f == Updated(w, s, o, t)
  <1>1. User("organize") /\ head # 0 /\ w \in scenario.workers /\ l \in WindowPlaces
    BY OrganizerFacts DEF OrganizerPlaces, WindowPlaces
  <1>2. /\ win' = [win EXCEPT ![w] = x] /\ x \in WindowType
        /\ x.from <= head /\ x.to <= head /\ x.items \subseteq items
    BY WinFacts DEF WindowType
  <1>3. \A q \in Own(w) : t \in {q.to, 0} OBVIOUS
  <1>4. /\ RowStep(f, w)
        /\ \A q \in Own(w) :
            f[q].by = w /\ f[q].status = s /\ f[q].outcome = o /\ f[q].to = t
    BY <1>3, UpdatedStep DEF WindowsInv
  <1> HIDE DEF x, f
  <1>5. ASSUME NEW q \in Own(w)
        PROVE  /\ GoodRow(f[q]) /\ ~Counts(q)
               /\ l \in RowPlaces /\ InPlace(f[q], l)
    <2>1. GoodRow(q) /\ InPlace(q, at[w]) /\ q \in rows BY OwnPass
    <2>2. /\ f[q].status = s /\ f[q].outcome = o /\ f[q].to = t /\ f[q].delta = q.delta
      BY <1>4, <2>1 DEF RowStep
    <2>3. ~Counts(q) BY <2>1 DEF InPlace, Counts
    <2>4. l \in RowPlaces /\ InPlace(f[q], l) BY <2>2 DEF InPlace, RowPlaces
    <2>5. GoodRow(f[q])
      <3>1. CASE o \in {"done", "expired"}
        <4>1. t = q.to /\ q.outcome = "none" BY <2>1, <3>1 DEF InPlace
        <4> QED BY <2>1, <2>2, <3>1, <4>1 DEF GoodRow
      <3>2. CASE o \in {"error", "skipped"}
        <4>1. t = 0 BY <3>2
        <4> QED BY <2>2, <3>2, <4>1 DEF GoodRow
      <3> QED BY <3>1, <3>2
    <2> QED BY <2>3, <2>4, <2>5
  <1> QED BY <1>1, <1>2, <1>4, <1>5, RowsChange

LEMMA PassStep ==
    ASSUME WindowsInv, NEW w \in Workers,
           Organized(w) \/ SkipRelease(w) \/ SkipDone(w) \/ ClassifierFails(w)
    PROVE  Rest'
  <1>1. PICK t : t = To(w) /\ \A q \in Own(w) : t = q.to BY OwnPass
  <1>2. /\ failures \in 0..(Ttl - 1) /\ wait \in Nat /\ 0 \in 0..(Ttl - 1)
        /\ Mishap => mishaps' \in 0..scenario.mishaps
        /\ UNCHANGED mishaps => mishaps' \in 0..scenario.mishaps
    BY CountersTyped
  <1>3. win[w].ok \in BOOLEAN /\ (UNCHANGED win => win' = [win EXCEPT ![w].ok = win[w].ok])
    <2>1. win \in [Workers -> WindowType] /\ win[w] = [win[w] EXCEPT !.ok = win[w].ok]
      BY WinFacts DEF WindowType
    <2> QED BY <2>1, WinFacts
  <1>4. CASE Organized(w)
    <2>1. /\ at[w] = "judge" /\ at' = [at EXCEPT ![w] = "end"] /\ UNCHANGED <<filing, wait, win>>
          /\ rows' = Update(w, "done", "done", To(w)) /\ UNCHANGED <<scenario, mishaps, ledger>>
      BY <1>4 DEF Organized, Works, At
    <2>2. failures' \in 0..(Ttl - 1) BY <1>2, <1>4 DEF Organized
    <2>3. rows' = Update(w, "done", "done", t) BY <1>1, <2>1
    <2> QED BY <1>1, <1>2, <1>3, <2>1, <2>2, <2>3, JudgeStep
  <1>5. CASE SkipRelease(w)
    <2>1. /\ at[w] = "judge" /\ at' = [at EXCEPT ![w] = "skip"]
          /\ UNCHANGED <<filing, failures, wait, win>>
          /\ rows' = Update(w, "running", "skipped", 0) /\ UNCHANGED <<scenario, mishaps, ledger>>
      BY <1>5 DEF SkipRelease, SkippedRow, Works, At
    <2> QED BY <1>2, <1>3, <2>1, JudgeStep
  <1>6. CASE SkipDone(w)
    <2>1. /\ at[w] = "skip" /\ at' = [at EXCEPT ![w] = "end"]
          /\ UNCHANGED <<filing, failures, wait, win>>
          /\ rows' = Update(w, "done", "skipped", 0) /\ UNCHANGED <<scenario, mishaps, ledger>>
      BY <1>6 DEF SkipDone, Works, At
    <2> QED BY <1>2, <1>3, <2>1, JudgeStep
  <1>7. CASE ClassifierFails(w)
    <2>1. /\ at[w] = "judge" /\ at' = [at EXCEPT ![w] = "end"] /\ Mishap
          /\ UNCHANGED <<scenario, ledger, filing>> /\ win' = [win EXCEPT ![w].ok = FALSE]
      BY <1>7 DEF ClassifierFails, At
    <2>2. CASE Spent
      <3>1. rows' = Update(w, "done", "expired", To(w)) /\ failures' = 0 /\ wait' = 0
        BY <1>7, <2>2 DEF ClassifierFails
      <3>2. rows' = Update(w, "done", "expired", t) BY <1>1, <3>1
      <3> QED BY <1>1, <1>2, <2>1, <3>1, <3>2, JudgeStep
    <2>3. CASE ~Spent
      <3>1. /\ rows' = Update(w, "error", "error", 0) /\ failures' = failures + 1
            /\ wait' = Backoffs[failures + 1]
        BY <1>7, <2>3 DEF ClassifierFails, FailedRow
      <3>2. Ttl \in Nat /\ failures + 1 < Ttl /\ failures \in Nat
        BY <1>2, <2>3, ScenarioFacts DEF Spent, WindowsInv
      <3>3. failures' \in 0..(Ttl - 1) /\ wait' \in Nat
        <4>1. failures + 1 \in 1..(Ttl - 1) /\ failures + 1 \in 0..(Ttl - 1) BY <3>2
        <4> QED BY <3>1, <4>1, WindowsAssumptions
      <3> QED BY <1>2, <2>1, <3>1, <3>3, JudgeStep
    <2> QED BY <2>2, <2>3
  <1> QED BY <1>4, <1>5, <1>6, <1>7

LEMMA WorkFailsStep == ASSUME WindowsInv, NEW w \in Workers, WorkFails(w) PROVE Rest'
  <1> DEFINE x == [win[w] EXCEPT !.ok = FALSE]
  <1>1. /\ at[w] # "free" /\ at' = [at EXCEPT ![w] = "end"] /\ Mishap
        /\ win' = [win EXCEPT ![w] = x] /\ UNCHANGED <<scenario, ledger, filing, runs>>
    BY DEF WorkFails, At
  <1>2. w \in scenario.workers /\ mishaps' \in 0..scenario.mishaps
        /\ (User("organize") => head # 0) /\ "end" \in WindowPlaces
    BY <1>1, Employed, CountersTyped DEF WindowsInv, Organizing, Begun, WindowPlaces
  <1>3. /\ x \in WindowType /\ x.from <= head /\ x.to <= head /\ x.items \subseteq items
    BY WinFacts DEF WindowType
  <1> HIDE DEF x
  <1>4. Shapes' /\ OwnRows' /\ Organizing' /\ OthersStay(w) /\ at'[w] = "end"
    BY <1>1, <1>2, <1>3, LocalsOnly
  <1>5. Filing' BY <1>1, <1>4, FilingSame DEF ledger
  <1> QED BY <1>4, <1>5 DEF Rest

\* The seq a new row claims is one of the ledger's and not 0, and every item
\* between the floor and it is in the delta.
LEMMA SeqToFacts ==
    ASSUME Shapes, NEW from \in Nat, NEW to \in Nat, to <= head, to # 0
    PROVE  LET delta == ItemsSince(from)
           IN  /\ SeqTo(delta, to) \in Nat /\ SeqTo(delta, to) <= head /\ SeqTo(delta, to) # 0
               /\ \A i \in items : i > from /\ i <= SeqTo(delta, to) => i \in delta
  <1> DEFINE delta == ItemsSince(from)
             t == SeqTo(delta, to)
  <1>1. /\ delta \subseteq items /\ IsFiniteSet(delta)
        /\ \A i \in items, m \in delta : from < i /\ i <= m => i \in delta
        /\ Cardinality(delta) < scenario.cap => \A i \in items : i > from => i \in delta
        /\ delta # {} => Max(delta) \in delta
    BY ItemsSinceFacts
  <1>2. /\ scenario.cap \in Nat /\ scenario.cap # 0 /\ head \in Nat
        /\ \A i \in items : i \in Nat /\ i # 0 /\ i <= head
    <2>1. items \subseteq 1..head BY DEF Shapes, LedgerShapes
    <2>2. \A i \in items : i \in 1..head BY <2>1
    <2> QED BY <2>2, ScenarioFacts
  <1>3. t = IF Cardinality(delta) >= scenario.cap THEN Max(delta) ELSE to BY DEF SeqTo
  <1> HIDE DEF delta, t
  <1>4. Cardinality(delta) \in Nat /\ (delta = {} => Cardinality(delta) = 0)
    BY <1>1, FS_CardinalityType, FS_EmptySet
  <1>5. CASE Cardinality(delta) >= scenario.cap
    <2>1. t \in delta
      <3>1. delta # {} BY <1>2, <1>4, <1>5
      <3> QED BY <1>1, <1>3, <1>5, <3>1
    <2>2. t \in items BY <1>1, <2>1
    <2>3. \A i \in items : i > from /\ i <= t => i \in delta
      <3>1. \A i \in items : i > from => from < i BY <1>2
      <3> QED BY <1>1, <2>1, <3>1
    <2> QED BY <1>2, <2>2, <2>3 DEF t, delta
  <1>6. CASE Cardinality(delta) < scenario.cap
    <2>1. t = to BY <1>2, <1>3, <1>4, <1>6
    <2> QED BY <1>1, <1>6, <2>1 DEF t, delta
  <1> QED BY <1>2, <1>4, <1>5, <1>6

LEMMA InsertRunStep == ASSUME WindowsInv, NEW w \in Workers, InsertRun(w) PROVE Rest'
  <1> DEFINE from == win[w].from
             delta == ItemsSince(from)
             t == SeqTo(delta, win[w].to)
             r0 == Row(w, t, delta)
             x == [win[w] EXCEPT !.items = delta]
  <1>1. /\ Works(w, "delta", "judge") /\ rows' = rows \cup {r0}
        /\ UNCHANGED <<filing, failures>>
    BY DEF InsertRun
  <1>2. /\ w \in scenario.workers /\ at[w] = "delta" /\ at' = [at EXCEPT ![w] = "judge"]
        /\ UNCHANGED <<scenario, mishaps, ledger>>
        /\ LedgerGrows /\ LedgerShapes' /\ UNCHANGED <<head, items>>
    BY <1>1, WorkFacts
  <1>3. User("organize") /\ ~User("basic_filing") /\ head # 0 /\ Own(w) = {}
    BY <1>2, OrganizerFacts, WinFacts DEF OrganizerPlaces, RowPlaces, CanaryPlaces
  <1>4. /\ from \in Nat /\ win[w].to \in Nat /\ win[w].to <= head /\ win[w].to # 0
        /\ SettledTo(from) /\ (OneProcess => from = Mark)
    BY <1>2, <1>3, WinFacts DEF WindowsInv, Organizing, Based, Begun, Fresh
  <1>5. delta \subseteq items /\ \A i \in delta : i > from
    BY <1>4, ItemsSinceFacts DEF WindowsInv
  <1>6. /\ t \in Nat /\ t <= head /\ t # 0
        /\ \A i \in items : i > from /\ i <= t => i \in delta
    BY <1>4, SeqToFacts DEF WindowsInv
  <1>7. win' = [win EXCEPT ![w] = x]
    <2>1. win' = [win EXCEPT ![w].items = delta] BY DEF InsertRun
    <2> QED BY <2>1, WinFacts
  <1>8. wait' \in Nat
    <2>1. wait \in Nat BY CountersTyped
    <2>2. PICK left \in 0..(IF wait = 0 THEN 0 ELSE wait - 1) : wait' = left BY DEF InsertRun
    <2> QED BY <2>1, <2>2
  <1>9. delta \in SUBSET Nat BY <1>5, WinFacts
  <1>10. x \in WindowType /\ x.from = from /\ x.to = win[w].to /\ x.items = delta
    BY <1>9, WinFacts DEF WindowType
  <1>11. /\ r0 \in RunType /\ r0.by = w /\ r0.to = t /\ r0.delta = delta
         /\ r0.status = "running" /\ r0.outcome = "none"
    BY <1>6, <1>9 DEF Row, RunType
  <1> HIDE DEF x, r0, t, delta, from
  <1>12. LocalShapes' /\ OthersStay(w) /\ at'[w] = "judge" /\ win'[w] = x
    <2>1. "judge" \in WindowPlaces BY DEF WindowPlaces, OrganizerPlaces
    <2>2. x.from <= head' /\ x.to <= head' /\ x.items \subseteq items'
      BY <1>2, <1>5, <1>10, WinFacts DEF from
    <2> QED BY <1>2, <1>7, <1>10, <2>1, <2>2, LocalsKept
  <1>13. RunShapes' /\ FilingShapes'
    <2>1. RunShapes'
      BY <1>1, <1>2, <1>5, <1>6, <1>8, <1>11 DEF WindowsInv, Shapes, RunShapes
    <2> QED BY <1>1, <1>2, <2>1, LedgerSame
  <1>14. \A r \in rows' : r \in rows \/ r = r0 BY <1>1
  <1>15. OwnRows'
    <2>1. ASSUME NEW v \in Workers
          PROVE  (\A r, q \in Own(v)' : r = q) /\ (Own(v)' # {} => at'[v] \in RowPlaces)
      <3>1. Own(v)' = {r \in rows' : r.by = v} /\ Own(v) = {r \in rows : r.by = v} BY DEF Own
      <3>2. CASE v = w
        <4>1. \A r \in rows : r.by # w BY <1>3 DEF Own
        <4>2. \A r \in Own(v)' : r = r0 BY <1>14, <3>1, <3>2, <4>1
        <4> QED BY <1>12, <3>2, <4>2 DEF RowPlaces
      <3>3. CASE v # w
        <4>1. Own(v)' = Own(v) BY <1>1, <1>11, <3>1, <3>3
        <4> QED BY <1>12, <3>3, <4>1 DEF OthersStay, WindowsInv, OwnRows
      <3> QED BY <3>2, <3>3
    <2> QED BY <2>1 DEF OwnRows
  <1>16. RowsFollow'
    <2>1. User("organize")' BY <1>2, <1>3 DEF User
    <2>2. GoodRow(r0) /\ InPlace(r0, "judge") BY <1>6, <1>11 DEF GoodRow, InPlace
    <2>3. ASSUME NEW r \in rows'
          PROVE  GoodRow(r) /\ \A v \in Workers : r.by = v => InPlace(r, at'[v])
      <3>1. CASE r = r0 BY <1>11, <1>12, <2>2, <3>1
      <3>2. CASE r \in rows
        <4>1. r.by # w BY <1>3, <3>2 DEF Own
        <4>2. \A v \in Workers : r.by = v => at'[v] = at[v] BY <1>12, <4>1 DEF OthersStay
        <4> QED BY <3>2, <4>2 DEF WindowsInv, Organizing, RowsFollow
      <3> QED BY <1>14, <3>1, <3>2
    <2> QED BY <2>1, <2>3 DEF RowsFollow
  <1>17. Begun'
    <2>1. BegunAt(w) BY <1>2, <1>3, <1>12 DEF BegunAt
    <2> QED BY <1>2, <1>12, <2>1, BegunKept
  <1>18. (OneProcess' <=> OneProcess) /\ \A i : Settled(i) => Settled(i)'
    <2>1. OneProcess' <=> OneProcess BY <1>2 DEF OneProcess
    <2> QED BY <1>1, <2>1 DEF Settled, Counts
  <1>19. Based'
    <2>1. ASSUME NEW v \in Workers, at'[v] \in {"head", "delta"}, NEW i \in items',
                 i <= win'[v].from
          PROVE  Settled(i)'
      <3>1. v # w BY <1>12, <2>1
      <3>2. at'[v] = at[v] /\ win'[v] = win[v] BY <1>12, <3>1 DEF OthersStay
      <3> QED BY <1>2, <1>18, <2>1, <3>2 DEF WindowsInv, Organizing, Based, SettledTo
    <2> QED BY <2>1 DEF Based, SettledTo
  <1>20. Claimed'
    <2>1. ASSUME NEW r \in rows', r.by # Nobody \/ r.status = "done", NEW i \in items', i <= r.to
          PROVE  i \in r.delta \/ Settled(i)'
      <3>1. CASE r = r0
        <4>1. i \in items /\ i \in Nat BY <1>2, WinFacts
        <4>2. CASE i <= from BY <1>4, <1>18, <4>1, <4>2 DEF SettledTo
        <4>3. CASE i > from BY <1>6, <1>11, <2>1, <3>1, <4>1, <4>3
        <4> QED BY <1>4, <4>1, <4>2, <4>3
      <3>2. CASE r \in rows
        BY <1>2, <1>18, <2>1, <3>2 DEF WindowsInv, Organizing, Claimed
      <3> QED BY <1>14, <3>1, <3>2
    <2> QED BY <2>1 DEF Claimed
  <1>21. Fresh'
    <2> SUFFICES ASSUME OneProcess
                 PROVE  /\ \A v \in Workers : at'[v] \in {"head", "delta"} => win'[v].from = Mark'
                        /\ \A r, q \in rows' : r.by # Nobody /\ q # r /\ q.status = "done" =>
                              \A i \in r.delta : i > q.to
      BY <1>18 DEF Fresh
    <2>1. ASSUME NEW v \in Workers, at'[v] \in {"head", "delta"} PROVE FALSE
      <3>1. v # w BY <1>12, <2>1
      <3>2. at[v] # "free" BY <1>12, <2>1, <3>1 DEF OthersStay
      <3>3. v \in scenario.workers BY <3>2, Employed
      <3> QED BY <1>2, <3>1, <3>3, OneWorker DEF WindowsInv
    <2>2. ASSUME NEW r \in rows', NEW q \in rows', r.by # Nobody, q # r, q.status = "done",
                 NEW i \in r.delta
          PROVE  i > q.to
      <3>1. q \in rows BY <1>11, <1>14, <2>2
      <3>2. r = r0
        <4>1. ASSUME r \in rows PROVE FALSE
          <5>1. r.by = w BY <1>2, <2>2, <4>1, RowWorkers, OneWorker DEF WindowsInv
          <5> QED BY <1>3, <4>1, <5>1 DEF Own
        <4> QED BY <1>14, <4>1
      <3>3. q.to <= Mark /\ q.to \in Nat
        BY <2>2, <3>1, MarkFacts DEF WindowsInv, Shapes, RunShapes, RunType
      <3>4. i > Mark /\ i \in Nat /\ Mark \in Nat
        <4>1. i \in delta BY <1>11, <2>2, <3>2
        <4>2. from = Mark BY <1>4
        <4> QED BY <1>4, <1>5, <1>9, <4>1, <4>2
      <3> QED BY <3>3, <3>4
    <2> QED BY <2>1, <2>2
  <1>22. Filing' BY <1>1, <1>2, <1>3, <1>12, FilingSame
  <1> QED BY <1>2, <1>12, <1>13, <1>15, <1>16, <1>17, <1>19, <1>20, <1>21, <1>22
          DEF Rest, Shapes, Organizing

-----------------------------------------------------------------------------
(* The end of a call.                                                      *)

\* Without the organizer there are no rows.
LEMMA NoRows ==
    ASSUME WindowsInv, ~User("organize"), NEW w \in Workers
    PROVE  /\ rows = {} /\ Own(w) = {} /\ Disown(w) = {}
           /\ Interrupted({r \in rows : r.status = "running"}) = {}
  <1>1. rows = {} BY DEF WindowsInv, Organizing, RowsFollow
  <1> QED BY <1>1 DEF Own, Disown, Interrupted, Read

\* Calling an organizer's rows failed leaves its own row where it is.
LEMMA EndWorkStep == ASSUME WindowsInv, NEW w \in Workers, EndWork(w) PROVE Rest'
  <1> DEFINE old == {r \in rows : r.status = "running"}
             f == Errored(old)
  <1>1. /\ at[w] = "end" /\ (rows' = rows \/ rows' = Interrupted(old))
        /\ UNCHANGED <<scenario, mishaps, ledger, filing, failures, wait, locals>>
    BY DEF EndWork
  <1>2. CASE rows' = rows BY <1>1, <1>2, StandStill DEF runs
  <1>3. CASE rows' = Interrupted(old) /\ ~User("organize")
    BY <1>1, <1>3, NoRows, StandStill DEF runs
  <1>4. CASE rows' = Interrupted(old) /\ User("organize")
    <2>1. RowStep(f, w) BY <1>4, ErroredStep DEF WindowsInv
    <2>2. \A q \in rows : f[q] = IF q \in old THEN [q EXCEPT !.status = "error"] ELSE q
      BY DEF Errored
    <2>3. ASSUME NEW q \in Own(w)
          PROVE  /\ GoodRow(f[q]) /\ "end" \in RowPlaces /\ InPlace(f[q], "end")
                 /\ Counts(q) => Counts(f[q])
      <3>1. q \in rows /\ GoodRow(q) BY OwnPass
      <3>2. CASE q.status = "running"
        <4>1. f[q] = [q EXCEPT !.status = "error"] BY <2>2, <3>1, <3>2
        <4>2. q \in RunType BY <3>1, RowsAreRuns DEF WindowsInv
        <4>3. f[q].status = "error" /\ f[q].outcome = q.outcome /\ f[q].to = q.to
              /\ f[q].delta = q.delta
          BY <4>1, <4>2 DEF RunType
        <4> QED BY <3>1, <3>2, <4>3 DEF GoodRow, RowPlaces, InPlace, Counts
      <3>3. CASE q.status # "running"
        <4>1. f[q] = q BY <2>2, <3>1, <3>3
        <4> QED BY <3>1, <4>1 DEF RowPlaces, InPlace
      <3> QED BY <3>2, <3>3
    <2>4. w \in scenario.workers /\ head # 0 /\ "end" \in WindowPlaces
      BY <1>1, <1>4, Employed DEF WindowsInv, Organizing, Begun, WindowPlaces
    <2>5. /\ at' = [at EXCEPT ![w] = "end"] /\ win' = [win EXCEPT ![w] = win[w]]
          /\ mishaps' \in 0..scenario.mishaps /\ failures' \in 0..(Ttl - 1) /\ wait' \in Nat
      BY <1>1, WinFacts, CountersTyped DEF locals
    <2>6. /\ win[w] \in WindowType /\ win[w].from <= head /\ win[w].to <= head
          /\ win[w].items \subseteq items
      BY WinFacts
    <2> HIDE DEF f
    <2> QED BY <1>1, <1>4, <2>1, <2>3, <2>4, <2>5, <2>6, RowsChange
  <1> QED BY <1>1, <1>2, <1>3, <1>4

\* A worker is done with its row, or gone.
LEMMA DisownStep ==
    ASSUME WindowsInv, NEW w \in scenario.workers, Forgets(w), rows' = Disown(w),
           UNCHANGED <<scenario, ledger, filing, failures, wait>>,
           mishaps' \in 0..scenario.mishaps
    PROVE  Rest'
  <1> DEFINE f == Disowned(w)
  <1>0. w \in Workers BY ScenarioFacts DEF WindowsInv
  <1>1. CASE ~User("organize")
    BY <1>0, <1>1, NoRows, ForgetStep DEF runs
  <1>2. CASE User("organize")
    <2>1. /\ RowStep(f, w)
          /\ \A q \in Own(w) : /\ f[q].by = Nobody /\ f[q].status = q.status
                               /\ f[q].outcome = q.outcome /\ f[q].to = q.to
      BY <1>0, DisownedStep DEF WindowsInv
    <2> HIDE DEF f
    <2>2. ASSUME NEW q \in Own(w)
          PROVE  GoodRow(f[q]) /\ f[q].by # w /\ (Counts(q) => Counts(f[q]))
      <3>1. GoodRow(q) /\ q \in rows BY <1>0, OwnPass
      <3>2. f[q].delta = q.delta BY <2>1, <3>1 DEF RowStep
      <3>3. f[q].by # w BY <1>0, <2>1, JobsAssumptions
      <3> QED BY <2>1, <3>1, <3>2, <3>3 DEF GoodRow, Counts
    <2>3. /\ at' = [at EXCEPT ![w] = "free"] /\ win' = [win EXCEPT ![w] = NoWindow]
          /\ NoWindow.from = 0 /\ NoWindow.to = 0 /\ NoWindow.items = {}
          /\ "free" \in WindowPlaces
      BY DEF Forgets, At, NoWindow, WindowPlaces
    <2>4. /\ NoWindow \in WindowType /\ NoWindow.from <= head /\ NoWindow.to <= head
          /\ NoWindow.items \subseteq items
      BY <1>0, <2>3, WinFacts
    <2>5. failures' \in 0..(Ttl - 1) /\ wait' \in Nat BY CountersTyped
    <2>6. "free" \notin {"head", "delta"} OBVIOUS
    <2> QED BY <1>2, <2>1, <2>2, <2>3, <2>4, <2>5, <2>6, RowsChange
  <1> QED BY <1>1, <1>2

LEMMA FinishWorkStep == ASSUME WindowsInv, NEW w \in Workers, FinishWork(w) PROVE Rest'
  <1>1. /\ pc[w] \in {"finish", "fail"}
        /\ UNCHANGED <<scenario, mishaps, ledger, filing, failures, wait>>
    BY DEF FinishWork, Finish
  <1>2. w \in scenario.workers /\ mishaps' \in 0..scenario.mishaps
    BY <1>1, Employed, CountersTyped
  <1>3. CASE Forgets(w) /\ rows' = Disown(w) BY <1>1, <1>2, <1>3, DisownStep
  <1>4. CASE Graded(w) /\ At(w, "grade") /\ UNCHANGED <<rows, win>>
    <2>1. RowStep(Kept, w) /\ \A q \in rows : Kept[q] = q
      BY <1>4, KeptStep DEF WindowsInv, Kept
    <2>2. PICK p \in Own(w) : p.outcome = "done" BY <1>4 DEF Graded
    <2>3. ASSUME NEW q \in Own(w)
          PROVE  GoodRow(Kept[q]) /\ "grade" \in RowPlaces /\ InPlace(Kept[q], "grade")
                 /\ Kept[q] = q
      <3>1. q \in rows /\ GoodRow(q) BY OwnPass
      <3>2. q = p BY DEF WindowsInv, OwnRows
      <3> QED BY <2>1, <2>2, <3>1, <3>2 DEF RowPlaces, CanaryPlaces, InPlace
    <2>4. User("organize") /\ head # 0 /\ "grade" \in WindowPlaces
      <3>1. User("organize") BY <1>4 DEF Graded
      <3>2. at[w] # "free"
        <4>1. Fits(pc[w], at[w]) BY DEF WindowsInv, CallPlaces
        <4>2. ~User("any") BY <3>1 DEF User
        <4> QED BY <1>1, <4>1, <4>2 DEF Fits
      <3> QED BY <3>1, <3>2 DEF WindowsInv, Organizing, Begun, WindowPlaces, CanaryPlaces
    <2>5. /\ at' = [at EXCEPT ![w] = "grade"] /\ win' = [win EXCEPT ![w] = win[w]]
          /\ failures' \in 0..(Ttl - 1) /\ wait' \in Nat
      BY <1>1, <1>4, WinFacts, CountersTyped DEF At
    <2>6. /\ win[w] \in WindowType /\ win[w].from <= head /\ win[w].to <= head
          /\ win[w].items \subseteq items
      BY WinFacts
    <2> HIDE DEF Kept
    <2> QED BY <1>1, <1>2, <2>1, <2>3, <2>4, <2>5, <2>6, RowsChange
  <1> QED BY <1>3, <1>4 DEF FinishWork

LEMMA GradeWellStep == ASSUME WindowsInv, NEW w \in Workers, GradeWell(w) PROVE Rest'
  <1>1. /\ at[w] = "grade" /\ Forgets(w) /\ rows' = Disown(w)
        /\ UNCHANGED <<scenario, mishaps, ledger, filing, failures, wait>>
    BY DEF GradeWell
  <1>2. w \in scenario.workers /\ mishaps' \in 0..scenario.mishaps
    BY <1>1, Employed, CountersTyped
  <1> QED BY <1>1, <1>2, DisownStep

LEMMA DieStep == ASSUME WindowsInv, NEW w \in Workers, Die(w) PROVE Rest'
  <1>1. /\ Forgets(w) /\ rows' = Disown(w) /\ (UNCHANGED mishaps \/ Mishap)
        /\ UNCHANGED <<scenario, ledger, filing, failures, wait>>
    BY DEF Die
  <1>2. w \in scenario.workers
    <2>1. pc[w] # "idle" \/ at[w] # "free" BY DEF Die, Crash
    <2> QED BY <2>1, Employed
  <1>3. mishaps' \in 0..scenario.mishaps BY <1>1, CountersTyped
  <1> QED BY <1>1, <1>2, <1>3, DisownStep

-----------------------------------------------------------------------------
(* The canary.                                                             *)

\* A reverted pass counts as the pass that it was.
LEMMA RevertRunStep == ASSUME WindowsInv, NEW w \in Workers, RevertRun(w) PROVE Rest'
  <1> DEFINE f == Reverted(w)
  <1>1. /\ at[w] = "grade" /\ at' = [at EXCEPT ![w] = "release"]
        /\ head < scenario.seqs /\ head' = head + 1
        /\ UNCHANGED <<scenario, mishaps, items, filing, failures, wait, win>>
    BY DEF RevertRun, At
  <1>2. w \in scenario.workers /\ User("organize") /\ ~User("basic_filing")
    BY <1>1, OrganizerFacts DEF CanaryPlaces
  <1>3. /\ RowStep(f, w)
        /\ \A q \in Own(w) : /\ f[q].by = w /\ f[q].status = q.status
                             /\ f[q].outcome = "reverted" /\ f[q].to = q.to
    BY RevertedStep DEF RevertRun, WindowsInv
  <1> HIDE DEF f
  <1>4. head \in Nat /\ scenario.seqs \in Nat /\ \A i \in items : i \in 1..head
    BY ScenarioFacts DEF WindowsInv, Shapes, LedgerShapes
  <1>5. head' \in Nat /\ head <= head' /\ head' <= scenario.seqs /\ head' # 0
    BY <1>1, <1>4
  <1>6. items' \subseteq Nat /\ items' \subseteq 1..head'
    <2>1. \A i \in 1..head : i \in Nat /\ i \in 1..(head + 1) BY <1>4
    <2> QED BY <1>1, <1>4, <2>1
  <1>7. LedgerGrows BY <1>1, <1>5, <1>6 DEF LedgerGrows
  <1>8. LedgerShapes'
    BY <1>1, <1>5, <1>6 DEF WindowsInv, Shapes, LedgerShapes
  <1>9. FilingShapes'
    <2>1. cursor \in 0..head /\ staged \subseteq items /\ linked \subseteq items
      BY DEF WindowsInv, Shapes, FilingShapes
    <2>2. cursor \in 0..head' BY <1>4, <1>5, <2>1
    <2> QED BY <1>1, <2>1, <2>2 DEF FilingShapes, filing
  <1>10. RunShapes' BY <1>1, <1>3, <1>7, RowShapes DEF RunShapes, WindowsInv, Shapes
  <1>11. LocalShapes' /\ OthersStay(w) /\ at'[w] = "release" /\ win'[w] = win[w]
    <2>1. "release" \in WindowPlaces BY DEF WindowPlaces, CanaryPlaces
    <2>2. win' = [win EXCEPT ![w] = win[w]] BY <1>1, WinFacts
    <2>3. win[w].from <= head' /\ win[w].to <= head' /\ win[w].items \subseteq items'
      BY <1>1, <1>4, <1>5, WinFacts
    <2> QED BY <1>1, <1>7, <2>1, <2>2, <2>3, WinFacts, LocalsKept
  <1>12. ASSUME NEW q \in Own(w)
         PROVE  GoodRow(f[q]) /\ InPlace(f[q], "release") /\ (Counts(q) => Counts(f[q]))
    <2>1. GoodRow(q) /\ InPlace(q, "grade") /\ q \in rows BY <1>1, OwnPass
    <2>2. f[q].delta = q.delta BY <1>3, <2>1 DEF RowStep
    <2> QED BY <1>3, <2>1, <2>2 DEF GoodRow, InPlace, Counts
  <1>13. Moved(f, w)
    <2>1. "release" \in RowPlaces BY DEF RowPlaces, CanaryPlaces
    <2> QED BY <1>11, <1>12, <2>1 DEF Moved
  <1>14. BegunAt(w) BY <1>5, <1>11 DEF BegunAt
  <1>15. OwnRows' /\ Organizing'
    BY <1>2, <1>3, <1>7, <1>11, <1>12, <1>13, <1>14, OrganizingKept
  <1>16. Filing' BY <1>1, <1>2, <1>11, FilingSame
  <1> QED BY <1>8, <1>9, <1>10, <1>11, <1>15, <1>16 DEF Rest, Shapes

\* A released window leaves nothing uncovered behind it: with one process no
\* other window that is done reaches the items it had.
LEMMA ReleaseWindowStep == ASSUME WindowsInv, NEW w \in Workers, ReleaseWindow(w) PROVE Rest'
  <1> DEFINE f == Released(w)
  <1>1. /\ at[w] = "release" /\ Forgets(w)
        /\ UNCHANGED <<scenario, mishaps, ledger, filing, failures, wait>>
    BY DEF ReleaseWindow
  <1>2. w \in scenario.workers /\ User("organize") /\ ~User("basic_filing")
    BY <1>1, OrganizerFacts DEF CanaryPlaces
  <1>3. /\ RowStep(f, w)
        /\ \A q \in Own(w) : /\ f[q].by = Nobody /\ f[q].status = q.status
                             /\ f[q].outcome = "reverted_by_canary" /\ f[q].to = 0
    BY ReleasedStep DEF ReleaseWindow, WindowsInv
  <1> HIDE DEF f
  <1>4. ASSUME NEW q \in Own(w)
        PROVE  GoodRow(f[q]) /\ f[q].by # w /\ (~OneProcess /\ Counts(q) => Counts(f[q]))
    <2>1. f[q].by # w BY <1>3, JobsAssumptions
    <2> QED BY <1>3, <2>1 DEF GoodRow, Counts
  <1>5. /\ at' = [at EXCEPT ![w] = "free"] /\ win' = [win EXCEPT ![w] = NoWindow]
        /\ NoWindow.from = 0 /\ NoWindow.to = 0 /\ NoWindow.items = {}
        /\ "free" \in WindowPlaces /\ "free" \notin {"head", "delta"}
    BY <1>1 DEF Forgets, At, NoWindow, WindowPlaces
  <1>6. /\ NoWindow \in WindowType /\ NoWindow.from <= head /\ NoWindow.to <= head
        /\ NoWindow.items \subseteq items
    BY <1>5, WinFacts
  <1>7. failures' \in 0..(Ttl - 1) /\ wait' \in Nat /\ mishaps' \in 0..scenario.mishaps
    BY <1>1, CountersTyped
  <1>8. CASE ~OneProcess
    BY <1>1, <1>2, <1>3, <1>4, <1>5, <1>6, <1>7, <1>8, RowsChange
  <1>9. CASE OneProcess
    <2>1. LedgerGrows /\ LedgerShapes' /\ FilingShapes' /\ UNCHANGED <<head, items>>
      BY <1>1, <1>7, LedgerSame DEF ledger
    <2>2. LocalShapes' /\ OthersStay(w) /\ at'[w] = "free"
      BY <1>5, <1>6, <2>1, LocalsKept
    <2>3. RunShapes' BY <1>3, <1>7, <2>1, RowShapes DEF RunShapes
    <2>4. Moved(f, w) BY <1>4 DEF Moved
    <2>5. OwnRows' /\ RowsFollow' BY <1>3, <2>1, <2>2, <2>4, OwnRowsKept, RowsFollowKept
    <2>6. BegunAt(w) BY <2>2 DEF BegunAt
    <2>7. Begun' BY <2>1, <2>2, <2>6, BegunKept
    <2>8. Fresh' BY <1>2, <1>3, <2>1, <2>2, FreshKept
    <2>9. Based'
      <3>1. ASSUME NEW v \in Workers, at'[v] \in {"head", "delta"} PROVE FALSE
        <4>1. v # w BY <2>2, <3>1
        <4>2. at[v] # "free" BY <2>2, <3>1, <4>1 DEF OthersStay
        <4>3. v \in scenario.workers BY <4>2, Employed
        <4> QED BY <1>2, <1>9, <4>1, <4>3, OneWorker DEF WindowsInv
      <3> QED BY <3>1 DEF Based
    <2>10. Claimed'
      <3>1. ASSUME NEW r \in rows', r.by # Nobody \/ r.status = "done", NEW i \in items',
                   i <= r.to, i \notin r.delta
            PROVE  Settled(i)'
        <4>1. PICK q \in rows : r = f[q] BY <1>3 DEF RowStep
        <4>2. i \in items /\ i \in Nat /\ i # 0
          <5>1. \A j \in items : j \in 1..head BY DEF WindowsInv, Shapes, LedgerShapes
          <5>2. head \in Nat /\ i \in items BY <2>1, WinFacts
          <5> QED BY <5>1, <5>2
        <4>3. q \notin Own(w)
          <5>1. ASSUME q \in Own(w) PROVE FALSE
            <6>1. r.to = 0 BY <1>3, <4>1, <5>1
            <6> QED BY <3>1, <4>2, <6>1
          <5> QED BY <5>1
        <4>4. q.by = Nobody
          <5>1. q.by # w BY <4>3 DEF Own
          <5> QED BY <1>2, <1>9, <5>1, RowWorkers, OneWorker DEF WindowsInv
        <4>5. q.status = "done" /\ i <= q.to /\ i \notin q.delta /\ q.to \in Nat
          <5>1. /\ r.by = q.by /\ r.to = q.to /\ r.delta = q.delta
                /\ r.status = q.status \/ r.status = "error"
            BY <1>3, <4>1, <4>3 DEF RowStep, Own
          <5>2. q.to \in Nat BY DEF WindowsInv, Shapes, RunShapes, RunType
          <5> QED BY <3>1, <4>4, <5>1, <5>2
        <4>6. PICK p \in rows : i \in p.delta /\ Counts(p)
          BY <4>2, <4>5 DEF WindowsInv, Organizing, Claimed, Settled
        <4>7. p \notin Own(w)
          <5>1. ASSUME p \in Own(w) PROVE FALSE
            <6>1. p.by # Nobody /\ p # q BY <4>3, <5>1, JobsAssumptions DEF Own
            <6>2. i > q.to BY <1>9, <4>5, <4>6, <6>1 DEF WindowsInv, Organizing, Fresh
            <6> QED BY <4>2, <4>5, <6>2
          <5> QED BY <5>1
        <4>8. /\ f[p].outcome = p.outcome /\ f[p].to = p.to /\ f[p].delta = p.delta
              /\ f[p].status = p.status /\ (f[p] \in rows' \/ Forgotten(f[p]))
          BY <1>3, <4>6, <4>7 DEF RowStep, Own, Counts
        <4>9. GoodRow(p) BY DEF WindowsInv, Organizing, RowsFollow
        <4>10. ~Forgotten(f[p]) BY <4>6, <4>8, <4>9 DEF Counts, GoodRow, Forgotten
        <4>11. OneProcess' <=> OneProcess BY <2>1 DEF OneProcess, LedgerGrows
        <4>12. \A g : g = f[p] => Counts(g)' BY <4>6, <4>8, <4>11 DEF Counts
        <4> QED BY <4>6, <4>8, <4>10, <4>12 DEF Settled
      <3> QED BY <3>1 DEF Claimed
    <2>11. Filing' BY <1>1, <1>2, <2>1, <2>2, FilingSame
    <2> QED BY <2>1, <2>2, <2>3, <2>5, <2>7, <2>8, <2>9, <2>10, <2>11
            DEF Rest, Shapes, Organizing
  <1> QED BY <1>8, <1>9

-----------------------------------------------------------------------------
(* The theorems.                                                           *)

\* What the strengthening says of the windows survives every step.
LEMMA RestStep == WindowsInv /\ WindowsNext => Rest'
  <1> SUFFICES ASSUME WindowsInv, WindowsNext PROVE Rest' OBVIOUS
  <1>1. Append => Rest' BY AppendStep
  <1>2. RetryAny \/ Doctor \/ TimePasses => Rest'
    BY StandStill DEF RetryAny, Doctor, TimePasses
  <1>3. ASSUME NEW w \in Workers, Inner(w) PROVE Rest'
    BY <1>3, LookStep, FilerStep, ReadFloorStep, ReadHeadStep, InsertRunStep, PassStep,
       WorkFailsStep, GradeWellStep, RevertRunStep, ReleaseWindowStep
       DEF Inner
  <1>4. ASSUME NEW w \in Workers,
               AskToFile(w) \/ AskToOrganize(w) \/ AskAny(w) \/ EnqueueAsked(w) \/ Lease1(w)
        PROVE  Rest'
    BY <1>4, AskToFileStep, AskToOrganizeStep, UnnoticedStep, Lease1Step
  <1>5. ASSUME NEW w \in Workers,
               EndWork(w) \/ EndAnyWork(w) \/ CheckpointWork(w) \/ FinishWork(w) \/ Die(w)
        PROVE  Rest'
    BY <1>5, EndWorkStep, UnnoticedStep, FinishWorkStep, DieStep
  <1> QED BY <1>1, <1>2, <1>3, <1>4, <1>5, WindowsCases

LEMMA WindowsInitInv == WindowsInit => WindowsInv
  <1> SUFFICES ASSUME WindowsInit PROVE WindowsInv OBVIOUS
  <1> USE DEF WindowsInit
  <1>1. JobsInv BY JobsInit
  <1>2. scenario.seqs \in Nat /\ scenario.mishaps \in Nat /\ Ttl \in Nat /\ Ttl # 0
    BY WindowsAssumptions
  <1>3. LedgerShapes /\ FilingShapes BY <1>2 DEF LedgerShapes, FilingShapes
  <1>4. RunShapes BY <1>2 DEF RunShapes
  <1>5. LocalShapes
    <2>1. NoWindow \in WindowType /\ NoWindow.from = 0 /\ NoWindow.to = 0 /\ NoWindow.items = {}
      BY DEF NoWindow, WindowType
    <2>2. \A w \in Workers : win[w] = NoWindow OBVIOUS
    <2>3. win \in [Workers -> WindowType] BY <2>1
    <2>4. at \in [Workers -> WindowPlaces] BY DEF WindowPlaces
    <2> HIDE DEF WindowsInit, NoWindow
    <2>5. head = 0 BY DEF WindowsInit
    <2> QED BY <2>1, <2>2, <2>3, <2>4, <2>5 DEF LocalShapes
  <1>6. CallPlaces
    <2>1. Fits("idle", "free") BY DEF Fits, FilerPlaces
    <2>2. \A w \in Workers : pc[w] = "idle" /\ at[w] = "free" BY DEF Init
    <2> QED BY <2>1, <2>2 DEF CallPlaces
  <1>7. OwnRows BY DEF OwnRows, Own
  <1>8. RowsFollow /\ Begun /\ Claimed BY DEF RowsFollow, Begun, Claimed
  <1>9. Based /\ Fresh BY DEF Based, Fresh
  <1>10. Filing BY DEF Filing, Filed
  <1> HIDE DEF WindowsInit
  <1> QED BY <1>1, <1>3, <1>4, <1>5, <1>6, <1>7, <1>8, <1>9, <1>10
          DEF WindowsInv, Shapes, Organizing

\* The strengthening holds in every state, however calls overlap, die and
\* lose their leases.
THEOREM WindowsInvariant == WindowsSpec => []WindowsInv
  <1>1. WindowsInv /\ [WindowsNext]_wvars => WindowsInv'
    <2>1. WindowsInv /\ WindowsNext => WindowsInv'
      BY WindowsStepOfJobs, JobsStep, CallPlacesStep, RestStep DEF WindowsInv, Rest
    <2>2. WindowsInv /\ UNCHANGED wvars => WindowsInv'
      <3>1. ASSUME WindowsInv, UNCHANGED wvars PROVE JobsInv' /\ CallPlaces' /\ Rest'
        <4>1. UNCHANGED vars BY <3>1 DEF wvars
        <4>2. JobsInv' BY <3>1, <4>1, JobsStep DEF WindowsInv
        <4>3. CallPlaces' BY <3>1, SameFits DEF wvars, vars, locals
        <4>4. Rest' BY <3>1, StandStill DEF wvars
        <4> QED BY <4>2, <4>3, <4>4
      <3> QED BY <3>1 DEF WindowsInv, Rest
    <2> QED BY <2>1, <2>2
  <1> QED BY <1>1, WindowsInitInv, PTL DEF WindowsSpec

\* The rows, windows, cursor and links have their shape; a worker has one row
\* of class_runs at most, one that has a lease is inside its work, and every
\* window ends at a seq the ledger has.
THEOREM WindowsTypeCorrect == WindowsSpec => []WindowsTypeOK
  <1>1. WindowsInv => WindowsTypeOK
    <2> SUFFICES ASSUME WindowsInv PROVE WindowsTypeOK OBVIOUS
    <2>1. TypeOK BY DEF WindowsInv, JobsInv
    <2>2. /\ scenario \in Scenarios /\ mishaps \in 0..scenario.mishaps
          /\ head \in 0..scenario.seqs /\ items \subseteq 1..head
          /\ cursor \in 0..head /\ staged \subseteq items /\ linked \subseteq items
          /\ failures \in 0..(Ttl - 1) /\ wait \in Nat
      BY DEF WindowsInv, Shapes, LedgerShapes, FilingShapes, RunShapes
    <2>3. ASSUME NEW r \in rows
          PROVE  /\ r.by \in Workers \cup {Nobody} /\ r.to \in 0..head /\ r.delta \subseteq items
                 /\ r.status \in {"running", "done", "error"}
                 /\ r.outcome \in {"none", "done", "error", "skipped", "expired", "reverted",
                                   "reverted_by_canary"}
      BY <2>2 DEF WindowsInv, Shapes, RunShapes, RunType
    <2>4. ASSUME NEW w \in Workers
          PROVE  /\ Cardinality(Own(w)) <= 1
                 /\ pc[w] = "work" /\ ~User("any") => at[w] \notin {"free", "looked", "asked"}
                 /\ win[w].from \in 0..head /\ win[w].to \in 0..head /\ win[w].items \subseteq items
      <3>1. Cardinality(Own(w)) <= 1
        <4>1. \A r, q \in Own(w) : r = q BY DEF WindowsInv, OwnRows
        <4>2. CASE Own(w) = {} BY <4>2, FS_EmptySet
        <4>3. CASE Own(w) # {}
          <5>1. PICK r : Own(w) = {r} BY <4>1, <4>3
          <5>2. Cardinality({r}) = 1 BY FS_Singleton
          <5> QED BY <5>1, <5>2
        <4> QED BY <4>2, <4>3
      <3>2. pc[w] = "work" /\ ~User("any") => at[w] \notin {"free", "looked", "asked"}
        <4>1. Fits(pc[w], at[w]) BY DEF WindowsInv, CallPlaces
        <4> QED BY <4>1 DEF Fits, FilerPlaces, OrganizerPlaces
      <3> QED BY <3>1, <3>2, WinFacts
    <2> QED BY <2>1, <2>2, <2>3, <2>4 DEF WindowsTypeOK
  <1> QED BY <1>1, WindowsInvariant, PTL

\* "Interrupted class runs do not consume their source window": what the filer's
\* cursor has passed is linked, and what the organizer's mark has passed was in
\* the delta of a pass that is done - one whose window the canary released only
\* if another process has moved the mark meanwhile.
THEOREM NothingIsSkipped == WindowsSpec => []NothingSkipped
  <1>1. WindowsInv => NothingSkipped
    <2> SUFFICES ASSUME WindowsInv PROVE NothingSkipped OBVIOUS
    <2>1. User("basic_filing") => \A i \in items : i <= cursor => i \in linked
      BY DEF WindowsInv, Filing, Filed
    <2>2. \A i \in items : i <= Mark => Settled(i) BY MarkSettled DEF SettledTo
    <2> QED BY <2>1, <2>2 DEF NothingSkipped, Settled, Counts
  <1> QED BY <1>1, WindowsInvariant, PTL

\* What the users of the jobs do is one of the behaviours of Jobs: all that is
\* proved of background_jobs holds while they file and organize.
THEOREM WindowsImplementsJobs == WindowsSpec => Spec
  <1>1. WindowsInit => Init BY DEF WindowsInit
  <1>2. WindowsInv /\ [WindowsNext]_wvars => [Next]_vars BY WindowsStepOfJobs
  <1> QED BY <1>1, <1>2, WindowsInvariant, PTL DEF WindowsSpec, Spec

=============================================================================
