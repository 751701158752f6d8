-------------------------------- MODULE Jobs --------------------------------
(***************************************************************************)
(* polis-store/src/jobs.rs: durable, leased background work, and the shape *)
(* its two users have (basic_filing_once, organize_once): read the clock,  *)
(* enqueue a job under an idempotency key, lease a job of the kind, work,  *)
(* read the clock again, checkpoint, finish.                               *)
(*                                                                         *)
(* Every operation is one SQLite transaction, so one action.  What is not  *)
(* atomic is the time: a caller passes the `now` it read before it waited  *)
(* for the connection and the file's write lock.  Times are kept relative  *)
(* to the present - lease_until and available_at count down, and a reading *)
(* of the clock is an age (`ago`) - so that time never runs out.           *)
(* The jobs are those of one kind: the kinds share nothing but the table.  *)
(* lease_owner is `pid:now`; a worker here is one call, so it is its own   *)
(* owner.                                                                  *)
(***************************************************************************)
EXTENDS Integers, FiniteSets

CONSTANTS
    Workers,      \* calls that can be in progress at a time, in any process
    Keys,         \* idempotency keys of the kind (the UNIQUE job_key)
    Nobody,       \* NULL in lease_owner
    NoKey,        \* the job of a worker outside a call
    MaxAttempts,  \* max_attempts of every job (3 at both callers)
    Lease,        \* lease_ms, in ticks
    Backoff,      \* ticks per failed attempt before it is available again
    MaxAge,       \* bound: how old a reading of the clock can get, in ticks
    MaxRetries    \* bound on the explicit retries of failed jobs

ASSUME JobsAssumptions ==
    /\ Nobody \notin Workers
    /\ NoKey \notin Keys
    /\ IsFiniteSet(Keys)
    /\ MaxAttempts \in 1..20
    /\ Lease \in Nat \ {0}
    /\ Backoff \in Nat
    /\ MaxAge \in Nat
    /\ MaxRetries \in Nat

VARIABLES
    jobs,      \* background_jobs, by key; "absent" before the first enqueue
    pc,        \* pc[w]: where w is in its call
    ago,       \* ago[w]: how long ago w read the clock
    mine,      \* mine[w]: the key w enqueues, then the job row it was given
    leases,    \* leases[k]: how many times k was leased (history)
    retries    \* explicit retries so far (bounds the model)

vars == <<jobs, pc, ago, mine, leases, retries>>

Absent == [st |-> "absent", attempts |-> 0, avail |-> 0, owner |-> Nobody,
           until |-> 0, checkpoint |-> 0, id |-> 0]

\* A worker's copy: the key, the attempt it is, and which lease of the key.
Copy(k, attempts, lease) == [key |-> k, attempts |-> attempts, lease |-> lease]
NoJob == Copy(NoKey, 0, 0)

Init ==
    /\ jobs = [k \in Keys |-> Absent]
    /\ pc = [w \in Workers |-> "idle"]
    /\ ago = [w \in Workers |-> 0]
    /\ mine = [w \in Workers |-> NoJob]
    /\ leases = [k \in Keys |-> 0]
    /\ retries = 0

-----------------------------------------------------------------------------
(* The statements, on a table js and a clock reading of age a.             *)

\* The next INSERT's AUTOINCREMENT id.
NextId == Cardinality({k \in Keys : jobs[k].st # "absent"}) + 1

LeaseOver(j, a) == j.st = "running" /\ j.until <= -a

OutOfAttemptsLate(j) == j.attempts > MaxAttempts                  \* mutant
OutOfAttempts(j) == j.attempts >= MaxAttempts

\* Mutants of Reclaim: the owner survives; nothing is reclaimed.
ReclaimKeepingOwner(j, a) ==
    IF LeaseOver(j, a)
    THEN [j EXCEPT !.st = IF OutOfAttempts(j) THEN "failed" ELSE "pending", !.until = 0]
    ELSE j
ReclaimNothing(j, a) == j

\* UPDATE ... WHERE status = 'running' AND lease_until <= now.
Reclaim(j, a) ==
    IF LeaseOver(j, a)
    THEN [j EXCEPT !.st = IF OutOfAttempts(j) THEN "failed" ELSE "pending",
                   !.owner = Nobody, !.until = 0]
    ELSE j
Reclaimed(a) == [k \in Keys |-> Reclaim(jobs[k], a)]

\* Mutant of Leasable: without the NOT EXISTS.
LeasableAlongside(js, a) ==
    {k \in Keys : js[k].st = "pending" /\ js[k].avail <= -a /\ ~OutOfAttempts(js[k])}

\* The SELECT's conditions: pending, due, attempts left - and no job of the
\* kind is running.
Leasable(js, a) ==
    {k \in Keys :
        /\ js[k].st = "pending"
        /\ js[k].avail <= -a
        /\ ~OutOfAttempts(js[k])
        /\ \A r \in Keys : js[r].st # "running"}

\* ORDER BY available_at, id LIMIT 1.
IsFirst(k, js, ks) ==
    \A m \in ks :
        \/ js[k].avail < js[m].avail
        \/ js[k].avail = js[m].avail /\ js[k].id <= js[m].id

\* UPDATE ... SET status = 'running', attempts = attempts + 1, ...
Leased(j, w) == [j EXCEPT !.st = "running", !.attempts = @ + 1, !.owner = w,
                          !.until = Lease - ago[w]]

\* Mutants of Holds: the fence without the owner, and without either column.
HoldsByAttempt(w) ==
    LET j == jobs[mine[w].key]
    IN  j.attempts = mine[w].attempts /\ j.st = "running" /\ j.until > -ago[w]
HoldsAnyhow(w) ==
    LET j == jobs[mine[w].key]
    IN  j.st = "running" /\ j.until > -ago[w]

\* The fence of checkpoint_job and finish_job.
Holds(w) ==
    LET j == jobs[mine[w].key]
    IN  /\ j.owner = w
        /\ j.attempts = mine[w].attempts
        /\ j.st = "running"
        /\ j.until > -ago[w]

-----------------------------------------------------------------------------
(* A call, step by step.                                                   *)

Goto(w, l) == pc' = [pc EXCEPT ![w] = l]

\* The call is over and its locals are gone.
Leave(w) ==
    /\ Goto(w, "idle")
    /\ ago' = [ago EXCEPT ![w] = 0]
    /\ mine' = [mine EXCEPT ![w] = NoJob]

\* now_millis(), and the window - hence the key - to work on.
Wake(w, k) ==
    /\ pc[w] = "idle"
    /\ Goto(w, "enqueue")
    /\ mine' = [mine EXCEPT ![w] = Copy(k, 0, 0)]
    /\ UNCHANGED <<jobs, ago, leases, retries>>

\* enqueue_job: INSERT OR IGNORE, so an existing row is left as it is.
Enqueue(w) ==
    /\ pc[w] = "enqueue"
    /\ LET k == mine[w].key
       IN  jobs' = IF jobs[k].st = "absent"
                   THEN [jobs EXCEPT ![k] =
                            [@ EXCEPT !.st = "pending", !.avail = -ago[w], !.id = NextId]]
                   ELSE jobs
    /\ Goto(w, "lease")
    /\ UNCHANGED <<ago, mine, leases, retries>>

\* lease_job: reclaim what expired, then take the first due job of the kind.
LeaseJob(w) ==
    /\ pc[w] = "lease"
    /\ LET js == Reclaimed(ago[w])
           ks == Leasable(js, ago[w])
       IN  \/ /\ ks = {}
              /\ jobs' = js
              /\ Leave(w)
              /\ UNCHANGED leases
           \/ \E k \in ks :
              /\ IsFirst(k, js, ks)
              /\ jobs' = [js EXCEPT ![k] = Leased(js[k], w)]
              /\ leases' = [leases EXCEPT ![k] = @ + 1]
              /\ mine' = [mine EXCEPT ![w] = Copy(k, js[k].attempts + 1, leases[k] + 1)]
              /\ Goto(w, "work")
              /\ UNCHANGED ago
    /\ UNCHANGED retries

\* The work ends, well or badly, and the clock is read for what follows.
WorkEnds(w) ==
    /\ pc[w] = "work"
    /\ \E l \in {"checkpoint", "fail"} : Goto(w, l)
    /\ ago' = [ago EXCEPT ![w] = 0]
    /\ UNCHANGED <<jobs, mine, leases, retries>>

\* checkpoint_job: the checkpoint stands for the lease it was written under.
Checkpoint(w) ==
    /\ pc[w] = "checkpoint"
    /\ jobs' = IF Holds(w)
               THEN [jobs EXCEPT ![mine[w].key].checkpoint = mine[w].lease]
               ELSE jobs
    /\ Goto(w, "finish")
    /\ UNCHANGED <<ago, mine, leases, retries>>

\* finish_job's row for status st.
Finished(w, st) ==
    IF Holds(w)
    THEN [jobs EXCEPT ![mine[w].key].st = st,
                      ![mine[w].key].owner = Nobody,
                      ![mine[w].key].until = 0,
                      ![mine[w].key].avail = Backoff * mine[w].attempts - ago[w]]
    ELSE jobs

\* finish_job: the answer is ignored by both callers.
Finish(w) ==
    /\ \/ pc[w] = "finish" /\ jobs' = Finished(w, "done")
       \/ pc[w] = "fail" /\ jobs' = Finished(w, IF mine[w].attempts >= MaxAttempts
                                               THEN "failed" ELSE "pending")
    /\ Leave(w)
    /\ UNCHANGED <<leases, retries>>

\* The worker's process dies, or its task is dropped, anywhere in the call.
Crash(w) ==
    /\ pc[w] # "idle"
    /\ Leave(w)
    /\ UNCHANGED <<jobs, leases, retries>>

\* retry_job: only a terminal failure, with its attempts counted anew.
Retry(k) ==
    /\ retries < MaxRetries
    /\ jobs[k].st = "failed"
    /\ jobs' = [jobs EXCEPT ![k].st = "pending", ![k].attempts = 0, ![k].avail = 0]
    /\ retries' = retries + 1
    /\ UNCHANGED <<pc, ago, mine, leases>>

\* list_jobs (polis doctor): reclaims with the present time.
ListJobs ==
    /\ jobs' = Reclaimed(0)
    /\ UNCHANGED <<pc, ago, mine, leases, retries>>

\* A tick passes.  Times further in the past than any clock reading can be
\* are not told apart.
Earlier(t) == IF t > -MaxAge THEN t - 1 ELSE t
Tick ==
    /\ jobs' = [k \in Keys |->
            [jobs[k] EXCEPT !.avail = IF jobs[k].st = "pending" THEN Earlier(@) ELSE @,
                            !.until = IF jobs[k].st = "running" THEN Earlier(@) ELSE @]]
    /\ ago' = [w \in Workers |-> IF pc[w] # "idle" /\ ago[w] < MaxAge THEN ago[w] + 1 ELSE ago[w]]
    /\ UNCHANGED <<pc, mine, leases, retries>>

Step(w) ==
    \/ Enqueue(w)
    \/ LeaseJob(w)
    \/ WorkEnds(w)
    \/ Checkpoint(w)
    \/ Finish(w)

Next ==
    \/ \E w \in Workers :
        \/ \E k \in Keys : Wake(w, k)
        \/ Step(w)
        \/ Crash(w)
    \/ \E k \in Keys : Retry(k)
    \/ ListJobs
    \/ Tick

Spec == Init /\ [][Next]_vars

-----------------------------------------------------------------------------
(* Properties.                                                             *)

Statuses == {"absent", "pending", "running", "done", "failed"}
JobType == [st : Statuses, attempts : 0..MaxAttempts, avail : Int, until : Int,
            owner : Workers \cup {Nobody}, checkpoint : Nat, id : Nat]
CopyType == [key : Keys \cup {NoKey}, attempts : 0..MaxAttempts, lease : Nat]
Places == {"idle", "enqueue", "lease", "work", "checkpoint", "finish", "fail"}

\* Every row and local has the shape its column or variable has, and exactly
\* the running rows have an owner.
TypeOK ==
    /\ jobs \in [Keys -> JobType]
    /\ \A k \in Keys : jobs[k].st = "running" <=> jobs[k].owner # Nobody
    /\ pc \in [Workers -> Places]
    /\ ago \in [Workers -> 0..MaxAge]
    /\ mine \in [Workers -> CopyType]
    /\ leases \in [Keys -> Nat]
    /\ retries \in 0..MaxRetries

\* One job of a kind runs at a time, across all processes (lease_job's NOT
\* EXISTS under BEGIN IMMEDIATE), however stale the callers' clocks are.
OneRunning ==
    \A k, m \in Keys : (jobs[k].st = "running" /\ jobs[m].st = "running") => k = m

\* "Stale workers are fenced": once a key has been leased again - after an
\* expiry, a failure or an explicit retry - nothing its earlier workers do
\* changes any job.
Superseded(w) == pc[w] \in {"checkpoint", "finish", "fail"} /\ leases[mine[w].key] # mine[w].lease
StaleWorkersAreFenced ==
    [][\A w \in Workers : Superseded(w) /\ (Checkpoint(w) \/ Finish(w)) => UNCHANGED jobs]_vars

\* What makes the fence hold: a row that names w as its owner and that w
\* believes it holds is held under the key's latest lease.
PastLease(w) == pc[w] \in {"work", "checkpoint", "finish", "fail"}
OwnersAreLatest ==
    \A w \in Workers :
        /\ pc[w] # "idle" => mine[w].key \in Keys
        /\ \A k \in Keys : PastLease(w) /\ mine[w].key = k /\ jobs[k].owner = w
                             => mine[w].lease = leases[k]

\* A checkpoint was written under a lease the key has had; and every lease is
\* an attempt the row still counts or one an explicit retry forgave.
CheckpointsLeased == \A k \in Keys : jobs[k].checkpoint <= leases[k]
LeasesCounted == \A k \in Keys : leases[k] <= MaxAttempts * retries + jobs[k].attempts

JobsInv == TypeOK /\ OneRunning /\ OwnersAreLatest /\ CheckpointsLeased /\ LeasesCounted

\* A checkpoint outlives every crash, expiry and retry, and is only ever
\* replaced by that of a later lease; completed work stays completed.
ProgressIsKept ==
    [][\A k \in Keys : /\ jobs'[k].checkpoint >= jobs[k].checkpoint
                       /\ jobs[k].st = "done" => jobs'[k].st = "done"]_vars

\* "Bounded retries": between explicit retries a key is leased at most
\* max_attempts times, lost leases included.
AttemptsBounded ==
    \A k \in Keys : leases[k] <= MaxAttempts * (1 + retries)
=============================================================================
