------------------------------ MODULE JobQueue ------------------------------
(***************************************************************************)
(* The durable job queue of CortexStore: the rows of the SQLite table      *)
(* memory_jobs and the workers (threads or processes) that claim, run,     *)
(* complete and fail them.  Each action is one transaction of storage.py;  *)
(* what a worker keeps in memory between two transactions is its snapshot. *)
(*                                                                         *)
(* Timestamps are kept as the time that remains (lease, delay) or that has *)
(* passed (age), so that Tick needs no bound on a clock.                   *)
(***************************************************************************)
EXTENDS Integers, FiniteSets

CONSTANTS
    Jobs,          \* the unique keys of the rows
    Workers,
    NoWorker,      \* locked_by IS NULL
    NoJob,         \* an idle worker holds no job
    Kind,          \* job_type of each job
    MaxAttempts,   \* max_attempts of each job
    Lease,         \* MEMORY_JOB_LEASE_SECONDS
    BackoffBase, BackoffCap,   \* 30 s doubled per attempt, at most 300 s
    RetryBase, RetryCap,       \* 300 s per attempt of a source sync, at most 3600 s
    MaxDelay,      \* how far in the future a caller may set run_at
    Retention,     \* MEMORY_JOB_RETENTION_SECONDS
    MaxEnqueues    \* bound of the model: inserts and revivals by callers

Kinds == {"extract_capture", "embed_memory", "source_account_sync",
          "rescore_trust", "sleep_consolidation"}

ASSUME JobQueueAssumption ==
    /\ NoWorker \notin Workers
    /\ NoJob \notin Jobs
    /\ Kind \in [Jobs -> Kinds]
    /\ MaxAttempts \in [Jobs -> Nat \ {0}]
    /\ {Lease, BackoffBase, BackoffCap, RetryBase, RetryCap, Retention} \subseteq Nat \ {0}
    /\ {MaxDelay, MaxEnqueues} \subseteq Nat

VARIABLES
    rows,      \* memory_jobs; status "absent" stands for no row
    workers,   \* what each worker holds in memory
    enqueues,  \* inserts and revivals so far
    late,      \* history: jobs some worker kept running past its lease
    torn       \* history: jobs whose row left a running worker by other means

vars == <<rows, workers, enqueues, late, torn>>

Terminal == {"succeeded", "failed"}
Pending  == {"queued", "running"}

Row == [status : Terminal \cup Pending \cup {"absent"},
        attempts : Nat,
        owner : Workers \cup {NoWorker},
        lease : 0..Lease,          \* until locked_until; 0 is expired
        delay : Nat,               \* until run_at; 0 is due
        age : 0..(Retention + 1),  \* since COALESCE(completed_at, updated_at)
        stamped : BOOLEAN]         \* completed_at IS NOT NULL

NoRow == [status |-> "absent", attempts |-> 0, owner |-> NoWorker, lease |-> 0,
          delay |-> 0, age |-> 0, stamped |-> FALSE]

\* "refreshing" and "marking" are the transactions that follow the one that
\* completed an embedding job, or failed a source sync.
Snapshot == [pc : {"idle", "running", "refreshing", "marking"},
             job : Jobs \cup {NoJob}, attempts : Nat, lease : 0..Lease]

Idle == [pc |-> "idle", job |-> NoJob, attempts |-> 0, lease |-> 0]

\* ORDER BY priority: the smallest goes first.
Priority(j) ==
    CASE Kind[j] = "source_account_sync" -> 30
      [] Kind[j] = "extract_capture"     -> 50
      [] Kind[j] = "embed_memory"        -> 80
      [] Kind[j] = "rescore_trust"       -> 150
      [] Kind[j] = "sleep_consolidation" -> 160

AtMost(bound, n) == IF n \in 0..bound THEN n ELSE bound

\* _fail_job: 30, 60, 120, ... seconds, cut off at the cap.
Backoff(attempts) == AtMost(BackoffCap, BackoffBase * 2^(attempts - 1))

\* _mark_source_account_sync_job_failed: 300 seconds per attempt, cut off.
SyncRetry(attempts) == AtMost(RetryCap, RetryBase * attempts)

Holds(w, j) == workers[w].pc # "idle" /\ workers[w].job = j
Runs(w, j)  == workers[w].pc = "running" /\ workers[w].job = j

-----------------------------------------------------------------------------
Init ==
    /\ rows = [j \in Jobs |-> NoRow]
    /\ workers = [w \in Workers |-> Idle]
    /\ enqueues = 0
    /\ late = {}
    /\ torn = {}

(***************************************************************************)
(* Callers                                                                 *)
(***************************************************************************)

\* _enqueue_job: INSERT OR IGNORE on unique_key (an existing row is returned
\* as it is, which is a stuttering step and is left out).
Enqueue(j) ==
    /\ enqueues < MaxEnqueues
    /\ rows[j].status = "absent"
    /\ \E d \in 0..MaxDelay :
          rows' = [rows EXCEPT ![j] = [NoRow EXCEPT !.status = "queued", !.delay = d]]
    /\ enqueues' = enqueues + 1
    /\ UNCHANGED <<workers, late, torn>>

\* _enqueue_embed_memory_job: a terminal row is revived for a fresh run; a
\* queued or running one is left alone.
Revive(j) ==
    /\ enqueues < MaxEnqueues
    /\ Kind[j] = "embed_memory"
    /\ rows[j].status \in Terminal
    /\ rows' = [rows EXCEPT ![j] = [NoRow EXCEPT !.status = "queued"]]
    /\ enqueues' = enqueues + 1
    /\ UNCHANGED <<workers, late, torn>>

\* Deleting, archiving or replacing a capture or a memory deletes the rows
\* of its jobs, whatever their status.
DeleteRow(j) ==
    /\ Kind[j] \in {"extract_capture", "embed_memory"}
    /\ rows[j].status # "absent"
    /\ rows' = [rows EXCEPT ![j] = NoRow]
    /\ torn' = IF \E w \in Workers : Holds(w, j) THEN torn \cup {j} ELSE torn
    /\ UNCHANGED <<workers, enqueues, late>>

\* delete_user_data drops every row of the user in one transaction.
DeleteAll ==
    /\ rows' = [j \in Jobs |-> NoRow]
    /\ torn' = torn \cup {j \in Jobs : \E w \in Workers : Holds(w, j)}
    /\ UNCHANGED <<workers, enqueues, late>>

(***************************************************************************)
(* Workers                                                                 *)
(***************************************************************************)

\* Every UPDATE that ends a run clears locked_by and locked_until.
Released(r, status) == [r EXCEPT !.status = status, !.owner = NoWorker, !.lease = 0]

\* ... and these also set completed_at.
Finished(r, status) == [Released(r, status) EXCEPT !.age = 0, !.stamped = TRUE]

\* Mutants: reap whatever the lease, one tick early, or not at all.
ReapedWithoutLease(j, r) ==
    IF r.status = "running" THEN [Released(r, "queued") EXCEPT !.delay = 0] ELSE r
ReapedEarly(j, r) ==
    IF r.status = "running" /\ r.lease <= 1 THEN [Released(r, "queued") EXCEPT !.delay = 0] ELSE r
ReapedNever(j, r) == r

\* _reap_expired_jobs on one row.
Reaped(j, r) ==
    IF r.status = "running" /\ r.lease = 0
    THEN IF r.attempts >= MaxAttempts[j]
         THEN Finished(r, "failed")
         ELSE [Released(r, "queued") EXCEPT !.delay = 0]
    ELSE r

Reap == [j \in Jobs |-> Reaped(j, rows[j])]

\* Mutant: selects by the owner, not by the status.
DueUnlocked(kinds) ==
    {j \in Jobs : /\ Reap[j].status # "absent" /\ Reap[j].owner = NoWorker
                  /\ Reap[j].delay = 0 /\ Kind[j] \in kinds}

\* The rows the SELECT of _claim_next_job ranges over.
Due(kinds) == {j \in Jobs : Reap[j].status = "queued" /\ Reap[j].delay = 0 /\ Kind[j] \in kinds}

Claimed(r, w) ==
    [r EXCEPT !.status = "running", !.attempts = @ + 1, !.owner = w, !.lease = Lease]

\* _claim_next_job under BEGIN IMMEDIATE: reap, then claim a due row of the
\* best priority.  kinds is the job_type filter.  Rows of one priority are
\* taken in any order (the code's created_at has the resolution of a second).
ClaimNext(w, kinds) ==
    /\ workers[w].pc = "idle"
    /\ \E j \in Due(kinds) :
          /\ \A k \in Due(kinds) : Priority(j) <= Priority(k)
          /\ rows' = [Reap EXCEPT ![j] = Claimed(@, w)]
          /\ workers' = [workers EXCEPT ![w] =
                [pc |-> "running", job |-> j,
                 attempts |-> Reap[j].attempts + 1, lease |-> Lease]]
    /\ UNCHANGED <<enqueues, late, torn>>

\* The same call when nothing is due: what it reaped is committed.
ClaimNothing(w, kinds) ==
    /\ workers[w].pc = "idle"
    /\ Due(kinds) = {}
    /\ rows' = Reap
    /\ UNCHANGED <<workers, enqueues, late, torn>>

\* _complete_job: UPDATE ... WHERE id = ?, whoever owns the row by now.  A
\* missing row raises, _fail_job raises again, and the tick is abandoned.
Complete(w) ==
    LET j == workers[w].job IN
    /\ workers[w].pc = "running"
    /\ rows' = IF rows[j].status = "absent" THEN rows
               ELSE [rows EXCEPT ![j] = Finished(@, "succeeded")]
    /\ workers' = IF rows[j].status # "absent" /\ Kind[j] = "embed_memory"
                  THEN [workers EXCEPT ![w].pc = "refreshing"]
                  ELSE [workers EXCEPT ![w] = Idle]
    /\ UNCHANGED <<enqueues, late, torn>>

\* Mutant: the limit is off by one.
FailedRowLate(j, r, attempts) ==
    IF r.status = "absent" THEN r
    ELSE [Released(r, IF attempts > MaxAttempts[j] THEN "failed" ELSE "queued")
            EXCEPT !.delay = Backoff(attempts)]

\* The row as _fail_job leaves it: the verdict follows the worker's snapshot
\* of attempts, and the UPDATE names the row by id only.
FailedRow(j, r, attempts) ==
    IF r.status = "absent" THEN r
    ELSE [Released(r, IF attempts >= MaxAttempts[j] THEN "failed" ELSE "queued")
            EXCEPT !.delay = Backoff(attempts),
                   !.age = IF r.stamped THEN @ ELSE 0]

\* _run_job caught an exception of the job's handler.
Fail(w) ==
    LET j == workers[w].job IN
    /\ workers[w].pc = "running"
    /\ rows' = [rows EXCEPT ![j] = FailedRow(j, @, workers[w].attempts)]
    /\ workers' = IF Kind[j] = "source_account_sync"
                  THEN [workers EXCEPT ![w].pc = "marking"]
                  ELSE [workers EXCEPT ![w] = Idle]
    /\ UNCHANGED <<enqueues, late, torn>>

\* What the next action writes: run_at and updated_at.
Marked(r, attempts) ==
    [r EXCEPT !.delay = SyncRetry(attempts), !.age = IF r.stamped THEN @ ELSE 0]

\* _mark_source_account_sync_job_failed moves run_at in a transaction of its
\* own, unless the source account is gone (or the transaction fails).
MarkSyncFailed(w) ==
    LET j == workers[w].job IN
    /\ workers[w].pc = "marking"
    /\ \/ /\ rows[j].status # "absent"
          /\ rows' = [rows EXCEPT ![j] = Marked(@, workers[w].attempts)]
       \/ rows' = rows
    /\ workers' = [workers EXCEPT ![w] = Idle]
    /\ UNCHANGED <<enqueues, late, torn>>

\* _refresh_capture_embedding_state after the completion of an embedding job.
RefreshDone(w) ==
    /\ workers[w].pc = "refreshing"
    /\ workers' = [workers EXCEPT ![w] = Idle]
    /\ UNCHANGED <<rows, enqueues, late, torn>>

\* The same call raising (a locked database): still inside the try of
\* _run_job, so the job that has just succeeded is failed.
RefreshFails(w) ==
    LET j == workers[w].job IN
    /\ workers[w].pc = "refreshing"
    /\ rows' = [rows EXCEPT ![j] = FailedRow(j, @, workers[w].attempts)]
    /\ workers' = [workers EXCEPT ![w] = Idle]
    /\ torn' = torn \cup {j}
    /\ UNCHANGED <<enqueues, late>>

\* _prune_terminal_jobs, the last step of run_due_jobs.
Prune(w) ==
    /\ workers[w].pc = "idle"
    /\ rows' = [j \in Jobs |->
                  IF rows[j].status \in Terminal /\ rows[j].age > Retention
                  THEN NoRow ELSE rows[j]]
    /\ UNCHANGED <<workers, enqueues, late, torn>>

\* The process of a worker dies: its row stays 'running' until the lease ends.
Crash(w) ==
    /\ workers[w].pc # "idle"
    /\ workers' = [workers EXCEPT ![w] = Idle]
    /\ UNCHANGED <<rows, enqueues, late, torn>>

(***************************************************************************)
(* Time                                                                    *)
(***************************************************************************)
Dec(n) == IF n = 0 THEN 0 ELSE n - 1

Older(r) ==
    [r EXCEPT !.lease = Dec(@),
              !.delay = Dec(@),
              !.age = IF (r.status \in Terminal \/ r.stamped) /\ @ <= Retention
                      THEN @ + 1 ELSE @]

Tick ==
    /\ rows' = [j \in Jobs |-> Older(rows[j])]
    /\ workers' = [w \in Workers |-> [workers[w] EXCEPT !.lease = Dec(@)]]
    /\ late' = late \cup {j \in Jobs : \E w \in Workers : Runs(w, j) /\ workers[w].lease <= 1}
    /\ UNCHANGED <<enqueues, torn>>

-----------------------------------------------------------------------------
\* The loops of worker.py and standalone_server.py claim every kind of job;
\* run_due_source_sync_jobs claims source syncs only and does not prune.
Step(w) ==
    \/ Complete(w)
    \/ Fail(w)
    \/ MarkSyncFailed(w)
    \/ RefreshDone(w)
    \/ RefreshFails(w)

Next ==
    \/ \E j \in Jobs : Enqueue(j) \/ Revive(j) \/ DeleteRow(j)
    \/ DeleteAll
    \/ \E w \in Workers :
          \/ \E kinds \in {Kinds, {"source_account_sync"}} :
                ClaimNext(w, kinds) \/ ClaimNothing(w, kinds)
          \/ Step(w)
          \/ Prune(w)
          \/ Crash(w)
    \/ Tick

\* Time passes, the worker loop keeps ticking, and a job handler returns or
\* raises; callers and crashes owe nothing.
Fairness ==
    /\ WF_vars(Tick)
    /\ \A w \in Workers :
          /\ WF_vars(ClaimNext(w, Kinds))
          /\ WF_vars(ClaimNothing(w, Kinds))
          /\ WF_vars(Step(w))

Spec == Init /\ [][Next]_vars
FairSpec == Spec /\ Fairness

-----------------------------------------------------------------------------
(***************************************************************************)
(* Properties                                                              *)
(***************************************************************************)

\* Types, and the shape every UPDATE of the table keeps: locked_by and
\* locked_until are set exactly on a running row (the lease may have run out).
TypeOK ==
    /\ rows \in [Jobs -> Row]
    /\ workers \in [Workers -> Snapshot]
    /\ enqueues \in 0..MaxEnqueues
    /\ late \subseteq Jobs
    /\ torn \subseteq Jobs
    /\ \A j \in Jobs : /\ rows[j].status = "running" <=> rows[j].owner # NoWorker
                       /\ rows[j].lease > 0 => rows[j].status = "running"
    /\ \A w \in Workers : workers[w].pc = "idle" <=> workers[w].job = NoJob

\* No worker has outlived its lease on the job, and its row has only been
\* changed through the queue.
Undisturbed(j) == j \notin late \cup torn

\* Two workers never run one job at the same time, and the one that runs it
\* owns the row, as long as no worker outlives its lease and the row is not
\* deleted under it.
ExclusiveRun ==
    \A j \in Jobs : Undisturbed(j) =>
        \A w \in Workers : Runs(w, j) =>
            /\ rows[j].status = "running" /\ rows[j].owner = w
            /\ \A v \in Workers : Runs(v, j) => v = w

\* The queue's own reading of a lease: two workers whose leases both last never
\* run one job (the comment of _enqueue_embed_memory_job: "a 'running' job is
\* held by a live worker (future lease)").  The code does not keep it: see
\* the README.
LiveWorkersExclude ==
    \A j \in Jobs \ torn, v, w \in Workers :
        Runs(v, j) /\ Runs(w, j) /\ workers[v].lease > 0 /\ workers[w].lease > 0 => v = w

\* "Jobs out of attempts fail terminally": an undisturbed job is claimed at
\* most max_attempts times, and never waits in the queue with none left.
AttemptBudget ==
    \A j \in Jobs : Undisturbed(j) =>
        /\ rows[j].attempts <= MaxAttempts[j]
        /\ rows[j].status = "queued" => rows[j].attempts < MaxAttempts[j]

\* A worker ends its own run of the job.
EndsRun(w, j) ==
    Runs(w, j) /\ rows[j].owner = w /\ rows'[j] \in {Finished(rows[j], "succeeded"),
                                                   FailedRow(j, rows[j], rows[j].attempts)}

\* A worker that failed the job before writes its retry time, and no more.
MovesRunAt(w, j) ==
    /\ workers[w].pc = "marking" /\ workers[w].job = j
    /\ rows'[j] = [rows[j] EXCEPT !.delay = rows'[j].delay, !.age = rows'[j].age]

\* "A live worker holds a future lease, so healthy jobs are untouched": while
\* its lease lasts, a running row grows older, is deleted, or is ended by its
\* owner, as the owner's own claim counted the attempts; nothing requeues it,
\* claims it again or ends it behind the owner's back.  One other write is
\* left, which changes nothing of a run: the late retry time of a source sync
\* that failed before this run.  Not said of a job that a worker kept past its
\* lease, or whose row was removed under a worker: those the code lets a stale
\* worker end (see the README).
LiveLeaseUntouched ==
    [][\A j \in Jobs :
          /\ rows[j].status = "running" /\ rows[j].lease > 0
          /\ j \notin late \cup torn'
          => \/ rows'[j] \in {rows[j], Older(rows[j]), NoRow}
             \/ \E w \in Workers : EndsRun(w, j) \/ MovesRunAt(w, j)]_vars

\* The success of an undisturbed job is final: it is never run again, except
\* that an embedding job is revived with a fresh count of attempts.
SuccessIsFinal ==
    [][\A j \in Jobs :
          rows[j].status = "succeeded" /\ j \notin late' \cup torn' =>
              \/ rows'[j].status \in {"succeeded", "absent"}
              \/ Kind[j] = "embed_memory" /\ rows'[j].attempts = 0 /\ rows'[j].owner = NoWorker]_vars

\* Every job that waits or runs comes to an end, whatever crashes, runs late
\* or has its row deleted: no job stays 'queued' or 'running' for ever.
EveryJobSettles ==
    \A j \in Jobs : rows[j].status \in Pending ~> rows[j].status \notin Pending

=============================================================================
